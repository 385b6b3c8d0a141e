---------------------------- MODULE Files_proofs -----------------------------
(***************************************************************************)
(* Uploads, listings and temporary files among any number of requests that *)
(* work on the same files, and the ranges that are sent of files of any    *)
(* size while they are replaced.                                           *)
(***************************************************************************)
EXTENDS Files, SequenceTheorems, FiniteSetTheorems, TLAPS

-----------------------------------------------------------------------------
(* The range that is served.                                               *)

Header == [start : Nat \cup {NoNumber}, end : Nat \cup {NoNumber}]

\* The places of the bytes of a range.
Places(range) == range.location..(range.location + range.length - 1)

\* A header whose end is not in front of its start, and not "bytes=-0".
Forward(h) ==
    /\ h.start # NoNumber /\ h.end # NoNumber => h.end >= h.start
    /\ h.start = NoNumber => h.end # 0

\* The response never reads outside its file: the range it serves lies within
\* it for every header and size (HSDGWebServerFileResponse.m:93-108).
THEOREM WithinFile ==
    ASSUME NEW total \in Nat, total < Max,
           NEW h \in Header, h.start < Max, h.end < Max
    PROVE  LET r == Clamp(Parse(h), total)
           IN  /\ r.location \in Nat /\ r.length \in Nat
               /\ r.location + r.length <= total
<1>1. /\ h.start \in Nat \/ h.start = -1
      /\ h.end \in Nat \/ h.end = -1
  BY DEF Header, NoNumber
<1>2. CASE h.start # NoNumber /\ h.end # NoNumber /\ h.end >= h.start
  BY <1>1, <1>2, MaxAssumption DEF Clamp, Parse, IsValid, Lesser, NoNumber
<1>3. CASE ~(h.start # NoNumber /\ h.end # NoNumber /\ h.end >= h.start)
           /\ h.start # NoNumber
  BY <1>1, <1>3, MaxAssumption DEF Clamp, Parse, IsValid, Lesser, NoNumber
<1>4. CASE h.start = NoNumber /\ h.end > 0
  BY <1>1, <1>4, MaxAssumption DEF Clamp, Parse, IsValid, Lesser, NoNumber
<1>5. CASE h.start = NoNumber /\ ~(h.end > 0)
  BY <1>1, <1>5, MaxAssumption DEF Clamp, Parse, IsValid, Lesser, NoNumber, NoRange
<1> QED
  BY <1>2, <1>3, <1>4, <1>5

\* It serves the bytes that HTTP says the header selects, no more and no less,
\* unless the header is reversed (HSDGWebServerRequest.m:186-206).
THEOREM ServesSelected ==
    ASSUME NEW total \in Nat, total < Max,
           NEW h \in Header, h.start < Max, h.end < Max, Forward(h)
    PROVE  Places(Clamp(Parse(h), total)) = Selected(h, total)
<1>1. /\ h.start \in Nat \/ h.start = -1
      /\ h.end \in Nat \/ h.end = -1
  BY DEF Header, NoNumber
<1>2. CASE h.start # NoNumber /\ h.end # NoNumber
  BY <1>1, <1>2, MaxAssumption
  DEF Clamp, Parse, IsValid, Lesser, NoNumber, Forward, Places, Selected
<1>3. CASE h.start # NoNumber /\ h.end = NoNumber
  BY <1>1, <1>3, MaxAssumption
  DEF Clamp, Parse, IsValid, Lesser, NoNumber, Places, Selected
<1>4. CASE h.start = NoNumber /\ h.end # NoNumber
  BY <1>1, <1>4, MaxAssumption
  DEF Clamp, Parse, IsValid, Lesser, NoNumber, Forward, Places, Selected
<1>5. CASE h.start = NoNumber /\ h.end = NoNumber
  BY <1>1, <1>5, MaxAssumption
  DEF Clamp, Parse, IsValid, Lesser, NoNumber, NoRange, Places, Selected
<1> QED
  BY <1>2, <1>3, <1>4, <1>5

-----------------------------------------------------------------------------
(* The inductive invariant.                                                *)

Fields == {"pc", "op", "dir", "name", "answer", "todo", "items", "entry", "isDir",
           "handle", "pos", "written", "overlapped", "data"}

Shape ==
    /\ DOMAIN req = Requests /\ \A r \in Requests : Fields \subseteq DOMAIN req[r]
    /\ DOMAIN files = Dirs /\ \A d \in Dirs : DOMAIN files[d] = Names
    /\ DOMAIN temps = Requests /\ DOMAIN kept = Requests /\ DOMAIN seen = Requests
    /\ archivePath \in Requests \cup {NoFile} /\ DOMAIN archives = Requests

Somewhere(r) == \E d \in Dirs, n \in Names : files[d][n] = r

\* Where an upload has got to tells where its file is.  Before it was moved, and
\* when it could not be, it is nowhere; after, it is at its place or deleted.
UploadOK(r) ==
    LET q == req[r]
        there == files[q.dir][q.name] = r
    IN  /\ q.pc = "idle" => ~Somewhere(r)
        /\ q.op = "upload" =>
             /\ q.dir \in Dirs /\ q.name \in Names
             /\ q.pc # "idle"
             /\ q.pc = "move" => temps[r] = r /\ q.answer = "none" /\ ~Somewhere(r)
             /\ q.pc \in {"names", "items"} => q.answer = "none" /\ (there \/ r \in deleted)
             /\ q.answer = "ok" => there \/ r \in deleted
             /\ q.answer = "failed" => ~Somewhere(r)

Watching(r) == req[r].op \in {"list", "upload", "preview"} /\ AtWork(r)

\* A name that was in the directory throughout is there now.
NamesOK(r) ==
    Watching(r) =>
        /\ req[r].dir \in Dirs
        /\ kept[r] \subseteq Present(req[r].dir) /\ Present(req[r].dir) \subseteq seen[r]

Listing(r) == req[r].op \in {"list", "upload"} /\ AtWork(r)

\* So a listing that has not come to it yet will find it.
ListOK(r) ==
    LET q == req[r]
    IN  /\ q.pc = "items" => q.op \in {"list", "upload"}
        /\ Listing(r) =>
             /\ q.items \subseteq seen[r]
             /\ q.pc = "items" => /\ q.todo \subseteq seen[r]
                                  /\ kept[r] \subseteq q.items \cup q.todo
             /\ q.pc = "answered" /\ q.answer = "ok" => kept[r] \subseteq q.items

Named(cells) == {cells[k].name : k \in {j \in 1..Len(cells) : cells[j].kind = "file"}}

Alone(r) == req[r].op = "preview" /\ req[r].name = NoName /\ ~req[r].overlapped /\ AtWork(r)

Whole(r) ==
    /\ req[r].written[Len(req[r].written)].kind = "end"
    /\ kept[r] \subseteq Named(req[r].written) /\ Named(req[r].written) \subseteq seen[r]

\* The archive of a preview that no other overlapped is its own file and holds what
\* was written; every such name is in it or still to come.
PreviewOK(r) ==
    LET q == req[r]
    IN  /\ q.op = "preview" /\ q.pc = "create" => q.written = <<>> /\ q.pos = 0
        /\ Alone(r) =>
             /\ q.pc = "enumerate" => q.written = <<>>
             /\ q.pc \in {"enumerate", "check", "add"} => q.handle # NoFile
             /\ q.pc \in {"enumerate", "check", "add", "readArchive"} =>
                    /\ archivePath = q.handle
                    /\ q.handle # NoFile =>
                           /\ archives[q.handle] = q.written /\ q.pos = Len(q.written)
                           /\ \E S : q.written \in Seq(S)
             /\ q.pc \in {"check", "add"} =>
                    /\ q.todo \subseteq seen[r] /\ Named(q.written) \subseteq seen[r]
             /\ q.pc = "check" => kept[r] \subseteq Named(q.written) \cup q.todo
             /\ q.pc = "add" =>
                    /\ kept[r] \subseteq Named(q.written) \cup q.todo \cup {q.entry}
                    /\ q.entry \in seen[r] /\ (q.entry \in kept[r] => ~q.isDir)
             /\ q.pc = "readArchive" /\ q.handle # NoFile => Whole(r)
             /\ q.pc = "remove" => q.data = NoFile \/ (q.data = q.written /\ Whole(r))
             /\ q.pc = "answered" /\ q.answer = "ok" => q.data = q.written /\ Whole(r)

\* Of two previews that share the path of their archive each knows.
Overlapping ==
    \A r, s \in Requests :
        r # s /\ Previewing(r) /\ Previewing(s) => req[r].overlapped /\ req[s].overlapped

\* The temporary file of an upload lasts no longer than its request, and whenever
\* there is an archive one of the previews that share it will still remove it.
LeftInv ==
    /\ \A r \in Requests : temps[r] # NoFile => AtWork(r)
    /\ archivePath # NoFile => \E r \in Requests : Previewing(r)

IInv ==
    /\ Shape /\ LeftInv /\ Overlapping
    /\ \A r \in Requests : UploadOK(r) /\ NamesOK(r) /\ ListOK(r) /\ PreviewOK(r)

LEMMA InitIInv == Init => IInv
<1> SUFFICES ASSUME Init PROVE IInv
  OBVIOUS
<1>1. DOMAIN req = Requests /\ \A r \in Requests : req[r] = Idle
  BY DEF Init
<1>2. Fields \subseteq DOMAIN Idle /\ Idle.pc = "idle" /\ Idle.op = "none"
  BY DEF Fields, Idle
<1>3. Shape
  BY <1>1, <1>2 DEF Init, Shape
<1>4. \A d \in Dirs, n \in Names : files[d][n] \in Originals \cup {NoFile}
  BY DEF Init
<1>5. \A r \in Requests : ~Somewhere(r)
  BY <1>4, FilesAssumption DEF Somewhere
<1>6. LeftInv /\ Overlapping
  BY <1>1, <1>2 DEF Init, LeftInv, Overlapping, Previewing, At
<1>7. \A r \in Requests : UploadOK(r) /\ NamesOK(r) /\ ListOK(r) /\ PreviewOK(r)
  BY <1>1, <1>2, <1>5 DEF UploadOK, NamesOK, Watching, ListOK, Listing, PreviewOK, Alone
<1> QED
  BY <1>3, <1>6, <1>7 DEF IInv

-----------------------------------------------------------------------------
(* What becomes of the requests that a step is not of.                     *)

Same(r) ==
    /\ Fields \subseteq DOMAIN req'[r]
    /\ \A f \in Fields \ {"overlapped"} : req'[r][f] = req[r][f]
    /\ req[r].overlapped => req'[r].overlapped

Others(r) == DOMAIN req' = Requests /\ \A s \in Requests \ {r} : Same(s)

\* The steps that add no file: the names of a listing's directory are kept up to
\* date, and what is at a place stays there or is deleted.
OnlyDeletes ==
    /\ DOMAIN files' = Dirs /\ \A d \in Dirs : DOMAIN files'[d] = Names
    /\ deleted \subseteq deleted'
    /\ \A d \in Dirs, n \in Names :
           files'[d][n] = files[d][n]
           \/ (files'[d][n] = NoFile /\ (files[d][n] = NoFile \/ files[d][n] \in deleted'))

NamesNow(r) == {n \in Names : files'[req[r].dir][n] # NoFile}

Told(r) ==
    Watching(r) => /\ kept'[r] \subseteq kept[r] /\ kept'[r] \subseteq NamesNow(r)
                   /\ seen[r] \subseteq seen'[r] /\ NamesNow(r) \subseteq seen'[r]

FilesStep(r) ==
    /\ OnlyDeletes
    /\ DOMAIN kept' = Requests /\ DOMAIN seen' = Requests
    /\ \A s \in Requests \ {r} : Told(s)

LEMMA NotAFile == \A r \in Requests : r # NoFile
BY FilesAssumption

LEMMA SameFields ==
    ASSUME NEW r \in Requests, Same(r)
    PROVE  /\ req'[r].pc = req[r].pc /\ req'[r].op = req[r].op /\ req'[r].dir = req[r].dir
           /\ req'[r].name = req[r].name /\ req'[r].answer = req[r].answer
           /\ req'[r].todo = req[r].todo /\ req'[r].items = req[r].items
           /\ req'[r].entry = req[r].entry /\ req'[r].isDir = req[r].isDir
           /\ req'[r].handle = req[r].handle /\ req'[r].pos = req[r].pos
           /\ req'[r].written = req[r].written /\ req'[r].data = req[r].data
BY DEF Same, Fields

LEMMA OtherUpload ==
    ASSUME IInv, NEW r \in Requests, OnlyDeletes, Same(r), temps'[r] = temps[r]
    PROVE  UploadOK(r)'
<1>1. UploadOK(r)
  BY DEF IInv
<1>2. Somewhere(r)' => Somewhere(r)
  BY NotAFile DEF OnlyDeletes, Somewhere
<1>3. \A d \in Dirs, n \in Names :
          files[d][n] = r => files'[d][n] = r \/ r \in deleted'
  BY NotAFile DEF OnlyDeletes
<1>4. \A d \in Dirs, n \in Names : ~Somewhere(r) => files'[d][n] # r
  BY <1>2 DEF Somewhere
<1> QED
  BY <1>1, <1>2, <1>3, <1>4, SameFields DEF UploadOK, OnlyDeletes

LEMMA OtherListing ==
    ASSUME IInv, NEW r \in Requests, Told(r), Same(r)
    PROVE  NamesOK(r)' /\ ListOK(r)'
<1>1. NamesOK(r) /\ ListOK(r)
  BY DEF IInv
<1>2. (Listing(r)' <=> Listing(r)) /\ (Watching(r)' <=> Watching(r))
  BY SameFields DEF Listing, Watching, AtWork
<1>3. Present(req[r].dir)' = NamesNow(r)
  BY SameFields DEF Present, NamesNow
<1>4. NamesOK(r)'
  BY <1>1, <1>2, <1>3, SameFields DEF NamesOK, Told
<1>5. ListOK(r)'
  BY <1>1, <1>2, SameFields DEF ListOK, Told, Listing, Watching
<1> QED
  BY <1>4, <1>5

\* The archive at the path: a step that changes it, or the one it leads to, is of a
\* preview with which all others overlap.
AtArchive(q) == q.op = "preview" /\ q.pc \in {"enumerate", "check", "add", "readArchive", "remove"}

ArchiveStep(r) ==
    /\ archivePath' \in Requests \cup {NoFile} /\ DOMAIN archives' = Requests
    /\ archivePath' # NoFile =>
           AtArchive(req'[r]) \/ (archivePath' = archivePath /\ ~AtArchive(req[r]))
    /\ \/ UNCHANGED <<archivePath, archives>>
       \/ \A s \in Requests \ {r} : AtArchive(req[s]) => req'[s].overlapped
    /\ AtArchive(req'[r]) =>
           \/ AtArchive(req[r]) /\ (req[r].overlapped => req'[r].overlapped)
           \/ \A s \in Requests \ {r} :
                  AtArchive(req[s]) => req'[r].overlapped /\ req'[s].overlapped

LEMMA OtherPreview ==
    ASSUME IInv, NEW r \in Requests, NEW s \in Requests \ {r}, Told(s), Same(s), ArchiveStep(r)
    PROVE  PreviewOK(s)'
<1>1. PreviewOK(s)
  BY DEF IInv
<1>2. SUFFICES ASSUME Alone(s)' PROVE PreviewOK(s)'
  BY <1>1, SameFields DEF PreviewOK
<1>3. Alone(s) /\ ~req'[s].overlapped
  BY <1>2, SameFields DEF Alone, AtWork, Same
<1>4. kept'[s] \subseteq kept[s] /\ seen[s] \subseteq seen'[s]
  BY <1>3 DEF Told, Watching, Alone
<1>5. Whole(s) => Whole(s)'
  BY <1>4, SameFields DEF Whole
<1>6. AtArchive(req[s]) => UNCHANGED <<archivePath, archives>>
  BY <1>3 DEF ArchiveStep
<1>7. CASE AtArchive(req[s])
  BY <1>1, <1>3, <1>4, <1>5, <1>6, <1>7, SameFields DEF PreviewOK
<1>8. CASE ~AtArchive(req[s])
  <2>1. req[s].pc \notin {"enumerate", "check", "add", "readArchive", "remove"}
    BY <1>3, <1>8 DEF AtArchive, Alone
  <2> QED
    BY <1>1, <1>3, <1>5, <2>1, SameFields DEF PreviewOK
<1> QED
  BY <1>7, <1>8

\* When files stay as they are, and when one name is removed.
LEMMA SameTold ==
    ASSUME IInv, UNCHANGED files, NEW r \in Requests, kept'[r] = kept[r], seen'[r] = seen[r]
    PROVE  Told(r)
<1>1. NamesNow(r) = Present(req[r].dir)
  BY DEF NamesNow, Present
<1> QED
  BY <1>1 DEF IInv, NamesOK, Told

LEMMA SameFilesStep ==
    ASSUME IInv, UNCHANGED <<files, deleted>>, NEW r \in Requests,
           DOMAIN kept' = Requests, DOMAIN seen' = Requests,
           \A s \in Requests \ {r} : kept'[s] = kept[s] /\ seen'[s] = seen[s]
    PROVE  FilesStep(r)
<1>1. OnlyDeletes
  BY DEF IInv, Shape, OnlyDeletes
<1> QED
  BY <1>1, SameTold DEF FilesStep

LEMMA RemoveNameStep ==
    ASSUME IInv, NEW r \in Requests, Others(r), NEW d, NEW n, RemoveName(d, n)
    PROVE  FilesStep(r)
<1>1. files' = [files EXCEPT ![d][n] = NoFile]
      /\ deleted' = deleted \cup ({files[d][n]} \ {NoFile})
  BY DEF RemoveName
<1>2. DOMAIN files' = Dirs /\ \A e \in Dirs : DOMAIN files'[e] = Names
  BY <1>1 DEF IInv, Shape
<1>3. \A e \in Dirs, m \in Names :
          files'[e][m] = IF e = d /\ m = n THEN NoFile ELSE files[e][m]
  BY <1>1 DEF IInv, Shape
<1>4. OnlyDeletes
  BY <1>1, <1>2, <1>3 DEF OnlyDeletes
<1>5. ASSUME NEW s \in Requests \ {r} PROVE Told(s)
  <2>1. req'[s].dir = req[s].dir
    BY SameFields DEF Others
  <2>2. Present(req[s].dir)' = NamesNow(s)
    BY <2>1 DEF Present, NamesNow
  <2>3. AtWork(s) => kept'[s] = kept[s] \cap NamesNow(s) /\ seen'[s] = seen[s] \cup NamesNow(s)
    BY <2>2 DEF RemoveName, NamesChange
  <2> QED
    BY <2>3 DEF Told, Watching
<1>6. DOMAIN kept' = Requests /\ DOMAIN seen' = Requests
  BY DEF RemoveName, NamesChange
<1> QED
  BY <1>4, <1>5, <1>6 DEF FilesStep

-----------------------------------------------------------------------------
(* A step that adds no file, and what it has to do to its own request.     *)

LEMMA AnsweredFields ==
    ASSUME NEW q, Fields \subseteq DOMAIN q, NEW answer
    PROVE  LET p == Answered(q, answer)
           IN  /\ Fields \subseteq DOMAIN p
               /\ p.pc = "answered" /\ p.answer = answer /\ p.items = q.items
               /\ p.op = q.op /\ p.dir = q.dir /\ p.name = q.name
BY DEF Answered, Fields

LEMMA OneSteps ==
    ASSUME IInv, NEW r \in Requests, NEW q, req' = [req EXCEPT ![r] = q]
    PROVE  req'[r] = q /\ Others(r)
BY DEF IInv, Shape, Others, Same

LEMMA StepKeeps ==
    ASSUME IInv, NEW r \in Requests, Others(r), Fields \subseteq DOMAIN req'[r], FilesStep(r),
           ArchiveStep(r),
           DOMAIN temps' = Requests, \A s \in Requests \ {r} : temps'[s] = temps[s],
           temps'[r] # NoFile => req'[r].pc \notin {"idle", "done"},
           UploadOK(r)', NamesOK(r)', ListOK(r)', PreviewOK(r)'
    PROVE  IInv'
<1>1. Shape'
  BY DEF IInv, Shape, Others, Same, FilesStep, OnlyDeletes, ArchiveStep
<1>2. \A s \in Requests : UploadOK(s)' /\ NamesOK(s)' /\ ListOK(s)' /\ PreviewOK(s)'
  BY OtherUpload, OtherListing, OtherPreview DEF Others, FilesStep
<1>3. \A s \in Requests \ {r} :
          (AtWork(s)' <=> AtWork(s)) /\ (Previewing(s)' <=> Previewing(s))
  BY SameFields DEF Others, AtWork, Previewing, At
<1>4. \A s \in Requests : /\ Previewing(s) <=> AtArchive(req[s])
                          /\ Previewing(s)' <=> AtArchive(req'[s])
  BY DEF Previewing, At, AtArchive
<1>5. LeftInv'
  BY <1>3, <1>4 DEF IInv, LeftInv, ArchiveStep, AtWork
<1>6. Overlapping'
  <2> SUFFICES ASSUME NEW s \in Requests, NEW t \in Requests, s # t,
                      Previewing(s)', Previewing(t)'
               PROVE  req'[s].overlapped /\ req'[t].overlapped
    BY DEF Overlapping
  <2>1. \A u \in Requests \ {r} : req[u].overlapped => req'[u].overlapped
    BY DEF Others, Same
  <2>2. CASE s # r /\ t # r
    BY <1>3, <2>1, <2>2 DEF IInv, Overlapping
  <2>3. ASSUME NEW u \in Requests \ {r}, Previewing(u), Previewing(r)'
        PROVE  req'[r].overlapped /\ req'[u].overlapped
    BY <1>4, <2>1, <2>3 DEF ArchiveStep, IInv, Overlapping
  <2> QED
    BY <1>3, <2>2, <2>3
<1> QED
  BY <1>1, <1>2, <1>5, <1>6 DEF IInv

\* A step of a request that neither uploads nor lists.
Aside(q) ==
    /\ Fields \subseteq DOMAIN q
    /\ q.op \in {"delete", "preview", "get"} /\ q.pc \notin {"idle", "done", "items"}

LEMMA AsideKeeps ==
    ASSUME IInv, NEW r \in Requests, Others(r), Aside(req'[r]), FilesStep(r),
           temps' = temps, ArchiveStep(r),
           req'[r].op = "preview" => NamesOK(r)' /\ PreviewOK(r)'
    PROVE  IInv'
<1>1. UploadOK(r)' /\ ListOK(r)'
  BY DEF Aside, UploadOK, ListOK, Listing
<1>2. NamesOK(r)' /\ PreviewOK(r)'
  BY DEF Aside, NamesOK, Watching, PreviewOK, Alone
<1> QED
  BY <1>1, <1>2, StepKeeps DEF Aside, IInv, Shape

\* When nothing is changed of the archives.
LEMMA NoArchiveStep ==
    ASSUME IInv, NEW r \in Requests, SameArchives, ~AtArchive(req[r]), ~AtArchive(req'[r])
    PROVE  ArchiveStep(r)
BY DEF IInv, Shape, SameArchives, ArchiveStep

\* The names of the directory of a request that only looks at it.
LEMMA NamesStay ==
    ASSUME IInv, NEW r \in Requests, UNCHANGED <<files, kept, seen>>, Watching(r),
           req'[r].dir = req[r].dir
    PROVE  NamesOK(r)'
<1>1. NamesOK(r) /\ Present(req[r].dir)' = Present(req[r].dir)
  BY DEF IInv, Present
<1> QED
  BY <1>1 DEF NamesOK

-----------------------------------------------------------------------------
(* Deletions, previews and the sending of files.                           *)

LEMMA ArrivalKeeps ==
    ASSUME IInv, NEW r \in Requests, NEW d \in Dirs,
           \/ RemoveDir(r, d) \/ \E n : CheckPreview(r, d, n)
           \/ \E n \in Names : \/ RemoveFile(r, d, n)
                               \/ \E header \in Headers(Numbers) : Stat(r, d, n, header)
    PROVE  IInv'
<1>1. ASSUME NEW q, Begins(r, q), Aside(q), UNCHANGED <<files, deleted, temps>>, SameArchives,
             ~AtArchive(q),
             q.op = "preview" => /\ q.dir = d /\ q.written = <<>> /\ q.pos = 0
                                 /\ q.pc \in {"create", "read", "answered"} /\ q.answer = "none"
      PROVE  IInv'
  <2>1. /\ req[r].pc = "idle" /\ req' = [req EXCEPT ![r] = q]
        /\ kept' = [kept EXCEPT ![r] = Present(q.dir)]
        /\ seen' = [seen EXCEPT ![r] = Present(q.dir)]
    BY <1>1 DEF Begins
  <2>2. FilesStep(r)
    BY <1>1, <2>1, SameFilesStep DEF IInv, Shape
  <2>3. req'[r] = q /\ Others(r) /\ ~AtArchive(req[r])
    BY <2>1, OneSteps DEF AtArchive
  <2>4. ArchiveStep(r)
    BY <1>1, <2>3, NoArchiveStep
  <2>5. q.op = "preview" => NamesOK(r)'
    <3>1. kept'[r] = Present(q.dir) /\ seen'[r] = Present(q.dir)
      BY <2>1 DEF IInv, Shape
    <3>2. Present(req[r].dir)' = Present(q.dir)
      BY <1>1, <2>3 DEF Present
    <3> QED
      BY <1>1, <2>3, <3>1, <3>2 DEF NamesOK
  <2>6. q.op = "preview" => PreviewOK(r)'
    BY <1>1, <2>3 DEF PreviewOK
  <2> QED
    BY <1>1, <2>2, <2>3, <2>4, <2>5, <2>6, AsideKeeps
<1>2. CASE RemoveDir(r, d)
  <2> DEFINE q == Starts("delete", d, NoName)
             p == IF d \in dirs THEN [q EXCEPT !.pc = "empty", !.todo = Present(d)]
                  ELSE Answered(q, "failed")
  <2>1. Begins(r, p) /\ UNCHANGED <<files, deleted, temps>> /\ SameArchives
    BY <1>2 DEF RemoveDir
  <2>2. Aside(p) /\ p.op = "delete"
    BY DEF Starts, Idle, Answered, Fields, Aside
  <2> HIDE DEF p
  <2> QED
    BY <1>1, <2>1, <2>2 DEF AtArchive
<1>3. CASE \E n : CheckPreview(r, d, n)
  <2> PICK n : CheckPreview(r, d, n)
    BY <1>3
  <2> DEFINE q == Starts("preview", d, n)
             p == IF n = NoName /\ d \in dirs THEN [q EXCEPT !.pc = "create"]
                  ELSE IF n \in Present(d) THEN [q EXCEPT !.pc = "read"]
                  ELSE Answered(q, "none")
  <2>1. Begins(r, p) /\ UNCHANGED <<files, deleted, temps>> /\ SameArchives
    BY DEF CheckPreview
  <2>2. /\ Aside(p) /\ p.op = "preview" /\ p.dir = d /\ p.written = <<>> /\ p.pos = 0
        /\ p.pc \in {"create", "read", "answered"} /\ p.answer = "none"
    BY DEF Starts, Idle, Answered, Fields, Aside
  <2> HIDE DEF p
  <2> QED
    BY <1>1, <2>1, <2>2 DEF AtArchive
<1>4. CASE \E n \in Names, header \in Headers(Numbers) : Stat(r, d, n, header)
  <2> PICK n \in Names, header \in Headers(Numbers) : Stat(r, d, n, header)
    BY <1>4
  <2> DEFINE q == Starts("get", d, n)
             i == files[d][n]
             range == Parse(header)
             clamp == Clamp(range, size[i])
             p == IF i = NoFile THEN Answered(q, "none")
                  ELSE IF IsValid(range) /\ clamp.length = 0 THEN Answered(q, "none")
                  ELSE [q EXCEPT !.pc = "open", !.header = header, !.size = size[i],
                                 !.offset = clamp.location, !.length = clamp.length,
                                 !.left = clamp.length]
  <2>1. Begins(r, p) /\ UNCHANGED <<files, deleted, temps>> /\ SameArchives
    BY DEF Stat
  <2> HIDE DEF i, range, clamp
  <2>2. Aside(p) /\ p.op = "get"
    BY DEF Starts, Idle, Answered, Fields, Aside
  <2> HIDE DEF p
  <2> QED
    BY <1>1, <2>1, <2>2 DEF AtArchive
<1>5. CASE \E n \in Names : RemoveFile(r, d, n)
  <2> PICK n \in Names : RemoveFile(r, d, n)
    BY <1>5
  <2> DEFINE p == Answered(Starts("delete", d, n),
                           IF files[d][n] # NoFile THEN "ok" ELSE "failed")
  <2>1. /\ req[r].pc = "idle" /\ req' = [req EXCEPT ![r] = p] /\ temps' = temps
        /\ RemoveName(d, n) /\ SameArchives
    BY DEF RemoveFile
  <2>2. Aside(p) /\ p.op = "delete"
    BY DEF Starts, Idle, Answered, Fields, Aside
  <2> HIDE DEF p
  <2>3. req'[r] = p /\ Others(r)
    BY <2>1, OneSteps
  <2>4. FilesStep(r) /\ ArchiveStep(r)
    BY <2>1, <2>2, <2>3, RemoveNameStep, NoArchiveStep DEF AtArchive
  <2> QED
    BY <2>1, <2>2, <2>3, <2>4, AsideKeeps
<1> QED
  BY <1>2, <1>3, <1>4, <1>5

\* One call of a deletion or of the sending of a file.
LEMMA WorkKeeps ==
    ASSUME IInv, NEW r \in Requests,
           \/ EmptyDir(r) \/ DirEmptied(r) \/ OpenFile(r) \/ ReadData(r) \/ ConnectionLost(r)
    PROVE  IInv'
<1>1. Fields \subseteq DOMAIN req[r] /\ r \in DOMAIN req
  BY DEF IInv, Shape
<1>2. ASSUME NEW q, req' = [req EXCEPT ![r] = q], Aside(q), ~AtArchive(req[r]),
             UNCHANGED <<files, deleted, temps, kept, seen>>, SameArchives, q.op # "preview"
      PROVE  IInv'
  <2>1. FilesStep(r)
    BY <1>2, SameFilesStep DEF IInv, Shape
  <2>2. req'[r] = q /\ Others(r)
    BY <1>2, OneSteps
  <2>3. ArchiveStep(r)
    BY <1>2, <2>2, NoArchiveStep DEF AtArchive
  <2> QED
    BY <1>2, <2>1, <2>2, <2>3, AsideKeeps
<1>3. CASE EmptyDir(r)
  <2>1. PICK n \in req[r].todo : /\ req' = [req EXCEPT ![r].todo = @ \ {n}]
                                 /\ RemoveName(req[r].dir, n)
    BY <1>3 DEF EmptyDir
  <2> DEFINE q == [req[r] EXCEPT !.todo = @ \ {n}]
  <2>2. req' = [req EXCEPT ![r] = q] /\ temps' = temps /\ SameArchives /\ ~AtArchive(req[r])
    BY <1>3, <2>1 DEF EmptyDir, At, AtArchive
  <2>3. Aside(q) /\ q.op = "delete"
    BY <1>1, <1>3 DEF EmptyDir, At, Fields, Aside
  <2> HIDE DEF q
  <2>4. req'[r] = q /\ Others(r)
    BY <2>2, OneSteps
  <2>5. FilesStep(r) /\ ArchiveStep(r)
    BY <2>1, <2>2, <2>3, <2>4, RemoveNameStep, NoArchiveStep DEF AtArchive
  <2> QED
    BY <2>2, <2>3, <2>4, <2>5, AsideKeeps
<1>4. CASE DirEmptied(r)
  <2> DEFINE removed == req[r].dir \in dirs /\ Present(req[r].dir) = {}
             q == Answered(req[r], IF removed THEN "ok" ELSE "failed")
  <2>1. /\ req' = [req EXCEPT ![r] = q] /\ ~AtArchive(req[r])
        /\ UNCHANGED <<files, deleted, temps, kept, seen>> /\ SameArchives
    BY <1>4 DEF DirEmptied, At, AtArchive
  <2>2. Aside(q) /\ q.op # "preview"
    BY <1>1, <1>4, AnsweredFields DEF DirEmptied, At, Aside
  <2> HIDE DEF q
  <2> QED
    BY <1>2, <2>1, <2>2
<1>5. CASE OpenFile(r)
  <2> DEFINE i == files[req[r].dir][req[r].name]
             q == IF i = NoFile THEN Answered(req[r], "failed")
                  ELSE [req[r] EXCEPT !.pc = "get", !.inode = i, !.pos = req[r].offset]
  <2>1. req' = [req EXCEPT ![r] = q] /\ SameFiles /\ SameArchives /\ ~AtArchive(req[r])
    BY <1>5 DEF OpenFile, At, AtArchive
  <2>2. Aside(q) /\ q.op # "preview"
    BY <1>1, <1>5 DEF OpenFile, At, Answered, Fields, Aside
  <2> HIDE DEF q
  <2> QED
    BY <1>2, <2>1, <2>2 DEF SameFiles
<1>6. CASE ReadData(r)
  <2> DEFINE length == Lesser(Chunk, req[r].left)
             there  == IF req[r].pos >= size[req[r].inode] THEN 0
                       ELSE size[req[r].inode] - req[r].pos
             result == Lesser(length, there)
             data   == IF result = 0 THEN [k \in 1..length |-> Zero]
                       ELSE [k \in 1..result |-> <<req[r].inode, req[r].pos + k - 1>>]
             q == IF length = 0 THEN Answered(req[r], "ok")
                  ELSE [req[r] EXCEPT !.bytes = @ \o data, !.pos = @ + result,
                                      !.left = @ - result]
  <2>1. req' = [req EXCEPT ![r] = q]
    BY <1>6 DEF ReadData
  <2>2. At(r, "get", "get") /\ SameFiles /\ SameArchives /\ ~AtArchive(req[r])
    BY <1>6 DEF ReadData, At, AtArchive
  <2> HIDE DEF length, result, data
  <2>3. Aside(q) /\ q.op # "preview"
    BY <1>1, <2>2 DEF At, Answered, Fields, Aside
  <2> HIDE DEF q
  <2> QED
    BY <1>2, <2>1, <2>2, <2>3 DEF SameFiles
<1>7. CASE ConnectionLost(r)
  <2> DEFINE q == Answered(req[r], "lost")
  <2>1. req' = [req EXCEPT ![r] = q] /\ SameFiles /\ SameArchives /\ ~AtArchive(req[r])
    BY <1>7 DEF ConnectionLost, At, AtArchive
  <2>2. Aside(q) /\ q.op # "preview"
    BY <1>1, <1>7, AnsweredFields DEF ConnectionLost, At, Aside
  <2> HIDE DEF q
  <2> QED
    BY <1>2, <2>1, <2>2 DEF SameFiles
<1> QED
  BY <1>3, <1>4, <1>5, <1>6, <1>7

-----------------------------------------------------------------------------
(* Previews.                                                               *)

\* What is written at the end of an archive is appended to it.
LEMMA WrittenAtEnd ==
    ASSUME NEW S, NEW w \in Seq(S), NEW cell
    PROVE  LET v == Append(w, cell)
           IN  /\ WrittenAt(w, Len(w), cell) = v
               /\ Len(v) = Len(w) + 1 /\ v[Len(v)] = cell
               /\ \E T : v \in Seq(T)
               /\ Named(v) = Named(w) \cup (IF cell.kind = "file" THEN {cell.name} ELSE {})
<1> DEFINE T == S \cup {cell}
           v == Append(w, cell)
<1>1. w \in Seq(T) /\ cell \in T
  OBVIOUS
<1>2. v \in Seq(T) /\ Len(v) = Len(w) + 1 /\ v[Len(v)] = cell /\ Len(w) \in Nat
      /\ \A k \in 1..Len(w) : v[k] = w[k]
  BY <1>1
<1>3. WrittenAt(w, Len(w), cell)
          = [k \in 1..(Len(w) + 1) |-> IF k = Len(w) + 1 THEN cell ELSE w[k]]
  BY <1>2 DEF WrittenAt
<1>4. v = [k \in 1..(Len(w) + 1) |-> IF k = Len(w) + 1 THEN cell ELSE w[k]]
  <2> HIDE DEF v
  <2>1. v \in [1..Len(v) -> T]
    BY <1>2, LenProperties
  <2>2. v = [k \in 1..(Len(w) + 1) |-> v[k]]
    BY <1>2, <2>1
  <2>3. \A k \in 1..(Len(w) + 1) : v[k] = IF k = Len(w) + 1 THEN cell ELSE w[k]
    BY <1>2
  <2> QED
    BY <2>2, <2>3, Zenon
<1> HIDE DEF v
<1>5. Named(v) = Named(w) \cup (IF cell.kind = "file" THEN {cell.name} ELSE {})
  <2>1. 1..Len(v) = 1..Len(w) \cup {Len(v)} /\ Len(v) \notin 1..Len(w)
    BY <1>2
  <2>2. ASSUME NEW x \in Named(v)
        PROVE  x \in Named(w) \cup (IF cell.kind = "file" THEN {cell.name} ELSE {})
    <3>1. PICK k \in 1..Len(v) : v[k].kind = "file" /\ x = v[k].name
      BY <2>2 DEF Named
    <3> QED
      BY <1>2, <2>1, <3>1 DEF Named
  <2>3. ASSUME NEW x \in Named(w) PROVE x \in Named(v)
    <3>1. PICK k \in 1..Len(w) : w[k].kind = "file" /\ x = w[k].name
      BY <2>3 DEF Named
    <3> QED
      BY <1>2, <2>1, <3>1 DEF Named
  <2>4. cell.kind = "file" => cell.name \in Named(v)
    BY <1>2, <2>1 DEF Named
  <2> QED
    BY <2>2, <2>3, <2>4
<1> QED
  BY <1>2, <1>3, <1>4, <1>5 DEF v

\* A step of a preview that adds no file and removes none.
LEMMA OfPreview ==
    ASSUME IInv, NEW r \in Requests, Others(r), Aside(req'[r]), SameFiles,
           req[r].op = "preview", AtWork(r), req'[r].dir = req[r].dir,
           ArchiveStep(r), PreviewOK(r)'
    PROVE  IInv'
<1>1. FilesStep(r)
  BY SameFilesStep DEF SameFiles, IInv, Shape
<1>2. NamesOK(r)'
  BY NamesStay DEF SameFiles, Watching
<1> QED
  BY <1>1, <1>2, AsideKeeps DEF SameFiles

\* It stays with its archive until it has removed what is at its path.
LEMMA WithinArchive ==
    ASSUME IInv, NEW r \in Requests, Others(r), AtArchive(req[r]),
           req'[r].overlapped = req[r].overlapped, DOMAIN archives' = Requests,
           \/ archivePath' = archivePath /\ AtArchive(req'[r])
           \/ archivePath' = NoFile /\ ~AtArchive(req'[r])
    PROVE  ArchiveStep(r)
<1>1. \A s \in Requests \ {r} : AtArchive(req[s]) => req'[s].overlapped
  BY DEF IInv, Overlapping, Previewing, At, AtArchive, Others, Same
<1> QED
  BY <1>1 DEF ArchiveStep, IInv, Shape

\* What an entry adds to an archive that is the preview's alone.
LEMMA AddsKeep ==
    ASSUME IInv, NEW r \in Requests, req[r].op = "preview",
           req[r].pc \in {"enumerate", "check", "add"},
           NEW q, NEW cell, Adds(r, cell, q), SameFiles, Fields \subseteq DOMAIN q,
           q.op = "preview", q.pc \in {"check", "readArchive"}, q.dir = req[r].dir,
           q.name = req[r].name, q.overlapped = req[r].overlapped,
           q.handle = req[r].handle, q.pos = req[r].pos, q.written = req[r].written,
           LET names == Named(q.written) \cup (IF cell.kind = "file" THEN {cell.name} ELSE {})
           IN  Alone(r) =>
                 /\ names \subseteq seen[r] /\ kept[r] \subseteq names \cup q.todo
                 /\ q.pc = "check" => q.todo \subseteq seen[r]
                 /\ q.pc = "readArchive" => q.todo = {} /\ cell.kind = "end"
    PROVE  IInv'
<1> DEFINE p == [q EXCEPT !.pos = @ + 1, !.written = Append(@, cell)]
           v == Append(req[r].written, cell)
<1>1. /\ req' = [req EXCEPT ![r] = p] /\ archivePath' = archivePath
      /\ archives' = [archives EXCEPT ![q.handle] = WrittenAt(@, q.pos, cell)]
  BY DEF Adds
<1>2. /\ Fields \subseteq DOMAIN p /\ p.op = "preview" /\ p.pc = q.pc /\ p.dir = q.dir
      /\ p.name = q.name /\ p.overlapped = q.overlapped /\ p.handle = q.handle
      /\ p.todo = q.todo /\ p.pos = q.pos + 1 /\ p.written = v
  BY DEF Fields
<1> HIDE DEF p
<1>3. req'[r] = p /\ Others(r)
  BY <1>1, OneSteps
<1>4. AtArchive(req[r]) /\ AtArchive(req'[r]) /\ AtWork(r) /\ Aside(req'[r])
  BY <1>2, <1>3 DEF AtArchive, AtWork, Aside
<1>5. DOMAIN archives' = Requests
  BY <1>1 DEF IInv, Shape
<1>6. ArchiveStep(r)
  BY <1>1, <1>2, <1>3, <1>4, <1>5, WithinArchive
<1>7. PreviewOK(r)'
  <2> SUFFICES ASSUME Alone(r)' PROVE PreviewOK(r)'
    BY <1>2, <1>3 DEF PreviewOK
  <2>1. Alone(r)
    BY <1>2, <1>3, <1>4 DEF Alone
  <2>2. /\ archivePath = req[r].handle /\ req[r].handle # NoFile
        /\ archives[req[r].handle] = req[r].written /\ req[r].pos = Len(req[r].written)
        /\ \E S : req[r].written \in Seq(S)
    BY <2>1 DEF IInv, PreviewOK
  <2>3. req[r].handle \in Requests
    BY <2>2 DEF IInv, Shape
  <2>4. PICK S : req[r].written \in Seq(S)
    BY <2>2
  <2>5. /\ WrittenAt(req[r].written, Len(req[r].written), cell) = v
        /\ Len(v) = Len(req[r].written) + 1 /\ v[Len(v)] = cell
        /\ \E T : v \in Seq(T)
        /\ Named(v) = Named(q.written) \cup (IF cell.kind = "file" THEN {cell.name} ELSE {})
    BY <2>4, WrittenAtEnd
  <2> HIDE DEF v
  <2>6. /\ archivePath' = p.handle /\ archives'[p.handle] = v /\ p.pos = Len(v)
    BY <1>1, <1>2, <2>2, <2>3, <2>5 DEF IInv, Shape
  <2>7. kept' = kept /\ seen' = seen
    BY DEF SameFiles
  <2>8. p.pc = "readArchive" => Whole(r)'
    BY <1>2, <1>3, <2>1, <2>5, <2>7 DEF Whole
  <2> QED
    BY <1>2, <1>3, <2>1, <2>2, <2>5, <2>6, <2>7, <2>8 DEF PreviewOK
<1> QED
  BY <1>2, <1>3, <1>4, <1>6, <1>7, OfPreview

\* The archive is created: when no other is at work on one it is a file of its own.
LEMMA CreateKeeps ==
    ASSUME IInv, NEW r \in Requests, CreateArchive(r) \/ CreateArchiveFails(r)
    PROVE  IInv'
<1> DEFINE others == {q \in Requests \ {r} : Previewing(q)}
<1>1. PICK pc, handle :
          /\ Overlaps(r, pc, handle) /\ SameFiles /\ At(r, "preview", "create")
          /\ \/ /\ pc = "enumerate"
                /\ handle = IF archivePath = NoFile THEN r ELSE archivePath
                /\ archivePath' = handle /\ archives' = [archives EXCEPT ![handle] = <<>>]
             \/ pc = "readArchive" /\ handle = NoFile /\ UNCHANGED <<archivePath, archives>>
  BY DEF CreateArchive, CreateArchiveFails
<1>2. DOMAIN req' = Requests
      /\ req'[r] = [req[r] EXCEPT !.pc = pc, !.handle = handle, !.overlapped = others # {}]
  BY <1>1 DEF Overlaps
<1>3. \A s \in Requests \ {r} :
          req'[s] = IF s \in others THEN [req[s] EXCEPT !.overlapped = TRUE] ELSE req[s]
  BY <1>1 DEF Overlaps
<1>4. \A s \in Requests \ {r} : s \in others <=> AtArchive(req[s])
  BY DEF Previewing, At, AtArchive
<1> HIDE DEF others
<1>5. Fields \subseteq DOMAIN req[r]
  BY DEF IInv, Shape
<1>6. /\ Fields \subseteq DOMAIN req'[r] /\ req'[r].op = "preview" /\ req'[r].pc = pc
      /\ req'[r].dir = req[r].dir /\ req'[r].handle = handle
      /\ req'[r].name = req[r].name /\ req'[r].written = req[r].written
      /\ req'[r].pos = req[r].pos
      /\ req'[r].overlapped = (others # {})
  BY <1>1, <1>2, <1>5 DEF At, Fields
<1>7. ASSUME NEW s \in Requests \ {r} PROVE Same(s) /\ (s \in others => req'[s].overlapped)
  <2>1. Fields \subseteq DOMAIN req[s]
    BY DEF IInv, Shape
  <2>2. CASE s \in others
    <3>1. req'[s] = [req[s] EXCEPT !.overlapped = TRUE]
      BY <1>3, <2>2
    <3> QED
      BY <2>1, <3>1 DEF Same, Fields
  <2>3. CASE s \notin others
    <3>1. req'[s] = req[s]
      BY <1>3, <2>3
    <3> QED
      BY <2>1, <2>3, <3>1 DEF Same
  <2> QED
    BY <2>2, <2>3
<1>8. Others(r) /\ AtWork(r) /\ Aside(req'[r]) /\ AtArchive(req'[r]) /\ ~AtArchive(req[r])
  BY <1>1, <1>2, <1>6, <1>7 DEF Others, At, AtWork, Aside, AtArchive
<1>9. /\ archivePath' \in Requests \cup {NoFile} /\ DOMAIN archives' = Requests
  BY <1>1 DEF IInv, Shape
<1>10. ArchiveStep(r)
  <2>1. \A s \in Requests \ {r} : AtArchive(req[s]) => req'[r].overlapped /\ req'[s].overlapped
    BY <1>4, <1>6, <1>7
  <2> QED
    BY <1>8, <1>9, <2>1 DEF ArchiveStep
<1>11. PreviewOK(r)'
  <2> SUFFICES ASSUME Alone(r)' PROVE PreviewOK(r)'
    BY <1>1, <1>6 DEF PreviewOK
  <2>1. others = {}
    BY <1>6 DEF Alone
  <2>2. archivePath = NoFile
    BY <1>4, <1>8, <2>1 DEF IInv, LeftInv, Previewing, At, AtArchive
  <2>3. req[r].written = <<>> /\ req[r].pos = 0
    BY <1>1 DEF At, IInv, PreviewOK
  <2>4. Len(<<>>) = 0 /\ <<>> \in Seq({})
    OBVIOUS
  <2>5. handle # NoFile => handle = r /\ archivePath' = r /\ archives'[r] = <<>>
    BY <1>1, <2>2, NotAFile DEF IInv, Shape
  <2>6. archivePath' = handle
    BY <1>1, <2>2
  <2>7. pc = "enumerate" => handle # NoFile
    BY <1>1, <2>2, NotAFile
  <2>8. pc = "readArchive" => handle = NoFile
    BY <1>1
  <2> QED
    BY <1>1, <1>6, <2>3, <2>4, <2>5, <2>6, <2>7, <2>8 DEF PreviewOK
<1> QED
  BY <1>6, <1>8, <1>10, <1>11, <1>1, OfPreview DEF At

LEMMA PreviewKeeps ==
    ASSUME IInv, NEW r \in Requests,
           \/ ReadWhole(r) \/ Enumerate(r) \/ CheckEntry(r) \/ AddEntry(r)
           \/ CloseArchive(r) \/ ReadArchive(r) \/ RemoveArchive(r)
    PROVE  IInv'
<1>1. /\ Fields \subseteq DOMAIN req[r] /\ r \in DOMAIN req
      /\ NamesOK(r) /\ PreviewOK(r)
  BY DEF IInv, Shape
<1>2. At(r, "preview", req[r].pc) /\ AtWork(r) /\ SameFiles
  BY DEF ReadWhole, Enumerate, CheckEntry, AddEntry, CloseArchive, ReadArchive,
         RemoveArchive, At, AtWork
<1>3. /\ req[r].dir \in Dirs
      /\ kept[r] \subseteq Present(req[r].dir) /\ Present(req[r].dir) \subseteq seen[r]
      /\ kept' = kept /\ seen' = seen
  BY <1>1, <1>2 DEF NamesOK, Watching, At, SameFiles
<1>4. ASSUME NEW q, req' = [req EXCEPT ![r] = q], Fields \subseteq DOMAIN q,
             q.op = "preview", q.pc \notin {"idle", "done", "items", "create"}, q.dir = req[r].dir,
             q.overlapped = req[r].overlapped,
             DOMAIN archives' = Requests, AtArchive(req[r]),
             \/ archivePath' = archivePath /\ AtArchive(q)
             \/ archivePath' = NoFile /\ ~AtArchive(q),
             Alone(r)' => PreviewOK(r)'
      PROVE  IInv'
  <2>1. req'[r] = q /\ Others(r)
    BY <1>4, OneSteps
  <2>2. ArchiveStep(r)
    BY <1>4, <2>1, WithinArchive
  <2>3. PreviewOK(r)'
    BY <1>4, <2>1 DEF PreviewOK
  <2> QED
    BY <1>2, <1>4, <2>1, <2>2, <2>3, OfPreview DEF Aside, At
<1>5. CASE ReadWhole(r)
  <2> DEFINE i == files[req[r].dir][req[r].name]
             q == [Answered(req[r], IF i = NoFile THEN "none" ELSE "ok") EXCEPT !.data = i]
  <2>1. /\ req' = [req EXCEPT ![r] = q] /\ SameArchives /\ ~AtArchive(req[r])
        /\ req[r].name # NoName
    BY <1>5 DEF ReadWhole, At, AtArchive
  <2>2. /\ Fields \subseteq DOMAIN q /\ q.op = "preview" /\ q.pc = "answered"
        /\ q.dir = req[r].dir /\ q.name = req[r].name
    BY <1>1, <1>2 DEF At, Answered, Fields
  <2> HIDE DEF q
  <2>3. req'[r] = q /\ Others(r)
    BY <2>1, OneSteps
  <2>4. ArchiveStep(r) /\ PreviewOK(r)'
    BY <2>1, <2>2, <2>3, NoArchiveStep DEF AtArchive, PreviewOK, Alone
  <2> QED
    BY <1>2, <2>2, <2>3, <2>4, OfPreview DEF Aside, At
<1>6. CASE Enumerate(r)
  <2> DEFINE q == [req[r] EXCEPT !.pc = "check", !.todo = Present(req[r].dir)]
             cell == Entry("folder", NoName, NoFile)
  <2>1. Adds(r, cell, q) /\ req[r].pc = "enumerate"
    BY <1>6 DEF Enumerate, At
  <2>2. /\ Fields \subseteq DOMAIN q /\ q.op = "preview" /\ q.pc = "check"
        /\ q.dir = req[r].dir /\ q.name = req[r].name /\ q.overlapped = req[r].overlapped
        /\ q.handle = req[r].handle /\ q.pos = req[r].pos /\ q.written = req[r].written
        /\ q.todo = Present(req[r].dir)
    BY <1>1, <1>2 DEF At, Fields
  <2>3. cell.kind = "folder"
    BY DEF Entry
  <2>4. Alone(r) => Named(q.written) = {}
    BY <1>1, <2>1, <2>2 DEF PreviewOK, Named
  <2> HIDE DEF q, cell
  <2> QED
    BY <1>2, <1>3, <2>1, <2>2, <2>3, <2>4, AddsKeep DEF At
<1>7. CASE CheckEntry(r)
  <2>1. PICK n \in req[r].todo, isDir \in BOOLEAN :
            /\ n \in Present(req[r].dir) => ~isDir
            /\ req' = [req EXCEPT ![r].pc = "add", ![r].entry = n, ![r].isDir = isDir,
                               ![r].todo = @ \ {n}]
    BY <1>7 DEF CheckEntry
  <2> DEFINE q == [req[r] EXCEPT !.pc = "add", !.entry = n, !.isDir = isDir,
                                 !.todo = @ \ {n}]
  <2>2. req' = [req EXCEPT ![r] = q] /\ SameArchives /\ req[r].pc = "check"
    BY <1>1, <1>7, <2>1 DEF CheckEntry, At
  <2>3. /\ Fields \subseteq DOMAIN q /\ q.op = "preview" /\ q.pc = "add"
        /\ q.dir = req[r].dir /\ q.name = req[r].name /\ q.overlapped = req[r].overlapped
        /\ q.handle = req[r].handle /\ q.pos = req[r].pos /\ q.written = req[r].written
        /\ q.todo = req[r].todo \ {n} /\ q.entry = n /\ q.isDir = isDir
    BY <1>1, <1>2 DEF At, Fields
  <2> HIDE DEF q
  <2>4. req'[r] = q
    BY <2>2, OneSteps
  <2>5. AtArchive(req[r]) /\ AtArchive(q)
    BY <1>2, <2>2, <2>3 DEF AtArchive, At
  <2>6. Alone(r)' => Alone(r)
    BY <1>2, <2>3, <2>4 DEF Alone, At
  <2>7. Alone(r)' => PreviewOK(r)'
    BY <1>1, <1>3, <2>1, <2>2, <2>3, <2>4, <2>6 DEF PreviewOK, SameArchives
  <2> QED
    BY <1>4, <2>2, <2>3, <2>5, <2>7 DEF SameArchives, IInv, Shape
<1>8. CASE AddEntry(r)
  <2> DEFINE q == [req[r] EXCEPT !.pc = "check"]
             i == files[q.dir][q.entry]
  <2>1. /\ Fields \subseteq DOMAIN q /\ q.op = "preview" /\ q.pc = "check"
        /\ q.dir = req[r].dir /\ q.name = req[r].name /\ q.overlapped = req[r].overlapped
        /\ q.handle = req[r].handle /\ q.pos = req[r].pos /\ q.written = req[r].written
        /\ q.todo = req[r].todo /\ q.entry = req[r].entry /\ q.isDir = req[r].isDir
        /\ req[r].pc = "add"
    BY <1>1, <1>8 DEF AddEntry, At, Fields
  <2>2. \/ q.isDir /\ Adds(r, Entry("folder", q.entry, NoFile), q)
        \/ ~q.isDir /\ i # NoFile /\ Adds(r, Entry("file", q.entry, i), q)
        \/ /\ ~q.isDir /\ i = NoFile
           /\ req' = [req EXCEPT ![r] = q] /\ UNCHANGED <<archivePath, archives>>
    BY <1>8 DEF AddEntry
  <2>3. i = files[req[r].dir][req[r].entry]
    BY <2>1
  <2> HIDE DEF q, i
  <2>4. Alone(r) =>
            /\ Named(q.written) \subseteq seen[r] /\ q.todo \subseteq seen[r]
            /\ kept[r] \subseteq Named(q.written) \cup q.todo \cup {q.entry}
            /\ q.entry \in seen[r] /\ (q.entry \in kept[r] => ~q.isDir /\ i # NoFile)
    BY <1>1, <1>3, <2>1, <2>3 DEF PreviewOK, Present
  <2>5. CASE q.isDir /\ Adds(r, Entry("folder", q.entry, NoFile), q)
    <3> DEFINE cell == Entry("folder", q.entry, NoFile)
    <3>1. cell.kind = "folder"
      BY DEF Entry
    <3> HIDE DEF cell
    <3> QED
      BY <1>2, <2>1, <2>4, <2>5, <3>1, AddsKeep DEF At, cell
  <2>6. CASE ~q.isDir /\ i # NoFile /\ Adds(r, Entry("file", q.entry, i), q)
    <3> DEFINE cell == Entry("file", q.entry, i)
    <3>1. cell.kind = "file" /\ cell.name = q.entry
      BY DEF Entry
    <3> HIDE DEF cell
    <3> QED
      BY <1>2, <2>1, <2>4, <2>6, <3>1, AddsKeep DEF At, cell
  <2>7. CASE /\ ~q.isDir /\ i = NoFile
             /\ req' = [req EXCEPT ![r] = q] /\ UNCHANGED <<archivePath, archives>>
    <3>1. req'[r] = q
      BY <2>7, OneSteps
    <3>2. Alone(r)' => Alone(r)
      BY <1>2, <2>1, <3>1 DEF Alone, At
    <3>3. AtArchive(req[r]) /\ AtArchive(q)
      BY <1>2, <2>1 DEF AtArchive, At
    <3>4. Alone(r)' => PreviewOK(r)'
      BY <1>1, <1>3, <2>1, <2>4, <2>7, <3>1, <3>2 DEF PreviewOK
    <3> QED
      BY <1>4, <2>1, <2>7, <3>3, <3>4 DEF IInv, Shape
  <2> QED
    BY <2>2, <2>5, <2>6, <2>7
<1>9. CASE CloseArchive(r)
  <2> DEFINE q == [req[r] EXCEPT !.pc = "readArchive"]
             cell == Entry("end", NoName, NoFile)
  <2>1. Adds(r, cell, q) /\ req[r].pc = "check" /\ req[r].todo = {}
    BY <1>9 DEF CloseArchive, At
  <2>2. /\ Fields \subseteq DOMAIN q /\ q.op = "preview" /\ q.pc = "readArchive"
        /\ q.dir = req[r].dir /\ q.name = req[r].name /\ q.overlapped = req[r].overlapped
        /\ q.handle = req[r].handle /\ q.pos = req[r].pos /\ q.written = req[r].written
        /\ q.todo = req[r].todo
    BY <1>1, <1>2 DEF At, Fields
  <2>3. cell.kind = "end"
    BY DEF Entry
  <2> HIDE DEF q, cell
  <2>4. Alone(r) => Named(q.written) \subseteq seen[r] /\ kept[r] \subseteq Named(q.written)
    BY <1>1, <2>1, <2>2 DEF PreviewOK
  <2> QED
    BY <1>2, <2>1, <2>2, <2>3, <2>4, AddsKeep DEF At
<1>10. CASE ReadArchive(r)
  <2> DEFINE q == [req[r] EXCEPT !.pc = "remove",
                      !.data = IF archivePath = NoFile THEN NoFile ELSE archives[archivePath]]
  <2>1. req' = [req EXCEPT ![r] = q] /\ SameArchives /\ req[r].pc = "readArchive"
    BY <1>1, <1>10 DEF ReadArchive, At
  <2>2. /\ Fields \subseteq DOMAIN q /\ q.op = "preview" /\ q.pc = "remove"
        /\ q.dir = req[r].dir /\ q.name = req[r].name /\ q.overlapped = req[r].overlapped
        /\ q.written = req[r].written
        /\ q.data = IF archivePath = NoFile THEN NoFile ELSE archives[archivePath]
    BY <1>1, <1>2 DEF At, Fields
  <2> HIDE DEF q
  <2>3. req'[r] = q
    BY <2>1, OneSteps
  <2>4. AtArchive(req[r]) /\ AtArchive(q)
    BY <1>2, <2>1, <2>2 DEF AtArchive, At
  <2>5. Alone(r)' => Alone(r)
    BY <1>2, <2>2, <2>3 DEF Alone, At
  <2>6. Whole(r) => Whole(r)'
    BY <1>3, <2>2, <2>3 DEF Whole
  <2>7. Alone(r)' => PreviewOK(r)'
    BY <1>1, <2>1, <2>2, <2>3, <2>5, <2>6 DEF PreviewOK
  <2> QED
    BY <1>4, <2>1, <2>2, <2>4, <2>7 DEF SameArchives, IInv, Shape
<1>11. CASE RemoveArchive(r)
  <2> DEFINE q == Answered(req[r], IF req[r].data = NoFile THEN "none" ELSE "ok")
  <2>1. /\ req' = [req EXCEPT ![r] = q] /\ archivePath' = NoFile /\ archives' = archives
        /\ req[r].pc = "remove"
    BY <1>11 DEF RemoveArchive, At
  <2>2. /\ Fields \subseteq DOMAIN q /\ q.op = "preview" /\ q.pc = "answered"
        /\ q.dir = req[r].dir /\ q.name = req[r].name /\ q.overlapped = req[r].overlapped
        /\ q.written = req[r].written /\ q.data = req[r].data
        /\ q.answer = IF req[r].data = NoFile THEN "none" ELSE "ok"
    BY <1>1, <1>2 DEF At, Fields, Answered
  <2> HIDE DEF q
  <2>3. req'[r] = q
    BY <2>1, OneSteps
  <2>4. AtArchive(req[r]) /\ ~AtArchive(q)
    BY <1>2, <2>1, <2>2 DEF AtArchive, At
  <2>5. Alone(r)' => Alone(r)
    BY <1>2, <2>2, <2>3 DEF Alone, At
  <2>6. Whole(r) => Whole(r)'
    BY <1>3, <2>2, <2>3 DEF Whole
  <2>7. Alone(r)' => PreviewOK(r)'
    BY <1>1, <2>1, <2>2, <2>3, <2>5, <2>6 DEF PreviewOK
  <2> QED
    BY <1>4, <2>1, <2>2, <2>4, <2>7 DEF IInv, Shape
<1> QED
  BY <1>5, <1>6, <1>7, <1>8, <1>9, <1>10, <1>11

-----------------------------------------------------------------------------
(* Uploads and listings.                                                   *)

LEMMA CheckKeeps ==
    ASSUME IInv, NEW r \in Requests, NEW d \in Dirs,
           CheckList(r, d) \/ \E n \in Names : CheckUpload(r, d, n)
    PROVE  IInv'
<1>1. ASSUME NEW q, Begins(r, q), Fields \subseteq DOMAIN q, q.pc \notin {"idle", "done", "items"},
             q.op \in {"list", "upload"}, q.dir = d, q.items = {}, q.answer # "ok",
             DOMAIN temps' = Requests, \A s \in Requests \ {r} : temps'[s] = temps[s],
             UNCHANGED <<files, deleted>>, SameArchives,
             q.op = "upload" =>
                 /\ temps'[r] = r /\ q.name \in Names
                 /\ \/ q.pc = "move" /\ q.answer = "none"
                    \/ q.pc = "answered" /\ q.answer = "failed"
      PROVE  IInv'
  <2>1. /\ req[r].pc = "idle" /\ req' = [req EXCEPT ![r] = q]
        /\ kept' = [kept EXCEPT ![r] = Present(d)] /\ seen' = [seen EXCEPT ![r] = Present(d)]
    BY <1>1 DEF Begins
  <2>2. /\ DOMAIN kept' = Requests /\ kept'[r] = Present(d)
        /\ DOMAIN seen' = Requests /\ seen'[r] = Present(d)
        /\ \A s \in Requests \ {r} : kept'[s] = kept[s] /\ seen'[s] = seen[s]
    BY <2>1 DEF IInv, Shape
  <2>3. req'[r] = q /\ Others(r)
    BY <2>1, OneSteps
  <2>4. FilesStep(r) /\ ArchiveStep(r)
    BY <1>1, <2>1, <2>2, <2>3, SameFilesStep, NoArchiveStep DEF AtArchive
  <2>5. ~Somewhere(r)'
    BY <1>1, <2>1 DEF IInv, UploadOK, Somewhere
  <2>6. UploadOK(r)'
    BY <1>1, <2>2, <2>3, <2>5 DEF UploadOK
  <2>7. Present(d)' = Present(d)
    BY <1>1 DEF Present
  <2>8. NamesOK(r)' /\ ListOK(r)' /\ PreviewOK(r)'
    <3>1. Present(req[r].dir)' = Present(d)
      BY <1>1, <2>3, <2>7 DEF Present
    <3> QED
      BY <1>1, <2>2, <2>3, <3>1 DEF NamesOK, ListOK, Listing, AtWork, PreviewOK, Alone
  <2> QED
    BY <1>1, <2>2, <2>3, <2>4, <2>6, <2>8, StepKeeps
<1>2. CASE CheckList(r, d)
  <2> DEFINE q == Starts("list", d, NoName)
             p == IF d \in dirs THEN [q EXCEPT !.pc = "names"] ELSE Answered(q, "none")
  <2>1. Begins(r, p) /\ UNCHANGED <<files, deleted, temps>> /\ SameArchives
    BY <1>2 DEF CheckList
  <2>2. /\ Fields \subseteq DOMAIN p /\ p.op = "list" /\ p.dir = d /\ p.items = {}
        /\ p.pc \in {"names", "answered"} /\ p.answer = "none"
    BY DEF Starts, Idle, Answered, Fields
  <2> HIDE DEF p
  <2> QED
    BY <1>1, <2>1, <2>2 DEF IInv, Shape
<1>3. CASE \E n \in Names : CheckUpload(r, d, n)
  <2> PICK n \in Names : CheckUpload(r, d, n)
    BY <1>3
  <2> DEFINE q == Starts("upload", d, n)
             p == IF d \in dirs THEN [q EXCEPT !.pc = "move"] ELSE Answered(q, "failed")
  <2>1. /\ Begins(r, p) /\ temps' = [temps EXCEPT ![r] = r]
        /\ UNCHANGED <<files, deleted>> /\ SameArchives
    BY DEF CheckUpload
  <2>2. /\ Fields \subseteq DOMAIN p /\ p.op = "upload" /\ p.dir = d /\ p.name = n
        /\ p.items = {}
        /\ \/ p.pc = "move" /\ p.answer = "none"
           \/ p.pc = "answered" /\ p.answer = "failed"
    BY DEF Starts, Idle, Answered, Fields
  <2> HIDE DEF p
  <2>3. /\ DOMAIN temps' = Requests /\ temps'[r] = r
        /\ \A s \in Requests \ {r} : temps'[s] = temps[s]
    BY <2>1 DEF IInv, Shape
  <2> QED
    BY <1>1, <2>1, <2>2, <2>3
<1> QED
  BY <1>2, <1>3

\* The file of an upload goes to a place where there was none, and only there.
LEMMA MoveKeeps ==
    ASSUME IInv, NEW r \in Requests, Move(r)
    PROVE  IInv'
<1> DEFINE d == req[r].dir
           n == req[r].name
           moves == d \in dirs /\ files[d][n] = NoFile
<1>1. /\ req[r].op = "upload" /\ req[r].pc = "move" /\ d \in Dirs /\ n \in Names
      /\ req[r].answer = "none" /\ temps[r] = r /\ ~Somewhere(r)
      /\ Fields \subseteq DOMAIN req[r] /\ Watching(r) /\ Listing(r)
      /\ NamesOK(r) /\ ListOK(r) /\ ~AtArchive(req[r])
  BY DEF Move, At, IInv, Shape, UploadOK, Watching, Listing, AtWork, AtArchive
<1>2. CASE ~moves
  <2> DEFINE q == Answered(req[r], "failed")
  <2>1. req' = [req EXCEPT ![r] = q] /\ UNCHANGED <<files, deleted, temps, kept, seen>>
        /\ SameArchives
    BY <1>2 DEF Move
  <2>2. /\ Fields \subseteq DOMAIN q /\ q.op = "upload" /\ q.pc = "answered"
        /\ q.answer = "failed" /\ q.dir = d /\ q.name = n /\ q.items = req[r].items
    BY <1>1, AnsweredFields
  <2> HIDE DEF q
  <2>3. req'[r] = q /\ Others(r)
    BY <2>1, OneSteps
  <2>4. UploadOK(r)'
    <3>1. ~Somewhere(r)'
      BY <1>1, <2>1 DEF Somewhere
    <3> QED
      BY <1>1, <2>2, <2>3, <3>1 DEF UploadOK
  <2>5. NamesOK(r)' /\ ListOK(r)' /\ PreviewOK(r)'
    BY <1>1, <2>1, <2>2, <2>3, NamesStay DEF ListOK, PreviewOK, Alone
  <2>6. FilesStep(r) /\ ArchiveStep(r)
    BY <1>1, <2>1, <2>2, <2>3, SameFilesStep, NoArchiveStep DEF AtArchive, IInv, Shape
  <2> QED
    BY <2>1, <2>2, <2>3, <2>4, <2>5, <2>6, StepKeeps DEF IInv, Shape
<1>3. CASE moves
  <2> DEFINE q == [req[r] EXCEPT !.pc = "names"]
  <2>1. /\ files' = [files EXCEPT ![d][n] = temps[r]]
        /\ temps' = [temps EXCEPT ![r] = NoFile] /\ deleted' = deleted
        /\ req' = [req EXCEPT ![r] = q] /\ UNCHANGED <<archivePath, archives>>
    BY <1>1, <1>3 DEF Move, SameArchives, IInv, Shape
  <2>2. /\ Fields \subseteq DOMAIN q /\ q.op = "upload" /\ q.pc = "names"
        /\ q.answer = "none" /\ q.dir = d /\ q.name = n /\ q.items = req[r].items
    BY <1>1 DEF Fields
  <2> HIDE DEF q
  <2>3. /\ DOMAIN files' = Dirs /\ \A e \in Dirs : DOMAIN files'[e] = Names
        /\ \A e \in Dirs, m \in Names :
               files'[e][m] = IF e = d /\ m = n THEN r ELSE files[e][m]
    BY <1>1, <2>1 DEF IInv, Shape
  <2>4. /\ DOMAIN req' = Requests /\ DOMAIN temps' = Requests /\ req'[r] = q
        /\ temps'[r] = NoFile
        /\ \A s \in Requests : s # r => req'[s] = req[s] /\ temps'[s] = temps[s]
    BY <2>1 DEF IInv, Shape
  <2>5. UploadOK(r)'
    BY <1>1, <2>2, <2>3, <2>4 DEF UploadOK
  <2>6. ASSUME NEW s \in Requests, s # r PROVE UploadOK(s)'
    <3>1. UploadOK(s)
      BY DEF IInv
    <3>2. \A e \in Dirs, m \in Names : files'[e][m] = s <=> files[e][m] = s
      BY <1>1, <1>3, <2>3, <2>6, NotAFile
    <3>3. Somewhere(s)' <=> Somewhere(s)
      BY <3>2 DEF Somewhere
    <3> QED
      BY <2>1, <2>4, <2>6, <3>1, <3>2, <3>3 DEF UploadOK
  <2>7. /\ kept' = [kept EXCEPT ![r] = Present(req[r].dir)']
        /\ seen' = [s \in Requests |->
               IF AtWork(s) THEN seen[s] \cup Present(req[s].dir)' ELSE {}]
    BY <1>1, <1>3 DEF Move
  <2>8. \A s \in Requests : Present(req[s].dir)' = NamesNow(s)
    BY <2>2, <2>4 DEF Present, NamesNow
  <2>9. /\ DOMAIN kept' = Requests /\ kept'[r] = NamesNow(r)
        /\ \A s \in Requests : s # r => kept'[s] = kept[s]
        /\ DOMAIN seen' = Requests
        /\ \A s \in Requests : AtWork(s) => seen'[s] = seen[s] \cup NamesNow(s)
    BY <2>7, <2>8 DEF IInv, Shape
  <2>10. NamesOK(r)' /\ ListOK(r)' /\ PreviewOK(r)'
    BY <1>1, <2>2, <2>4, <2>8, <2>9
    DEF NamesOK, Watching, ListOK, Listing, PreviewOK, Alone
  <2>11. ASSUME NEW s \in Requests, s # r PROVE NamesOK(s)' /\ ListOK(s)' /\ PreviewOK(s)'
    <3>1. NamesOK(s) /\ Same(s)
      BY <2>4, <2>11 DEF IInv, Shape, Same
    <3>2. Watching(s) => Present(req[s].dir) \subseteq NamesNow(s)
      BY <1>1, <2>3, <3>1, NotAFile DEF NamesOK, Present, NamesNow
    <3>3. Told(s)
      BY <2>9, <2>11, <3>1, <3>2 DEF Told, NamesOK, Watching
    <3>4. ArchiveStep(r)
      BY <1>1, <2>1, <2>2, <2>4 DEF ArchiveStep, AtArchive, IInv, Shape
    <3> QED
      BY <2>11, <3>1, <3>3, <3>4, OtherListing, OtherPreview
  <2>12. LeftInv' /\ Overlapping'
    <3>1. \A s \in Requests :
              /\ AtWork(s)' <=> AtWork(s)
              /\ Previewing(s)' <=> Previewing(s)
              /\ Previewing(s) => s # r
      BY <1>1, <2>2, <2>4 DEF AtWork, Previewing, At
    <3> QED
      BY <2>1, <2>4, <3>1 DEF IInv, LeftInv, Overlapping
  <2>13. Shape'
    BY <2>1, <2>2, <2>3, <2>4, <2>9 DEF IInv, Shape
  <2> QED
    BY <2>5, <2>6, <2>10, <2>11, <2>12, <2>13 DEF IInv
<1> QED
  BY <1>2, <1>3

\* A listing, of its own or the one an upload answers with.
LEMMA ListKeeps ==
    ASSUME IInv, NEW r \in Requests, ListNames(r) \/ ListItem(r) \/ ListDone(r)
    PROVE  IInv'
<1>1. /\ Fields \subseteq DOMAIN req[r] /\ r \in DOMAIN req
      /\ UploadOK(r) /\ NamesOK(r) /\ ListOK(r)
  BY DEF IInv, Shape
<1>2. UNCHANGED <<files, deleted, temps, kept, seen>> /\ SameArchives
  BY DEF ListNames, ListItem, ListDone, SameFiles
<1>3. ASSUME NEW q, req' = [req EXCEPT ![r] = q], Fields \subseteq DOMAIN q,
             req[r].pc \in {"names", "items"}, q.op = req[r].op, q.dir = req[r].dir,
             q.name = req[r].name, q.op \in {"list", "upload"},
             \/ q.pc = "items" /\ q.answer = req[r].answer
             \/ q.pc = "answered" /\ q.answer = "ok",
             Listing(r) =>
                 /\ q.items \subseteq seen[r]
                 /\ q.pc = "items" => /\ q.todo \subseteq seen[r]
                                      /\ kept[r] \subseteq q.items \cup q.todo
                 /\ q.pc = "answered" => kept[r] \subseteq q.items
      PROVE  IInv'
  <2>1. req'[r] = q /\ Others(r) /\ (Somewhere(r)' <=> Somewhere(r))
    BY <1>2, <1>3, OneSteps DEF Somewhere
  <2>2. UploadOK(r)'
    BY <1>1, <1>2, <1>3, <2>1 DEF UploadOK
  <2>3. NamesOK(r)' /\ ListOK(r)' /\ PreviewOK(r)'
    <3>1. Listing(r) /\ Watching(r)
      BY <1>3 DEF Listing, Watching, AtWork
    <3> QED
      BY <1>2, <1>3, <2>1, <3>1, NamesStay DEF ListOK, PreviewOK, Alone
  <2>4. FilesStep(r) /\ ArchiveStep(r)
    BY <1>2, <1>3, <2>1, SameFilesStep, NoArchiveStep DEF AtArchive, IInv, Shape
  <2> QED
    BY <1>2, <1>3, <2>1, <2>2, <2>3, <2>4, StepKeeps DEF IInv, Shape
<1>4. CASE ListNames(r)
  <2> DEFINE q == [req[r] EXCEPT !.pc = "items", !.todo = Present(req[r].dir)]
  <2>1. req' = [req EXCEPT ![r] = q] /\ req[r].pc = "names" /\ req[r].op \in {"list", "upload"}
    BY <1>1, <1>4 DEF ListNames, At
  <2>2. /\ Fields \subseteq DOMAIN q /\ q.op = req[r].op /\ q.dir = req[r].dir
        /\ q.name = req[r].name /\ q.pc = "items" /\ q.answer = req[r].answer
        /\ q.todo = Present(req[r].dir) /\ q.items = req[r].items
    BY <1>1 DEF Fields
  <2> HIDE DEF q
  <2>3. Listing(r) => /\ q.items \subseteq seen[r] /\ q.todo \subseteq seen[r]
                      /\ kept[r] \subseteq q.items \cup q.todo
    BY <1>1, <2>2 DEF ListOK, NamesOK, Listing, Watching
  <2> QED
    BY <1>3, <2>1, <2>2, <2>3
<1>5. CASE ListItem(r)
  <2>1. PICK n \in req[r].todo :
            req' = [req EXCEPT ![r].todo = @ \ {n},
                               ![r].items = @ \cup ({n} \cap Present(req[r].dir))]
    BY <1>5 DEF ListItem
  <2> DEFINE q == [req[r] EXCEPT !.todo = @ \ {n},
                                 !.items = @ \cup ({n} \cap Present(req[r].dir))]
  <2>2. req' = [req EXCEPT ![r] = q] /\ req[r].pc = "items" /\ req[r].op \in {"list", "upload"}
    BY <1>1, <1>5, <2>1 DEF ListItem, ListOK
  <2>3. /\ Fields \subseteq DOMAIN q /\ q.op = req[r].op /\ q.dir = req[r].dir
        /\ q.name = req[r].name /\ q.pc = "items" /\ q.answer = req[r].answer
        /\ q.todo = req[r].todo \ {n}
        /\ q.items = req[r].items \cup ({n} \cap Present(req[r].dir))
    BY <1>1, <2>2 DEF Fields
  <2> HIDE DEF q
  <2>4. Listing(r) => /\ q.items \subseteq seen[r] /\ q.todo \subseteq seen[r]
                      /\ kept[r] \subseteq q.items \cup q.todo
    BY <1>1, <2>2, <2>3 DEF ListOK, NamesOK, Listing, Watching
  <2> QED
    BY <1>3, <2>2, <2>3, <2>4
<1>6. CASE ListDone(r)
  <2> DEFINE q == Answered(req[r], "ok")
  <2>1. /\ req' = [req EXCEPT ![r] = q] /\ req[r].pc = "items" /\ req[r].todo = {}
        /\ req[r].op \in {"list", "upload"}
    BY <1>1, <1>6 DEF ListDone, ListOK
  <2>2. /\ Fields \subseteq DOMAIN q /\ q.op = req[r].op /\ q.dir = req[r].dir
        /\ q.name = req[r].name /\ q.pc = "answered" /\ q.answer = "ok"
        /\ q.items = req[r].items
    BY <1>1, AnsweredFields
  <2> HIDE DEF q
  <2>3. Listing(r) => q.items \subseteq seen[r] /\ kept[r] \subseteq q.items
    BY <1>1, <2>1, <2>2 DEF ListOK
  <2> QED
    BY <1>3, <2>1, <2>2, <2>3
<1> QED
  BY <1>4, <1>5, <1>6

\* What an upload was answered outlives it.
LEMMA ReleaseKeeps ==
    ASSUME IInv, NEW r \in Requests, Release(r)
    PROVE  IInv'
<1> DEFINE q == Answer(req[r])
<1>1. /\ req[r].pc = "answered" /\ req' = [req EXCEPT ![r] = q]
      /\ temps' = [temps EXCEPT ![r] = NoFile] /\ UNCHANGED <<files, deleted>>
      /\ kept' = [kept EXCEPT ![r] = {}] /\ seen' = [seen EXCEPT ![r] = {}]
      /\ SameArchives
  BY DEF Release
<1>2. /\ Fields \subseteq DOMAIN q /\ q.pc = "done"
      /\ \/ q.op = "none"
         \/ /\ q.op = "upload" /\ req[r].op = "upload" /\ q.dir = req[r].dir
            /\ q.name = req[r].name /\ q.answer = req[r].answer
  BY DEF Answer, Idle, Fields
<1> HIDE DEF q
<1>3. req'[r] = q /\ Others(r)
  BY <1>1, OneSteps
<1>4. UploadOK(r) /\ (Somewhere(r)' <=> Somewhere(r))
  BY <1>1 DEF IInv, Somewhere
<1>5. UploadOK(r)' /\ NamesOK(r)' /\ ListOK(r)' /\ PreviewOK(r)'
  BY <1>1, <1>2, <1>3, <1>4
  DEF UploadOK, NamesOK, Watching, ListOK, Listing, PreviewOK, Alone, AtWork
<1>6. /\ DOMAIN kept' = Requests /\ DOMAIN seen' = Requests
      /\ DOMAIN temps' = Requests /\ temps'[r] = NoFile
      /\ \A s \in Requests \ {r} :
             kept'[s] = kept[s] /\ seen'[s] = seen[s] /\ temps'[s] = temps[s]
  BY <1>1 DEF IInv, Shape
<1>7. FilesStep(r) /\ ArchiveStep(r)
  BY <1>1, <1>2, <1>3, <1>6, SameFilesStep, NoArchiveStep DEF AtArchive
<1> QED
  BY <1>2, <1>3, <1>5, <1>6, <1>7, StepKeeps

-----------------------------------------------------------------------------
LEMMA NextIInv == IInv /\ [Next]_vars => IInv'
<1> SUFFICES ASSUME IInv, [Next]_vars PROVE IInv'
  OBVIOUS
<1>1. CASE \E r \in Requests, d \in Dirs :
               \/ CheckList(r, d) \/ RemoveDir(r, d) \/ CheckPreview(r, d, NoName)
               \/ \E n \in Names :
                     \/ CheckUpload(r, d, n) \/ RemoveFile(r, d, n)
                     \/ CheckPreview(r, d, n)
                     \/ \E header \in Headers(Numbers) : Stat(r, d, n, header)
  BY <1>1, ArrivalKeeps, CheckKeeps
<1>2. CASE \E r \in Requests : Works(r) \/ CreateArchiveFails(r) \/ ConnectionLost(r)
  BY <1>2, WorkKeeps, PreviewKeeps, CreateKeeps, MoveKeeps, ListKeeps, ReleaseKeeps DEF Works
<1>3. CASE UNCHANGED <<files, temps, req, deleted, kept, seen, archivePath, archives>>
  <2>1. Shape' /\ LeftInv' /\ Overlapping'
    BY <1>3 DEF IInv, Shape, LeftInv, Overlapping, AtWork, Previewing, At
  <2>2. ASSUME NEW r \in Requests
        PROVE  UploadOK(r)' /\ NamesOK(r)' /\ ListOK(r)' /\ PreviewOK(r)'
    BY <1>3 DEF IInv, UploadOK, Somewhere, NamesOK, Watching, ListOK, Listing, Present,
                PreviewOK, Alone, Whole, AtWork
  <2> QED
    BY <2>1, <2>2 DEF IInv
<1>4. CASE \E i \in Originals, s \in Sizes : AppResizes(i, s)
  BY <1>3, <1>4 DEF AppResizes, SameArchives
<1>5. CASE UNCHANGED vars
  BY <1>3, <1>5 DEF vars, fs
<1> QED
  BY <1>1, <1>2, <1>4, <1>5 DEF Next

\* The inductive invariant holds of every behaviour.
THEOREM Invariance == Spec => []IInv
BY InitIInv, NextIInv, PTL DEF Spec

\* An upload that was reported to have succeeded is at its place until it is
\* deleted, and one that failed left nothing, for any number of requests and any
\* directories and names (HSDComponentMiddleware.m:99-126).
THEOREM UploadsKept == Spec => []UploadKept
<1>1. IInv => UploadKept
  <2> SUFFICES ASSUME IInv, NEW r \in Requests, req[r].op = "upload"
               PROVE  LET there == files[req[r].dir][req[r].name] = r
                      IN  /\ req[r].answer = "ok" => there \/ r \in deleted
                          /\ req[r].answer = "failed" => ~there
    BY DEF UploadKept
  <2> QED
    BY DEF IInv, UploadOK, Somewhere
<1> QED
  BY <1>1, Invariance, PTL

\* A listing has every file that was there all the while, and none that never was,
\* whatever is uploaded and deleted between its calls
\* (HSDFileExplorerComponent.m:19-43).
THEOREM ListingsTrue == Spec => []ListsWhatIsThere
<1>1. IInv => ListsWhatIsThere
  BY DEF IInv, ListOK, Listing, AtWork, Done, ListsWhatIsThere
<1> QED
  BY <1>1, Invariance, PTL

\* The preview of a directory that no other overlapped is the archive as it was
\* written, of every file that was there all the while, whatever is uploaded and
\* deleted in between (HSDFilePreviewComponent.m:122-134, HSDZipArchive.m:58-98).
THEOREM PreviewsWhole == Spec => []PreviewWhole
<1>1. IInv => PreviewWhole
  BY DEF IInv, PreviewOK, Alone, Whole, Named, AtWork, Done, ServedAlone, PreviewWhole
<1> QED
  BY <1>1, Invariance, PTL

\* When no request is at work there is no temporary file left, of an upload or of
\* a preview, however many previews shared an archive and whichever of them could
\* not create it (HSDFilePreviewComponent.m:122-134).
THEOREM NoTemporaryFile == Spec => []NothingLeft
<1>1. IInv => NothingLeft
  BY DEF IInv, LeftInv, NothingLeft, Previewing, At, AtWork
<1> QED
  BY <1>1, Invariance, PTL

-----------------------------------------------------------------------------
(* What is sent of a file.                                                 *)

Bytes == (Inodes \cup {NoFile}) \X Nat

\* A sequence of a file's bytes, with zeros in between: the byte that comes next is
\* place, and each byte follows the one before it.
Consecutive(bytes, inode, first, next) ==
    /\ next = first + Cardinality(Sent(bytes, Len(bytes)))
    /\ \A k \in Sent(bytes, Len(bytes)) :
           bytes[k] = <<inode, first + Cardinality(Sent(bytes, k - 1))>>

LEMMA SentFinite ==
    ASSUME NEW bytes, NEW n \in Nat
    PROVE  IsFiniteSet(Sent(bytes, n)) /\ Cardinality(Sent(bytes, n)) \in Nat
<1>1. IsFiniteSet(1..n)
  BY FS_Interval
<1>2. Sent(bytes, n) \subseteq 1..n
  BY DEF Sent
<1> QED
  BY <1>1, <1>2, FS_Subset, FS_CardinalityType

\* Bytes of the file behind the others.
LEMMA SentAll ==
    ASSUME NEW bytes, NEW n \in Nat, NEW m \in Nat, n <= m,
           \A k \in (n + 1)..m : bytes[k] # Zero
    PROVE  Cardinality(Sent(bytes, m)) = Cardinality(Sent(bytes, n)) + (m - n)
<1>1. Sent(bytes, m) = Sent(bytes, n) \cup ((n + 1)..m)
  BY DEF Sent
<1>2. Sent(bytes, n) \cap ((n + 1)..m) = {}
  BY DEF Sent
<1>3. IsFiniteSet((n + 1)..m) /\ Cardinality((n + 1)..m) = m - n
  <2>1. /\ IsFiniteSet((n + 1)..m)
        /\ Cardinality((n + 1)..m) = IF n + 1 > m THEN 0 ELSE m - (n + 1) + 1
    BY FS_Interval
  <2> QED
    BY <2>1
<1>4. IsFiniteSet(Sent(bytes, n)) /\ Cardinality(Sent(bytes, n)) \in Nat
  BY SentFinite
<1>5. Cardinality(Sent(bytes, m)) =
          Cardinality(Sent(bytes, n)) + Cardinality((n + 1)..m) - Cardinality({})
  BY <1>1, <1>2, <1>3, <1>4, FS_Union
<1> QED
  BY <1>3, <1>4, <1>5, FS_EmptySet

\* A read gives nothing but zeros, or the bytes that come next.
LEMMA ReadGoesOn ==
    ASSUME NEW bytes \in Seq(Bytes), NEW data \in Seq(Bytes), NEW inode \in Inodes,
           NEW first \in Nat, NEW next \in Nat, NEW result \in Nat,
           Consecutive(bytes, inode, first, next),
           \/ result = 0 /\ \A k \in 1..Len(data) : data[k] = Zero
           \/ /\ Len(data) = result
              /\ \A k \in 1..Len(data) : data[k] = <<inode, next + k - 1>>
    PROVE  Consecutive(bytes \o data, inode, first, next + result)
<1> DEFINE all == bytes \o data
           n == Len(bytes)
           m == Len(data)
<1>1. /\ n \in Nat /\ m \in Nat /\ Len(all) = n + m
      /\ \A k \in 1..n : all[k] = bytes[k]
      /\ \A k \in 1..m : all[n + k] = data[k]
  BY ConcatProperties, LenProperties
<1> HIDE DEF all, n, m
<1>2. \A k \in 0..n : Sent(all, k) = Sent(bytes, k)
  BY <1>1 DEF Sent
<1>3. n \in 0..n /\ \A k \in Sent(bytes, n) : k \in 1..n /\ k - 1 \in 0..n
  BY <1>1 DEF Sent
<1>4. \A k \in Sent(all, n) : all[k] = <<inode, first + Cardinality(Sent(all, k - 1))>>
  BY <1>1, <1>2, <1>3 DEF Consecutive, n
<1>5. next = first + Cardinality(Sent(all, n))
  BY <1>2, <1>3 DEF Consecutive, n
<1>6. CASE result = 0 /\ \A k \in 1..m : data[k] = Zero
  <2>1. \A k \in (n + 1)..(n + m) : k - n \in 1..m /\ k = n + (k - n)
    BY <1>1
  <2>2. \A k \in (n + 1)..(n + m) : all[k] = Zero
    BY <1>1, <1>6, <2>1
  <2>3. Sent(all, n + m) = Sent(all, n)
    BY <1>1, <2>2 DEF Sent
  <2>4. next + result = next
    BY <1>6
  <2>5. Consecutive(all, inode, first, next)
    BY <1>1, <1>4, <1>5, <2>3 DEF Consecutive
  <2> QED
    BY <2>4, <2>5 DEF all
<1>7. CASE m = result /\ \A k \in 1..m : data[k] = <<inode, next + k - 1>>
  <2>1. \A k \in (n + 1)..(n + m) : k - n \in 1..m /\ k = n + (k - n)
    BY <1>1
  <2>2. \A k \in (n + 1)..(n + m) : all[k] = <<inode, next + (k - n) - 1>>
    BY <1>1, <1>7, <2>1
  <2>3. \A k \in (n + 1)..(n + m) : all[k] # Zero
    BY <2>2, FilesAssumption DEF Zero, Inodes
  <2>4. ASSUME NEW k \in n..(n + m)
        PROVE  Cardinality(Sent(all, k)) = Cardinality(Sent(all, n)) + (k - n)
    BY <1>1, <2>3, SentAll
  <2>5. Cardinality(Sent(all, n)) \in Nat
    BY <1>1, SentFinite
  <2>6. next + result = first + Cardinality(Sent(all, n + m))
    <3>1. n + m \in n..(n + m)
      BY <1>1
    <3>2. Cardinality(Sent(all, n + m)) = Cardinality(Sent(all, n)) + m
      BY <1>1, <2>4, <3>1
    <3> QED
      BY <1>5, <1>7, <2>5, <3>2
  <2>7. ASSUME NEW k \in Sent(all, n + m)
        PROVE  all[k] = <<inode, first + Cardinality(Sent(all, k - 1))>>
    <3>1. k \in 1..(n + m) /\ all[k] # Zero
      BY DEF Sent
    <3>2. CASE k <= n
      <4>1. k \in Sent(all, n)
        BY <1>1, <3>1, <3>2 DEF Sent
      <4> QED
        BY <1>4, <4>1
    <3>3. CASE k > n
      <4>1. k \in (n + 1)..(n + m) /\ k - 1 \in n..(n + m)
        BY <1>1, <3>1, <3>3
      <4>2. Cardinality(Sent(all, k - 1)) = Cardinality(Sent(all, n)) + (k - 1 - n)
        BY <2>4, <4>1
      <4>3. first + Cardinality(Sent(all, k - 1)) = next + (k - n) - 1
        BY <1>1, <1>5, <2>5, <4>1, <4>2
      <4> QED
        BY <2>2, <4>1, <4>3
    <3> QED
      BY <1>1, <3>1, <3>2, <3>3
  <2> QED
    BY <1>1, <2>6, <2>7 DEF Consecutive, all
<1> QED
  BY <1>6, <1>7 DEF m

\* The range that a request asked for, as it was applied to the file it saw.
Asked(q) ==
    LET clamp == Clamp(Parse(q.header), q.size)
    IN  /\ q.header \in Headers(Numbers) /\ q.size \in Nat /\ q.size < Max
        /\ q.offset = clamp.location /\ q.length = clamp.length

Reads(q) ==
    /\ Asked(q) /\ q.op = "get" /\ q.pc \in {"get", "answered"}
    /\ q.inode \in Inodes /\ q.bytes \in Seq(Bytes)
    /\ q.pos \in Nat /\ q.left \in Nat /\ q.pos + q.left = q.offset + q.length
    /\ Consecutive(q.bytes, q.inode, q.offset, q.pos)
    /\ q.answer = "ok" => q.left = 0

\* A request that has opened its file has read up to pos of it; before, it knows
\* only the range.
RangeOK(q) ==
    /\ DOMAIN q = DOMAIN Idle
    /\ q.inode # NoFile => Reads(q)
    /\ q.op = "get" /\ q.pc = "open" =>
           /\ Asked(q) /\ q.left = q.length /\ q.bytes = <<>> /\ q.answer = "none"
           /\ q.dir \in Dirs /\ q.name \in Names
    /\ q.op = "get" /\ q.pc = "get" => q.inode # NoFile

\* While the app leaves its files alone no read comes to their end too early.
NoZeros(r) ==
    LET q == req[r]
    IN  changes = 0 /\ q.inode # NoFile /\ size[q.inode] = q.size =>
            Sent(q.bytes, Len(q.bytes)) = 1..Len(q.bytes)

RInv ==
    /\ changes \in Nat
    /\ DOMAIN size = Inodes /\ \A i \in Inodes : size[i] \in Nat /\ size[i] < Max
    /\ \A d \in Dirs, n \in Names : files[d][n] \in Inodes \cup {NoFile}
    /\ \A r \in Requests : RangeOK(req[r]) /\ NoZeros(r)

LEMMA InitRInv == Init => RInv
<1> SUFFICES ASSUME Init PROVE RInv
  OBVIOUS
<1>1. \A r \in Requests : RangeOK(req[r]) /\ NoZeros(r)
  BY DEF Init, RangeOK, NoZeros, Idle
<1>2. DOMAIN size = Inodes /\ \A i \in Inodes : size[i] \in Nat /\ size[i] < Max
  BY FilesAssumption DEF Init
<1> QED
  BY <1>1, <1>2 DEF Init, RInv, Inodes

\* A request that is not reading a file, nor about to.
Elsewhere(q) ==
    DOMAIN q = DOMAIN Idle /\ q.inode = NoFile /\ ~(q.op = "get" /\ q.pc \in {"open", "get"})

\* The steps that leave the sizes alone: the requests that are reading go on, or
\* nothing of theirs is changed that the range depends on.
LEMMA RangeStep ==
    ASSUME RInv, UNCHANGED <<size, changes>>,
           \A d \in Dirs, n \in Names : files'[d][n] \in Inodes \cup {NoFile},
           \A r \in Requests :
               \/ req'[r] = req[r] \/ Elsewhere(req'[r])
               \/ RangeOK(req'[r]) /\ NoZeros(r)'
    PROVE  RInv'
<1>1. ASSUME NEW r \in Requests
      PROVE  RangeOK(req'[r]) /\ NoZeros(r)'
  <2>1. CASE req'[r] = req[r]
    BY <2>1 DEF RInv, NoZeros
  <2>2. CASE Elsewhere(req'[r])
    BY <2>2 DEF Elsewhere, RangeOK, NoZeros
  <2> QED
    BY <2>1, <2>2
<1> QED
  BY <1>1 DEF RInv

LEMMA OneRangeStep ==
    ASSUME RInv, IInv, UNCHANGED <<size, changes>>, NEW r \in Requests, NEW q,
           \A d \in Dirs, n \in Names : files'[d][n] \in Inodes \cup {NoFile},
           req' = [req EXCEPT ![r] = q],
           Elsewhere(q) \/ (RangeOK(q) /\ NoZeros(r)')
    PROVE  RInv'
<1>1. req'[r] = q /\ \A s \in Requests \ {r} : req'[s] = req[s]
  BY DEF IInv, Shape
<1> QED
  BY <1>1, RangeStep

LEMMA SameFilesRange ==
    ASSUME RInv, UNCHANGED files
    PROVE  \A d \in Dirs, n \in Names : files'[d][n] \in Inodes \cup {NoFile}
BY DEF RInv

LEMMA RemovedRange ==
    ASSUME RInv, IInv, NEW d \in Dirs, NEW n \in Names, RemoveName(d, n)
    PROVE  \A e \in Dirs, m \in Names : files'[e][m] \in Inodes \cup {NoFile}
BY DEF RInv, IInv, Shape, RemoveName

\* Who is not reading has no file.
LEMMA NotReading ==
    ASSUME RInv, NEW r \in Requests, req[r].op # "get" \/ req[r].pc \notin {"get", "answered"}
    PROVE  req[r].inode = NoFile /\ DOMAIN req[r] = DOMAIN Idle
BY DEF RInv, RangeOK, Reads

IdleFields == Fields \cup {"header", "inode", "size", "offset", "length", "left", "bytes"}

LEMMA IdleDomain == DOMAIN Idle = IdleFields
BY DEF Idle, IdleFields, Fields

\* The arrivals.
LEMMA ArrivalRange ==
    ASSUME RInv, IInv, NEW r \in Requests, NEW d \in Dirs,
           \/ CheckList(r, d) \/ RemoveDir(r, d) \/ \E n : CheckPreview(r, d, n)
           \/ \E n \in Names : CheckUpload(r, d, n) \/ RemoveFile(r, d, n)
    PROVE  RInv'
<1>1. ASSUME NEW q, Elsewhere(q), Begins(r, q), UNCHANGED <<files, size, changes>>
      PROVE  RInv'
  BY <1>1, OneRangeStep, SameFilesRange DEF Begins
<1>2. \A op, n : /\ DOMAIN Starts(op, d, n) = DOMAIN Idle
                 /\ Starts(op, d, n).inode = NoFile /\ Starts(op, d, n).op = op
  BY DEF Starts, Idle
<1>3. \A op, n, pc, answer :
          op # "get" => /\ Elsewhere([Starts(op, d, n) EXCEPT !.pc = pc])
                        /\ Elsewhere(Answered(Starts(op, d, n), answer))
  BY DEF Starts, Idle, Answered, Elsewhere
<1>4. CASE CheckList(r, d)
  BY <1>1, <1>3, <1>4 DEF CheckList
<1>5. CASE RemoveDir(r, d)
  <2> DEFINE q == Starts("delete", d, NoName)
             p == IF d \in dirs THEN [q EXCEPT !.pc = "empty", !.todo = Present(d)]
                  ELSE Answered(q, "failed")
  <2>1. Begins(r, p) /\ UNCHANGED <<files, size, changes>>
    BY <1>5 DEF RemoveDir
  <2>2. Elsewhere(p)
    BY DEF Starts, Idle, Answered, Elsewhere
  <2> HIDE DEF p
  <2> QED
    BY <1>1, <2>1, <2>2
<1>6. ASSUME NEW n, CheckPreview(r, d, n)
      PROVE  RInv'
  BY <1>1, <1>3, <1>6 DEF CheckPreview
<1>7. ASSUME NEW n \in Names, CheckUpload(r, d, n)
      PROVE  RInv'
  BY <1>1, <1>3, <1>7 DEF CheckUpload
<1>8. ASSUME NEW n \in Names, RemoveFile(r, d, n)
      PROVE  RInv'
  <2> DEFINE p == Answered(Starts("delete", d, n),
                           IF files[d][n] # NoFile THEN "ok" ELSE "failed")
  <2>1. req' = [req EXCEPT ![r] = p] /\ RemoveName(d, n) /\ UNCHANGED <<size, changes>>
    BY <1>8 DEF RemoveFile
  <2>2. Elsewhere(p)
    BY <1>3
  <2> HIDE DEF p
  <2> QED
    BY <2>1, <2>2, OneRangeStep, RemovedRange
<1> QED
  BY <1>4, <1>5, <1>6, <1>7, <1>8

LEMMA StatRange ==
    ASSUME RInv, IInv, NEW r \in Requests, NEW d \in Dirs, NEW n \in Names,
           NEW header \in Headers(Numbers), Stat(r, d, n, header)
    PROVE  RInv'
<1> DEFINE q == Starts("get", d, n)
           i == files[d][n]
           clamp == Clamp(Parse(header), size[i])
           open == [q EXCEPT !.pc = "open", !.header = header, !.size = size[i],
                             !.offset = clamp.location, !.length = clamp.length,
                             !.left = clamp.length]
           p == IF i = NoFile THEN Answered(q, "none")
                ELSE IF IsValid(Parse(header)) /\ clamp.length = 0 THEN Answered(q, "none")
                ELSE open
<1>1. req' = [req EXCEPT ![r] = p] /\ UNCHANGED <<files, size, changes>>
  BY DEF Stat, Begins
<1>2. i # NoFile => size[i] \in Nat /\ size[i] < Max
  BY DEF RInv
<1> HIDE DEF i, clamp
<1>3. Elsewhere(Answered(q, "none"))
  BY DEF Starts, Idle, Answered, Elsewhere
<1>4. /\ DOMAIN open = DOMAIN Idle /\ open.inode = NoFile
      /\ open.header = header /\ open.size = size[i] /\ open.offset = clamp.location
      /\ open.length = clamp.length /\ open.left = clamp.length /\ open.bytes = <<>>
      /\ open.answer = "none" /\ open.pc = "open" /\ open.dir = d /\ open.name = n
  BY DEF Starts, Idle
<1> HIDE DEF open
<1>5. i # NoFile => RangeOK(open)
  BY <1>2, <1>4 DEF RangeOK, Asked, clamp
<1>6. p = open => NoZeros(r)'
  <2>1. p = open => req'[r] = open
    BY <1>1 DEF IInv, Shape
  <2> QED
    BY <1>4, <2>1 DEF NoZeros
<1>7. Elsewhere(p) \/ (RangeOK(p) /\ NoZeros(r)')
  BY <1>3, <1>5, <1>6
<1> HIDE DEF p
<1> QED
  BY <1>1, <1>7, OneRangeStep, SameFilesRange

LEMMA NumbersInHeader ==
    ASSUME NEW h \in Headers(Numbers)
    PROVE  h \in Header /\ h.start < Max /\ h.end < Max
<1>1. \A k \in Numbers \cup {NoNumber} : k \in Nat \cup {NoNumber} /\ k < Max
  BY FilesAssumption, MaxAssumption DEF NoNumber
<1>2. /\ h = [start |-> h.start, end |-> h.end]
      /\ h.start \in Numbers \cup {NoNumber} /\ h.end \in Numbers \cup {NoNumber}
  BY DEF Headers
<1> QED
  BY <1>1, <1>2 DEF Header

LEMMA ClampNat ==
    ASSUME NEW h \in Headers(Numbers), NEW total \in Nat, total < Max
    PROVE  LET c == Clamp(Parse(h), total)
           IN  /\ c.location \in Nat /\ c.length \in Nat
               /\ c.location + c.length <= total
BY NumbersInHeader, WithinFile

\* The file is opened.
LEMMA OpenRange ==
    ASSUME RInv, IInv, NEW r \in Requests, OpenFile(r)
    PROVE  RInv'
<1> DEFINE i == files[req[r].dir][req[r].name]
           q == req[r]
           get == [q EXCEPT !.pc = "get", !.inode = i, !.pos = q.offset]
           p == IF i = NoFile THEN Answered(q, "failed") ELSE get
<1>1. /\ q.op = "get" /\ q.pc = "open" /\ req' = [req EXCEPT ![r] = p]
      /\ UNCHANGED <<files, size, changes>>
  BY DEF OpenFile, At, SameFiles
<1>2. RangeOK(q) /\ q.inode = NoFile
  BY <1>1, NotReading DEF RInv
<1>3. Asked(q) /\ q.left = q.length /\ q.bytes = <<>> /\ q.answer = "none"
      /\ DOMAIN q = DOMAIN Idle /\ i \in Inodes \cup {NoFile}
  BY <1>1, <1>2 DEF RangeOK, RInv
<1> HIDE DEF i, q
<1>4. Elsewhere(Answered(q, "failed"))
  BY <1>2, <1>3, IdleDomain DEF Answered, Elsewhere, IdleFields, Fields
<1>5. /\ DOMAIN get = DOMAIN Idle /\ get.pc = "get" /\ get.op = "get" /\ get.inode = i
      /\ get.header = q.header /\ get.size = q.size /\ get.offset = q.offset
      /\ get.length = q.length /\ get.left = q.left /\ get.bytes = <<>>
      /\ get.answer = "none" /\ get.pos = q.offset
  BY <1>1, <1>3, IdleDomain DEF IdleFields, Fields
<1> HIDE DEF get
<1>6. Sent(<<>>, Len(<<>>)) = {} /\ 1..Len(<<>>) = {}
  BY DEF Sent
<1>7. q.offset \in Nat /\ q.length \in Nat
  BY <1>3, ClampNat DEF Asked
<1>8. Consecutive(<<>>, i, q.offset, q.offset)
  <2>1. Cardinality(Sent(<<>>, Len(<<>>))) = 0
    BY <1>6, FS_EmptySet
  <2>2. q.offset = q.offset + Cardinality(Sent(<<>>, Len(<<>>)))
    BY <1>7, <2>1
  <2> QED
    BY <1>6, <2>2 DEF Consecutive
<1>9. i # NoFile => RangeOK(get)
  BY <1>3, <1>5, <1>7, <1>8 DEF RangeOK, Reads, Asked
<1>10. p = get => NoZeros(r)'
  <2>1. p = get => req'[r] = get
    BY <1>1 DEF IInv, Shape
  <2> QED
    BY <1>5, <1>6, <2>1 DEF NoZeros
<1>11. Elsewhere(p) \/ (RangeOK(p) /\ NoZeros(r)')
  BY <1>4, <1>9, <1>10
<1> HIDE DEF p
<1> QED
  BY <1>1, <1>11, OneRangeStep, SameFilesRange

\* A read, which stays within the file and the range, or finds what is left empty.
LEMMA ReadRange ==
    ASSUME RInv, IInv, NEW r \in Requests, ReadData(r)
    PROVE  RInv'
<1> DEFINE q == req[r]
           length == Lesser(Chunk, q.left)
           there == IF q.pos >= size[q.inode] THEN 0 ELSE size[q.inode] - q.pos
           result == Lesser(length, there)
           data == IF result = 0 THEN [k \in 1..length |-> Zero]
                   ELSE [k \in 1..result |-> <<q.inode, q.pos + k - 1>>]
           more == [q EXCEPT !.bytes = @ \o data, !.pos = @ + result, !.left = @ - result]
           p == IF length = 0 THEN Answered(q, "ok") ELSE more
<1>1. /\ q.op = "get" /\ q.pc = "get" /\ req' = [req EXCEPT ![r] = p]
      /\ UNCHANGED <<files, size, changes>>
  BY DEF ReadData, At, SameFiles
<1>2. Reads(q) /\ DOMAIN q = DOMAIN Idle /\ NoZeros(r)
  BY <1>1 DEF RInv, RangeOK
<1>3. /\ q.pos \in Nat /\ q.left \in Nat /\ size[q.inode] \in Nat /\ Chunk \in Nat \ {0}
      /\ q.inode \in Inodes /\ q.inode # NoFile
  BY <1>2, FilesAssumption DEF RInv, Reads, Inodes
<1>4. /\ length \in Nat /\ result \in Nat /\ result <= q.left /\ result <= length
      /\ length = 0 => q.left = 0
      /\ q.left # 0 /\ q.pos + q.left <= size[q.inode] => result # 0
  <2> DEFINE s == size[q.inode]
             pos == q.pos
             left == q.left
  <2>1. s \in Nat /\ pos \in Nat /\ left \in Nat /\ Chunk \in Nat \ {0}
    BY <1>3
  <2> HIDE DEF s, pos, left
  <2> QED
    BY <2>1 DEF Lesser, s, pos, left
<1>5. /\ data \in Seq(Bytes)
      /\ \/ result = 0 /\ \A k \in 1..Len(data) : data[k] = Zero
         \/ /\ Len(data) = result
            /\ \A k \in 1..Len(data) : data[k] = <<q.inode, q.pos + k - 1>>
  <2> DEFINE pos == q.pos
             ino == q.inode
             l == length
             n == result
  <2>0. pos \in Nat /\ ino \in Inodes /\ l \in Nat /\ n \in Nat
    BY <1>3, <1>4
  <2>1. data = IF n = 0 THEN [k \in 1..l |-> Zero] ELSE [k \in 1..n |-> <<ino, pos + k - 1>>]
    OBVIOUS
  <2> HIDE DEF pos, ino, l, n, data
  <2>2. CASE n = 0
    <3>1. Zero \in Bytes /\ data = [k \in 1..l |-> Zero]
      BY <2>1, <2>2 DEF Zero, Bytes
    <3>2. data \in Seq(Bytes) /\ Len(data) = l
      BY <2>0, <3>1
    <3> QED
      BY <2>2, <3>1, <3>2 DEF n
  <2>3. CASE n # 0
    <3>1. \A k \in 1..n : <<ino, pos + k - 1>> \in Bytes
      BY <2>0 DEF Bytes
    <3>2. data = [k \in 1..n |-> <<ino, pos + k - 1>>]
      BY <2>1, <2>3
    <3>3. data \in [1..n -> Bytes]
      BY <3>1, <3>2
    <3>4. data \in Seq(Bytes) /\ Len(data) = n
      BY <2>0, <3>3
    <3> QED
      BY <3>2, <3>4 DEF n, pos, ino
  <2> QED
    BY <2>2, <2>3
<1>6. /\ Asked(q) /\ q.bytes \in Seq(Bytes) /\ q.pos + q.left = q.offset + q.length
      /\ Consecutive(q.bytes, q.inode, q.offset, q.pos)
      /\ q.answer = "ok" => q.left = 0
  BY <1>2 DEF Reads
<1>7. /\ q.offset \in Nat /\ q.length \in Nat /\ q.size \in Nat
      /\ q.offset + q.length <= q.size
  BY <1>6, ClampNat DEF Asked
<1> HIDE DEF q, length, result, data
<1>8. CASE length = 0
  <2> DEFINE done == Answered(q, "ok")
  <2>1. /\ DOMAIN done = DOMAIN Idle /\ done.pc = "answered" /\ done.op = "get"
        /\ done.inode = q.inode /\ done.header = q.header /\ done.size = q.size
        /\ done.offset = q.offset /\ done.length = q.length /\ done.left = q.left
        /\ done.bytes = q.bytes /\ done.pos = q.pos
    BY <1>1, <1>2, IdleDomain DEF Answered, IdleFields, Fields
  <2>2. p = done /\ req'[r] = done
    BY <1>1, <1>8 DEF IInv, Shape
  <2> HIDE DEF done
  <2>3. RangeOK(done)
    BY <1>3, <1>4, <1>6, <1>8, <2>1 DEF RangeOK, Reads, Asked
  <2>4. NoZeros(r)'
    BY <1>1, <1>2, <2>1, <2>2 DEF NoZeros, q
  <2> HIDE DEF p
  <2> QED
    BY <1>1, <2>2, <2>3, <2>4, OneRangeStep, SameFilesRange
<1>9. CASE length # 0
  <2>1. /\ DOMAIN more = DOMAIN Idle /\ more.pc = "get" /\ more.op = "get"
        /\ more.inode = q.inode /\ more.header = q.header /\ more.size = q.size
        /\ more.offset = q.offset /\ more.length = q.length /\ more.answer = q.answer
        /\ more.left = q.left - result /\ more.pos = q.pos + result
        /\ more.bytes = q.bytes \o data
    BY <1>1, <1>2, IdleDomain DEF IdleFields, Fields
  <2>2. p = more /\ req'[r] = more
    BY <1>1, <1>9 DEF IInv, Shape
  <2> HIDE DEF more, p
  <2>3. Consecutive(more.bytes, q.inode, q.offset, more.pos)
    <3>1. Consecutive(q.bytes \o data, q.inode, q.offset, q.pos + result)
      <4> DEFINE bytes == q.bytes
                 inode == q.inode
                 first == q.offset
                 next == q.pos
      <4>1. /\ bytes \in Seq(Bytes) /\ data \in Seq(Bytes) /\ inode \in Inodes
            /\ first \in Nat /\ next \in Nat /\ result \in Nat
            /\ Consecutive(bytes, inode, first, next)
        BY <1>3, <1>4, <1>5, <1>6, <1>7
      <4>2. \/ result = 0 /\ \A k \in 1..Len(data) : data[k] = Zero
            \/ /\ Len(data) = result
               /\ \A k \in 1..Len(data) : data[k] = <<inode, next + k - 1>>
        BY <1>5
      <4> HIDE DEF bytes, inode, first, next
      <4>3. Consecutive(bytes \o data, inode, first, next + result)
        BY <4>1, <4>2, ReadGoesOn
      <4> QED
        BY <4>3 DEF bytes, inode, first, next
    <3> QED
      BY <2>1, <3>1
  <2>4. more.bytes \in Seq(Bytes)
    BY <1>5, <1>6, <2>1, ConcatProperties
  <2>5. /\ q.left - result \in Nat /\ q.pos + result \in Nat
        /\ (q.pos + result) + (q.left - result) = q.offset + q.length
        /\ q.left = 0 => q.left - result = 0
    <3> DEFINE pos == q.pos
               left == q.left
               total == q.offset + q.length
    <3>1. pos \in Nat /\ left \in Nat /\ result \in Nat /\ result <= left /\ pos + left = total
      BY <1>3, <1>4, <1>6
    <3> HIDE DEF pos, left, total
    <3> QED
      BY <3>1 DEF pos, left, total
  <2>6. RangeOK(more)
    <3>1. Reads(more)
      BY <1>3, <1>6, <2>1, <2>3, <2>4, <2>5 DEF Reads, Asked
    <3> QED
      BY <1>3, <2>1, <3>1 DEF RangeOK
  <2>7. NoZeros(r)'
    <3> SUFFICES ASSUME changes = 0, size[q.inode] = q.size
                 PROVE  Sent(more.bytes, Len(more.bytes)) = 1..Len(more.bytes)
      BY <1>1, <2>1, <2>2 DEF NoZeros
    <3>1. Sent(q.bytes, Len(q.bytes)) = 1..Len(q.bytes)
      BY <1>2, <1>3 DEF NoZeros, q
    <3>2. q.left # 0 => result # 0
      BY <1>4, <1>6, <1>7
    <3>3. q.left # 0
      BY <1>3, <1>9 DEF length, Lesser
    <3>4. \A k \in 1..Len(data) : data[k] # Zero
      BY <1>3, <1>5, <3>2, <3>3 DEF Zero
    <3>5. /\ Len(more.bytes) = Len(q.bytes) + Len(data)
          /\ Len(q.bytes) \in Nat /\ Len(data) \in Nat
          /\ \A k \in 1..(Len(q.bytes) + Len(data)) :
                 more.bytes[k] = IF k <= Len(q.bytes) THEN q.bytes[k]
                                 ELSE data[k - Len(q.bytes)]
      BY <1>5, <1>6, <2>1, ConcatProperties, LenProperties
    <3>6. \A k \in 1..Len(q.bytes) : q.bytes[k] # Zero
      BY <3>1 DEF Sent
    <3>7. \A k \in 1..Len(more.bytes) : more.bytes[k] # Zero
      <4> DEFINE n == Len(q.bytes)
                 m == Len(data)
      <4>1. n \in Nat /\ m \in Nat
        BY <3>5
      <4>2. ASSUME NEW k \in 1..(n + m) PROVE more.bytes[k] # Zero
        <5>1. CASE k <= n
          BY <3>5, <3>6, <4>1, <5>1
        <5>2. CASE k > n
          <6>1. k - n \in 1..m /\ ~(k <= n)
            BY <4>1, <5>2
          <6> QED
            BY <3>4, <3>5, <6>1
        <5> QED
          BY <4>1, <5>1, <5>2
      <4> QED
        BY <3>5, <4>2
    <3> QED
      BY <3>7 DEF Sent
  <2> QED
    BY <1>1, <2>2, <2>6, <2>7, OneRangeStep, SameFilesRange
<1> QED
  BY <1>8, <1>9

\* The client has gone.
LEMMA LostRange ==
    ASSUME RInv, IInv, NEW r \in Requests, ConnectionLost(r)
    PROVE  RInv'
<1> DEFINE q == req[r]
           p == Answered(q, "lost")
<1>1. /\ q.op = "get" /\ q.pc = "get" /\ req' = [req EXCEPT ![r] = p]
      /\ UNCHANGED <<files, size, changes>>
  BY DEF ConnectionLost, At, SameFiles
<1>2. Reads(q) /\ DOMAIN q = DOMAIN Idle /\ NoZeros(r)
  BY <1>1 DEF RInv, RangeOK
<1>3. /\ DOMAIN p = DOMAIN Idle /\ p.pc = "answered" /\ p.op = "get" /\ p.answer = "lost"
      /\ p.inode = q.inode /\ p.header = q.header /\ p.size = q.size
      /\ p.offset = q.offset /\ p.length = q.length /\ p.left = q.left
      /\ p.bytes = q.bytes /\ p.pos = q.pos
  BY <1>1, <1>2, IdleDomain DEF Answered, IdleFields, Fields
<1>4. req'[r] = p
  BY <1>1 DEF IInv, Shape
<1> HIDE DEF q, p
<1>5. RangeOK(p)
  BY <1>2, <1>3 DEF RangeOK, Reads, Asked
<1>6. NoZeros(r)'
  BY <1>1, <1>2, <1>3, <1>4 DEF NoZeros, q
<1> QED
  BY <1>1, <1>5, <1>6, OneRangeStep, SameFilesRange

\* A step of a request that is not reading a file.
LEMMA AsideRange ==
    ASSUME RInv, IInv, NEW r \in Requests, UNCHANGED <<size, changes>>,
           \A d \in Dirs, n \in Names : files'[d][n] \in Inodes \cup {NoFile},
           req[r].op # "get" \/ req[r].pc = "items",
           NEW q, req' = [req EXCEPT ![r] = q], DOMAIN q = DOMAIN req[r],
           q.inode = req[r].inode, q.op = req[r].op, q.pc \notin {"open", "get"}
    PROVE  RInv'
<1>1. req[r].inode = NoFile /\ DOMAIN req[r] = DOMAIN Idle
  BY NotReading
<1>2. Elsewhere(q)
  BY <1>1 DEF Elsewhere
<1> QED
  BY <1>2, OneRangeStep

LEMMA ListRange ==
    ASSUME RInv, IInv, NEW r \in Requests,
           ListNames(r) \/ ListItem(r) \/ ListDone(r) \/ ReadWhole(r) \/ ReadArchive(r)
           \/ CheckEntry(r) \/ RemoveArchive(r)
    PROVE  RInv'
<1> DEFINE q == req[r]
<1>1. DOMAIN q = IdleFields /\ UNCHANGED <<files, size, changes>>
  BY IdleDomain DEF RInv, RangeOK, ListNames, ListItem, ListDone, ReadWhole, ReadArchive,
                    CheckEntry, RemoveArchive, SameFiles
<1>2. \A d \in Dirs, n \in Names : files'[d][n] \in Inodes \cup {NoFile}
  BY <1>1, SameFilesRange
<1>3. ASSUME NEW p, req' = [req EXCEPT ![r] = p], q.op # "get" \/ q.pc = "items",
             DOMAIN p = DOMAIN q, p.inode = q.inode, p.op = q.op, p.pc \notin {"open", "get"}
      PROVE  RInv'
  BY <1>1, <1>2, <1>3, AsideRange
<1>4. CASE ListNames(r)
  <2> DEFINE p == [q EXCEPT !.pc = "items", !.todo = Present(q.dir)]
  <2>1. req' = [req EXCEPT ![r] = p] /\ q.op # "get"
    BY <1>4 DEF ListNames, At
  <2>2. DOMAIN p = DOMAIN q /\ p.inode = q.inode /\ p.op = q.op /\ p.pc = "items"
    BY <1>1 DEF IdleFields, Fields
  <2> HIDE DEF p
  <2> QED
    BY <1>3, <2>1, <2>2
<1>5. CASE ListItem(r)
  <2> PICK n \in q.todo :
           req' = [req EXCEPT ![r].todo = @ \ {n},
                              ![r].items = @ \cup ({n} \cap Present(q.dir))]
    BY <1>5 DEF ListItem
  <2> DEFINE p == [q EXCEPT !.todo = @ \ {n}, !.items = @ \cup ({n} \cap Present(q.dir))]
  <2>1. req' = [req EXCEPT ![r] = p] /\ q.pc = "items"
    BY <1>5 DEF ListItem
  <2>2. DOMAIN p = DOMAIN q /\ p.inode = q.inode /\ p.op = q.op /\ p.pc = "items"
    BY <1>1, <2>1 DEF IdleFields, Fields
  <2> HIDE DEF p
  <2> QED
    BY <1>3, <2>1, <2>2
<1>6. CASE ListDone(r)
  <2> DEFINE p == Answered(q, "ok")
  <2>1. req' = [req EXCEPT ![r] = p] /\ q.pc = "items"
    BY <1>6 DEF ListDone
  <2>2. DOMAIN p = DOMAIN q /\ p.inode = q.inode /\ p.op = q.op /\ p.pc = "answered"
    BY <1>1 DEF Answered, IdleFields, Fields
  <2> HIDE DEF p
  <2> QED
    BY <1>3, <2>1, <2>2
<1>7. CASE ReadWhole(r)
  <2> DEFINE i == files[q.dir][q.name]
             p == [Answered(q, IF i = NoFile THEN "none" ELSE "ok") EXCEPT !.data = i]
  <2>1. req' = [req EXCEPT ![r] = p] /\ q.op # "get"
    BY <1>7 DEF ReadWhole, At
  <2>2. DOMAIN p = DOMAIN q /\ p.inode = q.inode /\ p.op = q.op /\ p.pc = "answered"
    BY <1>1 DEF Answered, IdleFields, Fields
  <2> HIDE DEF p
  <2> QED
    BY <1>3, <2>1, <2>2
<1>8. CASE ReadArchive(r)
  <2> DEFINE p == [q EXCEPT !.pc = "remove",
                 !.data = IF archivePath = NoFile THEN NoFile ELSE archives[archivePath]]
  <2>1. req' = [req EXCEPT ![r] = p] /\ q.op # "get"
    BY <1>8 DEF ReadArchive, At
  <2>2. DOMAIN p = DOMAIN q /\ p.inode = q.inode /\ p.op = q.op /\ p.pc = "remove"
    BY <1>1 DEF IdleFields, Fields
  <2> HIDE DEF p
  <2> QED
    BY <1>3, <2>1, <2>2
<1>9. CASE CheckEntry(r)
  <2> PICK n \in q.todo, isDir \in BOOLEAN :
           req' = [req EXCEPT ![r].pc = "add", ![r].entry = n, ![r].isDir = isDir,
                              ![r].todo = @ \ {n}]
    BY <1>9 DEF CheckEntry
  <2> DEFINE p == [q EXCEPT !.pc = "add", !.entry = n, !.isDir = isDir, !.todo = @ \ {n}]
  <2>1. req' = [req EXCEPT ![r] = p] /\ q.op # "get"
    BY <1>9 DEF CheckEntry, At
  <2>2. DOMAIN p = DOMAIN q /\ p.inode = q.inode /\ p.op = q.op /\ p.pc = "add"
    BY <1>1 DEF IdleFields, Fields
  <2> HIDE DEF p
  <2> QED
    BY <1>3, <2>1, <2>2
<1>10. CASE RemoveArchive(r)
  <2> DEFINE p == Answered(q, IF q.data = NoFile THEN "none" ELSE "ok")
  <2>1. req' = [req EXCEPT ![r] = p] /\ q.op # "get"
    BY <1>10 DEF RemoveArchive, At
  <2>2. DOMAIN p = DOMAIN q /\ p.inode = q.inode /\ p.op = q.op /\ p.pc = "answered"
    BY <1>1 DEF Answered, IdleFields, Fields
  <2> HIDE DEF p
  <2> QED
    BY <1>3, <2>1, <2>2
<1> QED
  BY <1>4, <1>5, <1>6, <1>7, <1>8, <1>9, <1>10

\* The steps that write an archive.
LEMMA ArchiveRange ==
    ASSUME RInv, IInv, NEW r \in Requests,
           CreateArchive(r) \/ CreateArchiveFails(r) \/ Enumerate(r) \/ AddEntry(r)
           \/ CloseArchive(r)
    PROVE  RInv'
<1> DEFINE q == req[r]
<1>1. /\ DOMAIN q = IdleFields /\ UNCHANGED <<files, size, changes>> /\ q.op = "preview"
      /\ \A s \in Requests : DOMAIN req[s] = IdleFields
  BY IdleDomain DEF RInv, RangeOK, CreateArchive, CreateArchiveFails, Enumerate, AddEntry,
                    CloseArchive, SameFiles, At
<1>2. \A d \in Dirs, n \in Names : files'[d][n] \in Inodes \cup {NoFile}
  BY <1>1, SameFilesRange
<1>3. ASSUME NEW cell, NEW p, Adds(r, cell, p), DOMAIN p = DOMAIN q, p.inode = q.inode,
             p.op = q.op, p.pc \notin {"open", "get"}
      PROVE  RInv'
  <2> DEFINE u == [p EXCEPT !.pos = @ + 1, !.written = Append(@, cell)]
  <2>1. req' = [req EXCEPT ![r] = u]
    BY <1>3 DEF Adds
  <2>2. DOMAIN u = DOMAIN q /\ u.inode = q.inode /\ u.op = q.op /\ u.pc = p.pc
    BY <1>1, <1>3 DEF IdleFields, Fields
  <2> HIDE DEF u
  <2> QED
    BY <1>1, <1>2, <1>3, <2>1, <2>2, AsideRange
<1>4. ASSUME NEW pc, pc \in {"enumerate", "readArchive"}, NEW handle, Overlaps(r, pc, handle)
      PROVE  RInv'
  <2> SUFFICES ASSUME NEW s \in Requests
               PROVE  req'[s] = req[s] \/ Elsewhere(req'[s])
    BY <1>1, <1>2, RangeStep
  <2>1. CASE s = r
    <3>1. req'[s] = [req[s] EXCEPT !.pc = pc, !.handle = handle,
                       !.overlapped = {t \in Requests \ {r} : Previewing(t)} # {}]
      BY <1>4, <2>1 DEF Overlaps
    <3>2. /\ DOMAIN req'[s] = DOMAIN req[s] /\ req'[s].inode = req[s].inode
          /\ req'[s].op = req[s].op
      BY <1>1, <2>1, <3>1 DEF IdleFields, Fields
    <3>3. req[s].inode = NoFile /\ DOMAIN req[s] = DOMAIN Idle
      BY <1>1, <2>1, NotReading
    <3> QED
      BY <1>1, <2>1, <3>2, <3>3 DEF Elsewhere
  <2>2. CASE s # r /\ Previewing(s)
    <3>1. req'[s] = [req[s] EXCEPT !.overlapped = TRUE]
      BY <1>4, <2>2 DEF Overlaps
    <3>2. /\ DOMAIN req'[s] = DOMAIN req[s] /\ req'[s].inode = req[s].inode
          /\ req'[s].op = req[s].op
      BY <1>1, <3>1 DEF IdleFields, Fields
    <3>3. req[s].op = "preview"
      BY <2>2 DEF Previewing, At
    <3>4. req[s].inode = NoFile /\ DOMAIN req[s] = DOMAIN Idle
      BY <3>3, NotReading
    <3> QED
      BY <3>2, <3>3, <3>4 DEF Elsewhere
  <2>3. CASE s # r /\ ~Previewing(s)
    BY <1>4, <2>3 DEF Overlaps
  <2> QED
    BY <2>1, <2>2, <2>3
<1>5. CASE CreateArchive(r) \/ CreateArchiveFails(r)
  BY <1>4, <1>5 DEF CreateArchive, CreateArchiveFails
<1>6. CASE Enumerate(r)
  <2> DEFINE p == [q EXCEPT !.pc = "check", !.todo = Present(q.dir)]
  <2>1. DOMAIN p = DOMAIN q /\ p.inode = q.inode /\ p.op = q.op /\ p.pc = "check"
    BY <1>1 DEF IdleFields, Fields
  <2>2. Adds(r, Entry("folder", NoName, NoFile), p)
    BY <1>6 DEF Enumerate
  <2> HIDE DEF p
  <2> QED
    BY <1>3, <2>1, <2>2
<1>7. CASE CloseArchive(r)
  <2> DEFINE p == [q EXCEPT !.pc = "readArchive"]
  <2>1. DOMAIN p = DOMAIN q /\ p.inode = q.inode /\ p.op = q.op /\ p.pc = "readArchive"
    BY <1>1 DEF IdleFields, Fields
  <2>2. Adds(r, Entry("end", NoName, NoFile), p)
    BY <1>7 DEF CloseArchive
  <2> HIDE DEF p
  <2> QED
    BY <1>3, <2>1, <2>2
<1>8. CASE AddEntry(r)
  <2> DEFINE p == [q EXCEPT !.pc = "check"]
  <2>1. DOMAIN p = DOMAIN q /\ p.inode = q.inode /\ p.op = q.op /\ p.pc = "check"
    BY <1>1 DEF IdleFields, Fields
  <2>2. (\E cell : Adds(r, cell, p)) \/ req' = [req EXCEPT ![r] = p]
    BY <1>8 DEF AddEntry
  <2> HIDE DEF p
  <2> QED
    BY <1>1, <1>2, <1>3, <2>1, <2>2, AsideRange
<1> QED
  BY <1>5, <1>6, <1>7, <1>8

\* The steps that change the files, and the release of a request.
LEMMA FilesRange ==
    ASSUME RInv, IInv, NEW r \in Requests,
           Move(r) \/ EmptyDir(r) \/ DirEmptied(r) \/ Release(r)
    PROVE  RInv'
<1> DEFINE q == req[r]
<1>1. DOMAIN q = IdleFields /\ UNCHANGED <<size, changes>>
  BY IdleDomain DEF RInv, RangeOK, Move, EmptyDir, DirEmptied, Release
<1>2. CASE Move(r)
  <2>1. q.op = "upload" /\ q.pc = "move"
    BY <1>2 DEF Move, At
  <2>2. temps[r] \in Inodes
    BY <2>1 DEF IInv, UploadOK, Inodes
  <2>3. \A d \in Dirs, n \in Names : files'[d][n] \in Inodes \cup {NoFile}
    BY <1>2, <2>2 DEF Move, RInv, IInv, Shape
  <2> DEFINE p == [q EXCEPT !.pc = "names"]
             f == Answered(q, "failed")
  <2>4. req' = [req EXCEPT ![r] = p] \/ req' = [req EXCEPT ![r] = f]
    BY <1>2 DEF Move
  <2>5. /\ DOMAIN p = DOMAIN q /\ p.inode = q.inode /\ p.op = q.op /\ p.pc = "names"
        /\ DOMAIN f = DOMAIN q /\ f.inode = q.inode /\ f.op = q.op /\ f.pc = "answered"
    BY <1>1 DEF Answered, IdleFields, Fields
  <2> HIDE DEF p, f
  <2> QED
    BY <1>1, <2>1, <2>3, <2>4, <2>5, AsideRange
<1>3. CASE EmptyDir(r)
  <2> PICK n \in q.todo : req' = [req EXCEPT ![r].todo = @ \ {n}] /\ RemoveName(q.dir, n)
    BY <1>3 DEF EmptyDir
  <2>1. \A d \in Dirs, m \in Names : files'[d][m] \in Inodes \cup {NoFile}
    BY DEF RemoveName, RInv, IInv, Shape
  <2> DEFINE p == [q EXCEPT !.todo = @ \ {n}]
  <2>2. req' = [req EXCEPT ![r] = p] /\ q.op # "get" /\ q.pc = "empty"
    BY <1>3 DEF EmptyDir, At
  <2>3. DOMAIN p = DOMAIN q /\ p.inode = q.inode /\ p.op = q.op /\ p.pc = "empty"
    BY <1>1, <2>2 DEF IdleFields, Fields
  <2> HIDE DEF p
  <2> QED
    BY <1>1, <2>1, <2>2, <2>3, AsideRange
<1>4. CASE DirEmptied(r)
  <2> DEFINE removed == q.dir \in dirs /\ Present(q.dir) = {}
             p == Answered(q, IF removed THEN "ok" ELSE "failed")
  <2>1. req' = [req EXCEPT ![r] = p] /\ q.op # "get" /\ files' = files
    BY <1>4 DEF DirEmptied, At
  <2>2. DOMAIN p = DOMAIN q /\ p.inode = q.inode /\ p.op = q.op /\ p.pc = "answered"
    BY <1>1 DEF Answered, IdleFields, Fields
  <2> HIDE DEF p
  <2> QED
    BY <1>1, <2>1, <2>2, AsideRange, SameFilesRange
<1>5. CASE Release(r)
  <2>1. req' = [req EXCEPT ![r] = Answer(q)] /\ files' = files
    BY <1>5 DEF Release
  <2>2. Elsewhere(Answer(q))
    BY DEF Answer, Elsewhere, Idle
  <2> QED
    BY <1>1, <2>1, <2>2, OneRangeStep, SameFilesRange
<1> QED
  BY <1>2, <1>3, <1>4, <1>5

LEMMA NextRInv == IInv /\ RInv /\ [Next]_vars => RInv'
<1> SUFFICES ASSUME IInv, RInv, [Next]_vars PROVE RInv'
  OBVIOUS
<1>1. ASSUME NEW r \in Requests, NEW d \in Dirs,
             \/ CheckList(r, d) \/ RemoveDir(r, d) \/ CheckPreview(r, d, NoName)
             \/ \E n \in Names :
                   \/ CheckUpload(r, d, n) \/ RemoveFile(r, d, n) \/ CheckPreview(r, d, n)
                   \/ \E header \in Headers(Numbers) : Stat(r, d, n, header)
      PROVE  RInv'
  BY <1>1, ArrivalRange, StatRange
<1>2. ASSUME NEW r \in Requests, Works(r) \/ CreateArchiveFails(r) \/ ConnectionLost(r)
      PROVE  RInv'
  BY <1>2, ListRange, ArchiveRange, FilesRange, OpenRange, ReadRange, LostRange DEF Works
\* A file that was changed is not the one that was asked for.
<1>3. ASSUME NEW i \in Originals, NEW s \in Sizes, AppResizes(i, s)
      PROVE  RInv'
  <2>1. /\ changes' = changes + 1 /\ size' = [size EXCEPT ![i] = s] /\ UNCHANGED <<files, req>>
    BY <1>3 DEF AppResizes
  <2>2. changes' # 0 /\ changes' \in Nat
    BY <2>1 DEF RInv
  <2>3. DOMAIN size' = Inodes /\ \A j \in Inodes : size'[j] \in Nat /\ size'[j] < Max
    BY <2>1, FilesAssumption DEF RInv, Inodes
  <2>4. \A r \in Requests : NoZeros(r)'
    BY <2>2 DEF NoZeros
  <2> QED
    BY <2>1, <2>2, <2>3, <2>4 DEF RInv
<1>4. CASE UNCHANGED vars
  BY <1>4 DEF vars, fs, RInv, NoZeros
<1> QED
  BY <1>1, <1>2, <1>3, <1>4 DEF Next

LEMMA RangeInvariance == Spec => []RInv
BY InitRInv, Invariance, NextRInv, PTL DEF Spec

\* What is sent of a file is consecutive, all of it from the one file that was
\* opened, and is the range that was asked for unless the file has shrunk: for
\* files of any size, whatever is uploaded and deleted while the range is sent
\* (HSDGWebServerFileResponse.m:93-173, HSDGWebServerRequest.m:185-213).
THEOREM RangesServed == Spec => []RangeServed
<1>1. RInv => RangeServed
  <2> SUFFICES ASSUME RInv, NEW r \in Requests, req[r].inode # NoFile
               PROVE  LET q    == req[r]
                          sent == Sent(q.bytes, Len(q.bytes))
                          same == changes = 0 /\ size[q.inode] = q.size
                          Before(k) == Cardinality(Sent(q.bytes, k - 1))
                      IN  /\ \A k \in sent : q.bytes[k] = <<q.inode, q.offset + Before(k)>>
                          /\ same => sent = 1..Len(q.bytes)
                          /\ same /\ Done(r) /\ q.answer = "ok" /\ WellFormed(q.header) =>
                                 {q.bytes[k][2] : k \in 1..Len(q.bytes)}
                                     = Selected(q.header, q.size)
    BY DEF RangeServed
  <2> DEFINE q == req[r]
             n == Len(q.bytes)
             places == {q.bytes[k][2] : k \in 1..n}
  <2>1. Reads(q) /\ NoZeros(r)
    BY DEF RInv, RangeOK
  <2>2. \A k \in Sent(q.bytes, n) :
            q.bytes[k] = <<q.inode, q.offset + Cardinality(Sent(q.bytes, k - 1))>>
    BY <2>1 DEF Reads, Consecutive
  <2>3. changes = 0 /\ size[q.inode] = q.size => Sent(q.bytes, n) = 1..n
    BY <2>1 DEF NoZeros
  <2>4. ASSUME changes = 0, size[q.inode] = q.size, q.answer = "ok", WellFormed(q.header)
        PROVE  places = Selected(q.header, q.size)
    <3>1. /\ q.pos = q.offset + q.length /\ Asked(q) /\ n \in Nat /\ q.pos \in Nat
          /\ q.pos = q.offset + Cardinality(Sent(q.bytes, n))
      BY <2>1, <2>4 DEF Reads, Consecutive
    <3>2. q.offset \in Nat /\ q.length \in Nat
      BY <3>1, ClampNat DEF Asked
    <3>3. ASSUME NEW k \in 0..n PROVE Cardinality(Sent(q.bytes, k)) = k
      <4>1. Sent(q.bytes, k) = 1..k
        BY <2>3, <2>4, <3>1 DEF Sent
      <4>2. Cardinality(1..k) = IF 1 > k THEN 0 ELSE k - 1 + 1
        BY FS_Interval
      <4> QED
        BY <3>1, <4>1, <4>2
    <3>4. n = q.length
      <4> DEFINE first == q.offset
                 length == q.length
      <4>1. n \in 0..n
        BY <3>1
      <4>2. Cardinality(Sent(q.bytes, n)) = n
        BY <3>3, <4>1
      <4>3. first + length = first + n /\ first \in Nat /\ length \in Nat /\ n \in Nat
        BY <3>1, <3>2, <4>2
      <4> HIDE DEF first, length, n
      <4>4. n = length
        BY <4>3
      <4> QED
        BY <4>4 DEF length
    <3>5. ASSUME NEW k \in 1..n PROVE q.bytes[k][2] = q.offset + (k - 1)
      <4>1. k \in Sent(q.bytes, n) /\ k - 1 \in 0..n
        BY <2>3, <2>4, <3>1
      <4>2. Cardinality(Sent(q.bytes, k - 1)) = k - 1
        BY <3>3, <4>1
      <4> QED
        BY <2>2, <4>1, <4>2
    <3> DEFINE first == q.offset
               length == q.length
    <3>6. places = first..(first + length - 1)
      <4>1. first \in Nat /\ length \in Nat /\ n = length
        BY <3>2, <3>4
      <4>2. places = {first + (k - 1) : k \in 1..n}
        BY <3>5
      <4> HIDE DEF first, length, n, places
      <4>3. \A j \in first..(first + length - 1) :
                j - first + 1 \in 1..n /\ j = first + ((j - first + 1) - 1)
        BY <4>1
      <4>4. \A k \in 1..n : first + (k - 1) \in first..(first + length - 1)
        BY <4>1
      <4> QED
        BY <4>2, <4>3, <4>4
    <3>7. places = Places(Clamp(Parse(q.header), q.size))
      BY <3>1, <3>6 DEF Places, Asked
    <3>8. /\ q.header \in Header /\ q.header.start < Max /\ q.header.end < Max
          /\ q.size \in Nat /\ q.size < Max /\ Forward(q.header)
      BY <2>4, <3>1, NumbersInHeader DEF Asked, WellFormed, Forward
    <3> QED
      BY <3>7, <3>8, ServesSelected
  <2> QED
    BY <2>2, <2>3, <2>4
<1> QED
  BY <1>1, RangeInvariance, PTL
==============================================================================
