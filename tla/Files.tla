--------------------------------- MODULE Files ---------------------------------
(***************************************************************************)
(* The requests that work on the app's files, each on a thread of its own, *)
(* while the app goes on using them: HSDComponentMiddleware uploads and    *)
(* deletes, HSDFileExplorerComponent lists, HSDFilePreviewComponent sends  *)
(* a file or the zip archive of a directory, HSDGWebServerFileResponse     *)
(* sends a range of a file in chunks.                                      *)
(*                                                                         *)
(* Every call into the file system is an action, as other requests run in  *)
(* between.  A path leads to a file (an inode), which is replaced when the *)
(* path is removed and written again.  The bytes of a file are not kept:   *)
(* byte k of a file is the pair of the file and k.                         *)
(***************************************************************************)
EXTENDS ByteRange, FiniteSets, Sequences

CONSTANTS
    Requests,
    Dirs,        \* directories of the same name in different places
    Names,
    NoFile,      \* no file, and what a missing path leads to
    Originals,   \* the files of the app, pairs of a directory and a name
    Sizes,       \* the sizes they may have
    UploadSize,  \* the size of a file that is uploaded
    Numbers,     \* bound: the numbers in a Range header
    Chunk,       \* kFileReadBufferSize
    MaxChanges,  \* bound: how often the app changes the size of a file
    MaxFaults,   \* bound: how often an archive cannot be created
    MaxBytes     \* bound: how much is sent of a file

ASSUME FilesAssumption ==
    /\ Originals \subseteq Dirs \X Names
    /\ NoFile \notin Originals \cup Requests /\ Originals \cap Requests = {}
    /\ Sizes \subseteq Nat /\ UploadSize \in Nat /\ Numbers \subseteq Nat
    \* off_t and NSInteger are narrower than NSUInteger
    /\ \A s \in Sizes \cup {UploadSize} \cup Numbers : s < Max
    /\ Chunk \in Nat \ {0}
    /\ MaxChanges \in Nat /\ MaxFaults \in Nat /\ MaxBytes \in Nat

VARIABLES
    dirs,        \* the directories there are
    files,       \* by directory and name
    temps,       \* the temporary file of an upload
    size,        \* of a file
    archivePath, \* the archive at hsd_file_preview_<name>.zip
    archives,    \* the archives, by the request that created the file
    req,         \* the requests
    kept,        \* history: the names that were in a request's directory throughout
    seen,        \* history: the names that ever were
    deleted,     \* history: the files that were deleted
    changes, faults

fs == <<dirs, files, temps, size, archivePath, archives>>
vars == <<fs, req, kept, seen, deleted, changes, faults>>

Inodes == Originals \cup Requests

NoName == NoFile

\* What a request holds: a listing works through todo, an archive is written at
\* pos of handle, and of a range of a file what is left is read from inode.
Idle ==
    [pc |-> "idle", op |-> "none", dir |-> NoFile, name |-> NoName,
     todo |-> {}, items |-> {}, entry |-> NoName, isDir |-> FALSE,
     handle |-> NoFile, pos |-> 0, written |-> <<>>, overlapped |-> FALSE,
     header |-> [start |-> NoNumber, end |-> NoNumber],
     inode |-> NoFile, size |-> 0, offset |-> 0, length |-> 0, left |-> 0,
     bytes |-> <<>>, data |-> NoFile, answer |-> "none"]

Init ==
    /\ dirs = Dirs
    /\ files = [d \in Dirs |-> [n \in Names |->
                   IF <<d, n>> \in Originals THEN <<d, n>> ELSE NoFile]]
    /\ temps = [r \in Requests |-> NoFile]
    /\ \E s \in Sizes : size = [i \in Inodes |-> IF i \in Originals THEN s ELSE UploadSize]
    /\ archivePath = NoFile /\ archives = [r \in Requests |-> <<>>]
    /\ req = [r \in Requests |-> Idle]
    /\ kept = [r \in Requests |-> {}] /\ seen = [r \in Requests |-> {}]
    /\ deleted = {}
    /\ changes = 0 /\ faults = 0

Present(d) == {n \in Names : files[d][n] # NoFile}

At(r, op, pc) == req[r].op = op /\ req[r].pc = pc

AtWork(r) == req[r].pc \notin {"idle", "done"}

\* The names of each request's directory, once files has changed.
NamesChange ==
    /\ kept' = [r \in Requests |->
           IF AtWork(r) THEN kept[r] \cap Present(req[r].dir)' ELSE {}]
    /\ seen' = [r \in Requests |->
           IF AtWork(r) THEN seen[r] \cup Present(req[r].dir)' ELSE {}]

SameFiles == UNCHANGED <<dirs, files, temps, size, deleted, kept, seen>>
SameArchives == UNCHANGED <<archivePath, archives, faults>>

Answered(q, answer) == [q EXCEPT !.pc = "answered", !.answer = answer]

\* The first call of a handler, whose request has just arrived.
Starts(op, d, n) == [Idle EXCEPT !.op = op, !.dir = d, !.name = n]

Begins(r, q) ==
    /\ req[r].pc = "idle"
    /\ req' = [req EXCEPT ![r] = q]
    /\ kept' = [kept EXCEPT ![r] = Present(q.dir)]
    /\ seen' = [seen EXCEPT ![r] = Present(q.dir)]

-----------------------------------------------------------------------------
(* Uploads, and the listings they answer with.                             *)

CheckUpload(r, d, n) ==
    /\ LET q == Starts("upload", d, n)
       IN  Begins(r, IF d \in dirs THEN [q EXCEPT !.pc = "move"] ELSE Answered(q, "failed"))
    /\ temps' = [temps EXCEPT ![r] = r]
    /\ UNCHANGED <<dirs, files, size, deleted, changes>> /\ SameArchives

\* Mutant: a file that is there is replaced.
Move_Replaces(r) ==
    /\ At(r, "upload", "move")
    /\ IF req[r].dir \in dirs
       THEN /\ files' = [files EXCEPT ![req[r].dir][req[r].name] = temps[r]]
            /\ temps' = [temps EXCEPT ![r] = NoFile]
            /\ req' = [req EXCEPT ![r].pc = "names"]
            /\ kept' = [kept EXCEPT ![r] = Present(req[r].dir)']
            /\ seen' = [q \in Requests |->
                   IF AtWork(q) THEN seen[q] \cup Present(req[q].dir)' ELSE {}]
       ELSE /\ req' = [req EXCEPT ![r] = Answered(@, "failed")]
            /\ UNCHANGED <<files, temps, kept, seen>>
    /\ UNCHANGED <<dirs, size, deleted, changes>> /\ SameArchives

\* Mutant: what is listed was read before the move.
Move_ListsFirst(r) ==
    /\ At(r, "upload", "move")
    /\ IF req[r].dir \in dirs /\ files[req[r].dir][req[r].name] = NoFile
       THEN /\ files' = [files EXCEPT ![req[r].dir][req[r].name] = temps[r]]
            /\ temps' = [temps EXCEPT ![r] = NoFile]
            /\ req' = [req EXCEPT ![r].pc = "items", ![r].todo = Present(req[r].dir)]
            /\ kept' = [kept EXCEPT ![r] = Present(req[r].dir)']
            /\ seen' = [q \in Requests |->
                   IF AtWork(q) THEN seen[q] \cup Present(req[q].dir)' ELSE {}]
       ELSE /\ req' = [req EXCEPT ![r] = Answered(@, "failed")]
            /\ UNCHANGED <<files, temps, kept, seen>>
    /\ UNCHANGED <<dirs, size, deleted, changes>> /\ SameArchives

\* moveItemAtPath fails when the directory has gone or the name is taken.
Move(r) ==
    /\ At(r, "upload", "move")
    /\ IF req[r].dir \in dirs /\ files[req[r].dir][req[r].name] = NoFile
       THEN /\ files' = [files EXCEPT ![req[r].dir][req[r].name] = temps[r]]
            /\ temps' = [temps EXCEPT ![r] = NoFile]
            /\ req' = [req EXCEPT ![r].pc = "names"]
            /\ kept' = [kept EXCEPT ![r] = Present(req[r].dir)']
            /\ seen' = [q \in Requests |->
                   IF AtWork(q) THEN seen[q] \cup Present(req[q].dir)' ELSE {}]
       ELSE /\ req' = [req EXCEPT ![r] = Answered(@, "failed")]
            /\ UNCHANGED <<files, temps, kept, seen>>
    /\ UNCHANGED <<dirs, size, deleted, changes>> /\ SameArchives

\* constructFilesDataListInDirectory: the names first, then one after the other.
ListNames(r) ==
    /\ At(r, "list", "names") \/ At(r, "upload", "names")
    /\ req' = [req EXCEPT ![r].pc = "items", ![r].todo = Present(req[r].dir)]
    /\ SameFiles /\ SameArchives /\ UNCHANGED changes

CheckList(r, d) ==
    /\ LET q == Starts("list", d, NoName)
       IN  Begins(r, IF d \in dirs THEN [q EXCEPT !.pc = "names"] ELSE Answered(q, "none"))
    /\ UNCHANGED <<dirs, files, temps, size, deleted, changes>> /\ SameArchives

ListItem(r) ==
    /\ req[r].pc = "items"
    /\ \E n \in req[r].todo :
           req' = [req EXCEPT ![r].todo = @ \ {n},
                              ![r].items = @ \cup ({n} \cap Present(req[r].dir))]
    /\ SameFiles /\ SameArchives /\ UNCHANGED changes

ListDone(r) ==
    /\ req[r].pc = "items" /\ req[r].todo = {}
    /\ req' = [req EXCEPT ![r] = Answered(@, "ok")]
    /\ SameFiles /\ SameArchives /\ UNCHANGED changes

-----------------------------------------------------------------------------
(* Deletions.  removeItemAtPath empties a directory before it removes it.  *)

RemoveName(d, n) ==
    /\ files' = [files EXCEPT ![d][n] = NoFile]
    /\ deleted' = deleted \cup ({files[d][n]} \ {NoFile})
    /\ NamesChange

RemoveFile(r, d, n) ==
    /\ req[r].pc = "idle"
    /\ req' = [req EXCEPT ![r] = Answered(Starts("delete", d, n),
           IF files[d][n] # NoFile THEN "ok" ELSE "failed")]
    /\ RemoveName(d, n)
    /\ UNCHANGED <<dirs, temps, size, changes>> /\ SameArchives

RemoveDir(r, d) ==
    /\ LET q == Starts("delete", d, NoName)
       IN  Begins(r, IF d \in dirs THEN [q EXCEPT !.pc = "empty", !.todo = Present(d)]
                     ELSE Answered(q, "failed"))
    /\ UNCHANGED <<dirs, files, temps, size, deleted, changes>> /\ SameArchives

EmptyDir(r) ==
    /\ At(r, "delete", "empty")
    /\ \E n \in req[r].todo :
           /\ req' = [req EXCEPT ![r].todo = @ \ {n}]
           /\ RemoveName(req[r].dir, n)
    /\ UNCHANGED <<dirs, temps, size, changes>> /\ SameArchives

\* A file that was uploaded in the meantime keeps the directory.
DirEmptied(r) ==
    /\ At(r, "delete", "empty") /\ req[r].todo = {}
    /\ LET removed == req[r].dir \in dirs /\ Present(req[r].dir) = {}
       IN  /\ dirs' = IF removed THEN dirs \ {req[r].dir} ELSE dirs
           /\ req' = [req EXCEPT ![r] = Answered(@, IF removed THEN "ok" ELSE "failed")]
    /\ UNCHANGED <<files, temps, size, deleted, kept, seen, changes>> /\ SameArchives

-----------------------------------------------------------------------------
(* Previews.  The archive of a directory goes through a temporary file that *)
(* is named after the directory alone.                                     *)

CheckPreview(r, d, n) ==
    /\ LET q == Starts("preview", d, n)
       IN  Begins(r,
               IF n = NoName /\ d \in dirs THEN [q EXCEPT !.pc = "create"]
               ELSE IF n \in Present(d) THEN [q EXCEPT !.pc = "read"]
               ELSE Answered(q, "none"))
    /\ UNCHANGED <<dirs, files, temps, size, deleted, changes>> /\ SameArchives

\* initWithContentsOfFile of a file.
ReadWhole(r) ==
    /\ At(r, "preview", "read") /\ req[r].name # NoName
    /\ LET i == files[req[r].dir][req[r].name]
       IN  req' = [req EXCEPT ![r] = [Answered(@, IF i = NoFile THEN "none" ELSE "ok")
                                         EXCEPT !.data = i]]
    /\ SameFiles /\ SameArchives /\ UNCHANGED changes

\* Archives have the same path if they are created before the last is removed.
Previewing(r) ==
    At(r, "preview", "enumerate") \/ At(r, "preview", "check") \/ At(r, "preview", "add")
    \/ At(r, "preview", "readArchive") \/ At(r, "preview", "remove")

Overlaps(r, pc, handle) ==
    LET others == {q \in Requests \ {r} : Previewing(q)}
    IN  req' = [q \in Requests |->
            IF q = r THEN [req[q] EXCEPT !.pc = pc, !.handle = handle,
                                         !.overlapped = others # {}]
            ELSE IF q \in others THEN [req[q] EXCEPT !.overlapped = TRUE]
            ELSE req[q]]

\* open: the file at the path is created, or the one that is there emptied.
CreateArchive(r) ==
    /\ At(r, "preview", "create")
    /\ LET handle == IF archivePath = NoFile THEN r ELSE archivePath
       IN  /\ archivePath' = handle
           /\ archives' = [archives EXCEPT ![handle] = <<>>]
           /\ Overlaps(r, "enumerate", handle)
    /\ SameFiles /\ UNCHANGED <<faults, changes>>

\* open fails; the preview is read all the same.
CreateArchiveFails(r) ==
    /\ At(r, "preview", "create")
    /\ faults < MaxFaults /\ faults' = faults + 1
    /\ Overlaps(r, "readArchive", NoFile)
    /\ SameFiles /\ UNCHANGED <<archivePath, archives, changes>>

Hole == [kind |-> "hole"]
Entry(kind, n, i) == [kind |-> kind, name |-> n, inode |-> i]

\* A cell written at a place of a file, which may be behind its end.
WrittenAt(cells, pos, cell) ==
    [k \in 1..(IF pos >= Len(cells) THEN pos + 1 ELSE Len(cells)) |->
        IF k = pos + 1 THEN cell
        ELSE IF k <= Len(cells) THEN cells[k] ELSE Hole]

Adds(r, cell, q) ==
    /\ archives' = [archives EXCEPT ![q.handle] = WrittenAt(@, q.pos, cell)]
    /\ req' = [req EXCEPT ![r] = [q EXCEPT !.pos = @ + 1, !.written = Append(@, cell)]]
    /\ UNCHANGED archivePath

\* All names of the directory are taken down, and its own folder is added.
Enumerate(r) ==
    /\ At(r, "preview", "enumerate")
    /\ Adds(r, Entry("folder", NoName, NoFile),
            [req[r] EXCEPT !.pc = "check", !.todo = Present(req[r].dir)])
    /\ SameFiles /\ UNCHANGED <<faults, changes>>

\* Mutant: a name that has gone ends the archive.
CheckEntry_Stops(r) ==
    /\ At(r, "preview", "check")
    /\ \E n \in req[r].todo, isDir \in BOOLEAN :
           /\ n \in Present(req[r].dir) => ~isDir
           /\ req' = [req EXCEPT ![r].pc = "add", ![r].entry = n, ![r].isDir = isDir,
                                 ![r].todo = IF n \in Present(req[r].dir)
                                             THEN @ \ {n} ELSE {}]
    /\ SameFiles /\ SameArchives /\ UNCHANGED changes

\* fileExistsAtPath leaves isDir undefined for a name that has gone.
CheckEntry(r) ==
    /\ At(r, "preview", "check")
    /\ \E n \in req[r].todo, isDir \in BOOLEAN :
           /\ n \in Present(req[r].dir) => ~isDir
           /\ req' = [req EXCEPT ![r].pc = "add", ![r].entry = n, ![r].isDir = isDir,
                                 ![r].todo = @ \ {n}]
    /\ SameFiles /\ SameArchives /\ UNCHANGED changes

\* A folder whose contents cannot be read counts as empty and is added; a file
\* that cannot be opened is left out.
AddEntry(r) ==
    /\ At(r, "preview", "add")
    /\ LET q == [req[r] EXCEPT !.pc = "check"]
           i == files[q.dir][q.entry]
       IN  IF q.isDir THEN Adds(r, Entry("folder", q.entry, NoFile), q)
           ELSE IF i # NoFile THEN Adds(r, Entry("file", q.entry, i), q)
           ELSE req' = [req EXCEPT ![r] = q] /\ UNCHANGED <<archivePath, archives>>
    /\ SameFiles /\ UNCHANGED <<faults, changes>>

CloseArchive(r) ==
    /\ At(r, "preview", "check") /\ req[r].todo = {}
    /\ Adds(r, Entry("end", NoName, NoFile), [req[r] EXCEPT !.pc = "readArchive"])
    /\ SameFiles /\ UNCHANGED <<faults, changes>>

ReadArchive(r) ==
    /\ At(r, "preview", "readArchive")
    /\ req' = [req EXCEPT ![r].pc = "remove",
           ![r].data = IF archivePath = NoFile THEN NoFile ELSE archives[archivePath]]
    /\ SameFiles /\ SameArchives /\ UNCHANGED changes

RemoveArchive(r) ==
    /\ At(r, "preview", "remove")
    /\ archivePath' = NoFile
    /\ req' = [req EXCEPT ![r] = Answered(@, IF @.data = NoFile THEN "none" ELSE "ok")]
    /\ SameFiles /\ UNCHANGED <<archives, faults, changes>>

-----------------------------------------------------------------------------
(* A range of a file.                                                      *)

Stat(r, d, n, header) ==
    /\ LET q     == Starts("get", d, n)
           i     == files[d][n]
           range == Parse(header)
           clamp == Clamp(range, size[i])
       IN  Begins(r,
               IF i = NoFile THEN Answered(q, "none")
               ELSE IF IsValid(range) /\ clamp.length = 0 THEN Answered(q, "none")
               ELSE [q EXCEPT !.pc = "open", !.header = header, !.size = size[i],
                              !.offset = clamp.location, !.length = clamp.length,
                              !.left = clamp.length])
    /\ UNCHANGED <<dirs, files, temps, size, deleted, changes>> /\ SameArchives

\* The path is looked up again.
OpenFile(r) ==
    /\ At(r, "get", "open")
    /\ LET i == files[req[r].dir][req[r].name]
       IN  req' = [req EXCEPT ![r] =
               IF i = NoFile THEN Answered(@, "failed")
               ELSE [@ EXCEPT !.pc = "get", !.inode = i, !.pos = req[r].offset]]
    /\ SameFiles /\ SameArchives /\ UNCHANGED changes

Zero == <<NoFile, 0>>

\* A read at the end of the file leaves the zeros of its buffer as the data.
ReadData(r) ==
    /\ At(r, "get", "get")
    /\ LET q      == req[r]
           length == Lesser(Chunk, q.left)
           there  == IF q.pos >= size[q.inode] THEN 0 ELSE size[q.inode] - q.pos
           result == Lesser(length, there)
           data   == IF result = 0 THEN [k \in 1..length |-> Zero]
                     ELSE [k \in 1..result |-> <<q.inode, q.pos + k - 1>>]
       IN  /\ Len(q.bytes) + length <= MaxBytes
           /\ req' = [req EXCEPT ![r] =
                  IF length = 0 THEN Answered(q, "ok")
                  ELSE [q EXCEPT !.bytes = @ \o data, !.pos = @ + result,
                                 !.left = @ - result]]
    /\ SameFiles /\ SameArchives /\ UNCHANGED changes

\* A write to the client fails: no more is read.
ConnectionLost(r) ==
    /\ At(r, "get", "get") /\ req[r].bytes # <<>>
    /\ req' = [req EXCEPT ![r] = Answered(@, "lost")]
    /\ SameFiles /\ SameArchives /\ UNCHANGED changes

-----------------------------------------------------------------------------
\* Of a request that is done, history keeps what an upload was answered.
Answer(q) ==
    IF q.op # "upload" THEN [Idle EXCEPT !.pc = "done"]
    ELSE [Idle EXCEPT !.pc = "done", !.op = q.op, !.dir = q.dir, !.name = q.name,
                      !.answer = q.answer]

\* Mutant: a file that could not be moved stays.
Release_KeepsTemporary(r) ==
    /\ req[r].pc = "answered"
    /\ req' = [req EXCEPT ![r] = Answer(@)]
    /\ kept' = [kept EXCEPT ![r] = {}] /\ seen' = [seen EXCEPT ![r] = {}]
    /\ UNCHANGED <<dirs, files, temps, size, deleted, changes>> /\ SameArchives

\* The request is released, and the file of an upload unlinks its temporary path.
Release(r) ==
    /\ req[r].pc = "answered"
    /\ req' = [req EXCEPT ![r] = Answer(@)]
    /\ temps' = [temps EXCEPT ![r] = NoFile]
    /\ kept' = [kept EXCEPT ![r] = {}] /\ seen' = [seen EXCEPT ![r] = {}]
    /\ UNCHANGED <<dirs, files, size, deleted, changes>> /\ SameArchives

\* The app goes on writing its files.
AppResizes(i, s) ==
    /\ changes < MaxChanges /\ changes' = changes + 1
    /\ s # size[i] /\ size' = [size EXCEPT ![i] = s]
    /\ UNCHANGED <<dirs, files, temps, req, deleted, kept, seen>>
    /\ SameArchives

Works(r) ==
    \/ Move(r) \/ ListNames(r) \/ ListItem(r) \/ ListDone(r) \/ EmptyDir(r)
    \/ DirEmptied(r) \/ ReadWhole(r) \/ CreateArchive(r) \/ Enumerate(r)
    \/ CheckEntry(r) \/ AddEntry(r) \/ CloseArchive(r) \/ ReadArchive(r)
    \/ RemoveArchive(r) \/ OpenFile(r) \/ ReadData(r) \/ Release(r)

Next ==
    \/ \E r \in Requests, d \in Dirs :
           \/ CheckList(r, d) \/ RemoveDir(r, d) \/ CheckPreview(r, d, NoName)
           \/ \E n \in Names :
                  \/ CheckUpload(r, d, n) \/ RemoveFile(r, d, n) \/ CheckPreview(r, d, n)
                  \/ \E header \in Headers(Numbers) : Stat(r, d, n, header)
    \/ \E r \in Requests : Works(r) \/ CreateArchiveFails(r) \/ ConnectionLost(r)
    \/ \E i \in Originals, s \in Sizes : AppResizes(i, s)

\* A handler runs until it has answered.
Spec == Init /\ [][Next]_vars

-----------------------------------------------------------------------------
(* Properties.                                                             *)

Done(r) == req[r].pc = "answered"

\* An upload that was reported to have succeeded is at its place until it is
\* deleted, whatever other requests upload there, and one that failed left
\* nothing (HSDComponentMiddleware.m:99-126).
UploadKept ==
    \A r \in Requests : req[r].op = "upload" =>
        LET there == files[req[r].dir][req[r].name] = r
        IN  /\ req[r].answer = "ok" => there \/ r \in deleted
            /\ req[r].answer = "failed" => ~there

\* A listing has every file that was there all the while, and the file just
\* uploaded with it, and none that never was (HSDFileExplorerComponent.m:19-43).
ListsWhatIsThere ==
    \A r \in Requests :
        req[r].op \in {"list", "upload"} /\ Done(r) /\ req[r].answer = "ok" =>
            kept[r] \subseteq req[r].items /\ req[r].items \subseteq seen[r]

ServedAlone(r) ==
    /\ req[r].op = "preview" /\ req[r].name = NoName
    /\ Done(r) /\ req[r].answer = "ok" /\ ~req[r].overlapped

\* A preview of a directory that no other overlapped is the whole archive, as it
\* was written, of every file that was there all the while, also when files
\* come and go (HSDFilePreviewComponent.m:122-134, HSDZipArchive.m:58-98).
PreviewWhole ==
    \A r \in {q \in Requests : ServedAlone(q)} :
        LET cells == req[r].data
            named == {cells[k].name : k \in {j \in 1..Len(cells) : cells[j].kind = "file"}}
        IN  /\ cells = req[r].written
            /\ cells[Len(cells)].kind = "end"
            /\ kept[r] \subseteq named /\ named \subseteq seen[r]

\* When no request is at work there is no temporary file left, of an upload or
\* of a preview, also when several previews shared an archive.
NothingLeft ==
    (\A r \in Requests : ~AtWork(r)) =>
        /\ archivePath = NoFile
        /\ \A r \in Requests : temps[r] = NoFile

WellFormed(h) ==
    \/ h.start # NoNumber /\ (h.end # NoNumber => h.end >= h.start)
    \/ h.start = NoNumber /\ h.end # 0

\* What there is of the file in the first n bytes of those that were sent.
Sent(bytes, n) == {k \in 1..n : bytes[k] # Zero}

\* What is sent of a file is consecutive, all of it from the one file that was
\* opened, and is the range that was asked for unless the file has shrunk
\* (HSDGWebServerFileResponse.m:93-173, HSDGWebServerRequest.m:185-213).
RangeServed ==
    \A r \in Requests :
        LET q     == req[r]
            sent  == Sent(q.bytes, Len(q.bytes))
            same  == changes = 0 /\ size[q.inode] = q.size
            Before(k) == Cardinality(Sent(q.bytes, k - 1))
        IN  q.inode # NoFile =>
                /\ \A k \in sent : q.bytes[k] = <<q.inode, q.offset + Before(k)>>
                /\ same => sent = 1..Len(q.bytes)
                /\ same /\ Done(r) /\ q.answer = "ok" /\ WellFormed(q.header) =>
                       {q.bytes[k][2] : k \in 1..Len(q.bytes)} = Selected(q.header, q.size)
=============================================================================
