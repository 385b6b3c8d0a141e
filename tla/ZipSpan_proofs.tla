----------------------------- MODULE ZipSpan_proofs -----------------------------
(***************************************************************************)
(* What an archive has on its disks stays there, for every size of disks,  *)
(* headers and data, and every number of disks, entries and faults.        *)
(***************************************************************************)
EXTENDS ZipSpan, TLAPS

\* A disk that is open is the one the number says.
CurrentOK ==
    /\ number_disk \in DiskNumbers
    /\ pc # "null" /\ OnDisk => stream = DiskFile(number_disk)

\* A new archive whose disks have names of their own has nothing in the file of
\* a disk it has not come to yet.
AheadOK ==
    pc # "null" /\ ~append /\ ~reused =>
        Named(number_disk) /\ held \subseteq 1..(number_disk + 1)

\* Where a call goes on after zipGoToNextDisk, and that an entry is not open
\* before its local header is written.
PlaceOK ==
    /\ pc = "next" => back \in {"local", "flush"}
    /\ pc \in {"marker", "room", "local"} \/ (pc = "next" /\ back = "local") =>
           ~in_opened_file_inzip

\* The entry that is open began on a disk that still has its header, or that
\* was emptied.
EntryOK ==
    in_opened_file_inzip /\ pc # "null" =>
        LET f == DiskFile(ci.disk)
        IN  /\ f \in Files
            /\ f \notin emptied =>
                   /\ f \in held
                   /\ ci.offset \in Int /\ size[f] >= ci.offset + HeaderSize

SpanInv ==
    /\ size \in [Files -> Int]
    /\ \A f \in Files : size[f] >= Absent
    /\ held \subseteq Files
    /\ reused \in BOOLEAN
    /\ stream \in Files \cup {NULL}
    /\ write \in Nat /\ faults \in Nat
    /\ recorded.disks \in DiskNumbers
    /\ CurrentOK /\ AheadOK /\ PlaceOK /\ EntryOK

\* What OthersUntouched says of a step.
OnlyCurrentGrows ==
    (pc = "null" => append') =>
        \A f \in held : size'[f] # size[f] =>
            /\ f = DiskFile(number_disk')
            /\ size'[f] < size[f] =>
                   IF append' THEN faults' # faults ELSE reused'

-----------------------------------------------------------------------------
(* What the operations on disks do.                                        *)

\* Two digits name more than two disks, and no more than there are numbers.
LEMMA TwoDigitsFit ==
    /\ Numbers \in Nat /\ Short \in Nat /\ Base * Base \in Nat
    /\ 4 <= Base * Base /\ Base * Base <= Short /\ Short <= Numbers
<1>1. Base \in Nat /\ Base >= 2
  BY SizesAssumption
<1>2. 2 * 2 <= Base * Base
  <2>1. 2 * Base <= Base * Base
    BY <1>1
  <2> QED
    BY <1>1, <2>1
<1> QED
  BY <1>1, <1>2, SizesAssumption

\* The file of a disk whose number has two digits.
LEMMA NamedFile ==
    ASSUME NEW n \in DiskNumbers, Named(n)
    PROVE  DiskFile(n) = n + 1
BY DEF DiskFile

\* The number behind one that has two digits has not wrapped.
LEMMA NextNumber ==
    ASSUME NEW n \in DiskNumbers
    PROVE  /\ (n + 1) % Numbers \in DiskNumbers
           /\ Named(n) => (n + 1) % Numbers = n + 1
<1>1. n \in Nat /\ Numbers \in Nat /\ Numbers > 0
  BY TwoDigitsFit DEF DiskNumbers
<1>2. (n + 1) % Numbers \in 0..(Numbers - 1)
  BY <1>1
<1>3. ASSUME Named(n) PROVE (n + 1) % Numbers = n + 1
  <2>1. n + 1 < Numbers
    BY <1>1, <1>3, TwoDigitsFit DEF Named
  <2> QED
    BY <1>1, <2>1
<1> QED
  BY <1>2, <1>3 DEF DiskNumbers

\* Going to a disk changes at most its own file and, when an archive is added
\* to, takes something from it only if it could not be opened.
LEMMA GoToDiskEffect ==
    ASSUME SpanInv, NEW n \in DiskNumbers, NEW adding, NEW bytes \in Bytes(n),
           GoToDisk(n, adding, bytes)
    PROVE  /\ stream' = DiskFile(n) /\ stream' \in Files /\ number_disk' = n
           /\ size' \in [Files -> Int] /\ \A f \in Files : size'[f] >= Absent
           /\ faults' \in Nat
           /\ \A f \in Files : f # DiskFile(n) => size'[f] = size[f]
           /\ adding => faults' # faults \/ \A f \in Files : size'[f] >= size[f]
<1> DEFINE file == DiskFile(n)
<1>1. file \in Files /\ size[file] \in Int /\ size[file] >= Absent
  BY DEF Files, SpanInv
<1>2. stream' = file /\ number_disk' = n /\ size' = [size EXCEPT ![file] = bytes]
  BY DEF GoToDisk
<1>3. \/ bytes = (IF adding /\ size[file] # Absent THEN size[file] ELSE 0)
         /\ faults' = faults
      \/ bytes = 0 /\ faults' = faults + 1
  BY DEF GoToDisk, Fault
<1>4. faults \in Nat
  BY DEF SpanInv
<1> HIDE DEF file
<1>5. bytes \in Int /\ bytes >= Absent
  BY <1>1, <1>3 DEF Absent
<1>6. \A f \in Files : size'[f] = IF f = file THEN bytes ELSE size[f]
  BY <1>2 DEF SpanInv
<1>7. \A f \in Files : size[f] \in Int /\ size[f] >= Absent
  BY DEF SpanInv
<1>8. size' \in [Files -> Int]
  BY <1>2, <1>5 DEF SpanInv
<1>9. \A f \in Files : size'[f] >= Absent
  BY <1>5, <1>6, <1>7
<1>10. faults' \in Nat
  BY <1>3, <1>4
<1>11. ASSUME adding, faults' = faults PROVE \A f \in Files : size'[f] >= size[f]
  <2>1. bytes = IF size[file] # Absent THEN size[file] ELSE 0
    BY <1>3, <1>4, <1>11
  <2>2. bytes >= size[file]
    BY <1>1, <2>1 DEF Absent
  <2> QED
    BY <1>6, <1>7, <2>2
<1> QED
  BY <1>1, <1>2, <1>6, <1>8, <1>9, <1>10, <1>11 DEF file

\* What a write does: it adds to the current disk, or does nothing.
Grown ==
    /\ size' \in [Files -> Int] /\ faults' \in Nat
    /\ \A f \in Files : size'[f] >= size[f]
    /\ \A f \in Files : f # DiskFile(number_disk) => size'[f] = size[f]
    /\ held \subseteq held' /\ held' \subseteq Files
    /\ held' \subseteq held \cup {DiskFile(number_disk)}

LEMMA NoWriteEffect == SpanInv /\ UNCHANGED <<size, held, faults>> => Grown
<1> SUFFICES ASSUME SpanInv, UNCHANGED <<size, held, faults>> PROVE Grown
  OBVIOUS
<1>1. \A f \in Files : size[f] \in Int
  BY DEF SpanInv
<1> QED
  BY <1>1 DEF SpanInv, Grown

\* Adding to one file keeps the others and takes nothing away.
LEMMA Added ==
    ASSUME NEW g \in [Files -> Int], NEW x, NEW m \in Nat
    PROVE  LET h == [g EXCEPT ![x] = @ + m]
           IN  /\ h \in [Files -> Int]
               /\ \A f \in Files : h[f] >= g[f] /\ (f # x => h[f] = g[f])
<1> DEFINE h == [g EXCEPT ![x] = @ + m]
<1>1. \A f \in Files : g[f] \in Int
  OBVIOUS
<1>2. \A f \in Files : h[f] = IF f = x THEN g[f] + m ELSE g[f]
  OBVIOUS
<1>3. \A f \in Files : h[f] \in Int /\ h[f] >= g[f]
  BY <1>1, <1>2
<1>4. h = [f \in Files |-> h[f]]
  OBVIOUS
<1> HIDE DEF h
<1>5. h \in [Files -> Int]
  BY <1>3, <1>4
<1> QED
  BY <1>2, <1>3, <1>5 DEF h

LEMMA WriteEffect ==
    ASSUME SpanInv, pc # "null", NEW n \in Nat, WriteBytes(n) \/ WriteFails(n)
    PROVE  Grown
<1>0. faults \in Nat /\ faults' \in Nat
  <2>1. faults' = faults \/ faults' = faults + 1
    BY DEF WriteBytes, WriteFails, Fault
  <2> QED
    BY <2>1 DEF SpanInv
<1>1. CASE UNCHANGED <<size, held>>
  <2>1. \A f \in Files : size[f] \in Int
    BY DEF SpanInv
  <2> QED
    BY <1>0, <1>1, <2>1 DEF SpanInv, Grown
<1>2. ASSUME NEW m \in Nat, OnDisk,
             size' = [size EXCEPT ![stream] = @ + m], held' = held \cup {stream}
      PROVE  Grown
  <2>1. stream = DiskFile(number_disk) /\ stream \in Files
    BY <1>2 DEF SpanInv, CurrentOK, OnDisk
  <2>2. /\ size' \in [Files -> Int]
        /\ \A f \in Files : size'[f] >= size[f] /\ (f # stream => size'[f] = size[f])
    BY <1>2, Added DEF SpanInv
  <2> QED
    BY <1>0, <1>2, <2>1, <2>2 DEF SpanInv, Grown
<1>3. CASE WriteBytes(n)
  BY <1>2, <1>3 DEF WriteBytes
<1>4. CASE WriteFails(n) /\ ~UNCHANGED <<size, held>>
  <2>1. OnDisk /\ n > 1
        /\ size' = [size EXCEPT ![stream] = @ + n - 1]
        /\ held' = held \cup {stream}
    BY <1>4 DEF WriteFails
  <2>2. n - 1 \in Nat
    BY <2>1
  <2>3. \A x \in Int : x + n - 1 = x + (n - 1)
    OBVIOUS
  <2>4. size' = [size EXCEPT ![stream] = @ + (n - 1)]
    BY <2>1, <2>3 DEF SpanInv
  <2> QED
    BY <1>2, <2>1, <2>2, <2>4
<1> QED
  BY <1>1, <1>3, <1>4

\* A step that writes under the same handle, and leaves what the invariant says
\* of the open entry alone or ends it, keeps the invariant.
LEMMA GrownKeeps ==
    ASSUME SpanInv, Grown, pc # "null", pc' # "null",
           UNCHANGED <<stream, number_disk, reused, append, recorded>>,
           write' \in Nat, PlaceOK',
           UNCHANGED <<ci, emptied>> \/ EntryOK',
           in_opened_file_inzip' => in_opened_file_inzip \/ EntryOK'
    PROVE  SpanInv' /\ OnlyCurrentGrows
<1>1. /\ \A f \in Files : size[f] \in Int /\ size'[f] \in Int /\ size[f] >= Absent
      /\ \A f \in Files : size'[f] >= size[f]
  BY DEF SpanInv, Grown
<1>2. \A f \in Files : size'[f] >= Absent
  BY <1>1 DEF Absent
<1>3. CurrentOK'
  BY DEF SpanInv, CurrentOK, OnDisk
<1>4. AheadOK'
  <2> SUFFICES ASSUME ~append, ~reused
               PROVE  Named(number_disk) /\ held' \subseteq 1..(number_disk + 1)
    BY DEF AheadOK
  <2>1. Named(number_disk) /\ held \subseteq 1..(number_disk + 1) /\ number_disk \in DiskNumbers
    BY DEF SpanInv, AheadOK, CurrentOK
  <2>2. DiskFile(number_disk) = number_disk + 1 /\ number_disk \in Nat
    BY <2>1, NamedFile, TwoDigitsFit DEF DiskNumbers
  <2>3. number_disk + 1 \in 1..(number_disk + 1)
    BY <2>2
  <2> QED
    BY <2>1, <2>2, <2>3 DEF Grown
<1>5. EntryOK'
  <2>1. CASE EntryOK'
    BY <2>1
  <2>2. CASE UNCHANGED <<ci, emptied>> /\ (in_opened_file_inzip' => in_opened_file_inzip)
    <3> DEFINE f == DiskFile(ci.disk)
    <3> SUFFICES ASSUME in_opened_file_inzip'
                 PROVE  /\ f \in Files
                        /\ f \notin emptied =>
                               /\ f \in held'
                               /\ ci.offset \in Int /\ size'[f] >= ci.offset + HeaderSize
      BY <2>2 DEF EntryOK
    <3>1. /\ f \in Files
          /\ f \notin emptied =>
                /\ f \in held
                /\ ci.offset \in Int /\ size[f] >= ci.offset + HeaderSize
      BY <2>2 DEF SpanInv, EntryOK
    <3> HIDE DEF f
    <3>2. HeaderSize \in Int
      BY SizesAssumption
    <3>3. f \notin emptied => size'[f] >= ci.offset + HeaderSize
      BY <1>1, <3>1, <3>2
    <3> QED
      BY <3>1, <3>3 DEF Grown
  <2> QED
    BY <2>1, <2>2
<1>6. SpanInv'
  BY <1>2, <1>3, <1>4, <1>5 DEF SpanInv, Grown
<1>7. OnlyCurrentGrows
  <2> SUFFICES ASSUME NEW f \in held, size'[f] # size[f]
               PROVE  f = DiskFile(number_disk) /\ ~(size'[f] < size[f])
    BY DEF OnlyCurrentGrows
  <2>1. f \in Files
    BY DEF SpanInv
  <2> QED
    BY <1>1, <2>1 DEF Grown
<1> QED
  BY <1>6, <1>7

-----------------------------------------------------------------------------
(* The steps.                                                              *)

LEMMA InitSpan == Init => SpanInv
<1> SUFFICES ASSUME Init PROVE SpanInv
  OBVIOUS
<1>1. 0 \in DiskNumbers
  BY TwoDigitsFit DEF DiskNumbers
<1>2. CurrentOK /\ AheadOK /\ PlaceOK /\ EntryOK
  BY <1>1 DEF Init, CurrentOK, AheadOK, PlaceOK, EntryOK
<1>3. size \in [Files -> Int] /\ (\A f \in Files : size[f] >= Absent)
  BY DEF Init, Absent
<1>4. reused \in BOOLEAN
  BY Zenon DEF Init
<1>5. /\ held \subseteq Files /\ stream \in Files \cup {NULL} /\ write \in Nat
      /\ faults \in Nat /\ recorded.disks \in DiskNumbers
  BY <1>1 DEF Init, NoRecord
<1> QED
  BY <1>2, <1>3, <1>4, <1>5 DEF SpanInv

\* The disk a handle starts on.
LEMMA FirstDiskEffect ==
    ASSUME SpanInv, NEW n \in DiskNumbers, NEW known \in DiskNumbers, NEW adding,
           FirstDisk(n, known, adding)
    PROVE  /\ number_disk' \in {n, known} /\ stream' \in Files \cup {NULL}
           /\ OnDisk' => stream' = DiskFile(number_disk')
           /\ size' \in [Files -> Int] /\ \A f \in Files : size'[f] >= Absent
           /\ faults' \in Nat
           /\ adding =>
                \A f \in Files : size'[f] # size[f] =>
                    f = DiskFile(number_disk') /\ (size'[f] < size[f] => faults' # faults)
<1>1. CASE \E bytes \in Bytes(n) : GoToDisk(n, adding, bytes)
  <2>1. PICK bytes \in Bytes(n) : GoToDisk(n, adding, bytes)
    BY <1>1
  <2>2. /\ stream' = DiskFile(n) /\ stream' \in Files /\ number_disk' = n
        /\ size' \in [Files -> Int] /\ \A f \in Files : size'[f] >= Absent
        /\ faults' \in Nat
        /\ \A f \in Files : f # DiskFile(n) => size'[f] = size[f]
        /\ adding => faults' # faults \/ \A f \in Files : size'[f] >= size[f]
    BY <2>1, GoToDiskEffect
  <2>3. \A f \in Files : size[f] \in Int /\ size'[f] \in Int
    BY <2>2 DEF SpanInv
  <2> QED
    BY <2>2, <2>3
<1>2. CASE NoDisk /\ number_disk' = known
  <2>1. stream' = NULL /\ size' = size /\ faults' = faults + 1 /\ faults \in Nat
    BY <1>2 DEF NoDisk, Fault, SpanInv
  <2> QED
    BY <1>2, <2>1 DEF OnDisk, SpanInv
<1> QED
  BY <1>1, <1>2 DEF FirstDisk

LEMMA OpenCreateKeeps == SpanInv /\ OpenCreate => SpanInv' /\ OnlyCurrentGrows
<1> SUFFICES ASSUME SpanInv, OpenCreate PROVE SpanInv' /\ OnlyCurrentGrows
  OBVIOUS
<1>1. FirstDisk(0, 0, FALSE) /\ held' = {} /\ reused' = FALSE /\ append' = FALSE
      /\ pc = "null" /\ pc' = "idle" /\ ~in_opened_file_inzip' /\ write' = write
      /\ recorded' = NoRecord
  BY DEF OpenCreate, Opened
<1>2. 0 \in DiskNumbers /\ Named(0)
  BY TwoDigitsFit DEF DiskNumbers, Named
<1>3. /\ number_disk' = 0 /\ stream' \in Files \cup {NULL}
      /\ OnDisk' => stream' = DiskFile(number_disk')
      /\ size' \in [Files -> Int] /\ \A f \in Files : size'[f] >= Absent
      /\ faults' \in Nat
  BY <1>1, <1>2, FirstDiskEffect
<1>4. CurrentOK' /\ AheadOK' /\ PlaceOK' /\ EntryOK'
  BY <1>1, <1>2, <1>3 DEF CurrentOK, AheadOK, PlaceOK, EntryOK
<1>5. OnlyCurrentGrows
  BY <1>1 DEF OnlyCurrentGrows
<1> QED
  BY <1>1, <1>2, <1>3, <1>4, <1>5 DEF SpanInv, NoRecord

LEMMA OpenAddKeeps == SpanInv /\ OpenAddInZip => SpanInv' /\ OnlyCurrentGrows
<1> SUFFICES ASSUME SpanInv, OpenAddInZip PROVE SpanInv' /\ OnlyCurrentGrows
  OBVIOUS
<1> DEFINE first == IF recorded.disks > 0 THEN recorded.disks - 1 ELSE 0
<1>1. FirstDisk(first, recorded.disks, TRUE) /\ held' = held \ NowEmptied
      /\ reused' = FALSE /\ append' = TRUE
      /\ pc = "null" /\ pc' = "idle" /\ ~in_opened_file_inzip' /\ write' = write
      /\ recorded' = recorded
  BY DEF OpenAddInZip, Opened
<1>2. recorded.disks \in DiskNumbers /\ first \in DiskNumbers
  <2>1. recorded.disks \in DiskNumbers
    BY DEF SpanInv
  <2> DEFINE d == recorded.disks
  <2>2. d \in 0..(Numbers - 1) /\ Numbers \in Nat /\ first = IF d > 0 THEN d - 1 ELSE 0
    BY <2>1, TwoDigitsFit DEF DiskNumbers
  <2> HIDE DEF d, first
  <2>3. first \in 0..(Numbers - 1)
    BY <2>2
  <2> QED
    BY <2>1, <2>3 DEF DiskNumbers
<1> HIDE DEF first
<1>3. /\ number_disk' \in {first, recorded.disks} /\ stream' \in Files \cup {NULL}
      /\ OnDisk' => stream' = DiskFile(number_disk')
      /\ size' \in [Files -> Int] /\ \A f \in Files : size'[f] >= Absent
      /\ faults' \in Nat
      /\ \A f \in Files : size'[f] # size[f] =>
             f = DiskFile(number_disk') /\ (size'[f] < size[f] => faults' # faults)
  BY <1>1, <1>2, FirstDiskEffect
<1>4. CurrentOK' /\ AheadOK' /\ PlaceOK' /\ EntryOK'
  BY <1>1, <1>2, <1>3 DEF CurrentOK, AheadOK, PlaceOK, EntryOK
<1>5. OnlyCurrentGrows
  BY <1>1, <1>3 DEF SpanInv, OnlyCurrentGrows
<1> QED
  BY <1>1, <1>3, <1>4, <1>5 DEF SpanInv

\* Going on to the next disk: in a new archive it has nothing to lose unless its
\* name is cut, and one that is added to keeps it as it is if it can be opened.
LEMMA NextDiskKeeps == SpanInv /\ NextDisk => SpanInv' /\ OnlyCurrentGrows
<1> SUFFICES ASSUME SpanInv, NextDisk PROVE SpanInv' /\ OnlyCurrentGrows
  OBVIOUS
<1> DEFINE n == (number_disk + 1) % Numbers
           file == DiskFile(n)
<1>1. PICK bytes \in Bytes(n) : GoToDisk(n, append, bytes)
  BY DEF NextDisk
<1>2. number_disk \in DiskNumbers /\ n \in DiskNumbers
      /\ (Named(number_disk) => n = number_disk + 1)
  BY NextNumber DEF SpanInv, CurrentOK
<1> HIDE DEF n
<1>3. /\ stream' = file /\ stream' \in Files /\ number_disk' = n
      /\ size' \in [Files -> Int] /\ \A f \in Files : size'[f] >= Absent
      /\ faults' \in Nat
      /\ \A f \in Files : f # file => size'[f] = size[f]
      /\ append => faults' # faults \/ \A f \in Files : size'[f] >= size[f]
  BY <1>1, <1>2, GoToDiskEffect
<1>4. /\ pc = "next" /\ UNCHANGED <<write, append, in_opened_file_inzip, ci, recorded>>
      /\ (pc' = pc /\ back' = back) \/ (pc' = back /\ back' = "none")
      /\ held' = held \ NowEmptied /\ emptied' = emptied \cup NowEmptied
      /\ reused' = (reused \/ ~Named(n))
  BY <1>3 DEF NextDisk, entryVars
<1>5. back \in {"local", "flush"} /\ reused \in BOOLEAN /\ held \subseteq Files
  BY <1>4 DEF SpanInv, PlaceOK
<1>6. \A f \in Files : size[f] \in Int /\ size'[f] \in Int
  BY <1>3 DEF SpanInv
<1>7. reused' \in BOOLEAN
  BY <1>4, Zenon
<1>8. ~reused' => ~reused /\ Named(n)
  BY <1>4, <1>5
<1> HIDE DEF file
<1>9. ASSUME ~append, ~reused'
      PROVE  /\ Named(n) /\ held \subseteq 1..(number_disk + 1)
             /\ n = number_disk + 1 /\ file = n + 1 /\ n \in Nat
             /\ file \notin held
  <2>1. Named(number_disk) /\ held \subseteq 1..(number_disk + 1)
    BY <1>4, <1>8, <1>9 DEF SpanInv, AheadOK
  <2>2. Named(n) /\ n = number_disk + 1 /\ file = n + 1
    BY <1>2, <1>8, <1>9, <2>1, NamedFile DEF file
  <2>3. number_disk \in Nat
    BY <1>2 DEF DiskNumbers
  <2> QED
    BY <2>1, <2>2, <2>3
<1>10. CurrentOK'
  BY <1>2, <1>3 DEF CurrentOK, OnDisk, file
<1>11. AheadOK'
  <2> SUFFICES ASSUME ~append, ~reused' PROVE Named(n) /\ held' \subseteq 1..(n + 1)
    BY <1>3, <1>4 DEF AheadOK
  <2>1. /\ Named(n) /\ held \subseteq 1..(number_disk + 1) /\ n = number_disk + 1
        /\ n \in Nat
    BY <1>9
  <2>2. 1..(number_disk + 1) \subseteq 1..(n + 1)
    BY <2>1
  <2> QED
    BY <1>4, <2>1, <2>2
<1>12. PlaceOK'
  BY <1>4, <1>5 DEF SpanInv, PlaceOK
<1>13. EntryOK'
  <2> DEFINE h == DiskFile(ci.disk)
  <2> SUFFICES ASSUME in_opened_file_inzip
               PROVE  /\ h \in Files
                      /\ h \notin emptied' =>
                            /\ h \in held'
                            /\ ci.offset \in Int /\ size'[h] >= ci.offset + HeaderSize
    BY <1>4 DEF EntryOK
  <2>1. /\ h \in Files
        /\ h \notin emptied =>
              /\ h \in held
              /\ ci.offset \in Int /\ size[h] >= ci.offset + HeaderSize
    BY <1>4 DEF SpanInv, EntryOK
  <2> HIDE DEF h
  <2>2. ASSUME h \notin emptied' PROVE h \notin emptied /\ h \notin NowEmptied
    BY <1>4, <2>2
  <2>3. ASSUME h \notin emptied' PROVE h \in held /\ ~(size'[h] < size[h])
    BY <2>1, <2>2, <2>3 DEF NowEmptied
  <2>4. ASSUME h \notin emptied' PROVE size'[h] >= ci.offset + HeaderSize
    <3>1. HeaderSize \in Int /\ ci.offset \in Int /\ size[h] >= ci.offset + HeaderSize
      BY <2>1, <2>2, <2>4, SizesAssumption
    <3> QED
      BY <1>6, <2>1, <2>3, <2>4, <3>1
  <2> QED
    BY <1>4, <2>1, <2>2, <2>3, <2>4
<1>14. OnlyCurrentGrows
  <2> SUFFICES ASSUME NEW f \in held, size'[f] # size[f]
               PROVE  /\ f = DiskFile(number_disk')
                      /\ size'[f] < size[f] =>
                             IF append' THEN faults' # faults ELSE reused'
    BY DEF OnlyCurrentGrows
  <2>1. f \in Files /\ f = file
    BY <1>3, <1>5
  <2>2. ASSUME size'[f] < size[f], append PROVE faults' # faults
    BY <1>3, <1>6, <2>1, <2>2
  <2>3. ASSUME ~append PROVE reused'
    BY <1>9, <2>1, <2>3
  <2> QED
    BY <1>3, <1>4, <2>1, <2>2, <2>3 DEF file
<1> QED
  BY <1>3, <1>4, <1>5, <1>7, <1>10, <1>11, <1>12, <1>13, <1>14 DEF SpanInv

LEMMA NextDiskFailsKeeps == SpanInv /\ NextDiskFails => SpanInv' /\ OnlyCurrentGrows
<1> SUFFICES ASSUME SpanInv, NextDiskFails PROVE SpanInv' /\ OnlyCurrentGrows
  OBVIOUS
<1>1. /\ pc = "next" /\ stream' = NULL /\ faults' = faults + 1
      /\ UNCHANGED <<size, held, emptied, reused, number_disk, append,
                     in_opened_file_inzip, ci, recorded>>
  BY DEF NextDiskFails, NoDisk, Fault, entryVars, pastVars
<1>2. (pc' \in {"idle", "count"} /\ write' = 0)
      \/ (back # "flush" /\ pc' = back /\ write' = write)
  BY DEF NextDiskFails, FlushFails, Return
<1>3. pc' \in {"idle", "count", "local"} /\ write' \in Nat
      /\ (pc' = "local" => ~in_opened_file_inzip)
  BY <1>1, <1>2 DEF SpanInv, PlaceOK
<1>4. CurrentOK'
  BY <1>1 DEF SpanInv, CurrentOK, OnDisk
<1>5. AheadOK' /\ PlaceOK' /\ EntryOK'
  BY <1>1, <1>3 DEF SpanInv, AheadOK, PlaceOK, EntryOK
<1>6. faults' \in Nat
  BY <1>1 DEF SpanInv
<1> QED
  BY <1>1, <1>3, <1>4, <1>5, <1>6 DEF SpanInv, OnlyCurrentGrows

\* The steps of a call that write to the current disk or do not write at all.
LEMMA CallsKeep ==
    SpanInv /\ ( \/ \E n \in Amounts \cup {0} : CallOpenNewFile(n)
                 \/ \E n \in Amounts : CallWrite(n)
                 \/ \E n \in Amounts \cup {0} : CallCloseFile(n)
                 \/ \E n \in Amounts \cup {0} : CallClose(n)
                 \/ CheckRoom \/ LeaveFullDisk \/ CountEntry )
        => SpanInv' /\ OnlyCurrentGrows
<1> SUFFICES ASSUME SpanInv,
                    \/ \E n \in Amounts \cup {0} : CallOpenNewFile(n)
                    \/ \E n \in Amounts : CallWrite(n)
                    \/ \E n \in Amounts \cup {0} : CallCloseFile(n)
                    \/ \E n \in Amounts \cup {0} : CallClose(n)
                    \/ CheckRoom \/ LeaveFullDisk \/ CountEntry
             PROVE  SpanInv' /\ OnlyCurrentGrows
  OBVIOUS
<1> USE DEF diskVars, entryVars, pastVars
<1>1. UNCHANGED <<size, held, faults, stream, number_disk, emptied, reused, append,
                  recorded, ci>>
      /\ (in_opened_file_inzip' => in_opened_file_inzip)
  BY DEF CallOpenNewFile, CallWrite, CallCloseFile, CallClose, CheckRoom,
         LeaveFullDisk, CountEntry
<1>2. pc # "null" /\ pc' # "null"
  BY DEF CallOpenNewFile, CallWrite, CallCloseFile, CallClose, CheckRoom,
         LeaveFullDisk, CountEntry, CloseFile, Return
<1>3. write' \in Nat
  BY SizesAssumption DEF SpanInv, CallOpenNewFile, CallWrite, CallCloseFile,
         CallClose, CheckRoom, LeaveFullDisk, CountEntry, CloseFile
<1>4. PlaceOK'
  BY DEF SpanInv, PlaceOK, CallOpenNewFile, CallWrite, CallCloseFile, CallClose,
         CheckRoom, LeaveFullDisk, CountEntry, CloseFile, Return
<1> QED
  BY <1>1, <1>2, <1>3, <1>4, NoWriteEffect, GrownKeeps

LEMMA WriteMarkerKeeps == SpanInv /\ WriteMarker => SpanInv' /\ OnlyCurrentGrows
<1> SUFFICES ASSUME SpanInv, WriteMarker PROVE SpanInv' /\ OnlyCurrentGrows
  OBVIOUS
<1>1. /\ pc = "marker" /\ pc' = "room"
      /\ UNCHANGED <<stream, number_disk, emptied, reused, append, recorded, write,
                     in_opened_file_inzip, ci>>
  BY DEF WriteMarker, entryVars, boundVars
<1>2. Grown
  BY <1>1, NoWriteEffect, WriteEffect, SizesAssumption DEF WriteMarker
<1>3. PlaceOK' /\ write' \in Nat
  BY <1>1 DEF SpanInv, PlaceOK
<1> QED
  BY <1>1, <1>2, <1>3, GrownKeeps

\* The header is written where the disk ended, which is noted.
LEMMA WriteLocalHeaderKeeps == SpanInv /\ WriteLocalHeader => SpanInv' /\ OnlyCurrentGrows
<1> SUFFICES ASSUME SpanInv, WriteLocalHeader PROVE SpanInv' /\ OnlyCurrentGrows
  OBVIOUS
<1>1. /\ pc = "local" /\ pc' = "idle" /\ ~in_opened_file_inzip
      /\ UNCHANGED <<stream, number_disk, reused, append, recorded, write>>
  BY DEF WriteLocalHeader, Return, SpanInv, PlaceOK
<1>2. Grown
  BY <1>1, NoWriteEffect, WriteEffect, SizesAssumption DEF WriteLocalHeader, pastVars
<1>3. PlaceOK' /\ write' \in Nat
  BY <1>1 DEF SpanInv, PlaceOK
<1>4. EntryOK'
  <2>1. CASE ~in_opened_file_inzip'
    BY <2>1 DEF EntryOK
  <2>2. CASE in_opened_file_inzip'
    <3>1. /\ OnDisk /\ WriteBytes(HeaderSize)
          /\ ci' = [disk |-> number_disk, offset |-> size[stream]]
      BY <1>1, <2>2 DEF WriteLocalHeader
    <3>2. stream = DiskFile(number_disk) /\ stream \in Files /\ size[stream] \in Int
      BY <1>1, <3>1 DEF SpanInv, CurrentOK, OnDisk
    <3>3. size'[stream] = size[stream] + HeaderSize /\ stream \in held'
      BY <3>1, <3>2 DEF WriteBytes, SpanInv
    <3>4. ci'.disk = number_disk /\ ci'.offset = size[stream]
      BY <3>1
    <3>5. HeaderSize \in Int
      BY SizesAssumption
    <3>6. size'[stream] >= size[stream] + HeaderSize
      BY <3>2, <3>3, <3>5
    <3> QED
      BY <3>2, <3>3, <3>4, <3>6 DEF EntryOK
  <2> QED
    BY <2>1, <2>2
<1> QED
  BY <1>1, <1>2, <1>3, <1>4, GrownKeeps

LEMMA FlushChunkKeeps == SpanInv /\ FlushChunk => SpanInv' /\ OnlyCurrentGrows
<1> SUFFICES ASSUME SpanInv, FlushChunk PROVE SpanInv' /\ OnlyCurrentGrows
  OBVIOUS
<1> DEFINE n == IF SizeAvailable < write THEN SizeAvailable ELSE write
<1>1. /\ pc = "flush" /\ SizeAvailable > 0
      /\ UNCHANGED <<stream, number_disk, emptied, reused, append, recorded,
                     in_opened_file_inzip, ci>>
      /\ (WriteBytes(n) /\ write' = write - n) \/ (WriteFails(n) /\ write' = 0)
  BY DEF FlushChunk, entryVars
<1>2. pc' \in {"flush", "idle", "descriptor", "count"}
  BY <1>1 DEF FlushChunk, Flushed, FlushFails, Return
<1>3. SizeAvailable \in Int /\ write \in Nat
  <2>1. CASE OnDisk
    <3>1. size[stream] \in Int
      BY <2>1 DEF OnDisk, SpanInv
    <3> QED
      BY <2>1, <3>1, SizesAssumption DEF SizeAvailable, RoomOf, SpanInv
  <2> QED
    BY <2>1, SizesAssumption DEF SizeAvailable, SpanInv
<1>4. n \in Nat /\ n <= write
  BY <1>1, <1>3
<1> HIDE DEF n
<1>5. Grown
  BY <1>1, <1>4, WriteEffect
<1>6. write' \in Nat
  BY <1>1, <1>3, <1>4
<1>7. PlaceOK'
  BY <1>2 DEF PlaceOK
<1> QED
  BY <1>1, <1>2, <1>5, <1>6, <1>7, GrownKeeps

LEMMA WriteDescriptorKeeps == SpanInv /\ WriteDescriptor => SpanInv' /\ OnlyCurrentGrows
<1> SUFFICES ASSUME SpanInv, WriteDescriptor PROVE SpanInv' /\ OnlyCurrentGrows
  OBVIOUS
<1>1. /\ pc = "descriptor" /\ pc' = "count"
      /\ UNCHANGED <<stream, number_disk, emptied, reused, append, recorded, write,
                     in_opened_file_inzip, ci>>
  BY DEF WriteDescriptor, entryVars
<1>2. Grown
  BY <1>1, WriteEffect, SizesAssumption DEF WriteDescriptor
<1>3. PlaceOK' /\ write' \in Nat
  BY <1>1 DEF SpanInv, PlaceOK
<1> QED
  BY <1>1, <1>2, <1>3, GrownKeeps

LEMMA CloseKeeps == SpanInv /\ Close => SpanInv' /\ OnlyCurrentGrows
<1> SUFFICES ASSUME SpanInv, Close PROVE SpanInv' /\ OnlyCurrentGrows
  OBVIOUS
<1>1. /\ pc' = "null" /\ stream' = NULL
      /\ UNCHANGED <<size, number_disk, held, emptied, reused, append, write>>
      /\ recorded' = recorded \/ recorded'.disks = (number_disk + 1) % Short
      /\ faults' = faults \/ faults' = faults + 1
  BY DEF Close, entryVars, pastVars, Fault
<1>2. CurrentOK' /\ AheadOK' /\ PlaceOK' /\ EntryOK'
  BY <1>1 DEF SpanInv, CurrentOK, AheadOK, PlaceOK, EntryOK
<1>3. recorded'.disks \in DiskNumbers
  <2> DEFINE m == (number_disk + 1) % Short
  <2>1. number_disk + 1 \in Nat /\ Short \in Nat /\ Short > 0 /\ Short <= Numbers
        /\ Numbers \in Nat
    BY TwoDigitsFit DEF SpanInv, CurrentOK, DiskNumbers
  <2>2. m \in 0..(Short - 1)
    BY <2>1
  <2> HIDE DEF m
  <2>3. m \in DiskNumbers
    BY <2>1, <2>2 DEF DiskNumbers
  <2> QED
    BY <1>1, <2>3 DEF SpanInv, m
<1>4. faults' \in Nat
  BY <1>1 DEF SpanInv
<1> QED
  BY <1>1, <1>2, <1>3, <1>4 DEF SpanInv, OnlyCurrentGrows

LEMMA NextSpan == SpanInv /\ [Next]_vars => SpanInv' /\ [OnlyCurrentGrows]_vars
<1> SUFFICES ASSUME SpanInv, [Next]_vars PROVE SpanInv' /\ [OnlyCurrentGrows]_vars
  OBVIOUS
<1>1. CASE Finished \/ UNCHANGED vars
  <2>1. UNCHANGED vars
    BY <1>1 DEF Finished
  <2>2. SpanInv'
    BY <2>1 DEF vars, diskVars, entryVars, callVars, pastVars, SpanInv, CurrentOK, AheadOK,
                PlaceOK, EntryOK, OnDisk
  <2> QED
    BY <2>1, <2>2
<1>2. CASE Next /\ ~Finished
  BY <1>2, OpenCreateKeeps, OpenAddKeeps, NextDiskKeeps, NextDiskFailsKeeps, CallsKeep,
     WriteMarkerKeeps, WriteLocalHeaderKeeps, FlushChunkKeeps, WriteDescriptorKeeps,
     CloseKeeps DEF Next
<1> QED
  BY <1>1, <1>2

-----------------------------------------------------------------------------

\* While a handle works on an archive, what it has in the file of a disk is not
\* touched but at the end of the current disk, and is lost only with a disk that
\* cannot be opened when the archive is added to, or with a name that is cut
\* when it is new; neither puts another disk at risk.
THEOREM DisksKept == Spec => OthersUntouched
<1>1. OthersUntouched <=> [][OnlyCurrentGrows]_vars
  BY PTL DEF OthersUntouched, OnlyCurrentGrows
<1> QED
  BY InitSpan, NextSpan, <1>1, PTL DEF Spec

\* The local header of the open entry is where its record says it is, unless
\* its own disk was emptied.
THEOREM HeaderFound == Spec => []HeaderWhereRecorded
<1>1. SpanInv => HeaderWhereRecorded
  BY DEF SpanInv, EntryOK, HeaderWhereRecorded
<1> QED
  BY InitSpan, NextSpan, <1>1, PTL DEF Spec
=================================================================================
