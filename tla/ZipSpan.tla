-------------------------------- MODULE ZipSpan --------------------------------
(***************************************************************************)
(* The zip writer on an archive that is spanned over disks (disk_size is   *)
(* not 0): which disk every header and block goes to.  Only sizes matter   *)
(* here; what is written is the subject of ZipWriter.                      *)
(*                                                                         *)
(* Disk n is the file named after the archive with extension .z and n + 1  *)
(* in two digits; the central directory goes to the archive's own file.    *)
(* fopendisk64_file_func writes that name over the old extension and cuts  *)
(* it to the same length: of a longer number the first two digits are left *)
(* (HSDioapi.c:171).  Nothing bounds the number of disks: it is a uint32_t *)
(* that wraps.  Digits are counted in base Base.                           *)
(***************************************************************************)
EXTENDS Integers

CONSTANTS
    DiskSize,   \* disk_size
    Wrap,       \* 2^64, the modulus of an offset
    Base,       \* the base of a disk's number in its name, 10
    Numbers,    \* 2^32, the modulus of a disk's number
    Short,      \* 2^16, the modulus of the number of disks in an end record
    HeaderSize, \* the size of a local header and its name
    DescSize,   \* the size of a data descriptor
    MarkerSize, \* the size of DISKHEADERMAGIC
    Amounts,    \* bound: how much data a flush has to write
    MaxEntries, \* bound: how many entries are opened
    MaxFlushes, \* bound: how many flushes an entry has
    MaxFaults,  \* bound: how many operations of the file system fail
    MaxOpens    \* bound: how often the archive is opened

ASSUME SizesAssumption ==
    /\ DiskSize \in Nat \ {0} /\ Wrap \in Nat /\ DiskSize < Wrap
    /\ Base \in Nat \ {0, 1}
    /\ Numbers \in Nat /\ Short \in Nat \ {0}
    /\ Base * Base <= Short /\ Short <= Numbers
    /\ HeaderSize \in Nat /\ DescSize \in Nat /\ MarkerSize \in Nat
    /\ Amounts \subseteq Nat \ {0}

ASSUME BoundsAssumption ==
    /\ MaxEntries \in Nat /\ MaxFlushes \in Nat
    /\ MaxFaults \in Nat /\ MaxOpens \in Nat

VARIABLES
    size,               \* the size of each disk's file; Absent without one
    stream,             \* filestream: a disk's file, or NULL
    pc, call, err,      \* where the call in progress is, and its err
    back,               \* where zipGoToNextDisk returns to
    append,             \* the handle was opened to add to an archive
    number_disk,
    number_entry,
    in_opened_file_inzip,
    ci,                 \* the disk and offset of the entry's local header
    write,              \* what the flush in progress has still to write
    recorded,           \* the archive's end record: its disks and entries
    held,               \* history: the files the archive has something in
    emptied,            \* history: those emptied since the last local header
    reused,             \* history: the handle went to a disk with a cut name
    faults, opens, entries, flushes \* history, for the bounds

diskVars  == <<size, stream, number_disk>>
entryVars == <<number_entry, in_opened_file_inzip, ci>>
callVars  == <<pc, call, err, back, write>>
boundVars == <<opens, entries, flushes>>
pastVars  == <<held, emptied, reused>>
vars == <<diskVars, entryVars, callVars, recorded, append, pastVars, faults,
          boundVars>>

Absent == -1
NULL == -1
NoRecord == [disks |-> 0, entries |-> 0]
DiskNumbers == 0..(Numbers - 1)

\* The first two digits of a number.
TwoDigits[m \in Nat] == IF m < Base * Base THEN m ELSE TwoDigits[m \div Base]

\* The file of a disk, by the number in its name: the disk's own, or one that
\* was cut or had wrapped to 0.
Named(n) == n + 1 < Base * Base
DiskFile(n) == IF Named(n) THEN n + 1 ELSE TwoDigits[(n + 1) % Numbers]
Files == {DiskFile(n) : n \in DiskNumbers}

Init ==
    /\ size = [f \in Files |-> Absent]
    /\ stream = NULL
    /\ pc = "null" /\ call = "none" /\ err = "ok" /\ back = "none"
    /\ write = 0
    /\ append = FALSE
    /\ number_disk = 0
    /\ number_entry = 0 /\ in_opened_file_inzip = FALSE
    /\ ci = [disk |-> 0, offset |-> 0]
    /\ recorded = NoRecord
    /\ held = {} /\ emptied = {} /\ reused = FALSE
    /\ faults = 0 /\ opens = 0 /\ entries = 0 /\ flushes = 0

-----------------------------------------------------------------------------
(* The disks.                                                              *)

Fault == faults < MaxFaults /\ faults' = faults + 1

OnDisk == stream # NULL

\* The room on the current disk, an unsigned number: a disk that is already
\* too large has nearly 2^64 bytes left.  The position of a NULL stream is
\* UINT64_MAX.
RoomOf(bytes) == (DiskSize - bytes) % Wrap
SizeAvailable == IF OnDisk THEN RoomOf(size[stream]) ELSE DiskSize + 1

\* Mutant: adding creates the disk it goes to.
GoToDisk_Creates(n, adding, bytes) ==
    LET f == DiskFile(n) IN
    /\ bytes = 0 /\ UNCHANGED faults
    /\ size' = [size EXCEPT ![f] = bytes]
    /\ stream' = f
    /\ number_disk' = n

\* zipGoToSpecificDisk: the stream is the file of disk n, which has the bytes
\* given.  One that exists is left as it is when the archive is added to, and
\* emptied otherwise; one that is missing is created.  Adding also tries to
\* create the disk that exists and could not be opened, which empties it.
GoToDisk(n, adding, bytes) ==
    LET f     == DiskFile(n)
        there == size[f] # Absent
    IN
    /\ \/ bytes = (IF adding /\ there THEN size[f] ELSE 0) /\ UNCHANGED faults
       \/ bytes = 0 /\ adding /\ there /\ Fault
    /\ size' = [size EXCEPT ![f] = bytes]
    /\ stream' = f
    /\ number_disk' = n

\* The disk can be neither opened nor created.
NoDisk ==
    /\ Fault
    /\ stream' = NULL
    /\ UNCHANGED size

NowEmptied == {f \in held : size'[f] < size[f]}

\* What the file of a disk may have when it is opened.
Bytes(n) == {0, size[DiskFile(n)]}

\* n bytes reach the current disk, or do not.
WriteBytes(n) ==
    /\ OnDisk
    /\ size' = [size EXCEPT ![stream] = @ + n]
    /\ held' = held \cup {stream}
    /\ UNCHANGED faults

WriteFails(n) ==
    /\ IF OnDisk THEN Fault ELSE UNCHANGED faults
    /\ \/ UNCHANGED <<size, held>>
       \/ /\ OnDisk /\ n > 1
          /\ size' = [size EXCEPT ![stream] = @ + n - 1]
          /\ held' = held \cup {stream}

Return == pc' = "idle" /\ call' = "none" /\ err' = "ok"

\* An entry is closed with n bytes in the buffer.
CloseFile(n) ==
    /\ pc' = IF n > 0 THEN "flush" ELSE "descriptor"
    /\ write' = n

\* What follows a flush, by the call it is a part of.
Flushed ==
    IF call = "write" THEN Return
    ELSE pc' = "descriptor" /\ UNCHANGED <<call, err>>

FlushFails ==
    IF call = "write" THEN Return
    ELSE pc' = "count" /\ err' = "error" /\ UNCHANGED call

-----------------------------------------------------------------------------
(* zipOpen4, and zipGoToFirstDisk at its end, whose result is ignored.     *)

\* known is the number of the disk as the end record has it, which stays
\* when there is no disk.
FirstDisk(n, known, adding) ==
    \/ \E bytes \in Bytes(n) : GoToDisk(n, adding, bytes)
    \/ NoDisk /\ number_disk' = known

Opened ==
    /\ pc = "null"
    /\ opens < MaxOpens
    /\ opens' = opens + 1
    /\ pc' = "idle"
    /\ in_opened_file_inzip' = FALSE
    /\ UNCHANGED <<call, err, back, write, ci, entries, flushes>>

\* A new archive empties the file of an old one, but not its disks.
OpenCreate ==
    /\ Opened
    /\ FirstDisk(0, 0, FALSE)
    /\ append' = FALSE
    /\ number_entry' = 0
    /\ recorded' = NoRecord
    /\ held' = {} /\ emptied' = {} /\ reused' = FALSE

OpenAddInZip ==
    /\ Opened
    /\ FirstDisk(IF recorded.disks > 0 THEN recorded.disks - 1 ELSE 0,
                 recorded.disks, TRUE)
    /\ append' = TRUE
    /\ number_entry' = recorded.entries
    /\ held' = held \ NowEmptied /\ emptied' = {} /\ reused' = FALSE
    /\ UNCHANGED recorded

-----------------------------------------------------------------------------
(* zipGoToNextDisk.                                                        *)

\* Mutant: the number does not advance.
NextDisk_SameDisk ==
    /\ pc = "next"
    /\ \E bytes \in Bytes(number_disk) :
        /\ GoToDisk(number_disk, append, bytes)
        /\ IF RoomOf(bytes) = 0
           THEN UNCHANGED <<pc, back>>
           ELSE pc' = back /\ back' = "none"
    /\ held' = held \ NowEmptied /\ emptied' = emptied \cup NowEmptied
    /\ reused' = (reused \/ ~Named(number_disk'))
    /\ UNCHANGED <<err, call, write, append, entryVars, recorded, boundVars>>

\* The next disk is opened, and the one after it, until one has room.
NextDisk ==
    /\ pc = "next"
    /\ LET n == (number_disk + 1) % Numbers
       IN  \E bytes \in Bytes(n) :
            /\ GoToDisk(n, append, bytes)
            /\ IF RoomOf(bytes) = 0
               THEN UNCHANGED <<pc, back>>
               ELSE pc' = back /\ back' = "none"
    /\ held' = held \ NowEmptied /\ emptied' = emptied \cup NowEmptied
    /\ reused' = (reused \/ ~Named(number_disk'))
    /\ UNCHANGED <<err, call, write, append, entryVars, recorded, boundVars>>

\* Without a disk zipFlushWriteBuffer gives up; zipOpenNewFileInZip5 goes on.
NextDiskFails ==
    /\ pc = "next"
    /\ NoDisk
    /\ back' = "none"
    /\ IF back = "flush" THEN FlushFails /\ write' = 0
       ELSE pc' = back /\ UNCHANGED <<call, err, write>>
    /\ UNCHANGED <<number_disk, append, entryVars, recorded, pastVars,
                   boundVars>>

-----------------------------------------------------------------------------
(* zipOpenNewFileInZip5.                                                   *)

CallOpenNewFile(n) ==
    /\ pc = "idle"
    /\ entries < MaxEntries
    /\ entries' = entries + 1 /\ flushes' = 0
    /\ call' = "open"
    /\ IF in_opened_file_inzip THEN CloseFile(n)
       ELSE n = 0 /\ pc' = "marker" /\ UNCHANGED write
    /\ UNCHANGED <<diskVars, entryVars, err, back, recorded, append, pastVars,
                   faults, opens>>

\* The first disk starts with a marker.
WriteMarker ==
    /\ pc = "marker"
    /\ IF number_disk = 0 /\ number_entry = 0
       THEN \/ WriteBytes(MarkerSize) /\ UNCHANGED err
            \/ WriteFails(MarkerSize) /\ err' = "error"
       ELSE UNCHANGED <<size, held, faults, err>>
    /\ pc' = "room"
    /\ UNCHANGED <<stream, number_disk, entryVars, call, back, write, recorded,
                   append, emptied, reused, boundVars>>

CheckRoom ==
    /\ pc = "room"
    /\ IF SizeAvailable < HeaderSize
       THEN pc' = "next" /\ back' = "local"
       ELSE pc' = "local" /\ UNCHANGED back
    /\ UNCHANGED <<diskVars, entryVars, err, call, write, recorded, append,
                   pastVars, faults, boundVars>>

\* Mutant: the position is read behind the header.
WriteLocalHeader_NotesAfter ==
    /\ pc = "local"
    /\ IF err = "ok" /\ OnDisk
       THEN /\ \/ WriteBytes(HeaderSize) /\ in_opened_file_inzip' = TRUE
               \/ WriteFails(HeaderSize) /\ UNCHANGED in_opened_file_inzip
            /\ ci' = [disk |-> number_disk, offset |-> size'[stream]]
            /\ emptied' = {}
       ELSE UNCHANGED <<size, pastVars, faults, ci, in_opened_file_inzip>>
    /\ Return
    /\ UNCHANGED <<stream, number_disk, number_entry, back, write, recorded,
                   append, reused, boundVars>>

WriteLocalHeader ==
    /\ pc = "local"
    /\ IF err = "ok" /\ OnDisk
       THEN /\ ci' = [disk |-> number_disk, offset |-> size[stream]]
            /\ emptied' = {}
            /\ \/ WriteBytes(HeaderSize) /\ in_opened_file_inzip' = TRUE
               \/ WriteFails(HeaderSize) /\ UNCHANGED in_opened_file_inzip
       ELSE UNCHANGED <<size, pastVars, faults, ci, in_opened_file_inzip>>
    /\ Return
    /\ UNCHANGED <<stream, number_disk, number_entry, back, write, recorded,
                   append, reused, boundVars>>

-----------------------------------------------------------------------------
(* zipFlushWriteBuffer, of zipWriteInFileInZip when the buffer is full.    *)

CallWrite(n) ==
    /\ pc = "idle"
    /\ in_opened_file_inzip
    /\ flushes < MaxFlushes
    /\ flushes' = flushes + 1
    /\ call' = "write" /\ pc' = "flush" /\ write' = n
    /\ UNCHANGED <<diskVars, entryVars, err, back, recorded, append, pastVars,
                   faults, opens, entries>>

\* As much as the disk has room for.
FlushChunk ==
    /\ pc = "flush"
    /\ SizeAvailable > 0
    /\ LET n == IF SizeAvailable < write THEN SizeAvailable ELSE write
       IN  \/ /\ WriteBytes(n)
              /\ write' = write - n
              /\ IF write > n THEN UNCHANGED <<pc, call, err>> ELSE Flushed
           \/ /\ WriteFails(n)
              /\ write' = 0
              /\ FlushFails
    /\ UNCHANGED <<stream, number_disk, entryVars, back, recorded, append,
                   emptied, reused, boundVars>>

\* A full disk is left, and nothing is written in this turn of the loop, for
\* size_available is still that of the old disk.
LeaveFullDisk ==
    /\ pc = "flush"
    /\ SizeAvailable = 0
    /\ pc' = "next" /\ back' = "flush"
    /\ UNCHANGED <<diskVars, entryVars, err, call, write, recorded, append,
                   pastVars, faults, boundVars>>

-----------------------------------------------------------------------------
(* zipCloseFileInZipRaw64 and zipClose2_64.                                *)

CallCloseFile(n) ==
    /\ pc = "idle"
    /\ in_opened_file_inzip
    /\ call' = "closeFile"
    /\ CloseFile(n)
    /\ UNCHANGED <<diskVars, entryVars, err, back, recorded, append, pastVars,
                   faults, boundVars>>

\* The data descriptor goes to the current disk, whatever room there is.
WriteDescriptor ==
    /\ pc = "descriptor"
    /\ \/ WriteBytes(DescSize) /\ UNCHANGED err
       \/ WriteFails(DescSize) /\ err' = "error"
    /\ pc' = "count"
    /\ UNCHANGED <<stream, number_disk, entryVars, call, back, write, recorded,
                   append, emptied, reused, boundVars>>

CountEntry ==
    /\ pc = "count"
    /\ number_entry' = number_entry + 1
    /\ in_opened_file_inzip' = FALSE
    /\ CASE call = "open" /\ err = "ok" -> pc' = "marker" /\ UNCHANGED <<call, err>>
         [] call = "close" -> pc' = "end" /\ UNCHANGED <<call, err>>
         [] OTHER -> Return
    /\ UNCHANGED <<diskVars, ci, back, write, recorded, append, pastVars,
                   faults, boundVars>>

CallClose(n) ==
    /\ pc = "idle"
    /\ call' = "close"
    /\ IF in_opened_file_inzip THEN CloseFile(n)
       ELSE n = 0 /\ pc' = "end" /\ UNCHANGED write
    /\ UNCHANGED <<diskVars, entryVars, err, back, recorded, append, pastVars,
                   faults, boundVars>>

\* The current disk is closed, which fails without one and may fail anyway;
\* then the archive's own file gets the directory and the number of disks.
Close ==
    /\ pc = "end"
    /\ stream' = NULL
    /\ \/ /\ err = "ok" /\ OnDisk
          /\ recorded' = [disks |-> (number_disk + 1) % Short, entries |-> number_entry]
          /\ UNCHANGED faults
       \/ /\ IF err = "ok" /\ OnDisk THEN Fault ELSE UNCHANGED faults
          /\ UNCHANGED recorded
    /\ pc' = "null" /\ call' = "none" /\ err' = "ok"
    /\ UNCHANGED <<size, number_disk, entryVars, back, write, append, pastVars,
                   boundVars>>

Finished == pc = "null" /\ opens = MaxOpens /\ UNCHANGED vars

Next ==
    \/ OpenCreate
    \/ OpenAddInZip
    \/ NextDisk
    \/ NextDiskFails
    \/ \E n \in Amounts \cup {0} : CallOpenNewFile(n)
    \/ WriteMarker
    \/ CheckRoom
    \/ WriteLocalHeader
    \/ \E n \in Amounts : CallWrite(n)
    \/ FlushChunk
    \/ LeaveFullDisk
    \/ \E n \in Amounts \cup {0} : CallCloseFile(n)
    \/ WriteDescriptor
    \/ CountEntry
    \/ \E n \in Amounts \cup {0} : CallClose(n)
    \/ Close
    \/ Finished

Spec == Init /\ [][Next]_vars

\* The thread of the caller keeps running a call it has made, without counting on
\* an operation that fails.
Steps ==
    \/ NextDisk \/ NextDiskFails \/ WriteMarker \/ CheckRoom
    \/ WriteLocalHeader \/ FlushChunk \/ LeaveFullDisk \/ WriteDescriptor
    \/ CountEntry \/ Close

FairSpec == Spec /\ WF_vars(Steps /\ UNCHANGED faults)

-----------------------------------------------------------------------------
(* Properties.                                                             *)

\* What an archive has in the file of a disk stays there while a handle works
\* on it: only the file of the current disk changes, and it only grows, but for
\* two ways to lose what is in it.  A disk that is there and cannot be opened is
\* created anew when the archive is added to (lines 465-466, 490-491), and a new
\* archive of more disks than two digits can name comes back to its own first
\* ones (HSDioapi.c:171).  After either, the other disks are as safe as before.
OthersUntouched ==
    [][ (pc = "null" => append') =>
        \A f \in held : size'[f] # size[f] =>
            /\ f = DiskFile(number_disk')
            /\ size'[f] < size[f] =>
                   IF append' THEN faults' # faults ELSE reused' ]_vars

\* The local header of the open entry is where its record says it is, on one
\* disk (lines 965-990), unless that very disk was emptied since, in one of the
\* two ways that OthersUntouched names.
HeaderWhereRecorded ==
    in_opened_file_inzip /\ pc # "null" /\ DiskFile(ci.disk) \notin emptied =>
        size[DiskFile(ci.disk)] >= ci.offset + HeaderSize

\* Every disk that a number can name is there and full to the byte.
NoRoomAnywhere == append /\ \A f \in Files : RoomOf(size[f]) = 0

\* Every call returns, or comes to an archive that is added to and of which
\* every disk that has a name is full: each turn of the loops of zipGoToNextDisk
\* and zipFlushWriteBuffer goes to another disk or writes something (lines 487,
\* 1261).  Then the loop at lines 487-500 opens one full disk after another for
\* ever; and before, it has to try the numbers that are cut to a full disk, all
\* of those behind 99 up to the one that wraps to .z00.
CallsReturn ==
    pc \notin {"idle", "null"} ~> pc \in {"idle", "null"} \/ NoRoomAnywhere
=============================================================================
