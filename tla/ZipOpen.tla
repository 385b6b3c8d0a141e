-------------------------------- MODULE ZipOpen --------------------------------
(***************************************************************************)
(* zipOpen4 step by step: the search for the end of the central directory  *)
(* in windows read from the back, the fields of the records read byte by   *)
(* byte, the comment, the directory copied block by block, and what is     *)
(* released when a step fails.  ZipWriter has the result of it, in one     *)
(* step.                                                                   *)
(*                                                                         *)
(* Positions and sizes count bytes of a small file, of which a record      *)
(* keeps what is read of it.  A byte has Byte values, a short has Short    *)
(* bytes, a long Long bytes and an offset of 64 bits twice as many.        *)
(***************************************************************************)
EXTENDS Integers, Sequences, FiniteSetsExt

CONSTANTS
    Files,      \* bound: the files there may be
    Window,     \* BUFREADCOMMENT
    MaxBack,    \* UINT16_MAX, how far back the search goes
    BlockSize,  \* SIZEDATA_INDATABLOCK
    Byte, Short, Long,
    EndSize,    \* the size of an end record
    End64Size,  \* the size of what is read of a zip64 end record
    MaxFaults   \* bound: how many operations fail

Max16 == Byte ^ Short - 1
Max32 == Byte ^ Long - 1
Max64 == Byte ^ (2 * Long) - 1

\* What is read at an end record, or at the start of a file without one:
\* have is the number of bytes of the fields that the file still has.
Records == [entriesOnDisk : Nat, entries : Nat, size : Nat, offset : Nat,
            comment : Nat, have : Nat]

Fields == <<"entriesOnDisk", "entries", "size", "offset", "comment">>
Widths == <<Short, Short, Long, Long, Short>>

\* What is left of a value after i bytes of it, the lowest first.
Shifts(x, len) ==
    LET rest[i \in 0..len] == IF i = 0 THEN x ELSE rest[i - 1] \div Byte
    IN  rest

Fits(x, len) == Shifts(x, len)[len] = 0

ASSUME SizesAssumption ==
    /\ Window \in Nat \ {0} /\ MaxBack \in Nat /\ BlockSize \in Nat \ {0}
    /\ Byte \in Nat \ {0, 1} /\ Short \in Nat \ {0} /\ Long \in Nat \ {0}
    /\ EndSize \in Nat /\ End64Size \in Nat /\ MaxFaults \in Nat
    /\ Max16 \in Nat /\ Max32 \in Nat /\ Max64 \in Nat /\ Max32 <= Max64

\* ends are the places of the magic of an end record; record is what is read
\* there and at 0; locator leads from an end record to an offset, or to -1;
\* ends64 are the zip64 end records.
ASSUME FilesAssumption == \A f \in Files :
    /\ f.size \in 0..Max64
    /\ f.ends \subseteq 0..(f.size - 4)
    /\ f.record \in [f.ends \cup {0} -> Records]
    /\ \A p \in f.ends \cup {0}, i \in 1..5 : Fits(f.record[p][Fields[i]], Widths[i])
    /\ f.locator \in [f.ends \cup {0} -> Nat \cup {-1}]
    /\ \A e \in f.ends64 : e.at \in 0..f.size /\ e.size \in Nat /\ e.offset \in Nat

VARIABLES
    file,        \* the file
    narrow,      \* the caller's functions have 32-bit offsets
    append,      \* how the archive is opened
    spanned,     \* disk_size is not 0
    pc, err,
    owned,       \* what has been opened or allocated and not released
    at, lastOp,  \* the position of the stream, and what was done to it last
    back_read,
    central_pos,
    endPos,      \* history: what the search found
    dir,         \* the fields read
    before,      \* byte_before_the_zipfile
    todo,        \* size_central_dir_to_read
    central_dir, \* the blocks of the list, of bytes known by their place
    comment,     \* where the global comment was read, or -1
    faults       \* history: how many operations failed

streamVars == <<at, lastOp>>
dirVars    == <<dir, before, todo, central_dir, comment>>
searchVars == <<back_read, central_pos, endPos>>
argVars    == <<narrow, append, spanned>>
vars == <<file, argVars, pc, err, owned, streamVars, searchVars, dirVars, faults>>

NoDir   == [entriesOnDisk |-> 0, entries |-> 0, size |-> 0, offset |-> 0,
            comment |-> 0]
NoFile  == [size |-> 0, ends |-> {}, record |-> [p \in {0} |-> [f \in
            {"entriesOnDisk", "entries", "size", "offset", "comment", "have"} |-> 0]],
            locator |-> [p \in {0} |-> -1], ends64 |-> {}]

Init ==
    /\ file \in Files
    /\ narrow \in BOOLEAN
    /\ append \in {"create", "createAfter", "addInZip"}
    /\ spanned \in BOOLEAN
    /\ pc = "open" /\ err = "ok" /\ owned = {}
    /\ at = 0 /\ lastOp = "none"
    /\ back_read = 0 /\ central_pos = 0 /\ endPos = 0
    /\ dir = NoDir /\ before = 0 /\ todo = 0 /\ central_dir = <<>> /\ comment = -1
    /\ faults = 0

-----------------------------------------------------------------------------
(* The stream and the values.                                              *)

Fault == faults < MaxFaults /\ faults' = faults + 1

\* Functions with 32-bit offsets refuse what they cannot express.
Seekable(p) == narrow => p <= Max32

\* The place of the last byte that can be expressed is taken for an error.
Tell(p) == IF narrow /\ p = Max32 THEN Max64 ELSE p

\* A sum of uint64_t.
Wrap(x) == x % (Max64 + 1)

Seek(p) == at' = p /\ lastOp' = "seek"
Read(n) == at' = at + n /\ lastOp' = "read"

\* A value as bytes; one that does not fit is all ones.
WriteValue(x, len) ==
    [i \in 0..(len - 1) |-> IF Fits(x, len) THEN Shifts(x, len)[i] % Byte ELSE Byte - 1]

\* Reading behind the end of the file is no error (ZIP_EOF is ZIP_OK): it
\* yields the last byte read of this value again, or zero.
ReadUInt(bytes, len, have) ==
    LET c(i) == IF have <= 0 THEN 0 ELSE bytes[IF i < have THEN i ELSE have - 1]
        from[i \in 0..len] == IF i = len THEN 0 ELSE c(i) + Byte * from[i + 1]
    IN  from[0]

\* The fields of the end record at p, one after the other.
ReadRecord(p) ==
    LET r       == file.record[p]
        Behind  == <<0, Short, 2 * Short, 2 * Short + Long, 2 * Short + 2 * Long>>
        Field(i) == ReadUInt(WriteValue(r[Fields[i]], Widths[i]), Widths[i],
                             r.have - Behind[i])
    IN  [entriesOnDisk |-> Field(1), entries |-> Field(2), size |-> Field(3),
         offset |-> Field(4), comment |-> Field(5)]

-----------------------------------------------------------------------------
(* Opening the stream.                                                     *)

\* NULL is returned.
ReturnNull == pc' = "null"

OpenFile ==
    /\ pc = "open"
    /\ \/ /\ owned' = {"stream"}
          /\ file' = IF append = "create" THEN NoFile ELSE file
          /\ pc' = "mode"
          /\ UNCHANGED faults
       \/ Fault /\ ReturnNull /\ UNCHANGED <<file, owned>>
    /\ UNCHANGED <<argVars, err, streamVars, searchVars, dirVars>>

\* The archive is created behind what there is, but not on several disks.
CheckMode ==
    /\ pc = "mode"
    /\ IF append # "createAfter" THEN pc' = "alloc" /\ UNCHANGED streamVars
       ELSE IF spanned THEN ReturnNull /\ UNCHANGED streamVars
       ELSE pc' = "alloc" /\ Seek(file.size)
    /\ UNCHANGED <<file, argVars, err, owned, searchVars, dirVars, faults>>

AllocHandle ==
    /\ pc = "alloc"
    /\ \/ /\ owned' = owned \cup {"zi"}
          /\ pc' = IF append = "addInZip" THEN "search" ELSE "handle"
          /\ UNCHANGED faults
       \/ Fault /\ owned' = {} /\ ReturnNull
    /\ UNCHANGED <<file, argVars, err, streamVars, searchVars, dirVars>>

-----------------------------------------------------------------------------
(* zipSearchCentralDir and zipSearchCentralDir64.                          *)

\* The stream goes to the end; when that fails nothing is found.
SearchCentralDir ==
    /\ pc = "search"
    /\ \/ /\ owned' = owned \cup {"buf"}
          /\ back_read' = 4
          /\ Seek(file.size)
          /\ pc' = "window"
          /\ UNCHANGED faults
       \/ Fault /\ pc' = "end" /\ UNCHANGED <<owned, back_read, streamVars>>
    /\ UNCHANGED <<file, argVars, err, central_pos, endPos, dirVars>>

Found(p) ==
    /\ central_pos' = p /\ endPos' = p
    /\ owned' = owned \ {"buf"}
    /\ pc' = "end"

\* The size the search believes in.
FileSize == Tell(file.size)

Back == IF MaxBack > FileSize THEN FileSize ELSE MaxBack

NextBack == IF back_read + Window > Back THEN Back ELSE back_read + Window

\* Mutant: the windows do not overlap.
SearchWindow_NoOverlap ==
    /\ pc = "window"
    /\ back_read < Back
    /\ LET start == FileSize - NextBack
           len   == IF Window < NextBack THEN Window ELSE NextBack
           hits  == {p \in file.ends : p \in start..(start + len - 4)}
       IN  \/ /\ Seekable(start)
              /\ at' = start + len /\ lastOp' = "read"
              /\ IF hits \subseteq {0}
                 THEN /\ back_read' = NextBack
                      /\ UNCHANGED <<pc, owned, central_pos, endPos>>
                 ELSE Found(Max(hits)) /\ UNCHANGED back_read
              /\ UNCHANGED faults
           \/ /\ IF Seekable(start) THEN Fault ELSE UNCHANGED faults
              /\ Found(0)
              /\ UNCHANGED <<streamVars, back_read>>
    /\ UNCHANGED <<file, argVars, err, dirVars>>

\* One window, four bytes of which were in the one before.  A magic at the
\* very start counts as none.
SearchWindow ==
    /\ pc = "window"
    /\ back_read < Back
    /\ LET start == FileSize - NextBack
           len   == IF Window + 4 < NextBack THEN Window + 4 ELSE NextBack
           hits  == {p \in file.ends : p \in start..(start + len - 4)}
       IN  \/ /\ Seekable(start)
              /\ at' = start + len /\ lastOp' = "read"
              /\ IF hits \subseteq {0}
                 THEN /\ back_read' = NextBack
                      /\ UNCHANGED <<pc, owned, central_pos, endPos>>
                 ELSE Found(Max(hits)) /\ UNCHANGED back_read
              /\ UNCHANGED faults
           \/ /\ IF Seekable(start) THEN Fault ELSE UNCHANGED faults
              /\ Found(0)
              /\ UNCHANGED <<streamVars, back_read>>
    /\ UNCHANGED <<file, argVars, err, dirVars>>

SearchEnds ==
    /\ pc = "window"
    /\ back_read >= Back
    /\ Found(0)
    /\ UNCHANGED <<file, argVars, err, streamVars, back_read, dirVars, faults>>

\* The end record: without one, what is at the start of the file.
ReadEnd ==
    /\ pc = "end"
    /\ LET r == ReadRecord(central_pos)
       IN  \/ /\ Seekable(central_pos)
              /\ dir' = r
              /\ at' = central_pos + EndSize /\ lastOp' = "read"
              /\ IF r.entries # r.entriesOnDisk
                 THEN err' = "error" /\ pc' = "check"
                 ELSE /\ UNCHANGED err
                      /\ pc' = IF r.entries = Max16 \/ r.offset = Max32
                               THEN "search64" ELSE "check"
              /\ UNCHANGED faults
           \/ /\ IF Seekable(central_pos) THEN Fault ELSE UNCHANGED faults
              /\ err' = "error" /\ pc' = "check"
              /\ UNCHANGED <<dir, streamVars>>
    /\ UNCHANGED <<file, argVars, owned, searchVars, before, todo, central_dir,
                   comment>>

\* The zip64 end record is where the locator says.
SearchCentralDir64 ==
    /\ pc = "search64"
    /\ LET offset == file.locator[central_pos]
       IN  \/ /\ \E e \in file.ends64 : e.at = offset
              /\ offset > 0 /\ Seekable(offset)
              /\ central_pos' = offset /\ pc' = "end64"
              /\ lastOp' = "read" /\ at' = offset + 4
              /\ UNCHANGED <<err, faults>>
           \/ /\ IF \E e \in file.ends64 : e.at = offset /\ offset > 0 /\ Seekable(offset)
                 THEN Fault ELSE UNCHANGED faults
              /\ central_pos' = 0 /\ err' = "error" /\ pc' = "check"
              /\ UNCHANGED streamVars
    /\ UNCHANGED <<file, argVars, owned, back_read, endPos, dirVars>>

ReadEnd64 ==
    /\ pc = "end64"
    /\ pc' = "check"
    /\ LET e == CHOOSE e \in file.ends64 : e.at = central_pos
       IN  \/ /\ dir' = [dir EXCEPT !.entriesOnDisk = e.entriesOnDisk,
                             !.entries = e.entries, !.size = e.size,
                             !.offset = e.offset]
              /\ at' = central_pos + End64Size /\ lastOp' = "read"
              /\ err' = IF e.entries # e.entriesOnDisk THEN "error" ELSE err
              /\ UNCHANGED faults
           \/ Fault /\ err' = "error" /\ UNCHANGED <<dir, streamVars>>
    /\ UNCHANGED <<file, argVars, owned, searchVars, before, todo, central_dir,
                   comment>>

-----------------------------------------------------------------------------
(* The directory in memory.                                                *)

\* Where the directory ends, if the archive starts with the file.
DirEnd == Wrap(dir.offset + dir.size)

\* Mutant: the stream goes to the directory at once.
CheckPlace_GoesThere ==
    /\ pc = "check"
    /\ err' = IF central_pos < DirEnd THEN "error" ELSE err
    /\ Seek(dir.offset)
    /\ pc' = "comment"
    /\ UNCHANGED <<file, argVars, owned, searchVars, dirVars, faults>>

\* The directory has to be in front of its end record.
CheckPlace ==
    /\ pc = "check"
    /\ err' = IF central_pos < DirEnd THEN "error" ELSE err
    /\ pc' = "comment"
    /\ UNCHANGED <<file, argVars, owned, streamVars, searchVars, dirVars, faults>>

\* The comment is read where the stream is.
ReadComment ==
    /\ pc = "comment"
    /\ IF err = "ok" /\ dir.comment > 0
       THEN \/ /\ owned' = owned \cup {"comment"}
               /\ IF at + dir.comment <= file.size
                  THEN comment' = at /\ UNCHANGED err
                  ELSE err' = "error" /\ UNCHANGED comment
               /\ Read(dir.comment)
               /\ UNCHANGED faults
            \/ /\ Fault
               /\ owned' \in {owned, owned \cup {"comment"}}
               /\ err' = IF "comment" \in owned' THEN "error" ELSE err
               /\ UNCHANGED <<streamVars, comment>>
       ELSE UNCHANGED <<owned, streamVars, comment, err, faults>>
    /\ pc' = "place"
    /\ UNCHANGED <<file, argVars, searchVars, dir, before, todo, central_dir>>

\* Where the directory is, behind that many bytes.
PlaceBehind(bytes) == Wrap(dir.offset + bytes)
Place == PlaceBehind(before)

\* Mutant: what is in front of the archive is not skipped.
GoToDirectory_NoStub ==
    /\ pc = "place"
    /\ IF err # "ok"
       THEN /\ owned' = {} /\ ReturnNull
            /\ UNCHANGED <<err, streamVars, before, todo, faults>>
       ELSE /\ owned' = owned \cup {"buf"}
            /\ before' = central_pos - DirEnd
            /\ todo' = dir.size
            /\ pc' = "read"
            /\ \/ Seekable(dir.offset) /\ Seek(dir.offset)
                  /\ UNCHANGED <<err, faults>>
               \/ /\ IF Seekable(PlaceBehind(before')) THEN Fault ELSE UNCHANGED faults
                  /\ err' = "error" /\ UNCHANGED streamVars
    /\ UNCHANGED <<file, argVars, searchVars, dir, central_dir, comment>>

\* After an error everything is released; otherwise the stream goes to the
\* directory.
GoToDirectory ==
    /\ pc = "place"
    /\ IF err # "ok"
       THEN /\ owned' = {} /\ ReturnNull
            /\ UNCHANGED <<err, streamVars, before, todo, faults>>
       ELSE /\ owned' = owned \cup {"buf"}
            /\ before' = central_pos - DirEnd
            /\ todo' = dir.size
            /\ pc' = "read"
            /\ \/ Seekable(PlaceBehind(before')) /\ Seek(PlaceBehind(before'))
                  /\ UNCHANGED <<err, faults>>
               \/ /\ IF Seekable(PlaceBehind(before')) THEN Fault ELSE UNCHANGED faults
                  /\ err' = "error" /\ UNCHANGED streamVars
    /\ UNCHANGED <<file, argVars, searchVars, dir, central_dir, comment>>

\* add_data_in_datablock: the last block is filled before others are added.
AddData(blocks, data) ==
    LET list == IF blocks = <<>> THEN <<<<>>>> ELSE blocks
        room == BlockSize - Len(list[Len(list)])
        End(i) == IF room + i * BlockSize < Len(data) THEN room + i * BlockSize ELSE Len(data)
        more == (Len(data) - End(0) + BlockSize - 1) \div BlockSize
    IN  [list EXCEPT ![Len(list)] = @ \o SubSeq(data, 1, End(0))]
        \o [i \in 1..more |-> SubSeq(data, End(i - 1) + 1, End(i))]

ReadBlock ==
    /\ pc = "read"
    /\ todo > 0 /\ err = "ok"
    /\ LET n == IF todo < BlockSize THEN todo ELSE BlockSize
       IN  /\ todo' = todo - n
           /\ Read(n)
           /\ \/ /\ at + n <= file.size
                 /\ central_dir' = AddData(central_dir, [i \in 1..n |-> at + i])
                 /\ owned' = owned \cup {"blocks"}
                 /\ UNCHANGED <<err, faults>>
              \/ /\ IF at + n <= file.size THEN Fault ELSE UNCHANGED faults
                 /\ err' = "error"
                 /\ UNCHANGED <<central_dir, owned>>
    /\ UNCHANGED <<file, argVars, pc, searchVars, dir, before, comment>>

\* The stream goes back to the directory, where the first entry will be
\* written.  An error from here on releases neither stream nor blocks.
GoBack ==
    /\ pc = "read"
    /\ todo = 0 \/ err # "ok"
    /\ \/ /\ Seekable(Place) /\ Seek(Place)
          /\ UNCHANGED <<err, faults>>
       \/ /\ IF Seekable(Place) THEN Fault ELSE UNCHANGED faults
          /\ err' = "error" /\ UNCHANGED streamVars
    /\ IF err' = "ok"
       THEN pc' = "handle" /\ owned' = owned \ {"buf"}
       ELSE ReturnNull /\ owned' = owned \ {"buf", "comment", "zi"}
    /\ UNCHANGED <<file, argVars, searchVars, dirVars>>

Returned == pc \in {"null", "handle"} /\ UNCHANGED vars

Steps ==
    \/ OpenFile \/ CheckMode \/ AllocHandle \/ SearchCentralDir
    \/ SearchWindow \/ SearchEnds \/ ReadEnd \/ SearchCentralDir64
    \/ ReadEnd64 \/ CheckPlace \/ ReadComment \/ GoToDirectory \/ ReadBlock
    \/ GoBack

Next == Steps \/ Returned

Spec == Init /\ [][Next]_vars

-----------------------------------------------------------------------------
(* Properties.                                                             *)

\* The search finds the last end record that is not further from the end than
\* MaxBack, however windows and magic lie to each other; 0 when there is none
\* (lines 527-560).  With 32-bit functions the file has to be smaller than
\* UINT32_MAX: in one of exactly that size nothing is found (HSDioapi.c:61).
FindsLastEnd ==
    LET near == {p \in file.ends \ {0} : p >= file.size - Back}
    IN  pc = "end" /\ faults = 0 /\ (narrow => file.size < Max32) =>
            endPos = IF near = {} \/ Back <= 4 THEN 0 ELSE Max(near)

\* The end record found is whole.
Whole == file.record[endPos].have >= 2 * Short + 2 * Long + Short

\* The blocks hold the given number of bytes from a place on, and all of them
\* but the last are full.
InBlocks(blocks, place, number) ==
    LET n == Len(blocks)
    IN  /\ \A i \in 1..n : \A k \in 1..Len(blocks[i]) :
               blocks[i][k] = place + (i - 1) * BlockSize + k
        /\ \A i \in 1..(n - 1) : Len(blocks[i]) = BlockSize
        /\ number = IF n = 0 THEN 0 ELSE (n - 1) * BlockSize + Len(blocks[n])

\* A handle to add with has read the directory as it was written: its record,
\* from the zip64 one where that is used, every byte of the directory in full
\* blocks, and the stream stands where the directory was, to write over it, put
\* there by a seek, without which a write after a read would not be defined
\* (lines 677-829).  A file cut in the middle of its end record is not
\* covered: reading behind the end yields values (line 330).
DirectoryRead ==
    pc = "handle" /\ append = "addInZip" /\ Whole =>
        /\ \/ dir.size = file.record[endPos].size /\ dir.offset = file.record[endPos].offset
           \/ \E e \in file.ends64 : dir.size = e.size /\ dir.offset = e.offset
        /\ InBlocks(central_dir, Place, dir.size)
        /\ at = Place /\ lastOp = "seek"
        /\ at + dir.size <= file.size

\* The end record sends on to a zip64 one.
Wide ==
    LET r == ReadRecord(endPos)
    IN  r.entries = Max16 \/ r.offset = Max32

\* The comment of a handle to add with, which closing the archive writes again,
\* is what follows the end record, all of it, and is there unless there was no
\* memory for it: it is read where the checks before it have left the stream
\* (lines 669-784).  Behind a zip64 record the stream is somewhere else, and
\* the code takes the bytes there.
CommentFollowsEnd ==
    pc = "handle" /\ append = "addInZip" /\ ~Wide =>
        /\ comment # -1 => comment = endPos + EndSize
                           /\ comment + dir.comment <= file.size
        /\ dir.comment > 0 /\ faults = 0 => comment # -1
=============================================================================
