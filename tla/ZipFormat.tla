------------------------------- MODULE ZipFormat -------------------------------
(***************************************************************************)
(* What the zip writer (ZipArchive/minizip/HSDzip.c) puts into an archive, *)
(* and how zipOpen4 finds the central directory of one again.              *)
(*                                                                         *)
(* An archive is a sequence of cells: every header, record and block of    *)
(* data is one cell, so offsets and sizes count cells.  Max16 and Max32    *)
(* stand for UINT16_MAX and UINT32_MAX.  A field that is too narrow for    *)
(* its value is written as all ones.                                       *)
(***************************************************************************)
EXTENDS Integers, Sequences, FiniteSetsExt

CONSTANTS Max16, Max32

ASSUME WidthAssumption ==
    /\ Max16 \in Nat \ {0}
    /\ Max32 \in Nat \ {0}
    /\ Max16 <= Max32

\* A value written by zipWriteValue into a field whose largest value is max.
Put(x, max) == IF x > max THEN max ELSE x

\* A value cast to uint32_t.
Cast32(x) == x % (Max32 + 1)

-----------------------------------------------------------------------------
(* The cells.                                                              *)

Torn == [kind |-> "torn"]   \* what a write that failed half way left
Stub == [kind |-> "stub"]   \* bytes that belong to no archive

Local(e) == [kind |-> "local", entry |-> e]

Data(e, b) == [kind |-> "data", entry |-> e, block |-> b]

\* The sizes are wide only in an entry that was opened as zip64.
Descriptor(crc, csize, usize, zip64) ==
    [kind |-> "descriptor", crc |-> crc,
     csize |-> IF zip64 THEN csize ELSE Cast32(csize),
     usize |-> IF zip64 THEN usize ELSE Cast32(usize)]

\* A record of the central directory.  wide holds, for the fields that are
\* all ones, the values of the zip64 extra field.
Central(e, crc, csize, usize, offset, wide) ==
    [kind |-> "central", entry |-> e, crc |-> crc,
     csize |-> Put(csize, Max32), usize |-> Put(usize, Max32),
     offset |-> offset, wide |-> wide]

End64(entries, size, offset) ==
    [kind |-> "end64", entries |-> entries, size |-> size, offset |-> offset]

Locator64(offset) == [kind |-> "locator64", offset |-> offset]

End(entries, size, offset) ==
    [kind |-> "end",
     entries |-> IF entries >= Max16 THEN Max16 ELSE entries,
     size |-> size,
     offset |-> offset]

-----------------------------------------------------------------------------
(* Reading.                                                                *)

\* The last end record; 0 when there is none, which is also the position
\* of the end record of an archive without entries.
SearchCentralDir(file) ==
    LET ends == {i \in 1..Len(file) : file[i].kind = "end"}
    IN  IF ends = {} THEN 0 ELSE Max(ends) - 1

\* The zip64 end record, where the locator in front of the end record says
\* it is; 0 when either is missing.
SearchCentralDir64(file, pos) ==
    IF /\ pos > 0
       /\ file[pos].kind = "locator64"
       /\ file[pos].offset + 1 \in 1..Len(file)
       /\ file[file[pos].offset + 1].kind = "end64"
    THEN file[pos].offset
    ELSE 0

\* The end record: an empty file reads as zeros, and what else is found at
\* the start of a file without an end record disagrees with itself.
EndRecord(file) ==
    LET pos == SearchCentralDir(file)
    IN  IF file = <<>> THEN End(0, 0, 0) ELSE file[pos + 1]

\* The directory an archive is opened with: where its records are, how many
\* bytes are in front of the archive, how many entries it counts.
NoDirectory == [found |-> FALSE]

DirectoryAt(pos, record) ==
    IF pos < record.offset + record.size THEN NoDirectory
    ELSE [found |-> TRUE, entries |-> record.entries, size |-> record.size,
          offset |-> record.offset,
          before |-> pos - (record.offset + record.size)]

Directory(file) ==
    LET pos    == SearchCentralDir(file)
        record == EndRecord(file)
        pos64  == SearchCentralDir64(file, pos)
    IN  IF record.kind # "end" THEN NoDirectory
        ELSE IF record.entries # Max16 /\ record.offset # Max32
             THEN DirectoryAt(pos, record)
        ELSE IF pos64 # 0
             THEN DirectoryAt(pos64, file[pos64 + 1])
        ELSE NoDirectory

\* The records of a directory.
Records(file, d) ==
    SubSeq(file, d.offset + d.before + 1, d.offset + d.before + d.size)

\* Where a reader of a record looks for the entry.
OffsetOf(r) == IF r.offset = Max32 THEN r.wide.offset ELSE r.offset
CSizeOf(r)  == IF r.csize = Max32 THEN r.wide.csize ELSE r.csize
USizeOf(r)  == IF r.usize = Max32 THEN r.wide.usize ELSE r.usize
=============================================================================
