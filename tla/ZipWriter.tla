------------------------------- MODULE ZipWriter -------------------------------
(***************************************************************************)
(* The zip writer (ZipArchive/minizip/HSDzip.c) on an archive that is not  *)
(* spanned (disk_size is 0): zipOpen4, zipOpenNewFileInZip5,               *)
(* zipWriteInFileInZip, zipCloseFileInZip(Raw64) and zipClose2_64, called  *)
(* in any order by one caller, with a file system that may fail at any     *)
(* write, at any point of it.                                              *)
(*                                                                         *)
(* A call is the steps from the one that starts it, when pc is "idle" (or  *)
(* "null" for an open), to the one that gives it its result; what the code *)
(* does between two writes to the stream is one step.                      *)
(***************************************************************************)
EXTENDS ZipFormat

CONSTANTS
    BufSize,    \* Z_BUFSIZE, in blocks
    MaxEntries, \* bound: how many entries are ever opened
    Kinds,      \* bound: how entries are opened: mode and zip64
    WriteSizes, \* bound: how many blocks one write hands over
    MaxBlocks,  \* bound: how many blocks an entry has
    MaxFaults,  \* bound: how many operations of the file system fail
    MaxOpens    \* bound: how often the archive is opened

\* Compressed, copied, or copied as data that is compressed already.
Modes == {"deflate", "store", "raw"}

ASSUME BufSizeAssumption == BufSize \in Nat \ {0}
ASSUME BoundsAssumption ==
    /\ Kinds \subseteq [mode : Modes, zip64 : BOOLEAN]
    /\ WriteSizes \subseteq Nat
    /\ MaxEntries \in Nat
    /\ MaxBlocks \in Nat
    /\ MaxFaults \in Nat
    /\ MaxOpens \in Nat

VARIABLES
    file,         \* the cells of the archive's file
    at,           \* the position of the stream
    pc,           \* where the call in progress is; "null" without a handle
    call,         \* the call in progress and its arguments
    err,          \* its err
    central_dir,  \* the central directory under construction
    number_entry,
    before,       \* add_position_when_writting_offset
    in_opened_file_inzip,
    ci,           \* what is known of the entry being written
    avail_in,     \* input the current write still has to hand over
    held,         \* blocks inside the compressor
    buffer,       \* buffered_data, up to pos_in_buffered_data
    avail_out,    \* room the compressor believes the buffer has
    dirPos,       \* centraldir_pos_inzip and size_centraldir of a close
    dirSize,
    opens,        \* history: how often the archive was opened
    opened,       \* history: how many entries were opened
    faults,       \* history: how many operations failed
    reported,     \* history: some call of this handle returned an error
    contents,     \* history: the entries closed, of the archive in the file
    sound         \* history: what the archive was opened with was complete

fileVars   == <<file, at>>
callVars   == <<pc, call, err>>
dirVars    == <<central_dir, number_entry, before>>
entryVars  == <<in_opened_file_inzip, ci>>
streamVars == <<avail_in, held, buffer, avail_out>>
closeVars  == <<dirPos, dirSize>>
ghostVars  == <<opens, opened, contents, sound>>
vars == <<fileVars, callVars, dirVars, entryVars, streamVars, closeVars,
          ghostVars, faults, reported>>

NoCall  == [name |-> "none"]
NoEntry == [entry |-> 0, pos_local_header |-> 0, zip64 |-> FALSE,
            mode |-> "store", crc |-> 0, total_in |-> 0,
            total_compressed |-> 0, total_uncompressed |-> 0]

\* There may be something else in the file already.
Init ==
    /\ file \in {<<>>, <<Stub>>}
    /\ at = 0
    /\ pc = "null" /\ call = NoCall /\ err = "ok"
    /\ central_dir = <<>> /\ number_entry = 0 /\ before = 0
    /\ in_opened_file_inzip = FALSE /\ ci = NoEntry
    /\ avail_in = 0 /\ held = <<>> /\ buffer = <<>> /\ avail_out = BufSize
    /\ dirPos = 0 /\ dirSize = 0
    /\ opens = 0 /\ opened = 0 /\ contents = <<>>
    /\ sound = (file = <<>>)
    /\ faults = 0 /\ reported = FALSE

-----------------------------------------------------------------------------
(* The stream.                                                             *)

\* cells written at the position of the stream, over what is there.
WrittenAt(cells) ==
    [i \in 1..(IF at + Len(cells) > Len(file) THEN at + Len(cells) ELSE Len(file)) |->
        IF i \in (at + 1)..(at + Len(cells)) THEN cells[i - at] ELSE file[i]]

\* ftell64_file_func.
Tell == at

Write(cells) ==
    /\ file' = WrittenAt(cells)
    /\ at' = at + Len(cells)
    /\ UNCHANGED faults

\* A write that fails, having written nothing, some of the cells, or a part
\* of one.
Fault == faults < MaxFaults /\ faults' = faults + 1

WriteFails(cells) ==
    /\ Fault
    /\ \E n \in 0..(Len(cells) - 1) :
        LET written == SubSeq(cells, 1, n)
        IN  \/ file' = WrittenAt(written) /\ at' = at + n
            \/ /\ file' = WrittenAt(Append(written, Torn))
               /\ at' = at + n + 1

Return(result) ==
    /\ pc' = "idle"
    /\ call' = NoCall
    /\ err' = "ok"
    /\ reported' = (reported \/ result # "ok")

-----------------------------------------------------------------------------
(* zipOpen4.                                                               *)

\* What every way of opening starts with.
Opened ==
    /\ pc = "null"
    /\ opens < MaxOpens
    /\ opens' = opens + 1
    /\ pc' = "idle" /\ err' = "ok" /\ reported' = FALSE
    /\ UNCHANGED <<call, entryVars, streamVars, closeVars, opened, faults>>

OpenCreate ==
    /\ Opened
    /\ file' = <<>> /\ at' = 0
    /\ central_dir' = <<>> /\ number_entry' = 0 /\ before' = 0
    /\ contents' = <<>> /\ sound' = TRUE

OpenCreateAfter ==
    /\ Opened
    /\ file' = file /\ at' = Len(file)
    /\ central_dir' = <<>> /\ number_entry' = 0 /\ before' = 0
    /\ contents' = <<>> /\ sound' = TRUE

OpenAddInZip ==
    /\ Opened
    /\ Directory(file).found
    /\ LET d == Directory(file)
       IN  /\ at' = d.offset + d.before
           /\ central_dir' = Records(file, d)
           /\ number_entry' = d.entries
           /\ before' = d.before
    /\ UNCHANGED <<file, contents, sound>>

\* No handle: the file cannot be opened or read, or is no archive.
OpenFails ==
    /\ pc = "null"
    /\ opens < MaxOpens
    /\ opens' = opens + 1
    /\ \/ Fault
       \/ ~Directory(file).found /\ UNCHANGED faults
    /\ UNCHANGED <<fileVars, callVars, dirVars, entryVars, streamVars,
                   closeVars, opened, contents, sound, reported>>

-----------------------------------------------------------------------------
(* zipOpenNewFileInZip5.                                                   *)

\* Mutant: an entry that is open is not closed first.
CallOpenNewFile_LeavesOpen(kind) ==
    /\ pc = "idle"
    /\ opened < MaxEntries
    /\ pc' = "header"
    /\ call' = [name |-> "open", mode |-> kind.mode, zip64 |-> kind.zip64,
                given |-> 0]
    /\ err' = "ok"
    /\ UNCHANGED <<fileVars, dirVars, entryVars, streamVars, closeVars,
                   ghostVars, faults, reported>>

\* An entry that is open is closed first.
CallOpenNewFile(kind) ==
    /\ pc = "idle"
    /\ opened < MaxEntries
    /\ pc' = IF in_opened_file_inzip THEN "finish" ELSE "header"
    /\ call' = [name |-> "open", mode |-> kind.mode, zip64 |-> kind.zip64,
                given |-> 0]
    /\ err' = "ok"
    /\ UNCHANGED <<fileVars, dirVars, entryVars, streamVars, closeVars,
                   ghostVars, faults, reported>>

\* The fields set for the new entry, its header in memory included.
NewEntry ==
    /\ opened' = opened + 1
    /\ ci' = [entry |-> opened + 1, pos_local_header |-> Tell,
              zip64 |-> call.zip64 \/ Tell >= Max32, mode |-> call.mode,
              crc |-> 0, total_in |-> 0,
              total_compressed |-> 0, total_uncompressed |-> 0]
    /\ avail_in' = 0 /\ held' = <<>> /\ buffer' = <<>> /\ avail_out' = BufSize

\* The local header is written and the compressor initialised.
WriteLocalHeader ==
    /\ pc = "header"
    /\ NewEntry
    /\ Write(<<Local(opened + 1)>>)
    /\ Return("ok")
    /\ in_opened_file_inzip' = TRUE
    /\ UNCHANGED <<dirVars, closeVars, opens, contents, sound>>

\* When either fails no entry is open; what was written stays.
OpenNewFileFails ==
    /\ pc = "header"
    /\ NewEntry
    /\ \/ WriteFails(<<Local(opened + 1)>>)
       \/ /\ call.mode = "deflate"
          /\ Fault
          /\ file' = WrittenAt(<<Local(opened + 1)>>) /\ at' = at + 1
    /\ Return("error")
    /\ UNCHANGED <<dirVars, closeVars, in_opened_file_inzip, opens, contents,
                   sound>>

-----------------------------------------------------------------------------
(* zipFlushWriteBuffer.  Whether the write succeeds or not, what was in    *)
(* the buffer counts as written and the buffer is emptied.                 *)

\* Mutant: pos_in_buffered_data is not reset.
Flushed_KeepsBuffer(room) ==
    /\ UNCHANGED buffer
    /\ avail_out' = room
    /\ ci' = [ci EXCEPT !.total_compressed = @ + Len(buffer),
                        !.total_uncompressed = @ + ci.total_in,
                        !.total_in = 0]

Flushed(room) ==
    /\ buffer' = <<>>
    /\ avail_out' = room
    /\ ci' = [ci EXCEPT !.total_compressed = @ + Len(buffer),
                        !.total_uncompressed = @ + ci.total_in,
                        !.total_in = 0]

Flush(room) ==
    /\ Write(buffer)
    /\ Flushed(room)
    /\ UNCHANGED err

FlushFails(room) ==
    /\ WriteFails(buffer)
    /\ Flushed(room)
    /\ err' = "error"

-----------------------------------------------------------------------------
(* zipWriteInFileInZip.                                                    *)

CallWrite(n) ==
    /\ pc = "idle"
    /\ in_opened_file_inzip
    /\ ci.crc + n <= MaxBlocks
    /\ pc' = "write" /\ err' = "ok"
    /\ call' = [name |-> "write"]
    /\ avail_in' = n
    /\ ci' = [ci EXCEPT !.crc = @ + n]
    /\ UNCHANGED <<fileVars, dirVars, in_opened_file_inzip, held, buffer,
                   avail_out, closeVars, ghostVars, faults, reported>>

\* The blocks of the entry are numbered in the order they are handed over.
NextBlocks(n) ==
    [i \in 1..n |-> Data(ci.entry, ci.crc - avail_in + i)]

\* The compressor goes on until it has no input or no room; it keeps as much
\* as it likes.  Without a compressor the input is copied.
Compress ==
    /\ pc = "write" /\ err = "ok" /\ avail_in > 0 /\ avail_out > 0
    /\ \E k \in 0..avail_in :
        LET inside == held \o NextBlocks(k)
        IN  \E j \in 0..Len(inside) :
            /\ j <= avail_out
            /\ k = avail_in \/ j = avail_out
            /\ ci.mode # "deflate" => j = k
            /\ buffer' = buffer \o SubSeq(inside, 1, j)
            /\ held' = SubSeq(inside, j + 1, Len(inside))
            /\ avail_out' = avail_out - j
            /\ avail_in' = avail_in - k
            /\ ci' = [ci EXCEPT !.total_in = @ + k]
    /\ UNCHANGED <<fileVars, callVars, dirVars, in_opened_file_inzip,
                   closeVars, ghostVars, faults, reported>>

FlushInWrite ==
    /\ pc = "write" /\ err = "ok" /\ avail_in > 0 /\ avail_out = 0
    /\ Flush(BufSize) \/ FlushFails(BufSize)
    /\ UNCHANGED <<pc, call, dirVars, in_opened_file_inzip, avail_in, held,
                   closeVars, ghostVars, reported>>

WriteReturns ==
    /\ pc = "write"
    /\ err # "ok" \/ avail_in = 0
    /\ Return(err)
    /\ avail_in' = 0
    /\ UNCHANGED <<fileVars, dirVars, entryVars, held, buffer, avail_out,
                   closeVars, ghostVars, faults>>

-----------------------------------------------------------------------------
(* zipCloseFileInZipRaw64.  given stands for the size and the crc that its *)
(* caller gives for an entry written raw; zipCloseFileInZip gives zero.    *)

CallCloseFile(given) ==
    /\ pc = "idle"
    /\ in_opened_file_inzip
    /\ given = 0 \/ ci.mode = "raw"
    /\ pc' = "finish" /\ err' = "ok"
    /\ call' = [name |-> "closeFile", given |-> given]
    /\ UNCHANGED <<fileVars, dirVars, entryVars, streamVars, closeVars,
                   ghostVars, faults, reported>>

\* The compressor ends the stream with a block of its own, number 0.
Rest == Append(held, Data(ci.entry, 0))

Finish ==
    /\ pc = "finish"
    /\ IF ci.mode # "deflate"
       THEN pc' = "tail" /\ UNCHANGED <<held, buffer, avail_out>>
       ELSE /\ avail_out > 0
            /\ IF Len(Rest) <= avail_out
               THEN /\ pc' = "tail"
                    /\ held' = <<>>
                    /\ buffer' = buffer \o Rest
                    /\ avail_out' = avail_out - Len(Rest)
               ELSE /\ pc' = "finish"
                    /\ held' = SubSeq(held, avail_out + 1, Len(held))
                    /\ buffer' = buffer \o SubSeq(held, 1, avail_out)
                    /\ avail_out' = 0
    /\ UNCHANGED <<fileVars, call, err, dirVars, entryVars, avail_in,
                   closeVars, ghostVars, faults, reported>>

FlushInFinish ==
    /\ pc = "finish" /\ ci.mode = "deflate" /\ avail_out = 0
    /\ \/ Flush(BufSize) /\ pc' = "finish"
       \/ FlushFails(BufSize) /\ pc' = "record"
    /\ UNCHANGED <<call, dirVars, in_opened_file_inzip, avail_in, held,
                   closeVars, ghostVars, reported>>

FlushTail ==
    /\ pc = "tail"
    /\ IF buffer = <<>>
       THEN pc' = "descriptor" /\ UNCHANGED <<fileVars, faults, ci, buffer,
                                              avail_out, err>>
       ELSE \/ Flush(avail_out) /\ pc' = "descriptor"
            \/ FlushFails(avail_out) /\ pc' = "record"
    /\ UNCHANGED <<call, dirVars, in_opened_file_inzip, avail_in, held,
                   closeVars, ghostVars, reported>>

Crc   == IF ci.mode = "raw" THEN call.given ELSE ci.crc
USize == IF ci.mode = "raw" THEN call.given ELSE ci.total_uncompressed

WriteDescriptor ==
    /\ pc = "descriptor"
    /\ LET d == Descriptor(Crc, ci.total_compressed, USize, ci.zip64)
       IN  \/ Write(<<d>>) /\ UNCHANGED err
           \/ WriteFails(<<d>>) /\ err' = "error"
    /\ pc' = "record"
    /\ UNCHANGED <<call, dirVars, entryVars, streamVars, closeVars, ghostVars,
                   reported>>

\* Mutant: the offset counts the bytes in front of the archive.
Record_Absolute ==
    Central(ci.entry, Crc, ci.total_compressed, USize,
            IF ci.pos_local_header >= Max32 THEN Max32
            ELSE ci.pos_local_header,
            [csize |-> ci.total_compressed, usize |-> USize,
             offset |-> ci.pos_local_header])

\* The record of the entry.  The offset is relative to the archive in the
\* field, and absolute in the zip64 extra field.
Record ==
    Central(ci.entry, Crc, ci.total_compressed, USize,
            IF ci.pos_local_header >= Max32 THEN Max32
            ELSE ci.pos_local_header - before,
            [csize |-> ci.total_compressed, usize |-> USize,
             offset |-> ci.pos_local_header])

\* The entry is counted whether its record was added or not.  zipOpenNew-
\* FileInZip5 and zipClose2_64 go on from here, the former only without error.
AddRecord ==
    /\ pc = "record"
    /\ central_dir' = IF err = "ok" THEN Append(central_dir, Record)
                      ELSE central_dir
    /\ number_entry' = number_entry + 1
    /\ in_opened_file_inzip' = FALSE
    /\ contents' = Append(contents, [entry |-> ci.entry, blocks |-> ci.crc, mode |-> ci.mode,
            given |-> IF ci.mode = "raw" THEN call.given ELSE ci.crc])
    /\ CASE call.name = "open" /\ err = "ok" ->
              pc' = "header" /\ UNCHANGED <<call, err, reported>>
         [] call.name = "close" ->
              pc' = "central" /\ UNCHANGED <<call, err, reported>>
         [] OTHER -> Return(err)
    /\ UNCHANGED <<fileVars, before, ci, streamVars, closeVars, opens, opened,
                   sound, faults>>

\* A write or a close without an open entry.
CallRefused ==
    /\ pc = "idle"
    /\ ~in_opened_file_inzip
    /\ Return("error")
    /\ UNCHANGED <<fileVars, dirVars, entryVars, streamVars, closeVars,
                   ghostVars, faults>>

-----------------------------------------------------------------------------
(* zipClose2_64.                                                           *)

CallClose ==
    /\ pc = "idle"
    /\ pc' = IF in_opened_file_inzip THEN "finish" ELSE "central"
    /\ call' = [name |-> "close", given |-> 0]
    /\ err' = "ok"
    /\ UNCHANGED <<fileVars, dirVars, entryVars, streamVars, closeVars,
                   ghostVars, faults, reported>>

\* Mutant: a block that is not written whole is no error.
WriteCentralDir_ForgetsError ==
    /\ pc = "central"
    /\ IF err = "ok" /\ central_dir # <<>>
       THEN \/ Write(central_dir) /\ UNCHANGED err
            \/ WriteFails(central_dir) /\ UNCHANGED err
       ELSE UNCHANGED <<fileVars, faults, err>>
    /\ dirPos' = Tell
    /\ dirSize' = IF err = "ok" THEN Cast32(Len(central_dir)) ELSE 0
    /\ pc' = "end64"
    /\ UNCHANGED <<call, dirVars, entryVars, streamVars, ghostVars, reported>>

\* The directory is written, unless the last entry could not be closed.  Its
\* size is added up in a uint32_t, which wraps (lines 1717, 1761).
WriteCentralDir ==
    /\ pc = "central"
    /\ IF err = "ok" /\ central_dir # <<>>
       THEN \/ Write(central_dir) /\ UNCHANGED err
            \/ WriteFails(central_dir) /\ err' = "error"
       ELSE UNCHANGED <<fileVars, faults, err>>
    /\ dirPos' = Tell
    /\ dirSize' = IF err = "ok" THEN Cast32(Len(central_dir)) ELSE 0
    /\ pc' = "end64"
    /\ UNCHANGED <<call, dirVars, entryVars, streamVars, ghostVars, reported>>

\* Mutant: the largest offset is taken for one that fits.
NeedsEnd64_Greater == dirPos - before > Max32 \/ number_entry > Max32

NeedsEnd64 == dirPos - before >= Max32 \/ number_entry > Max32

\* The zip64 records: the first write forgets an error there was, the one
\* way in which a close that returns ZIP_OK has lost something.
WriteEnd64 ==
    /\ pc = "end64"
    /\ LET cells == <<End64(number_entry, dirSize, dirPos - before),
                      Locator64(Tell - before)>>
       IN  IF NeedsEnd64
           THEN \/ Write(cells) /\ err' = "ok"
                \/ WriteFails(cells) /\ err' = "error"
           ELSE UNCHANGED <<fileVars, faults, err>>
    /\ pc' = "end"
    /\ sound' = (sound /\ ~(NeedsEnd64 /\ err = "error"))
    /\ UNCHANGED <<call, dirVars, entryVars, streamVars, closeVars, opens,
                   opened, contents, reported>>

WriteEnd ==
    /\ pc = "end"
    /\ LET cell == End(number_entry, dirSize,
                       IF dirPos - before >= Max32 THEN Max32
                       ELSE dirPos - before)
       IN  IF err = "ok"
           THEN \/ Write(<<cell>>) /\ UNCHANGED err
                \/ WriteFails(<<cell>>) /\ err' = "error"
           ELSE UNCHANGED <<fileVars, faults, err>>
    /\ pc' = "fclose"
    /\ UNCHANGED <<call, dirVars, entryVars, streamVars, closeVars, ghostVars,
                   reported>>

\* A file with a zip64 record.
Zip64(cells) == \E i \in 1..Len(cells) : cells[i].kind = "end64"

\* fclose_file_func, whose failure is an error of the call.
Fclose ==
    \/ reported' = (reported \/ err # "ok") /\ UNCHANGED faults
    \/ reported' = TRUE /\ Fault

\* The stream is closed and the handle freed.  A directory whose recorded size
\* has wrapped (line 1761) is read from the wrong place; a zip64 record behind a
\* stub is not found again, as its locator is relative (lines 584, 1818), nor
\* is one looked for that was left out though the entries are too many
\* (line 1841).
CloseStream ==
    /\ pc = "fclose"
    /\ Fclose
    /\ pc' = "null" /\ call' = NoCall /\ err' = "ok"
    /\ sound' = (sound /\ ~reported' /\ Len(central_dir) <= Max32
                 /\ IF NeedsEnd64 THEN before = 0 ELSE number_entry < Max16)
    /\ central_dir' = <<>> /\ number_entry' = 0 /\ before' = 0
    /\ in_opened_file_inzip' = FALSE /\ ci' = NoEntry
    /\ avail_in' = 0 /\ held' = <<>> /\ buffer' = <<>> /\ avail_out' = BufSize
    /\ dirPos' = 0 /\ dirSize' = 0
    /\ at' = 0
    /\ UNCHANGED <<file, opens, opened, contents>>

-----------------------------------------------------------------------------
\* Between two handles somebody else puts a stub in front of the archive,
\* which makes it unreadable if it has a zip64 record (line 584).
Prepend ==
    /\ pc = "null"
    /\ opens < MaxOpens
    /\ file # <<>> /\ file[1] # Stub
    /\ file' = <<Stub>> \o file
    /\ sound' = (sound /\ ~Zip64(file))
    /\ UNCHANGED <<at, callVars, dirVars, entryVars, streamVars, closeVars,
                   opens, opened, contents, faults, reported>>

Finished ==
    /\ pc = "null"
    /\ opens = MaxOpens
    /\ UNCHANGED vars

Next ==
    \/ OpenCreate
    \/ OpenCreateAfter
    \/ OpenAddInZip
    \/ OpenFails
    \/ \E kind \in Kinds : CallOpenNewFile(kind)
    \/ WriteLocalHeader
    \/ OpenNewFileFails
    \/ \E n \in WriteSizes : CallWrite(n)
    \/ Compress
    \/ FlushInWrite
    \/ WriteReturns
    \/ \E given \in {0, Max32} : CallCloseFile(given)
    \/ Finish
    \/ FlushInFinish
    \/ FlushTail
    \/ WriteDescriptor
    \/ AddRecord
    \/ CallRefused
    \/ CallClose
    \/ WriteCentralDir
    \/ WriteEnd64
    \/ WriteEnd
    \/ CloseStream
    \/ Prepend
    \/ Finished

Spec == Init /\ [][Next]_vars

-----------------------------------------------------------------------------
(* Properties.                                                             *)

\* The compressor never writes behind the end of buffered_data, and while an
\* entry is open it knows exactly the room there is: a flush that fails, a
\* close in the middle of a stream and the next entry reset both together
\* (lines 1126-1128, 1308, 1369, 1464).
BufferFits ==
    /\ Len(buffer) + avail_out <= BufSize
    /\ in_opened_file_inzip /\ pc \in {"idle", "write", "finish", "tail"} =>
           Len(buffer) + avail_out = BufSize

\* An entry of the archive, at the place a record says: its local header, as
\* much data as the record says, which is what was handed over, and the data
\* descriptor behind it.
BlocksOf(c) == c.blocks + (IF c.mode = "deflate" THEN 1 ELSE 0)

Stored(c, cells, o) ==
    /\ o + BlocksOf(c) + 2 <= Len(cells)
    /\ cells[o + 1] = Local(c.entry)
    /\ \A b \in 1..c.blocks : cells[o + 1 + b] = Data(c.entry, b)
    /\ c.mode = "deflate" => cells[o + 2 + c.blocks] = Data(c.entry, 0)
    /\ cells[o + 2 + BlocksOf(c)].kind = "descriptor"
    /\ cells[o + 2 + BlocksOf(c)].crc = c.given

Describes(r, c, cells, stub) ==
    /\ r.kind = "central" /\ r.entry = c.entry /\ r.crc = c.given
    /\ CSizeOf(r) = BlocksOf(c)
    /\ USizeOf(r) = c.given
    /\ (stub = 0 \/ r.offset # Max32) => Stored(c, cells, OffsetOf(r) + stub)

\* While a handle is open and none of its calls has failed, its central
\* directory describes every entry that was closed, in order, whatever was in
\* front of the archive; the entries of an archive that is added to survive, as
\* far as it is one that Readable promises to find.
DirectoryComplete ==
    pc # "null" /\ sound /\ ~reported /\ err = "ok" =>
        /\ Len(central_dir) = Len(contents)
        /\ number_entry = Len(contents)
        /\ \A i \in 1..Len(contents) :
            Describes(central_dir[i], contents[i], file, before)

\* An archive whose calls all returned ZIP_OK is found again, and its
\* directory describes its entries.  sound leaves out what the code loses
\* though it returns ZIP_OK: a directory larger than UINT32_MAX, whose size is
\* recorded modulo 2^32 (line 1761); 65535 entries without a zip64 record
\* (line 1841); a zip64 archive behind a stub (lines 584, 1643); and an error
\* that the zip64 record made the close forget (line 1776).
Readable ==
    LET d == Directory(file)
    IN  pc = "null" /\ opens > 0 /\ sound
        => /\ d.found
           /\ d.entries = Len(contents)
           /\ Len(Records(file, d)) = Len(contents)
           /\ \A i \in 1..Len(contents) :
                Describes(Records(file, d)[i], contents[i], file, d.before)

\* A call in which an operation of the file system failed returns an error,
\* whatever it still has to do on the way (lines 1605-1691 and 1737-1763), but
\* for a close that needs the zip64 record, which forgets it (line 1776).
ErrorReturned ==
    [][ err = "error" \/ (pc # "null" /\ faults' # faults) =>
        err' = "error" \/ reported' \/ (pc = "end64" /\ NeedsEnd64) ]_vars

\* How many entries there are: what the handle has counted or, without one,
\* what a reader of the file finds.
EntriesFound ==
    IF pc # "null" THEN number_entry
    ELSE LET d == Directory(file) IN IF d.found THEN d.entries ELSE 0

Archive == INSTANCE Archive WITH
    handle  <- pc # "null",
    call    <- call.name,
    entry   <- IF in_opened_file_inzip THEN ci.crc ELSE -1,
    entries <- EntriesFound,
    failed  <- reported,
    sound   <- sound

\* The writer keeps what its header promises: however its writes fail, and
\* whatever was in front of the archive, an entry is opened, written, closed
\* and counted once, and a handle that adds to an archive starts from as many
\* entries as the last one left (as far as sound goes, as for Readable).
ImplementsArchive == Archive!Spec
=============================================================================
