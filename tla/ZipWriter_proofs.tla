---------------------------- MODULE ZipWriter_proofs ----------------------------
(***************************************************************************)
(* The output buffer of the zip writer, the errors of its calls, and the   *)
(* archive it leaves, for every width of the fields, every size of the     *)
(* buffer, every number of entries, writes and faults.                     *)
(*                                                                         *)
(* The archive: as long as nothing has failed, the central directory in    *)
(* memory describes what lies in the file in front of the stream (DirInv), *)
(* the entry that is open is split between the file, the buffer and the    *)
(* compressor (EntryInv), what is left of an older directory is too short  *)
(* to outlive the next one (TailInv), and a close puts the directory and   *)
(* the end records where the fields say (CloseInv).  Without a handle the  *)
(* end record is the last cell and leads back to the directory (Closed).   *)
(***************************************************************************)
EXTENDS ZipWriter, SequenceTheorems, WellFoundedInduction, TLAPS

-----------------------------------------------------------------------------
(* An operation that fails is told by the call it failed in.               *)

\* Where no error is pending: a call begins without one, and after the first
\* error it does nothing but end.
NoError ==
    pc \in {"null", "idle", "header", "finish", "tail", "descriptor"} => err = "ok"

LEMMA NoErrorInit == Init => NoError
BY DEF Init, NoError

LEMMA NoErrorNext == NoError /\ [Next]_vars => NoError'
<1> SUFFICES ASSUME NoError, [Next]_vars PROVE NoError'
  OBVIOUS
<1> USE DEF NoError, callVars
<1>1. CASE OpenCreate \/ OpenCreateAfter \/ OpenAddInZip
  BY <1>1 DEF OpenCreate, OpenCreateAfter, OpenAddInZip, Opened
<1>2. CASE OpenFails
  BY <1>2 DEF OpenFails
<1>3. CASE \E kind \in Kinds : CallOpenNewFile(kind)
  BY <1>3 DEF CallOpenNewFile
<1>4. CASE WriteLocalHeader \/ OpenNewFileFails
  BY <1>4 DEF WriteLocalHeader, OpenNewFileFails, Return
<1>5. CASE \E n \in WriteSizes : CallWrite(n)
  BY <1>5 DEF CallWrite
<1>6. CASE Compress
  BY <1>6 DEF Compress
<1>7. CASE FlushInWrite
  BY <1>7 DEF FlushInWrite
<1>8. CASE WriteReturns
  BY <1>8 DEF WriteReturns, Return
<1>9. CASE \E given \in {0, Max32} : CallCloseFile(given)
  BY <1>9 DEF CallCloseFile
<1>10. CASE Finish
  BY <1>10 DEF Finish
<1>11. CASE FlushInFinish
  BY <1>11 DEF FlushInFinish, Flush
<1>12. CASE FlushTail
  BY <1>12 DEF FlushTail, Flush
<1>13. CASE WriteDescriptor
  BY <1>13 DEF WriteDescriptor
<1>14. CASE AddRecord
  BY <1>14 DEF AddRecord, Return
<1>15. CASE CallRefused
  BY <1>15 DEF CallRefused, Return
<1>16. CASE CallClose
  BY <1>16 DEF CallClose
<1>17. CASE WriteCentralDir \/ WriteEnd64 \/ WriteEnd
  BY <1>17 DEF WriteCentralDir, WriteEnd64, WriteEnd
<1>18. CASE CloseStream
  BY <1>18 DEF CloseStream
<1>19. CASE Prepend
  BY <1>19 DEF Prepend
<1>20. CASE Finished \/ UNCHANGED vars
  BY <1>20 DEF Finished, vars
<1> QED
  BY <1>1, <1>2, <1>3, <1>4, <1>5, <1>6, <1>7, <1>8, <1>9, <1>10, <1>11, <1>12,
     <1>13, <1>14, <1>15, <1>16, <1>17, <1>18, <1>19, <1>20 DEF Next

\* What ErrorReturned says of a step.
Told ==
    err = "error" \/ (pc # "null" /\ faults' # faults) =>
        err' = "error" \/ reported' \/ (pc = "end64" /\ NeedsEnd64)

LEMMA NextTells == NoError /\ [Next]_vars => [Told]_vars
<1> SUFFICES ASSUME NoError, Next PROVE Told
  OBVIOUS
<1> USE DEF NoError, Told
<1>1. CASE OpenCreate \/ OpenCreateAfter \/ OpenAddInZip
  BY <1>1 DEF OpenCreate, OpenCreateAfter, OpenAddInZip, Opened
<1>2. CASE OpenFails
  BY <1>2 DEF OpenFails
<1>3. CASE \E kind \in Kinds : CallOpenNewFile(kind)
  BY <1>3 DEF CallOpenNewFile
<1>4. CASE WriteLocalHeader
  BY <1>4 DEF WriteLocalHeader, Write
<1>5. CASE OpenNewFileFails
  BY <1>5 DEF OpenNewFileFails, Return
<1>6. CASE \E n \in WriteSizes : CallWrite(n)
  BY <1>6 DEF CallWrite
<1>7. CASE Compress
  BY <1>7 DEF Compress, callVars
<1>8. CASE FlushInWrite
  BY <1>8 DEF FlushInWrite, Flush, FlushFails, Write
<1>9. CASE WriteReturns
  BY <1>9 DEF WriteReturns, Return
<1>10. CASE \E given \in {0, Max32} : CallCloseFile(given)
  BY <1>10 DEF CallCloseFile
<1>11. CASE Finish
  BY <1>11 DEF Finish
<1>12. CASE FlushInFinish
  BY <1>12 DEF FlushInFinish, Flush, FlushFails, Write
<1>13. CASE FlushTail
  BY <1>13 DEF FlushTail, Flush, FlushFails, Write
<1>14. CASE WriteDescriptor
  BY <1>14 DEF WriteDescriptor, Write
<1>15. CASE AddRecord
  BY <1>15 DEF AddRecord, Return
<1>16. CASE CallRefused
  BY <1>16 DEF CallRefused, Return
<1>17. CASE CallClose
  BY <1>17 DEF CallClose
<1>18. CASE WriteCentralDir
  BY <1>18 DEF WriteCentralDir, Write
<1>19. CASE WriteEnd64
  BY <1>19 DEF WriteEnd64
<1>20. CASE WriteEnd
  BY <1>20 DEF WriteEnd, Write
<1>21. CASE CloseStream
  BY <1>21 DEF CloseStream, Fclose
<1>22. CASE Prepend
  BY <1>22 DEF Prepend, callVars
<1>23. CASE Finished
  BY <1>23 DEF Finished, vars, callVars
<1> QED
  BY <1>1, <1>2, <1>3, <1>4, <1>5, <1>6, <1>7, <1>8, <1>9, <1>10, <1>11, <1>12,
     <1>13, <1>14, <1>15, <1>16, <1>17, <1>18, <1>19, <1>20, <1>21, <1>22, <1>23
  DEF Next

\* However many operations of the file system fail, and wherever they do, the
\* call they fail in returns an error, but for a close that writes the zip64
\* record (HSDzip.c:1776).
THEOREM ErrorsReturned == Spec => ErrorReturned
<1>1. ErrorReturned <=> [][Told]_vars
  BY PTL DEF ErrorReturned, Told
<1> QED
  BY NoErrorInit, NoErrorNext, NextTells, <1>1, PTL DEF Spec
-----------------------------------------------------------------------------
(* The output buffer.                                                      *)

\* The blocks a compressor takes in and gives out.
Cells == {Data(e, b) : e \in Nat, b \in Int}

\* BufferFits is inductive once it is known what the variables hold, and that
\* no entry is open without a handle.
BufferInv ==
    /\ buffer \in Seq(Cells) /\ held \in Seq(Cells)
    /\ avail_in \in Nat /\ avail_out \in Nat
    /\ opened \in Nat
    /\ {"entry", "crc"} \subseteq DOMAIN ci
    /\ ci.entry \in Nat /\ ci.crc \in Nat
    /\ pc = "null" => ~in_opened_file_inzip
    /\ BufferFits

\* Blocks that are handed over are blocks.
LEMMA NextBlocksType ==
    ASSUME BufferInv, NEW k \in Nat
    PROVE  NextBlocks(k) \in Seq(Cells) /\ Len(NextBlocks(k)) = k
<1>1. \A i \in 1..k : Data(ci.entry, ci.crc - avail_in + i) \in Cells
  BY DEF BufferInv, Cells
<1> QED
  BY <1>1, IsASeq DEF NextBlocks

\* Taking the first j blocks of a sequence leaves the others.
LEMMA Split ==
    ASSUME NEW s \in Seq(Cells), NEW j \in 0..Len(s)
    PROVE  /\ SubSeq(s, 1, j) \in Seq(Cells)
           /\ Len(SubSeq(s, 1, j)) = j
           /\ SubSeq(s, j + 1, Len(s)) \in Seq(Cells)
<1>1. \A i \in 1..j : s[i] \in Cells
  BY ElementOfSeq, LenProperties
<1>2. \A i \in (j + 1)..Len(s) : s[i] \in Cells
  BY ElementOfSeq, LenProperties
<1> QED
  BY <1>1, <1>2, LenProperties, SubSeqProperties

LEMMA InitBuffer == Init => BufferInv
<1> SUFFICES ASSUME Init PROVE BufferInv
  OBVIOUS
<1>1. buffer \in Seq(Cells) /\ held \in Seq(Cells) /\ Len(buffer) = 0
  BY EmptySeq DEF Init
<1> QED
  BY <1>1, BufSizeAssumption DEF Init, BufferInv, BufferFits, NoEntry

\* The compressor gives out what it has room for.
LEMMA CompressFits == BufferInv /\ Compress => BufferInv'
<1> SUFFICES ASSUME BufferInv, Compress PROVE BufferInv'
  OBVIOUS
<1>1. PICK k \in 0..avail_in : LET inside == held \o NextBlocks(k)
        IN  \E j \in 0..Len(inside) :
            /\ j <= avail_out
            /\ buffer' = buffer \o SubSeq(inside, 1, j)
            /\ held' = SubSeq(inside, j + 1, Len(inside))
            /\ avail_out' = avail_out - j
            /\ avail_in' = avail_in - k
            /\ ci' = [ci EXCEPT !.total_in = @ + k]
  BY DEF Compress
<1> DEFINE inside == held \o NextBlocks(k)
<1>2. k \in Nat /\ avail_in \in Nat /\ avail_out \in Nat
  BY DEF BufferInv
<1>3. inside \in Seq(Cells)
  BY <1>2, NextBlocksType, ConcatProperties DEF BufferInv
<1>4. PICK j \in 0..Len(inside) :
            /\ j <= avail_out
            /\ buffer' = buffer \o SubSeq(inside, 1, j)
            /\ held' = SubSeq(inside, j + 1, Len(inside))
            /\ avail_out' = avail_out - j
            /\ avail_in' = avail_in - k
            /\ ci' = [ci EXCEPT !.total_in = @ + k]
  BY <1>1
<1> HIDE DEF inside
<1>5. SubSeq(inside, 1, j) \in Seq(Cells) /\ Len(SubSeq(inside, 1, j)) = j
      /\ held' \in Seq(Cells)
  BY <1>3, <1>4, Split
<1>6. buffer' \in Seq(Cells) /\ Len(buffer') = Len(buffer) + j
  BY <1>4, <1>5, ConcatProperties DEF BufferInv
<1>7. Len(buffer') + avail_out' = Len(buffer) + avail_out
  BY <1>2, <1>4, <1>6, LenProperties DEF BufferInv
<1>8. avail_in' \in Nat /\ avail_out' \in Nat
  BY <1>2, <1>4, LenProperties, <1>3
<1>9. {"entry", "crc"} \subseteq DOMAIN ci' /\ ci'.entry = ci.entry /\ ci'.crc = ci.crc
  BY <1>4 DEF BufferInv
<1> QED
  BY <1>5, <1>6, <1>7, <1>8, <1>9
  DEF BufferInv, BufferFits, Compress, callVars, ghostVars

\* So does the end of a compressed stream.
LEMMA FinishFits == BufferInv /\ Finish => BufferInv'
<1> SUFFICES ASSUME BufferInv, Finish PROVE BufferInv'
  OBVIOUS
<1> USE DEF entryVars, ghostVars
<1>1. CASE UNCHANGED <<held, buffer, avail_out>>
  BY <1>1 DEF Finish, BufferInv, BufferFits
<1>2. CASE ci.mode = "deflate" /\ Len(Rest) <= avail_out
  <2>1. Data(ci.entry, 0) \in Cells
    BY DEF BufferInv, Cells
  <2>2. Rest \in Seq(Cells)
    BY <2>1, AppendProperties DEF Rest, BufferInv
  <2>3. buffer' = buffer \o Rest /\ avail_out' = avail_out - Len(Rest) /\ held' = <<>>
    BY <1>2 DEF Finish
  <2>4. buffer' \in Seq(Cells) /\ Len(buffer') = Len(buffer) + Len(Rest)
    BY <2>2, <2>3, ConcatProperties DEF BufferInv
  <2>5. held' \in Seq(Cells)
    BY <2>3, EmptySeq
  <2>6. avail_out' \in Nat /\ Len(buffer') + avail_out' = Len(buffer) + avail_out
    BY <1>2, <2>2, <2>3, <2>4, LenProperties DEF BufferInv
  <2> QED
    BY <2>4, <2>5, <2>6 DEF Finish, BufferInv, BufferFits
<1>3. CASE ci.mode = "deflate" /\ ~(Len(Rest) <= avail_out)
  <2>1. Len(Rest) = Len(held) + 1 /\ Len(held) \in Nat
    BY AppendProperties, LenProperties, Data(ci.entry, 0) \in Cells
    DEF Rest, BufferInv, Cells
  <2>2. avail_out \in 0..Len(held)
    BY <1>3, <2>1 DEF BufferInv
  <2>3. buffer' = buffer \o SubSeq(held, 1, avail_out)
        /\ held' = SubSeq(held, avail_out + 1, Len(held)) /\ avail_out' = 0
    BY <1>3 DEF Finish
  <2>4. SubSeq(held, 1, avail_out) \in Seq(Cells)
        /\ Len(SubSeq(held, 1, avail_out)) = avail_out /\ held' \in Seq(Cells)
    BY <2>2, <2>3, Split DEF BufferInv
  <2>5. buffer' \in Seq(Cells) /\ Len(buffer') = Len(buffer) + avail_out
    BY <2>3, <2>4, ConcatProperties DEF BufferInv
  <2>6. Len(buffer') + avail_out' = Len(buffer) + avail_out
    BY <2>3, <2>5, LenProperties DEF BufferInv
  <2> QED
    BY <2>3, <2>4, <2>5, <2>6 DEF Finish, BufferInv, BufferFits
<1> QED
  BY <1>1, <1>2, <1>3 DEF Finish

\* A flush empties the buffer; within a write or a close the compressor is
\* given the whole of it again.
LEMMA FlushFits ==
    BufferInv /\ (FlushInWrite \/ FlushInFinish \/ FlushTail) => BufferInv'
<1> SUFFICES ASSUME BufferInv, FlushInWrite \/ FlushInFinish \/ FlushTail
             PROVE  BufferInv'
  OBVIOUS
<1>1. <<>> \in Seq(Cells) /\ Len(<<>>) = 0
  BY EmptySeq
<1>2. Len(buffer) \in Nat
  BY LenProperties DEF BufferInv
<1>3. UNCHANGED <<avail_in, held, opened, in_opened_file_inzip>>
  BY DEF FlushInWrite, FlushInFinish, FlushTail, ghostVars
<1>4. ASSUME NEW room \in Nat, room <= BufSize, Flushed(room),
             in_opened_file_inzip' /\ pc' \in {"idle", "write", "finish", "tail"} =>
                 room = BufSize,
             pc' # "null"
      PROVE  BufferInv'
  <2>1. ci' = [ci EXCEPT !.total_compressed = @ + Len(buffer),
                         !.total_uncompressed = @ + ci.total_in,
                         !.total_in = 0]
    BY <1>4 DEF Flushed
  <2>2. DOMAIN ci' = DOMAIN ci
    BY <2>1
  <2>3. ci'.entry = ci.entry /\ ci'.crc = ci.crc
    BY <2>1 DEF BufferInv
  <2>4. buffer' = <<>> /\ avail_out' = room
    BY <1>4 DEF Flushed
  <2> QED
    BY <1>1, <1>3, <1>4, <2>2, <2>3, <2>4 DEF BufferInv, BufferFits
<1> BufSize \in Nat
  BY BufSizeAssumption
<1>5. CASE FlushInWrite
  <2>1. Flushed(BufSize) /\ pc' = "write"
    BY <1>5 DEF FlushInWrite, Flush, FlushFails
  <2> QED
    BY <1>4, <2>1
<1>6. CASE FlushInFinish
  <2>1. Flushed(BufSize) /\ pc' \in {"finish", "record"}
    BY <1>6 DEF FlushInFinish, Flush, FlushFails
  <2> QED
    BY <1>4, <2>1
<1>7. CASE FlushTail
  <2>1. CASE buffer = <<>>
    BY <1>3, <1>7, <2>1 DEF FlushTail, BufferInv, BufferFits
  <2>2. CASE buffer # <<>>
    <3>1. Flushed(avail_out) /\ pc' \in {"descriptor", "record"}
      BY <1>7, <2>2 DEF FlushTail, Flush, FlushFails
    <3>2. avail_out \in Nat /\ avail_out <= BufSize
      BY <1>2 DEF BufferInv, BufferFits
    <3> QED
      BY <1>4, <3>1, <3>2
  <2> QED
    BY <2>1, <2>2
<1> QED
  BY <1>5, <1>6, <1>7

\* A new entry starts with an empty buffer, whether it can be opened or not.
LEMMA NewEntryFits ==
    BufferInv /\ (WriteLocalHeader \/ OpenNewFileFails) => BufferInv'
<1> SUFFICES ASSUME BufferInv, WriteLocalHeader \/ OpenNewFileFails PROVE BufferInv'
  OBVIOUS
<1>1. NewEntry /\ pc' = "idle"
  BY DEF WriteLocalHeader, OpenNewFileFails, Return
<1>2. buffer' \in Seq(Cells) /\ held' \in Seq(Cells) /\ Len(buffer') = 0
  BY <1>1, EmptySeq DEF NewEntry
<1> QED
  BY <1>1, <1>2, BufSizeAssumption DEF NewEntry, BufferInv, BufferFits

\* Closing the stream forgets the entry and its buffer.
LEMMA CloseFits == BufferInv /\ CloseStream => BufferInv'
<1> SUFFICES ASSUME BufferInv, CloseStream PROVE BufferInv'
  OBVIOUS
<1>1. buffer' \in Seq(Cells) /\ held' \in Seq(Cells) /\ Len(buffer') = 0
  BY EmptySeq DEF CloseStream
<1> QED
  BY <1>1, BufSizeAssumption DEF CloseStream, NoEntry, BufferInv, BufferFits

LEMMA NextFits == BufferInv /\ [Next]_vars => BufferInv'
<1> SUFFICES ASSUME BufferInv, [Next]_vars PROVE BufferInv'
  OBVIOUS
<1> USE DEF BufferInv, BufferFits, entryVars, streamVars, ghostVars
<1>1. CASE OpenCreate \/ OpenCreateAfter \/ OpenAddInZip
  BY <1>1 DEF OpenCreate, OpenCreateAfter, OpenAddInZip, Opened
<1>2. CASE OpenFails
  BY <1>2 DEF OpenFails, callVars
<1>3. CASE \E kind \in Kinds : CallOpenNewFile(kind)
  BY <1>3 DEF CallOpenNewFile
<1>4. CASE \E n \in WriteSizes : CallWrite(n)
  BY <1>4, BoundsAssumption DEF CallWrite
<1>5. CASE WriteReturns
  BY <1>5 DEF WriteReturns, Return
<1>6. CASE \E given \in {0, Max32} : CallCloseFile(given)
  BY <1>6 DEF CallCloseFile
<1>7. CASE WriteDescriptor
  BY <1>7 DEF WriteDescriptor
<1>8. CASE AddRecord
  BY <1>8 DEF AddRecord, Return
<1>9. CASE CallRefused
  BY <1>9 DEF CallRefused, Return
<1>10. CASE CallClose
  BY <1>10 DEF CallClose
<1>11. CASE WriteCentralDir \/ WriteEnd64 \/ WriteEnd
  BY <1>11 DEF WriteCentralDir, WriteEnd64, WriteEnd
<1>12. CASE Prepend
  BY <1>12 DEF Prepend, callVars
<1>13. CASE Finished \/ UNCHANGED vars
  BY <1>13 DEF Finished, vars, callVars
<1> QED
  BY <1>1, <1>2, <1>3, <1>4, <1>5, <1>6, <1>7, <1>8, <1>9, <1>10, <1>11, <1>12,
     <1>13, CompressFits, FinishFits, FlushFits, NewEntryFits, CloseFits DEF Next

\* Whatever is written, and whichever flush fails, the compressor never writes
\* behind the end of the buffer and knows the room there is in it.
THEOREM OutputFits == Spec => []BufferFits
<1>1. BufferInv => BufferFits
  BY DEF BufferInv
<1> QED
  BY InitBuffer, NextFits, <1>1, PTL DEF Spec

-----------------------------------------------------------------------------
(* Sequences of cells.                                                     *)

IsSeq(s) == Len(s) \in Nat /\ s = [i \in 1..Len(s) |-> s[i]]

\* The records at the end of an archive hold numbers.
Fields(c) ==
    /\ c.kind \in {"end", "end64"} => c.entries \in Nat /\ c.size \in Nat
    /\ c.kind \in {"end", "end64", "locator64"} => c.offset \in Nat

AreCells(s) == IsSeq(s) /\ \A i \in 1..Len(s) : Fields(s[i])

LEMMA SeqIsSeq ==
    ASSUME NEW S, NEW s \in Seq(S)
    PROVE  IsSeq(s)
BY LenProperties DEF IsSeq

LEMMA IsSeqSeq ==
    ASSUME NEW s, IsSeq(s)
    PROVE  s \in Seq({s[i] : i \in 1..Len(s)})
<1>1. s \in [1..Len(s) -> {s[i] : i \in 1..Len(s)}]
  BY DEF IsSeq
<1> QED
  BY <1>1, SeqDef DEF IsSeq

\* A function on the first n numbers is a sequence of length n.
LEMMA FunIsSeq ==
    ASSUME NEW s, NEW n \in Nat, s = [i \in 1..n |-> s[i]]
    PROVE  IsSeq(s) /\ Len(s) = n
<1>1. s \in [1..n -> {s[i] : i \in 1..n}]
  OBVIOUS
<1>2. s \in Seq({s[i] : i \in 1..n})
  BY <1>1, SeqDef
<1>3. DOMAIN s = 1..n /\ DOMAIN s = 1..Len(s) /\ Len(s) \in Nat
  BY <1>1, <1>2, LenProperties
<1> QED
  BY <1>2, <1>3, SeqIsSeq

LEMMA CommonSet ==
    ASSUME NEW s, NEW t, IsSeq(s), IsSeq(t)
    PROVE  \E S : s \in Seq(S) /\ t \in Seq(S)
<1> DEFINE S == {s[i] : i \in 1..Len(s)} \cup {t[i] : i \in 1..Len(t)}
<1>1. s \in Seq({s[i] : i \in 1..Len(s)}) /\ t \in Seq({t[i] : i \in 1..Len(t)})
  BY IsSeqSeq
<1>2. s \in Seq(S) /\ t \in Seq(S)
  BY <1>1, SeqMonotonic
<1> QED
  BY <1>2

LEMMA AppendCells ==
    ASSUME NEW s, NEW c, IsSeq(s)
    PROVE  /\ IsSeq(Append(s, c)) /\ Len(Append(s, c)) = Len(s) + 1
           /\ \A i \in 1..Len(s) : Append(s, c)[i] = s[i]
           /\ Append(s, c)[Len(s) + 1] = c
           /\ AreCells(s) /\ Fields(c) => AreCells(Append(s, c))
<1> DEFINE S == {s[i] : i \in 1..Len(s)} \cup {c}
           a == Append(s, c)
<1>1. s \in Seq(S) /\ c \in S
  <2>1. s \in Seq({s[i] : i \in 1..Len(s)})
    BY IsSeqSeq
  <2> QED
    BY <2>1, SeqMonotonic
<1>2. /\ a \in Seq(S) /\ Len(a) = Len(s) + 1 /\ Len(s) \in Nat
      /\ \A i \in 1..Len(s) : a[i] = s[i]
      /\ a[Len(s) + 1] = c
  BY <1>1, AppendProperties, LenProperties
<1> HIDE DEF a
<1>3. ASSUME AreCells(s), Fields(c), NEW i \in 1..Len(a) PROVE Fields(a[i])
  <2>1. i \in 1..Len(s) \/ i = Len(s) + 1
    BY <1>2, <1>3
  <2> QED
    BY <1>2, <1>3, <2>1 DEF AreCells
<1> QED
  BY <1>2, <1>3, SeqIsSeq DEF AreCells, a

LEMMA SubCells ==
    ASSUME NEW s, AreCells(s), NEW m \in Nat \ {0}, NEW n \in Nat, m <= n + 1, n <= Len(s)
    PROVE  LET t == SubSeq(s, m, n)
           IN  /\ AreCells(t) /\ Len(t) = n - m + 1
               /\ \A i \in 1..(n - m + 1) : t[i] = s[m + i - 1]
<1> DEFINE S == {s[i] : i \in 1..Len(s)}
           t == SubSeq(s, m, n)
<1>1. \A i \in m..n : s[i] \in S
  BY DEF AreCells, IsSeq
<1>2. t \in Seq(S) /\ Len(t) = n - m + 1 /\ \A i \in 1..(n - m + 1) : t[i] = s[m + i - 1]
  BY <1>1, SubSeqProperties
<1> HIDE DEF t
<1>3. ASSUME NEW i \in 1..Len(t) PROVE Fields(t[i])
  <2>1. m + i - 1 \in 1..Len(s) /\ t[i] = s[m + i - 1]
    BY <1>2 DEF AreCells, IsSeq
  <2> QED
    BY <2>1 DEF AreCells
<1> QED
  BY <1>2, <1>3, SeqIsSeq DEF AreCells, t

\* What a write leaves in a file.
LEMMA Written ==
    ASSUME AreCells(file), at \in 0..Len(file), NEW cells, AreCells(cells)
    PROVE  LET w == WrittenAt(cells)
           IN  /\ AreCells(w)
               /\ Len(w) = IF at + Len(cells) > Len(file) THEN at + Len(cells) ELSE Len(file)
               /\ \A i \in 1..at : w[i] = file[i]
               /\ \A i \in 1..Len(cells) : w[at + i] = cells[i]
<1> DEFINE w == WrittenAt(cells)
           n == IF at + Len(cells) > Len(file) THEN at + Len(cells) ELSE Len(file)
<1>1. n \in Nat /\ at \in Nat /\ Len(cells) \in Nat /\ Len(file) \in Nat
  BY DEF AreCells, IsSeq
<1>2. w = [i \in 1..n |-> IF i \in (at + 1)..(at + Len(cells)) THEN cells[i - at] ELSE file[i]]
  BY DEF WrittenAt
<1> HIDE DEF w, n
<1>3. \A i \in 1..n : w[i] = IF i \in (at + 1)..(at + Len(cells)) THEN cells[i - at] ELSE file[i]
  BY <1>2
<1>4. w = [i \in 1..n |-> w[i]]
  BY <1>2, <1>3
<1>5. IsSeq(w) /\ Len(w) = n
  BY <1>1, <1>4, FunIsSeq
<1>6. ASSUME NEW i \in 1..n PROVE Fields(w[i])
  <2>1. CASE i \in (at + 1)..(at + Len(cells))
    <3>1. i - at \in 1..Len(cells)
      BY <1>1, <2>1
    <3> QED
      BY <1>3, <2>1, <3>1 DEF AreCells
  <2>2. CASE i \notin (at + 1)..(at + Len(cells))
    <3>1. i \in 1..Len(file)
      BY <1>1, <2>2 DEF n
    <3> QED
      BY <1>3, <2>2, <3>1 DEF AreCells
  <2> QED
    BY <2>1, <2>2
<1>7. \A i \in 1..at : i \in 1..n /\ i \notin (at + 1)..(at + Len(cells))
  BY <1>1 DEF n
<1>8. \A i \in 1..Len(cells) :
          at + i \in 1..n /\ at + i \in (at + 1)..(at + Len(cells)) /\ (at + i) - at = i
  BY <1>1 DEF n
<1>9. \A i \in 1..Len(cells) : w[at + i] = cells[i]
  BY <1>3, <1>8
<1>10. \A i \in 1..at : w[i] = file[i]
  BY <1>3, <1>7
<1> QED
  BY <1>5, <1>6, <1>9, <1>10 DEF AreCells, w, n

\* Whatever is written, the cells in front of the stream stay.
Prefix ==
    /\ AreCells(file')
    /\ at' \in at..Len(file') /\ Len(file) <= Len(file')
    /\ \A i \in 1..at : file'[i] = file[i]

LEMMA WritePrefix ==
    ASSUME AreCells(file), at \in 0..Len(file), NEW cells, AreCells(cells), Write(cells)
    PROVE  /\ Prefix /\ at' = at + Len(cells)
           /\ Len(file') = IF at + Len(cells) > Len(file) THEN at + Len(cells) ELSE Len(file)
           /\ \A i \in 1..Len(cells) : file'[at + i] = cells[i]
<1>1. file' = WrittenAt(cells) /\ at' = at + Len(cells)
  BY DEF Write
<1>2. Len(cells) \in Nat /\ Len(file) \in Nat
  BY DEF AreCells, IsSeq
<1> QED
  BY <1>1, <1>2, Written DEF Prefix

LEMMA FailsPrefix ==
    ASSUME AreCells(file), at \in 0..Len(file), NEW cells, AreCells(cells), WriteFails(cells)
    PROVE  Prefix
<1>1. Len(cells) \in Nat /\ Len(file) \in Nat
  BY DEF AreCells, IsSeq
<1>2. PICK n \in 0..(Len(cells) - 1) :
          LET written == SubSeq(cells, 1, n)
          IN  \/ file' = WrittenAt(written) /\ at' = at + n
              \/ /\ file' = WrittenAt(Append(written, Torn))
                 /\ at' = at + n + 1
  BY DEF WriteFails
<1> DEFINE written == SubSeq(cells, 1, n)
<1>3. AreCells(written) /\ Len(written) = n
  <2>1. n \in Nat /\ 1 <= n + 1 /\ n <= Len(cells) /\ n - 1 + 1 = n
    BY <1>1
  <2> QED
    BY <2>1, SubCells
<1> HIDE DEF written
<1>4. AreCells(Append(written, Torn)) /\ Len(Append(written, Torn)) = n + 1
  <2>1. Fields(Torn)
    BY DEF Fields, Torn
  <2> QED
    BY <1>3, <2>1, AppendCells DEF AreCells
<1>5. ASSUME NEW torn, AreCells(torn), file' = WrittenAt(torn), at' = at + Len(torn)
      PROVE  Prefix
  <2>1. Len(torn) \in Nat
    BY <1>5 DEF AreCells, IsSeq
  <2> QED
    BY <1>1, <1>5, <2>1, Written DEF Prefix
<1>6. \/ file' = WrittenAt(written) /\ at' = at + n
      \/ file' = WrittenAt(Append(written, Torn)) /\ at' = at + n + 1
  BY <1>2 DEF written
<1>7. at + n + 1 = at + (n + 1)
  BY <1>1
<1> QED
  BY <1>3, <1>4, <1>5, <1>6, <1>7

-----------------------------------------------------------------------------
(* Finding the directory.                                                  *)

LEMMA LeastNatural ==
    ASSUME NEW T \in SUBSET Nat, T # {}
    PROVE  \E x \in T : \A y \in T : x <= y
<1> DEFINE R == {ss \in Nat \X Nat : ss[1] < ss[2]}
<1>1. IsWellFoundedOn(R, Nat)
  BY NatLessThanWellFounded, Zenon DEF OpToRel
<1>2. \E x \in T : \A y \in T : ~(<<y, x>> \in R)
  <2> HIDE DEF R
  <2> QED
    BY <1>1, WFMin, Zenon
<1>3. \A x, y \in Nat : ~(<<y, x>> \in R) => x <= y
  OBVIOUS
<1> QED
  BY <1>2, <1>3

LEMMA MaxIsGreatest ==
    ASSUME NEW S \in SUBSET Nat, NEW n \in Nat, \A x \in S : x <= n, S # {}
    PROVE  Max(S) \in S /\ \A y \in S : Max(S) >= y
<1> DEFINE T == {n - x : x \in S}
<1>1. T \in SUBSET Nat
  OBVIOUS
<1>2. T # {}
  OBVIOUS
<1>3. PICK t \in T : \A y \in T : t <= y
  BY <1>1, <1>2, LeastNatural
<1>4. PICK x \in S : t = n - x
  OBVIOUS
<1>5. \A y \in S : n - x <= n - y
  BY <1>3, <1>4
<1>6. \A y \in S : x >= y
  BY <1>5
<1> QED
  BY <1>4, <1>6 DEF Max

\* Where the last end record is found.
LEMMA SearchFinds ==
    ASSUME NEW cells, AreCells(cells), NEW i \in 1..Len(cells), cells[i].kind = "end"
    PROVE  /\ SearchCentralDir(cells) + 1 \in i..Len(cells)
           /\ SearchCentralDir(cells) \in Nat
           /\ cells[SearchCentralDir(cells) + 1].kind = "end"
<1> DEFINE ends == {k \in 1..Len(cells) : cells[k].kind = "end"}
<1>1. Len(cells) \in Nat
  BY DEF AreCells, IsSeq
<1>2. ends \in SUBSET Nat /\ (\A x \in ends : x <= Len(cells)) /\ i \in ends
  BY <1>1
<1> HIDE DEF ends
<1>3. Max(ends) \in ends /\ Max(ends) >= i
  BY <1>1, <1>2, MaxIsGreatest
<1>4. SearchCentralDir(cells) = Max(ends) - 1
  BY <1>2 DEF SearchCentralDir, ends
<1>5. Max(ends) \in 1..Len(cells) /\ cells[Max(ends)].kind = "end"
  BY <1>3 DEF ends
<1> QED
  BY <1>1, <1>3, <1>4, <1>5

LEMMA SearchType ==
    ASSUME NEW cells, AreCells(cells), cells # <<>>
    PROVE  SearchCentralDir(cells) \in 0..(Len(cells) - 1)
<1>1. Len(cells) \in Nat
  BY DEF AreCells, IsSeq
<1>2. Len(cells) # 0
  <2> SUFFICES ASSUME Len(cells) = 0 PROVE cells = <<>>
    OBVIOUS
  <2>1. cells = [i \in {} |-> cells[i]]
    BY 1..0 = {} DEF AreCells, IsSeq
  <2> QED
    BY <2>1
<1>3. CASE \E i \in 1..Len(cells) : cells[i].kind = "end"
  BY <1>1, <1>3, SearchFinds
<1>4. CASE ~ \E i \in 1..Len(cells) : cells[i].kind = "end"
  BY <1>1, <1>2, <1>4 DEF SearchCentralDir
<1> QED
  BY <1>3, <1>4

LEMMA DirectoryAtType ==
    ASSUME NEW pos \in Nat, NEW c, c.entries \in Nat, c.size \in Nat, c.offset \in Nat,
           DirectoryAt(pos, c).found
    PROVE  LET d == DirectoryAt(pos, c)
           IN  /\ d.entries = c.entries /\ d.size = c.size /\ d.offset = c.offset
               /\ d.before \in Nat /\ d.offset + d.before + d.size = pos
<1>1. ~(pos < c.offset + c.size)
  BY DEF DirectoryAt, NoDirectory
<1> QED
  BY <1>1 DEF DirectoryAt

\* What a directory that is found can be.
LEMMA DirectoryType ==
    ASSUME NEW cells, AreCells(cells), Directory(cells).found
    PROVE  LET d == Directory(cells)
           IN  /\ d.entries \in Nat /\ d.size \in Nat /\ d.offset \in Nat /\ d.before \in Nat
               /\ d.offset + d.before + d.size <= Len(cells)
<1> DEFINE d == Directory(cells)
           pos == SearchCentralDir(cells)
           record == EndRecord(cells)
           pos64 == SearchCentralDir64(cells, pos)
<1>1. Len(cells) \in Nat
  BY DEF AreCells, IsSeq
<1>2. /\ record.kind = "end"
      /\ \/ d = DirectoryAt(pos, record)
         \/ pos64 # 0 /\ d = DirectoryAt(pos64, cells[pos64 + 1])
  BY DEF Directory, NoDirectory
<1>3. CASE cells = <<>>
  <2>1. pos = 0
    BY <1>3 DEF SearchCentralDir
  <2>2. pos64 = 0
    BY <2>1 DEF SearchCentralDir64
  <2>3. record.entries = 0 /\ record.size = 0 /\ record.offset = 0
    BY <1>3, WidthAssumption DEF EndRecord, End, Put
  <2>4. d = DirectoryAt(0, record)
    BY <1>2, <2>1, <2>2
  <2>5. d.entries = 0 /\ d.size = 0 /\ d.offset = 0 /\ d.before = 0
    BY <2>3, <2>4 DEF DirectoryAt
  <2> QED
    BY <1>1, <2>5
<1>4. CASE cells # <<>>
  <2>1. pos \in 0..(Len(cells) - 1)
    BY <1>4, SearchType
  <2>2. record = cells[pos + 1] /\ pos + 1 \in 1..Len(cells)
    BY <1>1, <1>4, <2>1 DEF EndRecord
  <2>3. CASE d = DirectoryAt(pos, record)
    <3>1. Fields(record)
      BY <2>2 DEF AreCells
    <3>2. record.entries \in Nat /\ record.size \in Nat /\ record.offset \in Nat
      BY <1>2, <3>1 DEF Fields
    <3> HIDE DEF d, pos, record, pos64
    <3>3. DirectoryAt(pos, record).found
      BY <2>3 DEF d
    <3> QED
      BY <1>1, <2>1, <2>3, <3>2, <3>3, DirectoryAtType DEF d
  <2>4. CASE pos64 # 0 /\ d = DirectoryAt(pos64, cells[pos64 + 1])
    <3> DEFINE c == cells[pos64 + 1]
    <3>1. pos64 + 1 \in 1..Len(cells) /\ c.kind = "end64"
      BY <2>4 DEF SearchCentralDir64
    <3>2. pos > 0 /\ pos64 = cells[pos].offset /\ cells[pos].kind = "locator64"
      BY <2>4 DEF SearchCentralDir64
    <3>7. cells[pos].offset \in Nat
      BY <1>1, <2>1, <3>2 DEF AreCells, Fields
    <3>3. Fields(c)
      BY <3>1 DEF AreCells
    <3>4. c.entries \in Nat /\ c.size \in Nat /\ c.offset \in Nat
      BY <3>1, <3>3 DEF Fields
    <3> HIDE DEF d, pos, record, pos64, c
    <3>5. pos64 \in Nat /\ pos64 <= Len(cells)
      BY <1>1, <3>1, <3>2, <3>7
    <3>6. DirectoryAt(pos64, c).found
      BY <2>4 DEF d, c
    <3> QED
      BY <1>1, <2>4, <3>4, <3>5, <3>6, DirectoryAtType DEF d, c
  <2> QED
    BY <1>2, <2>3, <2>4
<1> QED
  BY <1>3, <1>4

-----------------------------------------------------------------------------
(* Which call is in progress.                                              *)

AtEntry == pc \in {"write", "finish", "tail", "descriptor", "record"}

CallInv ==
    /\ reported \in BOOLEAN /\ sound \in BOOLEAN /\ in_opened_file_inzip \in BOOLEAN
    /\ err \in {"ok", "error"}
    /\ pc \in {"null", "idle"} => call.name = "none"
    /\ pc = "header" => call.name = "open"
    /\ pc = "write" => call.name = "write"
    /\ pc \in {"finish", "tail", "descriptor", "record"} =>
           call.name \in {"open", "closeFile", "close"}
    /\ pc \in {"central", "end64", "end", "fclose"} => call.name = "close"
    /\ AtEntry => in_opened_file_inzip
    /\ in_opened_file_inzip => AtEntry \/ pc = "idle"

LEMMA InitCall == Init => CallInv
<1>1. Init => /\ reported = FALSE /\ in_opened_file_inzip = FALSE
              /\ sound = (file = <<>>)
  BY Zenon DEF Init
<1>2. Init => /\ reported \in BOOLEAN /\ sound \in BOOLEAN
              /\ in_opened_file_inzip \in BOOLEAN /\ ~in_opened_file_inzip
  BY <1>1, Zenon
<1>3. Init => pc = "null" /\ err = "ok" /\ call.name = "none"
  BY DEF Init, NoCall
<1> HIDE DEF Init
<1> QED
  BY <1>2, <1>3 DEF CallInv, AtEntry

\* A call that returns an error or not.
LEMMA Returns ==
    ASSUME NEW result, Return(result)
    PROVE  pc' = "idle" /\ call'.name = "none" /\ reported' \in BOOLEAN /\ err' = "ok"
<1>1. reported' \in BOOLEAN
  BY Zenon DEF Return
<1> QED
  BY <1>1 DEF Return, NoCall

LEMMA NextCall == CallInv /\ [Next]_vars => CallInv'
<1> SUFFICES ASSUME CallInv, [Next]_vars PROVE CallInv'
  OBVIOUS
<1> USE DEF CallInv, AtEntry, callVars, entryVars, ghostVars
<1>1. CASE OpenCreate \/ OpenCreateAfter \/ OpenAddInZip
  BY <1>1 DEF OpenCreate, OpenCreateAfter, OpenAddInZip, Opened
<1>2. CASE OpenFails
  BY <1>2 DEF OpenFails
<1>3. CASE \E kind \in Kinds : CallOpenNewFile(kind)
  BY <1>3 DEF CallOpenNewFile
<1>4. CASE WriteLocalHeader \/ OpenNewFileFails
  <2>1. Return("ok") \/ Return("error")
    BY <1>4 DEF WriteLocalHeader, OpenNewFileFails
  <2>2. pc' = "idle" /\ call'.name = "none" /\ reported' \in BOOLEAN /\ err' = "ok"
    BY <2>1, Returns
  <2> QED
    BY <1>4, <2>2 DEF WriteLocalHeader, OpenNewFileFails
<1>5. CASE \E n \in WriteSizes : CallWrite(n)
  BY <1>5 DEF CallWrite
<1>6. CASE Compress
  BY <1>6 DEF Compress
<1>7. CASE FlushInWrite \/ FlushInFinish \/ FlushTail
  BY <1>7 DEF FlushInWrite, FlushInFinish, FlushTail, Flush, FlushFails
<1>8. CASE WriteReturns
  <2>1. pc' = "idle" /\ call'.name = "none" /\ reported' \in BOOLEAN /\ err' = "ok"
    BY <1>8, Returns DEF WriteReturns
  <2> QED
    BY <1>8, <2>1 DEF WriteReturns
<1>9. CASE \E given \in {0, Max32} : CallCloseFile(given)
  BY <1>9 DEF CallCloseFile
<1>10. CASE Finish
  BY <1>10 DEF Finish
<1>11. CASE WriteDescriptor
  BY <1>11 DEF WriteDescriptor
<1>12. CASE AddRecord
  <2>1. \/ pc' = "header" /\ call.name = "open" /\ UNCHANGED <<call, err, reported>>
        \/ pc' = "central" /\ call.name = "close" /\ UNCHANGED <<call, err, reported>>
        \/ Return(err)
    BY <1>12 DEF AddRecord
  <2>2. \/ pc' = "header" /\ call.name = "open" /\ UNCHANGED <<call, err, reported>>
        \/ pc' = "central" /\ call.name = "close" /\ UNCHANGED <<call, err, reported>>
        \/ pc' = "idle" /\ call'.name = "none" /\ reported' \in BOOLEAN /\ err' = "ok"
    BY <2>1, Returns
  <2>3. in_opened_file_inzip' = FALSE /\ sound' = sound
    BY <1>12 DEF AddRecord
  <2> QED
    BY <2>2, <2>3
<1>13. CASE CallRefused
  <2>1. pc' = "idle" /\ call'.name = "none" /\ reported' \in BOOLEAN /\ err' = "ok"
    BY <1>13, Returns DEF CallRefused
  <2> QED
    BY <1>13, <2>1 DEF CallRefused
<1>14. CASE CallClose
  BY <1>14 DEF CallClose
<1>15. CASE WriteCentralDir \/ WriteEnd
  BY <1>15 DEF WriteCentralDir, WriteEnd
<1>16. CASE WriteEnd64
  BY <1>16 DEF WriteEnd64
<1>17. CASE CloseStream
  BY <1>17 DEF CloseStream, Fclose, NoCall
<1>18. CASE Prepend
  BY <1>18 DEF Prepend
<1>19. CASE Finished \/ UNCHANGED vars
  BY <1>19 DEF Finished, vars
<1> QED
  BY <1>1, <1>2, <1>3, <1>4, <1>5, <1>6, <1>7, <1>8, <1>9, <1>10, <1>11, <1>12,
     <1>13, <1>14, <1>15, <1>16, <1>17, <1>18, <1>19 DEF Next

-----------------------------------------------------------------------------
(* What the file and the directory are made of.                            *)

Closing == pc \in {"end64", "end", "fclose"}

Typed ==
    /\ AreCells(file) /\ AreCells(central_dir)
    /\ at \in 0..Len(file) /\ before \in Nat /\ number_entry \in Nat
    /\ pc # "null" => before <= at
    /\ dirSize \in Nat /\ dirPos \in Nat
    /\ Closing => before <= dirPos

\* A cast leaves a number alone that fits.
LEMMA Casts ==
    ASSUME NEW n \in Nat
    PROVE  Cast32(n) \in Nat /\ (n <= Max32 => Cast32(n) = n)
BY WidthAssumption DEF Cast32

LEMMA EmptyCells == AreCells(<<>>) /\ Len(<<>>) = 0
<1>1. <<>> \in Seq({}) /\ Len(<<>>) = 0
  OBVIOUS
<1>2. \A i \in 1..0 : Fields(<<>>[i])
  OBVIOUS
<1> QED
  BY <1>1, <1>2, SeqIsSeq DEF AreCells

LEMMA BufferCells ==
    ASSUME NEW s \in Seq(Cells)
    PROVE  AreCells(s)
<1>1. \A i \in 1..Len(s) : s[i] \in Cells
  BY ElementOfSeq
<1>2. \A c \in Cells : c.kind = "data"
  BY DEF Cells, Data
<1> QED
  BY <1>1, <1>2, SeqIsSeq DEF AreCells, Fields

LEMMA OneCell ==
    ASSUME NEW c, Fields(c)
    PROVE  AreCells(<<c>>) /\ Len(<<c>>) = 1 /\ <<c>>[1] = c
<1>1. <<c>> \in Seq({c}) /\ Len(<<c>>) = 1 /\ <<c>>[1] = c
  OBVIOUS
<1> HIDE DEF Fields
<1>2. \A i \in 1..1 : <<c>>[i] = c
  BY <1>1
<1> QED
  BY <1>1, <1>2, SeqIsSeq DEF AreCells

LEMMA TwoCells ==
    ASSUME NEW c, NEW d, Fields(c), Fields(d)
    PROVE  AreCells(<<c, d>>) /\ Len(<<c, d>>) = 2 /\ <<c, d>>[1] = c /\ <<c, d>>[2] = d
<1>1. <<c, d>> \in Seq({c, d}) /\ Len(<<c, d>>) = 2 /\ <<c, d>>[1] = c /\ <<c, d>>[2] = d
  OBVIOUS
<1>2. \A i \in 1..2 : <<c, d>>[i] \in {c, d}
  BY <1>1
<1> QED
  BY <1>1, <1>2, SeqIsSeq DEF AreCells

LEMMA EndFields ==
    ASSUME Typed
    PROVE  /\ dirPos - before \in Nat => Fields(End64(number_entry, dirSize, dirPos - before))
           /\ at >= before => Fields(Locator64(at - before))
           /\ dirPos - before \in Nat =>
                Fields(End(number_entry, dirSize,
                           IF dirPos - before >= Max32 THEN Max32 ELSE dirPos - before))
<1> USE WidthAssumption DEF Typed
<1>1. dirPos - before \in Nat => Fields(End64(number_entry, dirSize, dirPos - before))
  BY DEF Fields, End64
<1>2. at >= before => Fields(Locator64(at - before))
  BY DEF Fields, Locator64
<1>3. ASSUME dirPos - before \in Nat
      PROVE  Fields(End(number_entry, dirSize,
                    IF dirPos - before >= Max32 THEN Max32 ELSE dirPos - before))
  BY <1>3 DEF Fields, End, Put
<1> QED
  BY <1>1, <1>2, <1>3

LEMMA InitTyped == Init => Typed
<1> SUFFICES ASSUME Init PROVE Typed
  OBVIOUS
<1>1. AreCells(file)
  <2>1. Fields(Stub)
    BY DEF Fields, Stub
  <2> QED
    BY <2>1, EmptyCells, OneCell DEF Init
<1>2. Len(file) \in Nat
  BY <1>1 DEF AreCells, IsSeq
<1> QED
  BY <1>1, <1>2, EmptyCells DEF Init, Typed, Closing

\* A step in a handle that only writes.
LEMMA TypedStays ==
    ASSUME Typed, pc # "null", Prefix \/ UNCHANGED fileVars, UNCHANGED before,
           AreCells(central_dir)', number_entry' \in Nat,
           \/ UNCHANGED closeVars
           \/ dirPos' = at /\ dirSize' \in Nat,
           Closing' => Closing \/ dirPos' = at
    PROVE  Typed'
<1>1. AreCells(file') /\ at' \in 0..Len(file') /\ at' >= at
  <2>1. Len(file) \in Nat
    BY DEF Typed, AreCells, IsSeq
  <2>2. CASE Prefix
    BY <2>1, <2>2 DEF Typed, Prefix
  <2>3. CASE UNCHANGED fileVars
    BY <2>1, <2>3 DEF Typed, fileVars
  <2> QED
    BY <2>2, <2>3
<1>2. at \in Nat
  BY DEF Typed, AreCells, IsSeq
<1> QED
  BY <1>1, <1>2 DEF Typed, closeVars, Closing

\* Every write to the stream, whether it fails or not.
LEMMA Writes ==
    ASSUME Typed, NEW cells, AreCells(cells), Write(cells) \/ WriteFails(cells)
    PROVE  Prefix
BY WritePrefix, FailsPrefix DEF Typed

LEMMA OpenTyped ==
    ASSUME Typed, OpenCreate \/ OpenCreateAfter \/ OpenAddInZip
    PROVE  Typed'
<1>1. Len(file) \in Nat
  BY DEF Typed, AreCells, IsSeq
<1>2. pc' = "idle" /\ UNCHANGED closeVars
  BY DEF OpenCreate, OpenCreateAfter, OpenAddInZip, Opened
<1>3. CASE OpenCreate
  BY <1>2, <1>3, EmptyCells DEF OpenCreate, Typed, Closing, closeVars
<1>4. CASE OpenCreateAfter
  BY <1>1, <1>2, <1>4, EmptyCells DEF OpenCreateAfter, Typed, Closing, closeVars
<1>5. CASE OpenAddInZip
  <2> DEFINE d == Directory(file)
  <2>1. /\ d.entries \in Nat /\ d.size \in Nat /\ d.offset \in Nat /\ d.before \in Nat
        /\ d.offset + d.before + d.size <= Len(file)
    BY <1>5, DirectoryType DEF OpenAddInZip, Typed
  <2>2. /\ at' = d.offset + d.before /\ central_dir' = Records(file, d)
        /\ number_entry' = d.entries /\ before' = d.before /\ file' = file
    BY <1>5 DEF OpenAddInZip
  <2> HIDE DEF d
  <2>3. AreCells(central_dir')
    BY <1>1, <2>1, <2>2, SubCells DEF Records, Typed
  <2> QED
    BY <1>1, <1>2, <2>1, <2>2, <2>3 DEF Typed, Closing, closeVars
<1> QED
  BY <1>3, <1>4, <1>5

LEMMA EntryTyped ==
    ASSUME Typed, BufferInv, CallInv,
           \/ WriteLocalHeader \/ OpenNewFileFails \/ FlushInWrite \/ FlushInFinish
           \/ FlushTail \/ WriteDescriptor \/ AddRecord
    PROVE  Typed'
<1>1. AreCells(buffer)
  BY BufferCells DEF BufferInv
<1>2. pc # "null" /\ UNCHANGED closeVars /\ UNCHANGED before /\ ~Closing'
  BY DEF WriteLocalHeader, OpenNewFileFails, FlushInWrite, FlushInFinish, FlushTail,
         WriteDescriptor, AddRecord, Return, dirVars, Closing
<1>3. AreCells(central_dir)' /\ number_entry' \in Nat
  <2>1. CASE AddRecord
    <3>1. Fields(Record)
      BY DEF Fields, Record, Central
    <3>2. AreCells(Append(central_dir, Record))
      BY <3>1, AppendCells DEF Typed, AreCells
    <3> QED
      BY <2>1, <3>2 DEF AddRecord, Typed
  <2>2. CASE ~AddRecord
    BY <2>2 DEF WriteLocalHeader, OpenNewFileFails, FlushInWrite, FlushInFinish, FlushTail,
         WriteDescriptor, dirVars, Typed
  <2> QED
    BY <2>1, <2>2
<1>4. Prefix \/ UNCHANGED fileVars
  <2>1. CASE WriteLocalHeader \/ OpenNewFileFails
    <3> DEFINE c == Local(opened + 1)
    <3>1. Fields(c)
      BY DEF Fields, Local
    <3>2. AreCells(<<c>>) /\ Len(<<c>>) = 1
      BY <3>1, OneCell
    <3>3. \/ Write(<<c>>) \/ WriteFails(<<c>>)
          \/ file' = WrittenAt(<<c>>) /\ at' = at + 1
      BY <2>1 DEF WriteLocalHeader, OpenNewFileFails
    <3> HIDE DEF c
    <3>4. CASE file' = WrittenAt(<<c>>) /\ at' = at + 1
      <4>1. Len(file) \in Nat
        BY DEF Typed, AreCells, IsSeq
      <4> QED
        BY SMTT(20), <3>2, <3>4, <4>1, Written DEF Prefix, Typed
    <3> QED
      BY <3>2, <3>3, <3>4, Writes
  <2>2. CASE FlushInWrite \/ FlushInFinish \/ FlushTail
    <3>1. Write(buffer) \/ WriteFails(buffer) \/ UNCHANGED fileVars
      BY <2>2 DEF FlushInWrite, FlushInFinish, FlushTail, Flush, FlushFails
    <3> QED
      BY <1>1, <3>1, Writes
  <2>3. CASE WriteDescriptor
    <3> DEFINE d == Descriptor(Crc, ci.total_compressed, USize, ci.zip64)
    <3>1. Fields(d)
      BY DEF Fields, Descriptor
    <3>2. Write(<<d>>) \/ WriteFails(<<d>>)
      BY <2>3 DEF WriteDescriptor
    <3> HIDE DEF d
    <3> QED
      BY <3>1, <3>2, OneCell, Writes
  <2>4. CASE AddRecord
    BY <2>4 DEF AddRecord
  <2> QED
    BY <2>1, <2>2, <2>3, <2>4
<1> QED
  BY <1>2, <1>3, <1>4, TypedStays

LEMMA CloseTyped ==
    ASSUME Typed, WriteCentralDir \/ WriteEnd64 \/ WriteEnd
    PROVE  Typed'
<1>1. pc # "null" /\ UNCHANGED dirVars
  BY DEF WriteCentralDir, WriteEnd64, WriteEnd
<1>2. \/ UNCHANGED closeVars /\ Closing
      \/ dirPos' = at /\ dirSize' \in Nat
  <2>1. Len(central_dir) \in Nat
    BY DEF Typed, AreCells, IsSeq
  <2>2. Cast32(Len(central_dir)) \in Nat
    BY <2>1, Casts
  <2> DEFINE wrapped == Cast32(Len(central_dir))
  <2>3. CASE WriteCentralDir
    <3>1. wrapped \in Nat
      BY <2>2
    <3>2. dirPos' = at /\ dirSize' = IF err = "ok" THEN wrapped ELSE 0
      BY <2>3 DEF WriteCentralDir, Tell
    <3> HIDE DEF wrapped
    <3> QED
      BY <3>1, <3>2
  <2>4. CASE WriteEnd64 \/ WriteEnd
    BY <2>4 DEF WriteEnd64, WriteEnd, Closing
  <2> QED
    BY <2>3, <2>4
<1>3. Prefix \/ UNCHANGED fileVars
  <2>1. CASE WriteCentralDir
    <3>1. Write(central_dir) \/ WriteFails(central_dir) \/ UNCHANGED fileVars
      BY <2>1 DEF WriteCentralDir
    <3> QED
      BY <3>1, Writes DEF Typed
  <2>2. ASSUME pc \in {"end64", "end"} PROVE dirPos - before \in Nat
    BY <2>2 DEF Typed, Closing
  <2>3. CASE WriteEnd64
    <3> DEFINE c == End64(number_entry, dirSize, dirPos - before)
               l == Locator64(at - before)
    <3>1. Fields(c) /\ Fields(l)
      <4>1. at >= before
        BY <1>1 DEF Typed
      <4> QED
        BY <2>2, <2>3, <4>1, EndFields DEF WriteEnd64
    <3>2. Write(<<c, l>>) \/ WriteFails(<<c, l>>) \/ UNCHANGED fileVars
      BY <2>3 DEF WriteEnd64, Tell
    <3> HIDE DEF c, l
    <3> QED
      BY <3>1, <3>2, TwoCells, Writes
  <2>4. CASE WriteEnd
    <3> DEFINE c == End(number_entry, dirSize,
                        IF dirPos - before >= Max32 THEN Max32 ELSE dirPos - before)
    <3>1. Fields(c)
      BY <2>2, <2>4, EndFields DEF WriteEnd
    <3>2. Write(<<c>>) \/ WriteFails(<<c>>) \/ UNCHANGED fileVars
      BY <2>4 DEF WriteEnd
    <3> HIDE DEF c
    <3> QED
      BY <3>1, <3>2, OneCell, Writes
  <2> QED
    BY <2>1, <2>3, <2>4
<1>4. AreCells(central_dir)' /\ number_entry' \in Nat /\ UNCHANGED before
  BY <1>1 DEF Typed, dirVars
<1> QED
  BY <1>1, <1>2, <1>3, <1>4, TypedStays

LEMMA CloseStreamTyped == Typed /\ CloseStream => Typed'
<1> SUFFICES ASSUME Typed, CloseStream PROVE Typed'
  OBVIOUS
<1>1. Len(file) \in Nat
  BY DEF Typed, AreCells, IsSeq
<1> QED
  BY <1>1, EmptyCells DEF CloseStream, Typed, Closing

\* What is put in front of a file moves its cells.
LEMMA Shifted ==
    ASSUME NEW cells, AreCells(cells)
    PROVE  LET moved == <<Stub>> \o cells
           IN  /\ AreCells(moved) /\ Len(moved) = Len(cells) + 1
               /\ \A i \in 1..Len(cells) : moved[i + 1] = cells[i]
<1> DEFINE S == {cells[i] : i \in 1..Len(cells)} \cup {Stub}
           moved == <<Stub>> \o cells
<1>1. cells \in Seq(S)
  <2>1. cells \in Seq({cells[i] : i \in 1..Len(cells)})
    BY IsSeqSeq DEF AreCells
  <2> QED
    BY <2>1, SeqMonotonic
<1>2. <<Stub>> \in Seq(S) /\ Len(<<Stub>>) = 1 /\ <<Stub>>[1] = Stub
  OBVIOUS
<1>3. Len(cells) \in Nat
  BY DEF AreCells, IsSeq
<1>4. /\ moved \in Seq(S) /\ Len(moved) = 1 + Len(cells)
      /\ \A i \in 1..(1 + Len(cells)) : moved[i] = IF i <= 1 THEN <<Stub>>[i] ELSE cells[i - 1]
  BY <1>1, <1>2, ConcatProperties
<1> HIDE DEF moved
<1>5. ASSUME NEW i \in 1..Len(cells) PROVE moved[i + 1] = cells[i]
  <2>1. i + 1 \in 1..(1 + Len(cells)) /\ ~(i + 1 <= 1) /\ i + 1 - 1 = i
    BY <1>3
  <2> QED
    BY <1>4, <2>1
<1>6. Fields(Stub)
  BY DEF Fields, Stub
<1>7. ASSUME NEW i \in 1..Len(moved) PROVE Fields(moved[i])
  <2>1. CASE i = 1
    BY <1>2, <1>3, <1>4, <1>6, <2>1
  <2>2. CASE i # 1
    <3>1. i - 1 \in 1..Len(cells) /\ i = (i - 1) + 1
      BY <1>3, <1>4, <2>2
    <3> QED
      BY <1>5, <3>1 DEF AreCells
  <2> QED
    BY <2>1, <2>2
<1>8. AreCells(moved)
  BY <1>4, <1>7, SeqIsSeq DEF AreCells
<1> QED
  BY <1>3, <1>4, <1>5, <1>8 DEF moved

LEMMA PrependTyped == Typed /\ Prepend => Typed'
<1> SUFFICES ASSUME Typed, Prepend PROVE Typed'
  OBVIOUS
<1>1. AreCells(file') /\ Len(file') = Len(file) + 1 /\ Len(file) \in Nat
  BY Shifted DEF Prepend, Typed, AreCells, IsSeq
<1> QED
  BY <1>1 DEF Prepend, Typed, Closing, callVars, dirVars, closeVars

LEMMA NextTyped == Typed /\ BufferInv /\ CallInv /\ [Next]_vars => Typed'
<1> SUFFICES ASSUME Typed, BufferInv, CallInv, [Next]_vars PROVE Typed'
  OBVIOUS
<1>1. ASSUME UNCHANGED <<fileVars, dirVars, closeVars>>, Closing' => Closing,
             pc' # "null" => pc # "null"
      PROVE  Typed'
  BY <1>1 DEF Typed, fileVars, dirVars, closeVars, AreCells, IsSeq
<1> USE DEF Closing, callVars
<1>2. CASE OpenFails
  BY <1>1, <1>2 DEF OpenFails
<1>3. CASE \E kind \in Kinds : CallOpenNewFile(kind)
  BY <1>1, <1>3 DEF CallOpenNewFile
<1>4. CASE \E n \in WriteSizes : CallWrite(n)
  BY <1>1, <1>4 DEF CallWrite
<1>5. CASE Compress
  BY <1>1, <1>5 DEF Compress
<1>6. CASE WriteReturns
  BY <1>1, <1>6 DEF WriteReturns, Return
<1>7. CASE \E given \in {0, Max32} : CallCloseFile(given)
  BY <1>1, <1>7 DEF CallCloseFile
<1>8. CASE Finish
  BY <1>1, <1>8 DEF Finish
<1>9. CASE CallRefused
  BY <1>1, <1>9 DEF CallRefused, Return
<1>10. CASE CallClose
  BY <1>1, <1>10 DEF CallClose
<1>11. CASE Finished \/ UNCHANGED vars
  BY <1>1, <1>11 DEF Finished, vars
<1> QED
  BY <1>2, <1>3, <1>4, <1>5, <1>6, <1>7, <1>8, <1>9, <1>10, <1>11, OpenTyped, EntryTyped,
     CloseTyped, CloseStreamTyped, PrependTyped DEF Next

\* Nothing has failed, in this handle or before.
Good == sound /\ ~reported /\ err = "ok"

LEMMA GoodBefore == CallInv /\ NoError /\ [Next]_vars /\ pc # "null" /\ Good' => Good
<1> SUFFICES ASSUME CallInv, NoError, [Next]_vars, pc # "null", Good' PROVE Good
  OBVIOUS
<1>1. ASSUME NEW result, Return(result) PROVE ~reported /\ result = "ok"
  BY <1>1, Zenon DEF Return, Good
<1>2. ASSUME err' = err \/ err' = "error" \/ err = "ok", reported' = reported, sound' = sound
      PROVE  Good
  BY <1>2 DEF Good
<1> USE DEF callVars, ghostVars
<1>3. CASE \E kind \in Kinds : CallOpenNewFile(kind)
  BY <1>2, <1>3 DEF CallOpenNewFile, NoError
<1>4. CASE WriteLocalHeader \/ OpenNewFileFails
  BY <1>1, <1>4 DEF WriteLocalHeader, OpenNewFileFails, NoError, Good
<1>5. CASE \E n \in WriteSizes : CallWrite(n)
  BY <1>2, <1>5 DEF CallWrite, NoError
<1>6. CASE Compress
  BY <1>2, <1>6 DEF Compress
<1>7. CASE FlushInWrite \/ FlushInFinish \/ FlushTail
  BY <1>2, <1>7 DEF FlushInWrite, FlushInFinish, FlushTail, Flush, FlushFails
<1>8. CASE WriteReturns
  BY <1>1, <1>8 DEF WriteReturns, Good
<1>9. CASE \E given \in {0, Max32} : CallCloseFile(given)
  BY <1>2, <1>9 DEF CallCloseFile, NoError
<1>10. CASE Finish
  BY <1>2, <1>10 DEF Finish
<1>11. CASE WriteDescriptor
  BY <1>2, <1>11 DEF WriteDescriptor
<1>12. CASE AddRecord
  <2>1. UNCHANGED <<err, reported>> \/ Return(err)
    BY <1>12 DEF AddRecord
  <2>2. sound' = sound
    BY <1>12 DEF AddRecord
  <2> QED
    BY <1>1, <1>2, <2>1, <2>2 DEF Good
<1>13. CASE CallRefused
  BY <1>1, <1>13 DEF CallRefused
<1>14. CASE CallClose
  BY <1>2, <1>14 DEF CallClose, NoError
<1>15. CASE WriteCentralDir \/ WriteEnd
  BY <1>2, <1>15 DEF WriteCentralDir, WriteEnd
<1>16. CASE WriteEnd64
  <2>1. sound /\ (NeedsEnd64 => err # "error")
    BY <1>16, Zenon DEF WriteEnd64, Good
  <2>2. NeedsEnd64 \/ err' = err
    BY <1>16 DEF WriteEnd64
  <2> QED
    BY <1>16, <2>1, <2>2 DEF WriteEnd64, CallInv, Good
<1>17. CASE CloseStream
  <2>1. sound /\ ~reported'
    BY <1>17, Zenon DEF CloseStream, Good
  <2>2. ~reported /\ err = "ok"
    BY <1>17, <2>1, Zenon DEF CloseStream, Fclose
  <2> QED
    BY <2>1, <2>2 DEF Good
<1>18. CASE UNCHANGED vars
  BY <1>2, <1>18 DEF vars
<1> QED
  BY <1>3, <1>4, <1>5, <1>6, <1>7, <1>8, <1>9, <1>10, <1>11, <1>12, <1>13, <1>14, <1>15,
     <1>16, <1>17, <1>18
  DEF Next, OpenCreate, OpenCreateAfter, OpenAddInZip, OpenFails, Opened, Prepend, Finished

-----------------------------------------------------------------------------
(* The entries that were closed.                                           *)

\* An entry stays where its record says, in front of limit.
KeptAt(r, c, cells, stub, limit) ==
    /\ Describes(r, c, cells, stub)
    /\ c.blocks \in Nat /\ OffsetOf(r) \in Nat
    /\ stub = 0 \/ r.offset # Max32 => OffsetOf(r) + stub + BlocksOf(c) + 2 <= limit

LEMMA BlocksType ==
    ASSUME NEW c, c.blocks \in Nat
    PROVE  BlocksOf(c) \in Nat /\ BlocksOf(c) >= c.blocks
           /\ (c.mode = "deflate" => BlocksOf(c) = c.blocks + 1)
BY DEF BlocksOf

LEMMA StoredMoves ==
    ASSUME NEW c, c.blocks \in Nat, NEW cells, NEW others, NEW o \in Nat, NEW p \in Nat,
           Stored(c, cells, o), p + BlocksOf(c) + 2 <= Len(others),
           \A i \in 1..(BlocksOf(c) + 2) : others[p + i] = cells[o + i]
    PROVE  Stored(c, others, p)
<1> DEFINE n == BlocksOf(c)
           k == c.blocks
<1>1. n \in Nat /\ k \in Nat /\ n >= k /\ (c.mode = "deflate" => n = k + 1)
  BY BlocksType
<1>0. /\ \A i \in 1..(n + 2) : others[p + i] = cells[o + i]
      /\ cells[o + 1] = Local(c.entry)
      /\ \A b \in 1..k : cells[o + 1 + b] = Data(c.entry, b)
      /\ c.mode = "deflate" => cells[o + 2 + k] = Data(c.entry, 0)
  BY DEF Stored
<1> HIDE DEF n, k
<1>2. others[p + 1] = Local(c.entry)
  BY <1>0, <1>1
<1>3. ASSUME NEW b \in 1..k PROVE others[p + 1 + b] = Data(c.entry, b)
  <2>1. 1 + b \in 1..(n + 2) /\ p + (1 + b) = p + 1 + b /\ o + (1 + b) = o + 1 + b
    BY <1>1
  <2> QED
    BY <1>0, <2>1
<1>4. ASSUME c.mode = "deflate" PROVE others[p + 2 + k] = Data(c.entry, 0)
  <2>1. /\ 2 + k \in 1..(n + 2)
        /\ p + (2 + k) = p + 2 + k /\ o + (2 + k) = o + 2 + k
    BY <1>1, <1>4
  <2> QED
    BY <1>0, <1>4, <2>1
<1>5. others[p + 2 + n] = cells[o + 2 + n]
  <2>1. 2 + n \in 1..(n + 2) /\ p + (2 + n) = p + 2 + n /\ o + (2 + n) = o + 2 + n
    BY <1>1
  <2> QED
    BY <1>0, <2>1
<1> QED
  BY <1>2, <1>3, <1>4, <1>5 DEF Stored, n, k

\* What is written behind limit changes nothing.
LEMMA KeptStays ==
    ASSUME NEW r, NEW c, NEW cells, NEW others, NEW stub \in Nat,
           NEW limit \in Nat, NEW further \in Nat, limit <= further,
           Len(others) \in Nat, further <= Len(others), KeptAt(r, c, cells, stub, limit),
           \A i \in 1..limit : others[i] = cells[i]
    PROVE  KeptAt(r, c, others, stub, further)
<1>1. BlocksOf(c) \in Nat
  BY BlocksType DEF KeptAt
<1>2. CASE stub = 0 \/ r.offset # Max32
  <2> DEFINE o == OffsetOf(r) + stub
  <2>1. o \in Nat /\ o + BlocksOf(c) + 2 <= limit /\ Stored(c, cells, o)
    BY <1>1, <1>2 DEF KeptAt, Describes
  <2> HIDE DEF o
  <2>2. \A i \in 1..(BlocksOf(c) + 2) : others[o + i] = cells[o + i]
    BY <1>1, <2>1
  <2>3. Stored(c, others, o)
    <3>1. o + BlocksOf(c) + 2 <= Len(others) /\ c.blocks \in Nat
      BY <1>1, <2>1 DEF KeptAt
    <3> QED
      BY <2>1, <2>2, <3>1, StoredMoves
  <2>4. OffsetOf(r) + stub + BlocksOf(c) + 2 <= further
    BY <1>1, <2>1 DEF o
  <2> QED
    BY <2>3, <2>4 DEF KeptAt, Describes, o
<1>3. CASE ~(stub = 0 \/ r.offset # Max32)
  BY <1>3 DEF KeptAt, Describes
<1> QED
  BY <1>2, <1>3

\* What is put in front of the archive moves it.
LEMMA KeptMoves ==
    ASSUME NEW r, NEW c, NEW cells, NEW others, NEW stub \in Nat, NEW limit \in Nat,
           Len(cells) \in Nat, limit <= Len(cells), Len(others) = Len(cells) + 1,
           KeptAt(r, c, cells, stub, limit),
           \A i \in 1..Len(cells) : others[i + 1] = cells[i]
    PROVE  KeptAt(r, c, others, stub + 1, limit + 1)
<1>1. BlocksOf(c) \in Nat
  BY BlocksType DEF KeptAt
<1>2. CASE r.offset # Max32
  <2> DEFINE o == OffsetOf(r) + stub
             p == OffsetOf(r) + (stub + 1)
  <2>1. /\ o \in Nat /\ p = o + 1 /\ o + BlocksOf(c) + 2 <= limit
        /\ Stored(c, cells, o) /\ p \in Nat
    BY <1>1, <1>2 DEF KeptAt, Describes
  <2> HIDE DEF o, p
  <2>2. ASSUME NEW i \in 1..(BlocksOf(c) + 2) PROVE others[p + i] = cells[o + i]
    <3>1. o + i \in 1..Len(cells) /\ p + i = (o + i) + 1
      BY <1>1, <2>1
    <3> QED
      BY <3>1
  <2>3. Stored(c, others, p)
    <3>1. p + BlocksOf(c) + 2 <= Len(others)
      BY <1>1, <2>1
    <3> QED
      BY <2>1, <2>2, <3>1, StoredMoves DEF KeptAt
  <2>4. OffsetOf(r) + (stub + 1) + BlocksOf(c) + 2 <= limit + 1
    BY <1>1, <2>1 DEF p
  <2> QED
    BY <1>2, <2>3, <2>4 DEF KeptAt, Describes, p
<1>3. CASE r.offset = Max32
  <2>1. stub + 1 # 0
    OBVIOUS
  <2> QED
    BY <1>3, <2>1 DEF KeptAt, Describes
<1> QED
  BY <1>2, <1>3

-----------------------------------------------------------------------------
(* The invariant of an open handle.                                        *)

\* In front of Limit lie the entries that were closed.
Limit == IF Closing THEN dirPos ELSE at

\* The directory in memory is that of the archive.
DirInv ==
    /\ IsSeq(contents) /\ Len(central_dir) = Len(contents) /\ number_entry = Len(contents)
    /\ \A i \in 1..Len(contents) : KeptAt(central_dir[i], contents[i], file, before, Limit)

\* Block k of an entry that was given n blocks; what the compressor adds is
\* block 0.
BlockOf(e, n, k) == Data(e, IF k <= n THEN k ELSE 0)

\* s is what comes behind the first f blocks of entry e.
Runs(s, f, e, n) == \A k \in 1..Len(s) : s[k] = BlockOf(e, n, f + k)

Ended == pc \in {"tail", "descriptor", "record"}

EntryType ==
    /\ {"entry", "pos_local_header", "mode", "crc", "total_in", "total_compressed",
        "total_uncompressed"} \subseteq DOMAIN ci
    /\ ci.pos_local_header \in Nat /\ before <= ci.pos_local_header
    /\ ci.total_in \in Nat /\ ci.total_compressed \in Nat /\ ci.total_uncompressed \in Nat

\* The part of the entry that is in the file.
EntryInFile ==
    /\ at = ci.pos_local_header + 1 + ci.total_compressed + (IF pc = "record" THEN 1 ELSE 0)
    /\ file[ci.pos_local_header + 1] = Local(ci.entry)
    /\ \A k \in 1..ci.total_compressed :
           file[ci.pos_local_header + 1 + k] = BlockOf(ci.entry, ci.crc, k)
    /\ pc = "record" => file[at].kind = "descriptor" /\ file[at].crc = Crc

\* The part that is not.
EntryInMemory ==
    /\ Runs(buffer, ci.total_compressed, ci.entry, ci.crc)
    /\ Runs(held, ci.total_compressed + Len(buffer), ci.entry, ci.crc)
    /\ ci.total_compressed + Len(buffer) + Len(held) + avail_in
          = ci.crc + (IF Ended /\ ci.mode = "deflate" THEN 1 ELSE 0)
    /\ ci.total_uncompressed + ci.total_in + avail_in = ci.crc
    /\ pc # "write" => avail_in = 0
    /\ ci.mode # "deflate" => Len(held) = 0 /\ ci.total_in = Len(buffer)
    /\ Ended => Len(held) = 0
    /\ pc = "tail" /\ ci.mode = "deflate" => Len(buffer) # 0
    /\ pc \in {"descriptor", "record"} => Len(buffer) = 0 /\ ci.total_in = 0

EntryInv == in_opened_file_inzip => EntryType /\ EntryInFile /\ EntryInMemory

\* What is left of an earlier directory is overwritten by the next one.
Room64 == IF NeedsEnd64 THEN 2 ELSE 0

TailInv ==
    /\ ~Closing => Len(file) <= at + Len(central_dir) + 1
                       + (IF at - before >= Max32 \/ number_entry > Max32 THEN 2 ELSE 0)
    /\ pc = "end64" => Len(file) <= at + 1 + Room64
    /\ pc = "end" => Len(file) <= at + 1
    /\ pc = "fclose" => Len(file) = at

\* The directory in the file, and the records behind it.
CloseInv == Closing =>
    LET behind == dirPos + Len(central_dir)
    IN
    /\ dirSize = Cast32(Len(central_dir))
    /\ \A i \in 1..Len(central_dir) : file[dirPos + i] = central_dir[i]
    /\ at = behind + (CASE pc = "end64" -> 0
                        [] pc = "end"   -> Room64
                        [] OTHER        -> Room64 + 1)
    /\ pc # "end64" /\ NeedsEnd64 =>
           /\ file[behind + 1] = End64(number_entry, dirSize, dirPos - before)
           /\ file[behind + 2] = Locator64(behind - before)
    /\ pc = "fclose" =>
           file[at] = End(number_entry, dirSize,
                          IF dirPos - before >= Max32 THEN Max32 ELSE dirPos - before)

Kernel == DirInv /\ EntryInv /\ TailInv /\ CloseInv

\* Whatever is written behind Limit, the directory stays right.
LEMMA DirStays ==
    ASSUME Typed, Typed', DirInv, UNCHANGED <<central_dir, number_entry, before, contents>>,
           Prefix \/ UNCHANGED fileVars,
           Limit \in Nat, Limit' \in Nat, Limit <= at, Limit <= Limit', Limit' <= at'
    PROVE  DirInv'
<1>1. Len(file') \in Nat /\ at \in Nat /\ at' \in Nat /\ at' <= Len(file') /\ before \in Nat
  BY DEF Typed, AreCells, IsSeq
<1>2. \A i \in 1..at : file'[i] = file[i]
  BY DEF Prefix, fileVars
<1>3. \A i \in 1..Limit : file'[i] = file[i]
  BY <1>1, <1>2
<1> DEFINE limit == Limit
           further == Limit'
<1>4. limit \in Nat /\ further \in Nat /\ limit <= further /\ further <= Len(file')
  BY <1>1
<1>5. \A i \in 1..Len(contents) : KeptAt(central_dir[i], contents[i], file, before, limit)
  BY DEF DirInv
<1>6. \A i \in 1..limit : file'[i] = file[i]
  BY <1>3
<1> HIDE DEF limit, further
<1>7. \A i \in 1..Len(contents) : KeptAt(central_dir[i], contents[i], file', before, further)
  BY <1>1, <1>4, <1>5, <1>6, KeptStays
<1> QED
  BY <1>7 DEF DirInv, further

\* Calls that do not touch the file.
LEMMA Quiet ==
    ASSUME Typed, DirInv, TailInv, ~Closing, ~Closing',
           UNCHANGED <<fileVars, dirVars, contents>>
    PROVE  DirInv' /\ TailInv' /\ CloseInv'
BY DEF DirInv, TailInv, CloseInv, Closing, Limit, fileVars, dirVars

-----------------------------------------------------------------------------
(* The entry that is open.                                                 *)

LEMMA RunsConcat ==
    ASSUME NEW s \in Seq(Cells), NEW t \in Seq(Cells), NEW f \in Nat, NEW e, NEW n \in Nat,
           Runs(s, f, e, n), Runs(t, f + Len(s), e, n)
    PROVE  Runs(s \o t, f, e, n) /\ Len(s \o t) = Len(s) + Len(t)
<1> DEFINE c == s \o t
<1>1. /\ Len(s) \in Nat /\ Len(t) \in Nat /\ Len(c) = Len(s) + Len(t)
      /\ \A i \in 1..(Len(s) + Len(t)) : c[i] = IF i <= Len(s) THEN s[i] ELSE t[i - Len(s)]
  BY ConcatProperties, LenProperties
<1> HIDE DEF c
<1>2. ASSUME NEW k \in 1..Len(c) PROVE c[k] = BlockOf(e, n, f + k)
  <2>1. CASE k <= Len(s)
    <3>1. k \in 1..Len(s)
      BY <1>1, <2>1
    <3> QED
      BY <1>1, <2>1, <3>1 DEF Runs
  <2>2. CASE ~(k <= Len(s))
    <3>1. k - Len(s) \in 1..Len(t) /\ (f + Len(s)) + (k - Len(s)) = f + k
      BY <1>1, <2>2
    <3> QED
      BY <1>1, <2>2, <3>1 DEF Runs
  <2> QED
    BY <2>1, <2>2
<1> QED
  BY <1>1, <1>2 DEF Runs, c

LEMMA RunsSplit ==
    ASSUME NEW s \in Seq(Cells), NEW j \in 0..Len(s), NEW f \in Nat, NEW e, NEW n \in Nat,
           Runs(s, f, e, n)
    PROVE  /\ Runs(SubSeq(s, 1, j), f, e, n) /\ Len(SubSeq(s, 1, j)) = j
           /\ Runs(SubSeq(s, j + 1, Len(s)), f + j, e, n)
           /\ Len(SubSeq(s, j + 1, Len(s))) = Len(s) - j
<1>1. Len(s) \in Nat /\ j \in Nat
  BY LenProperties
<1>2. (\A i \in 1..j : s[i] \in Cells) /\ (\A i \in (j + 1)..Len(s) : s[i] \in Cells)
  BY <1>1, ElementOfSeq
<1> DEFINE a == SubSeq(s, 1, j)
           b == SubSeq(s, j + 1, Len(s))
<1>3. Len(a) = j /\ \A i \in 1..j : a[i] = s[i]
  <2>1. Len(a) = j - 1 + 1 /\ \A i \in 1..(j - 1 + 1) : a[i] = s[1 + i - 1]
    BY <1>1, <1>2, SubSeqProperties
  <2> HIDE DEF a
  <2>2. j - 1 + 1 = j /\ \A i \in 1..j : 1 + i - 1 = i
    BY <1>1
  <2> QED
    BY <2>1, <2>2
<1>4. Len(b) = Len(s) - j /\ \A i \in 1..(Len(s) - j) : b[i] = s[j + i]
  <2>1. Len(b) = Len(s) - (j + 1) + 1
        /\ \A i \in 1..(Len(s) - (j + 1) + 1) : b[i] = s[(j + 1) + i - 1]
    BY SMTT(20), <1>1, <1>2, SubSeqProperties
  <2> HIDE DEF b
  <2>2. Len(s) - (j + 1) + 1 = Len(s) - j
        /\ \A i \in 1..(Len(s) - j) : (j + 1) + i - 1 = j + i
    BY <1>1
  <2> QED
    BY <2>1, <2>2
<1> HIDE DEF a, b
<1>5. Runs(a, f, e, n)
  <2> SUFFICES ASSUME NEW k \in 1..Len(a) PROVE a[k] = BlockOf(e, n, f + k)
    BY DEF Runs
  <2>1. k \in 1..Len(s) /\ k \in 1..j
    BY <1>1, <1>3
  <2> QED
    BY <1>3, <2>1 DEF Runs
<1>6. Runs(b, f + j, e, n)
  <2> SUFFICES ASSUME NEW k \in 1..Len(b) PROVE b[k] = BlockOf(e, n, (f + j) + k)
    BY DEF Runs
  <2>1. j + k \in 1..Len(s) /\ k \in 1..(Len(s) - j) /\ f + (j + k) = (f + j) + k
    BY <1>1, <1>4
  <2> QED
    BY <1>4, <2>1 DEF Runs
<1> QED
  BY <1>3, <1>4, <1>5, <1>6 DEF a, b

LEMMA RunsEmpty ==
    ASSUME NEW s, Len(s) = 0, NEW f, NEW e, NEW n
    PROVE  Runs(s, f, e, n)
BY DEF Runs

\* Blocks that lie within the entry do not depend on how long it gets.
LEMMA RunsOn ==
    ASSUME NEW s, Len(s) \in Nat, NEW f \in Nat, NEW e, NEW n \in Nat, NEW m \in Nat, n <= m,
           f + Len(s) <= n, Runs(s, f, e, n)
    PROVE  Runs(s, f, e, m)
<1> SUFFICES ASSUME NEW k \in 1..Len(s) PROVE s[k] = BlockOf(e, m, f + k)
  BY DEF Runs
<1>1. f + k <= n /\ f + k <= m
  OBVIOUS
<1> QED
  BY <1>1 DEF Runs, BlockOf

\* The facts of an open entry that its lemmas start from.
LEMMA EntryNumbers ==
    ASSUME BufferInv, EntryType
    PROVE  /\ ci.entry \in Nat /\ ci.crc \in Nat /\ ci.pos_local_header \in Nat
           /\ ci.total_in \in Nat /\ ci.total_compressed \in Nat
           /\ ci.total_uncompressed \in Nat /\ avail_in \in Nat /\ avail_out \in Nat
           /\ Len(buffer) \in Nat /\ Len(held) \in Nat
           /\ buffer \in Seq(Cells) /\ held \in Seq(Cells)
BY LenProperties DEF BufferInv, EntryType

\* A call that begins or ends leaves the entry alone.
LEMMA EntryStays ==
    ASSUME BufferInv, EntryInv, UNCHANGED <<fileVars, before, entryVars, streamVars>>, ~Ended,
           pc' \in {"idle", "finish"}, avail_in = 0
    PROVE  EntryInv'
<1> SUFFICES ASSUME in_opened_file_inzip' PROVE (EntryType /\ EntryInFile /\ EntryInMemory)'
  BY DEF EntryInv
<1>1. in_opened_file_inzip /\ UNCHANGED <<file, at, ci, avail_in, held, buffer>>
  BY DEF fileVars, entryVars, streamVars
<1>2. EntryType' /\ EntryInFile'
  BY <1>1 DEF EntryInv, EntryType, EntryInFile, Ended
<1>3. EntryInMemory'
  BY <1>1 DEF EntryInv, EntryInMemory, Ended
<1> QED
  BY <1>2, <1>3

LEMMA CallWriteEntry ==
    ASSUME BufferInv, Typed, EntryInv, NEW n \in WriteSizes, CallWrite(n)
    PROVE  EntryInv'
<1>1. EntryType /\ EntryInFile /\ EntryInMemory
  BY DEF EntryInv, CallWrite
<1> DEFINE m == ci.crc + n
<1>2. n \in Nat /\ ci.crc \in Nat /\ m \in Nat /\ ci.crc <= m
  BY <1>1, EntryNumbers, BoundsAssumption
<1>3. /\ DOMAIN ci' = DOMAIN ci /\ ci'.crc = m
      /\ ci'.entry = ci.entry /\ ci'.pos_local_header = ci.pos_local_header
      /\ ci'.mode = ci.mode /\ ci'.total_in = ci.total_in
      /\ ci'.total_compressed = ci.total_compressed
      /\ ci'.total_uncompressed = ci.total_uncompressed
  BY <1>1 DEF CallWrite, EntryType
<1>4. /\ pc = "idle" /\ pc' = "write" /\ avail_in' = n
      /\ UNCHANGED <<file, at, before, held, buffer>>
  BY DEF CallWrite, fileVars, dirVars
<1> HIDE DEF m
<1>5. EntryType'
  BY <1>1, <1>3, <1>4 DEF EntryType
<1>6. /\ avail_in = 0
      /\ ci.total_compressed + Len(buffer) + Len(held) = ci.crc
      /\ ci.total_uncompressed + ci.total_in = ci.crc
  BY <1>1, <1>4, EntryNumbers DEF EntryInMemory, Ended
<1>7. EntryInFile'
  <2>1. ASSUME NEW k \in 1..ci.total_compressed
        PROVE  BlockOf(ci.entry, ci.crc, k) = BlockOf(ci.entry, m, k)
    <3>1. k <= ci.crc /\ k <= m
      BY <1>1, <1>2, <1>6, EntryNumbers
    <3> QED
      BY <3>1 DEF BlockOf
  <2> QED
    BY <1>1, <1>3, <1>4, <2>1 DEF EntryInFile
<1>8. Runs(buffer, ci.total_compressed, ci.entry, m)
  BY <1>1, <1>2, <1>6, EntryNumbers, RunsOn DEF EntryInMemory
<1>9. Runs(held, ci.total_compressed + Len(buffer), ci.entry, m)
  BY <1>1, <1>2, <1>6, EntryNumbers, RunsOn DEF EntryInMemory
<1>10. /\ ci.total_compressed + Len(buffer) + Len(held) + n = m
       /\ ci.total_uncompressed + ci.total_in + n = m
  BY <1>1, <1>2, <1>6, EntryNumbers DEF m
<1>11. EntryInMemory'
  BY <1>1, <1>2, <1>3, <1>4, <1>8, <1>9, <1>10 DEF EntryInMemory, Ended
<1> QED
  BY <1>5, <1>7, <1>11 DEF EntryInv

LEMMA CompressEntry ==
    ASSUME BufferInv, Typed, EntryInv, in_opened_file_inzip, Compress
    PROVE  EntryInv'
<1>1. EntryType /\ EntryInFile /\ EntryInMemory
  BY DEF EntryInv
<1>2. /\ ci.entry \in Nat /\ ci.crc \in Nat /\ ci.total_in \in Nat
      /\ ci.total_compressed \in Nat /\ ci.total_uncompressed \in Nat
      /\ avail_in \in Nat /\ Len(buffer) \in Nat /\ Len(held) \in Nat
      /\ buffer \in Seq(Cells) /\ held \in Seq(Cells)
  BY <1>1, EntryNumbers
<1>3. PICK k \in 0..avail_in : LET inside == held \o NextBlocks(k)
        IN  \E j \in 0..Len(inside) :
            /\ ci.mode # "deflate" => j = k
            /\ buffer' = buffer \o SubSeq(inside, 1, j)
            /\ held' = SubSeq(inside, j + 1, Len(inside))
            /\ avail_in' = avail_in - k
            /\ ci' = [ci EXCEPT !.total_in = @ + k]
  BY DEF Compress
<1> DEFINE inside == held \o NextBlocks(k)
<1>4. PICK j \in 0..Len(inside) :
            /\ ci.mode # "deflate" => j = k
            /\ buffer' = buffer \o SubSeq(inside, 1, j)
            /\ held' = SubSeq(inside, j + 1, Len(inside))
            /\ avail_in' = avail_in - k
            /\ ci' = [ci EXCEPT !.total_in = @ + k]
  BY <1>3
<1>5. /\ pc = "write" /\ pc' = "write" /\ in_opened_file_inzip'
      /\ UNCHANGED <<file, at, before>>
  BY DEF Compress, fileVars, callVars, dirVars
<1>6. /\ DOMAIN ci' = DOMAIN ci /\ ci'.total_in = ci.total_in + k
      /\ ci'.entry = ci.entry /\ ci'.pos_local_header = ci.pos_local_header
      /\ ci'.mode = ci.mode /\ ci'.crc = ci.crc
      /\ ci'.total_compressed = ci.total_compressed
      /\ ci'.total_uncompressed = ci.total_uncompressed
  BY <1>1, <1>4 DEF EntryType
<1> DEFINE tc == ci.total_compressed
           crc == ci.crc
           got == tc + Len(buffer)
<1>7. k \in Nat /\ NextBlocks(k) \in Seq(Cells) /\ Len(NextBlocks(k)) = k
  BY <1>2, NextBlocksType
<1>8. got + Len(held) + avail_in = crc /\ Runs(buffer, tc, ci.entry, crc)
      /\ Runs(held, got, ci.entry, crc)
  BY <1>1, <1>2, <1>5 DEF EntryInMemory, Ended
<1>9. Runs(NextBlocks(k), got + Len(held), ci.entry, crc)
  <2> SUFFICES ASSUME NEW i \in 1..k
               PROVE  NextBlocks(k)[i] = BlockOf(ci.entry, crc, (got + Len(held)) + i)
    BY <1>7 DEF Runs
  <2>1. /\ crc - avail_in + i = (got + Len(held)) + i
        /\ (got + Len(held)) + i <= crc
    <3>1. crc = got + Len(held) + avail_in /\ got \in Nat
      BY <1>2, <1>8
    <3>2. i \in Nat /\ i <= k /\ k <= avail_in
      BY <1>2, <1>7
    <3> HIDE DEF crc, got
    <3> QED
      BY <1>2, <3>1, <3>2
  <2> QED
    BY <2>1 DEF NextBlocks, BlockOf
<1>10. Runs(inside, got, ci.entry, crc) /\ Len(inside) = Len(held) + k /\ inside \in Seq(Cells)
  <2>1. got \in Nat
    BY <1>2
  <2> HIDE DEF got
  <2> QED
    BY <1>2, <1>7, <1>8, <1>9, <2>1, RunsConcat, ConcatProperties
<1> DEFINE out  == SubSeq(inside, 1, j)
           rest == SubSeq(inside, j + 1, Len(inside))
<1> HIDE DEF inside
<1>11. /\ Runs(out, got, ci.entry, crc) /\ Len(out) = j
       /\ Runs(rest, got + j, ci.entry, crc) /\ Len(rest) = Len(inside) - j
       /\ out \in Seq(Cells)
  <2>1. got \in Nat
    BY <1>2
  <2> HIDE DEF got
  <2> QED
    BY <1>2, <1>4, <1>10, <2>1, RunsSplit, Split
<1>12. buffer' = buffer \o out /\ held' = rest
  BY <1>4
<1> HIDE DEF out, rest
<1>13. Runs(buffer', tc, ci.entry, crc) /\ Len(buffer') = Len(buffer) + j
  BY <1>2, <1>8, <1>11, <1>12, RunsConcat
<1>14. j \in Nat /\ j <= Len(held) + k /\ Len(held') = Len(held) + k - j
  <2>1. j \in Nat /\ j <= Len(inside) /\ Len(held') = Len(inside) - j
    BY <1>2, <1>7, <1>10, <1>11, <1>12
  <2> QED
    BY <1>2, <1>7, <1>10, <2>1
<1>15. Runs(held', tc + Len(buffer'), ci.entry, crc)
  <2>1. tc + Len(buffer') = got + j
    BY <1>2, <1>13, <1>14
  <2> QED
    BY <1>11, <1>12, <2>1
<1>16. EntryType'
  BY <1>1, <1>2, <1>5, <1>6, <1>7 DEF EntryType
<1>17. EntryInFile'
  BY <1>1, <1>5, <1>6 DEF EntryInFile
<1>18. tc + Len(buffer') + Len(held') + avail_in' = crc
  BY SMTT(20), <1>2, <1>4, <1>7, <1>8, <1>13, <1>14
<1>19. ci.total_uncompressed + (ci.total_in + k) + avail_in' = crc
  BY <1>1, <1>2, <1>4, <1>7 DEF EntryInMemory
<1>20. ci.mode # "deflate" => Len(held') = 0 /\ ci.total_in + k = Len(buffer')
  BY <1>1, <1>2, <1>4, <1>7, <1>13, <1>14 DEF EntryInMemory
<1>21. EntryInMemory'
  <2>1. crc + 0 = crc
    BY <1>2
  <2> QED
    BY <1>5, <1>6, <1>13, <1>15, <1>18, <1>19, <1>20, <2>1 DEF EntryInMemory, Ended
<1> QED
  BY <1>16, <1>17, <1>21 DEF EntryInv

LEMMA WriteOne ==
    ASSUME Typed, NEW c, Fields(c), Write(<<c>>)
    PROVE  /\ Prefix /\ at' = at + 1 /\ file'[at + 1] = c
           /\ Len(file') = IF at + 1 > Len(file) THEN at + 1 ELSE Len(file)
<1>1. AreCells(<<c>>) /\ Len(<<c>>) = 1 /\ <<c>>[1] = c
  BY OneCell
<1>2. AreCells(file) /\ at \in 0..Len(file)
  BY DEF Typed
<1> DEFINE s == <<c>>
<1>3. Write(s) /\ AreCells(s) /\ Len(s) = 1 /\ s[1] = c
  BY <1>1
<1> HIDE DEF s
<1>4. /\ Prefix /\ at' = at + Len(s)
      /\ Len(file') = IF at + Len(s) > Len(file) THEN at + Len(s) ELSE Len(file)
      /\ \A i \in 1..Len(s) : file'[at + i] = s[i]
  BY <1>2, <1>3, WritePrefix
<1>5. 1 \in 1..Len(s)
  BY <1>3
<1> QED
  BY <1>3, <1>4, <1>5

LEMMA FinishEntry ==
    ASSUME BufferInv, EntryInv, in_opened_file_inzip, Finish
    PROVE  EntryInv'
<1>1. EntryType /\ EntryInFile /\ EntryInMemory
  BY DEF EntryInv
<1>2. /\ ci.entry \in Nat /\ ci.crc \in Nat /\ ci.total_in \in Nat
      /\ ci.total_compressed \in Nat /\ ci.total_uncompressed \in Nat
      /\ avail_in \in Nat /\ avail_out \in Nat /\ Len(buffer) \in Nat /\ Len(held) \in Nat
      /\ buffer \in Seq(Cells) /\ held \in Seq(Cells)
  BY <1>1, EntryNumbers
<1>3. /\ pc = "finish" /\ pc' \in {"finish", "tail"}
      /\ UNCHANGED <<file, at, before, ci, avail_in, in_opened_file_inzip>>
  BY DEF Finish, fileVars, dirVars, entryVars
<1>4. EntryType' /\ EntryInFile'
  BY <1>1, <1>3 DEF EntryType, EntryInFile
<1> DEFINE tc == ci.total_compressed
           crc == ci.crc
           got == tc + Len(buffer)
<1>5. /\ got + Len(held) = crc /\ Runs(buffer, tc, ci.entry, crc)
      /\ Runs(held, got, ci.entry, crc) /\ avail_in = 0
      /\ ci.total_uncompressed + ci.total_in + avail_in = crc
      /\ ci.mode # "deflate" => Len(held) = 0 /\ ci.total_in = Len(buffer)
  BY <1>1, <1>2, <1>3 DEF EntryInMemory, Ended
<1>6. got \in Nat /\ tc \in Nat /\ crc \in Nat
  BY <1>2
<1>7. CASE ci.mode # "deflate"
  <2>1. pc' = "tail" /\ UNCHANGED <<held, buffer>>
    BY <1>7 DEF Finish
  <2>2. crc + 0 = crc /\ got + Len(held) + avail_in = crc
    BY <1>2, <1>5
  <2> QED
    BY <1>3, <1>4, <1>5, <1>7, <2>1, <2>2 DEF EntryInv, EntryInMemory, Ended
<1>8. CASE ci.mode = "deflate" /\ Len(Rest) <= avail_out
  <2>1. pc' = "tail" /\ held' = <<>> /\ buffer' = buffer \o Rest
    BY <1>8 DEF Finish
  <2>2. /\ Rest \in Seq(Cells) /\ Len(Rest) = Len(held) + 1
        /\ \A i \in 1..Len(held) : Rest[i] = held[i]
        /\ Rest[Len(held) + 1] = Data(ci.entry, 0)
    <3>1. Data(ci.entry, 0) \in Cells
      BY <1>2 DEF Cells
    <3> QED
      BY <1>2, <3>1, AppendProperties DEF Rest
  <2>3. Runs(Rest, got, ci.entry, crc)
    <3> SUFFICES ASSUME NEW k \in 1..Len(Rest) PROVE Rest[k] = BlockOf(ci.entry, crc, got + k)
      BY DEF Runs
    <3>1. k \in 1..Len(held) \/ k = Len(held) + 1
      BY <1>2, <2>2
    <3>2. CASE k \in 1..Len(held)
      BY <1>5, <2>2, <3>2 DEF Runs
    <3>3. CASE k = Len(held) + 1
      <4>1. got + k = crc + 1 /\ ~(crc + 1 <= crc)
        <5>1. got + Len(held) = crc /\ Len(held) \in Nat
          BY <1>2, <1>5
        <5> HIDE DEF got, crc
        <5> QED
          BY <1>6, <3>3, <5>1
      <4> QED
        BY <2>2, <3>3, <4>1 DEF BlockOf
    <3> QED
      BY <3>1, <3>2, <3>3
  <2>4. Runs(buffer', tc, ci.entry, crc) /\ Len(buffer') = Len(buffer) + (Len(held) + 1)
    BY <1>2, <1>5, <2>1, <2>2, <2>3, RunsConcat
  <2>5. Len(held') = 0 /\ Runs(held', tc + Len(buffer'), ci.entry, crc)
    BY <2>1, RunsEmpty
  <2>6. tc + Len(buffer') + Len(held') + avail_in' = crc + 1 /\ Len(buffer') # 0
    <3>1. /\ tc + Len(buffer) + Len(held) = crc /\ Len(held) \in Nat /\ Len(buffer) \in Nat
          /\ Len(buffer') = Len(buffer) + (Len(held) + 1) /\ Len(held') = 0 /\ avail_in' = 0
      BY <1>2, <1>3, <1>5, <2>4, <2>5
    <3> HIDE DEF tc, crc
    <3> QED
      BY <1>6, <3>1
  <2> QED
    BY <1>3, <1>4, <1>5, <1>8, <2>1, <2>4, <2>5, <2>6 DEF EntryInv, EntryInMemory, Ended
<1>9. CASE ci.mode = "deflate" /\ ~(Len(Rest) <= avail_out)
  <2>1. pc' = "finish" /\ held' = SubSeq(held, avail_out + 1, Len(held))
        /\ buffer' = buffer \o SubSeq(held, 1, avail_out)
    BY <1>9 DEF Finish
  <2>2. Len(Rest) = Len(held) + 1
    <3>1. Data(ci.entry, 0) \in Cells
      BY <1>2 DEF Cells
    <3> QED
      BY <1>2, <3>1, AppendProperties DEF Rest
  <2>3. avail_out \in 0..Len(held)
    BY <1>2, <1>9, <2>2
  <2> DEFINE out == SubSeq(held, 1, avail_out)
  <2>4. /\ Runs(out, got, ci.entry, crc) /\ Len(out) = avail_out
        /\ Runs(held', got + avail_out, ci.entry, crc) /\ Len(held') = Len(held) - avail_out
        /\ out \in Seq(Cells)
    <3> HIDE DEF got
    <3> QED
      BY <1>2, <1>5, <1>6, <2>1, <2>3, RunsSplit, Split
  <2>5. Runs(buffer', tc, ci.entry, crc) /\ Len(buffer') = Len(buffer) + avail_out
    <3> HIDE DEF out
    <3>1. buffer' = buffer \o out
      BY <2>1 DEF out
    <3> QED
      BY <1>2, <1>5, <2>4, <3>1, RunsConcat
  <2>6. tc + Len(buffer') = got + avail_out
    BY <1>2, <2>5
  <2>7. tc + Len(buffer') + Len(held') + avail_in' = crc /\ crc + 0 = crc
    <3> HIDE DEF out
    <3> QED
      BY <1>2, <1>3, <1>5, <2>4, <2>5
  <2> QED
    BY <1>3, <1>4, <1>5, <1>9, <2>1, <2>4, <2>5, <2>6, <2>7 DEF EntryInv, EntryInMemory, Ended
<1> QED
  BY <1>7, <1>8, <1>9

\* What was in the buffer is in the file.
LEMMA FlushEntry ==
    ASSUME BufferInv, Typed, EntryInv, in_opened_file_inzip, NEW room, Flush(room),
           UNCHANGED <<before, avail_in, held>>,
           \/ pc' = pc /\ pc \in {"write", "finish"}
           \/ pc = "tail" /\ pc' = "descriptor"
    PROVE  EntryInv'
<1>1. EntryType /\ EntryInFile /\ EntryInMemory
  BY DEF EntryInv
<1>2. /\ ci.entry \in Nat /\ ci.crc \in Nat /\ ci.total_in \in Nat
      /\ ci.total_compressed \in Nat /\ ci.total_uncompressed \in Nat
      /\ avail_in \in Nat /\ Len(buffer) \in Nat /\ Len(held) \in Nat
      /\ buffer \in Seq(Cells) /\ ci.pos_local_header \in Nat
  BY <1>1, EntryNumbers
<1> DEFINE tc == ci.total_compressed
           crc == ci.crc
           start == ci.pos_local_header + 1
           n == Len(buffer)
<1>3. /\ DOMAIN ci' = DOMAIN ci /\ ci'.total_compressed = tc + n /\ ci'.total_in = 0
      /\ ci'.entry = ci.entry /\ ci'.pos_local_header = ci.pos_local_header
      /\ ci'.mode = ci.mode /\ ci'.crc = ci.crc
      /\ ci'.total_uncompressed = ci.total_uncompressed + ci.total_in
  BY <1>1 DEF Flush, Flushed, EntryType
<1>4. buffer' = <<>> /\ Len(buffer') = 0 /\ UNCHANGED <<before, avail_in, held>>
  BY DEF Flush, Flushed
<1>5. AreCells(buffer) /\ AreCells(file) /\ at \in 0..Len(file)
  BY <1>2, BufferCells DEF Typed
<1>6. /\ Prefix /\ at' = at + n
      /\ \A i \in 1..n : file'[at + i] = buffer[i]
  BY <1>5, WritePrefix DEF Flush
<1>7. /\ at = start + tc /\ file[start] = Local(ci.entry)
      /\ \A k \in 1..tc : file[start + k] = BlockOf(ci.entry, crc, k)
  <2>1. start + tc + 0 = start + tc
    BY <1>2
  <2> QED
    BY <1>1, <2>1 DEF EntryInFile
<1>8. /\ Runs(buffer, tc, ci.entry, crc) /\ Runs(held, tc + n, ci.entry, crc)
      /\ tc + n + Len(held) + avail_in
            = crc + (IF Ended /\ ci.mode = "deflate" THEN 1 ELSE 0)
      /\ ci.total_uncompressed + ci.total_in + avail_in = crc
  BY <1>1 DEF EntryInMemory
<1>9. start \in Nat /\ tc \in Nat /\ crc \in Nat /\ n \in Nat /\ start >= 1
  BY <1>2
<1>10. EntryType'
  BY <1>1, <1>2, <1>3, <1>4 DEF EntryType
<1>11. file'[start] = file[start] /\ \A k \in 1..tc : file'[start + k] = file[start + k]
  <2> HIDE DEF start, tc
  <2>1. start \in 1..at /\ \A k \in 1..tc : start + k \in 1..at
    BY <1>7, <1>9
  <2> QED
    BY <1>6, <2>1 DEF Prefix
<1>12. ASSUME NEW k \in 1..(tc + n) PROVE file'[start + k] = BlockOf(ci.entry, crc, k)
  <2>1. CASE k \in 1..tc
    BY <1>7, <1>11, <2>1
  <2>2. CASE k \notin 1..tc
    <3>1. k - tc \in 1..n /\ start + k = at + (k - tc) /\ tc + (k - tc) = k
      <4> HIDE DEF start, tc, n
      <4> QED
        BY <1>7, <1>9, <2>2
    <3>2. file'[at + (k - tc)] = buffer[k - tc]
      BY <1>6, <3>1
    <3>3. buffer[k - tc] = BlockOf(ci.entry, crc, tc + (k - tc))
      BY <1>8, <3>1 DEF Runs
    <3> QED
      BY <3>1, <3>2, <3>3
  <2> QED
    BY <2>1, <2>2
<1>13. at' = start + (tc + n) /\ start + (tc + n) + 0 = start + (tc + n) /\ pc' # "record"
  <2> HIDE DEF start, tc, n
  <2> QED
    BY <1>6, <1>7, <1>9
<1>14. EntryInFile'
  BY <1>3, <1>7, <1>11, <1>12, <1>13 DEF EntryInFile
<1>15. /\ tc + n + 0 = tc + n
       /\ ci.total_uncompressed + ci.total_in + 0 = ci.total_uncompressed + ci.total_in
  BY <1>2
<1>16. Runs(buffer', tc + n, ci.entry, crc)
  BY <1>4, RunsEmpty
<1>17. Ended' <=> Ended
  BY DEF Ended
<1>18. EntryInMemory'
  BY <1>1, <1>3, <1>4, <1>8, <1>15, <1>16, <1>17 DEF EntryInMemory, Ended
<1> QED
  BY <1>10, <1>14, <1>18 DEF EntryInv

\* There may be nothing left to flush.
LEMMA FlushNothing ==
    ASSUME BufferInv, EntryInv, in_opened_file_inzip, FlushTail, buffer = <<>>
    PROVE  EntryInv'
<1>1. EntryType /\ EntryInFile /\ EntryInMemory
  BY DEF EntryInv
<1>2. /\ pc = "tail" /\ pc' = "descriptor" /\ Len(buffer) = 0
      /\ UNCHANGED <<file, at, before, ci, avail_in, held, buffer>>
  BY DEF FlushTail, fileVars, dirVars
<1>3. EntryType' /\ EntryInFile'
  BY <1>1, <1>2 DEF EntryType, EntryInFile
<1>4. ci.mode # "deflate" /\ ci.total_in = 0
  BY <1>1, <1>2 DEF EntryInMemory
<1>5. EntryInMemory'
  BY <1>1, <1>2, <1>4 DEF EntryInMemory, Ended
<1> QED
  BY <1>3, <1>5 DEF EntryInv

\* An entry that is opened begins with its local header.
LEMMA HeaderEntry ==
    ASSUME BufferInv, Typed, WriteLocalHeader
    PROVE  EntryInv'
<1>1. /\ ci' = [entry |-> opened + 1, pos_local_header |-> at,
                zip64 |-> call.zip64 \/ at >= Max32, mode |-> call.mode,
                crc |-> 0, total_in |-> 0,
                total_compressed |-> 0, total_uncompressed |-> 0]
      /\ avail_in' = 0 /\ held' = <<>> /\ buffer' = <<>> /\ pc' = "idle"
      /\ UNCHANGED before /\ pc # "null"
  BY DEF WriteLocalHeader, NewEntry, Tell, Return, dirVars
<1>2. at \in Nat /\ AreCells(file) /\ at \in 0..Len(file) /\ before <= at
  BY <1>1 DEF Typed, AreCells, IsSeq, WriteLocalHeader
<1> DEFINE c == Local(opened + 1)
<1>3. Fields(c) /\ Write(<<c>>)
  BY DEF Fields, Local, WriteLocalHeader
<1>4. at' = at + 1 /\ file'[at + 1] = c
  <2> HIDE DEF c
  <2> QED
    BY <1>3, WriteOne
<1>5. EntryType'
  BY <1>1, <1>2 DEF EntryType
<1>6. EntryInFile'
  BY <1>1, <1>2, <1>4 DEF EntryInFile
<1>7. EntryInMemory'
  BY <1>1, RunsEmpty DEF EntryInMemory, Ended
<1> QED
  BY <1>5, <1>6, <1>7 DEF EntryInv

\* Behind the data comes the descriptor.
LEMMA DescriptorEntry ==
    ASSUME BufferInv, Typed, EntryInv, in_opened_file_inzip, WriteDescriptor, err' = "ok"
    PROVE  EntryInv'
<1>1. EntryType /\ EntryInFile /\ EntryInMemory
  BY DEF EntryInv
<1>2. /\ ci.total_compressed \in Nat /\ ci.pos_local_header \in Nat
  BY <1>1, EntryNumbers
<1> DEFINE d == Descriptor(Crc, ci.total_compressed, USize, ci.zip64)
           start == ci.pos_local_header + 1
           tc == ci.total_compressed
<1>3. /\ pc = "descriptor" /\ pc' = "record" /\ Write(<<d>>)
      /\ UNCHANGED <<before, ci, call, avail_in, held, buffer>>
  BY DEF WriteDescriptor, dirVars, entryVars, streamVars
<1>4. Fields(d) /\ d.kind = "descriptor" /\ d.crc = Crc
  BY DEF Fields, Descriptor
<1> HIDE DEF d
<1>5. /\ at' = at + 1 /\ file'[at + 1] = d /\ \A i \in 1..at : file'[i] = file[i]
  BY <1>3, <1>4, WriteOne DEF Prefix
<1>6. EntryType'
  BY <1>1, <1>3 DEF EntryType
<1>7. at = start + tc /\ start \in 1..at /\ \A k \in 1..tc : start + k \in 1..at
  <2>1. at = start + tc
    BY <1>1, <1>2, <1>3 DEF EntryInFile
  <2>2. start \in Nat /\ start >= 1 /\ tc \in Nat
    BY <1>2
  <2> HIDE DEF start, tc
  <2> QED
    BY <2>1, <2>2
<1>8. Crc' = Crc
  BY <1>3 DEF Crc
<1>9. file'[at'].kind = "descriptor" /\ file'[at'].crc = Crc'
  BY <1>4, <1>5, <1>8
<1>10. EntryInFile'
  <2>1. file'[start] = Local(ci.entry)
        /\ \A k \in 1..tc : file'[start + k] = BlockOf(ci.entry, ci.crc, k)
    BY <1>1, <1>5, <1>7 DEF EntryInFile
  <2> QED
    BY <1>3, <1>5, <1>7, <1>9, <2>1 DEF EntryInFile
<1>11. EntryInMemory'
  BY <1>1, <1>3 DEF EntryInMemory, Ended
<1> QED
  BY <1>6, <1>10, <1>11 DEF EntryInv

-----------------------------------------------------------------------------
(* The steps of an open handle.                                            *)

LEMMA RoomStays ==
    ASSUME NEW a \in Nat, NEW b \in Nat, a <= b, NEW len \in Nat, NEW size \in Nat,
           NEW stub \in Nat, NEW max \in Nat, NEW entries \in Int,
           len <= a + size + 1 + (IF a - stub >= max \/ entries > max THEN 2 ELSE 0)
    PROVE  (IF b > len THEN b ELSE len)
               <= b + size + 1 + (IF b - stub >= max \/ entries > max THEN 2 ELSE 0)
OBVIOUS

\* A write into an entry covers what was there.
LEMMA WritesKeep ==
    ASSUME Typed, Typed', DirInv, TailInv, ~Closing, ~Closing', Prefix,
           Len(file') = IF at' > Len(file) THEN at' ELSE Len(file),
           UNCHANGED <<dirVars, contents>>
    PROVE  DirInv' /\ TailInv' /\ CloseInv'
<1>1. /\ at \in Nat /\ at' \in Nat /\ at <= at' /\ Len(file) \in Nat
      /\ UNCHANGED <<central_dir, number_entry, before, contents>>
  BY DEF Typed, AreCells, IsSeq, Prefix, dirVars
<1>2. Limit = at /\ Limit' = at'
  BY DEF Limit
<1>3. DirInv'
  BY <1>1, <1>2, DirStays
<1>4. TailInv'
  <2> DEFINE size == Len(central_dir)
  <2>1. size \in Nat /\ before \in Nat
    BY DEF Typed, AreCells, IsSeq
  <2>2. Len(file) <= at + size + 1 + (IF at - before >= Max32 \/ number_entry > Max32 THEN 2 ELSE 0)
    BY DEF TailInv
  <2>3. Max32 \in Nat
    BY WidthAssumption
  <2> HIDE DEF size
  <2>4. Len(file') <= at' + size + 1
                      + (IF at' - before >= Max32 \/ number_entry > Max32 THEN 2 ELSE 0)
    <3> DEFINE b == at'
               len == Len(file)
    <3>1. /\ number_entry \in Int /\ b \in Nat /\ at \in Nat /\ at <= b /\ len \in Nat
          /\ len <= at + size + 1
                       + (IF at - before >= Max32 \/ number_entry > Max32 THEN 2 ELSE 0)
      BY <1>1, <2>2 DEF Typed
    <3>2. Len(file') = IF b > len THEN b ELSE len
      OBVIOUS
    <3> HIDE DEF b, len
    <3>3. (IF b > len THEN b ELSE len) <= b + size + 1
                       + (IF b - before >= Max32 \/ number_entry > Max32 THEN 2 ELSE 0)
      BY <2>1, <2>3, <3>1, RoomStays
    <3> QED
      BY <3>2, <3>3 DEF b
  <2>5. /\ ~Closing' /\ before' = before /\ number_entry' = number_entry
        /\ central_dir' = central_dir
    BY <1>1
  <2> QED
    BY <2>4, <2>5 DEF TailInv, Closing, size
<1> QED
  BY <1>3, <1>4 DEF CloseInv

LEMMA HeaderKernel ==
    ASSUME BufferInv, Typed, Typed', Kernel, WriteLocalHeader
    PROVE  Kernel'
<1> DEFINE c == Local(opened + 1)
<1>1. /\ pc = "header" /\ pc' = "idle" /\ Write(<<c>>) /\ UNCHANGED <<dirVars, contents>>
  BY DEF WriteLocalHeader, Return
<1>2. Fields(c)
  BY DEF Fields, Local
<1> HIDE DEF c
<1>3. /\ Prefix /\ Len(file') = IF at' > Len(file) THEN at' ELSE Len(file)
  BY <1>1, <1>2, WriteOne
<1> QED
  BY <1>1, <1>3, WritesKeep, HeaderEntry DEF Kernel, Closing

LEMMA FlushKernel ==
    ASSUME BufferInv, Typed, Typed', Kernel, CallInv, err' = "ok",
           FlushInWrite \/ FlushInFinish \/ FlushTail
    PROVE  Kernel'
<1>1. in_opened_file_inzip /\ pc \in {"write", "finish", "tail"} /\ AtEntry
  BY DEF CallInv, FlushInWrite, FlushInFinish, FlushTail, AtEntry
<1>2. UNCHANGED <<dirVars, contents, before, avail_in, held>>
  BY DEF FlushInWrite, FlushInFinish, FlushTail, dirVars, ghostVars
<1>3. CASE FlushTail /\ buffer = <<>>
  <2>1. UNCHANGED <<fileVars, dirVars, contents>> /\ pc = "tail" /\ pc' = "descriptor"
    BY <1>2, <1>3 DEF FlushTail
  <2> QED
    BY <1>1, <1>3, <2>1, Quiet, FlushNothing DEF Kernel, Closing
<1>4. CASE ~(FlushTail /\ buffer = <<>>)
  <2>1. PICK room : /\ Flush(room)
                    /\ \/ pc' = pc /\ pc \in {"write", "finish"}
                       \/ pc = "tail" /\ pc' = "descriptor"
    BY <1>4 DEF FlushInWrite, FlushInFinish, FlushTail, FlushFails
  <2>2. EntryInv'
    BY <1>1, <1>2, <2>1, FlushEntry DEF Kernel
  <2>3. AreCells(buffer) /\ AreCells(file) /\ at \in 0..Len(file)
    BY BufferCells DEF Typed, BufferInv
  <2>4. Prefix /\ Len(file') = IF at' > Len(file) THEN at' ELSE Len(file)
    BY <2>1, <2>3, WritePrefix DEF Flush
  <2>5. ~Closing /\ ~Closing'
    BY <2>1 DEF Closing
  <2> QED
    BY <1>2, <2>2, <2>4, <2>5, WritesKeep DEF Kernel
<1> QED
  BY <1>3, <1>4

LEMMA DescriptorKernel ==
    ASSUME BufferInv, Typed, Typed', Kernel, CallInv, err' = "ok", WriteDescriptor
    PROVE  Kernel'
<1> DEFINE d == Descriptor(Crc, ci.total_compressed, USize, ci.zip64)
<1>1. /\ pc = "descriptor" /\ pc' = "record" /\ Write(<<d>>) /\ UNCHANGED <<dirVars, contents>>
  BY DEF WriteDescriptor, ghostVars
<1>2. Fields(d) /\ in_opened_file_inzip
  BY <1>1 DEF Fields, Descriptor, CallInv, AtEntry
<1> HIDE DEF d
<1>3. /\ Prefix /\ Len(file') = IF at' > Len(file) THEN at' ELSE Len(file)
  BY <1>1, <1>2, WriteOne
<1> QED
  BY <1>1, <1>2, <1>3, WritesKeep, DescriptorEntry DEF Kernel, Closing

\* What AddRecord counts as closed.
ClosedEntry ==
    [entry |-> ci.entry, blocks |-> ci.crc, mode |-> ci.mode,
     given |-> IF ci.mode = "raw" THEN call.given ELSE ci.crc]

\* The record of an entry describes it.
LEMMA RecordKept ==
    ASSUME BufferInv, Typed, EntryInv, in_opened_file_inzip, pc = "record"
    PROVE  KeptAt(Record, ClosedEntry, file, before, at)
<1>1. EntryType /\ EntryInFile /\ EntryInMemory
  BY DEF EntryInv
<1>2. /\ ci.entry \in Nat /\ ci.crc \in Nat /\ ci.pos_local_header \in Nat
      /\ ci.total_in \in Nat /\ ci.total_compressed \in Nat
      /\ ci.total_uncompressed \in Nat /\ avail_in \in Nat
  BY <1>1, EntryNumbers
<1> DEFINE c == ClosedEntry
           r == Record
           pos == ci.pos_local_header
           tc == ci.total_compressed
           start == pos + 1
<1>3. /\ c.entry = ci.entry /\ c.blocks = ci.crc /\ c.mode = ci.mode
      /\ c.given = IF ci.mode = "raw" THEN call.given ELSE ci.crc
  BY DEF ClosedEntry
<1>4. ci.total_uncompressed = ci.crc /\ Len(buffer) = 0 /\ Len(held) = 0 /\ avail_in = 0
  BY <1>1, <1>2 DEF EntryInMemory, Ended
<1>5. Crc = c.given /\ USize = c.given
  BY <1>3, <1>4 DEF Crc, USize
<1>6. BlocksOf(c) = tc /\ tc = ci.crc + (IF c.mode = "deflate" THEN 1 ELSE 0)
  BY <1>1, <1>2, <1>3, <1>4 DEF EntryInMemory, Ended, BlocksOf
<1>7. /\ r.kind = "central" /\ r.entry = c.entry /\ r.crc = c.given
      /\ r.csize = Put(tc, Max32) /\ r.usize = Put(c.given, Max32)
      /\ r.offset = (IF pos >= Max32 THEN Max32 ELSE pos - before)
      /\ r.wide.csize = tc /\ r.wide.usize = c.given /\ r.wide.offset = pos
  BY <1>3, <1>5 DEF Record, Central
<1> HIDE DEF r
<1>8. CSizeOf(r) = BlocksOf(c) /\ USizeOf(r) = c.given
  BY <1>6, <1>7 DEF CSizeOf, USizeOf, Put
<1>9. /\ OffsetOf(r) \in Nat
      /\ before = 0 \/ r.offset # Max32 => OffsetOf(r) + before = pos
  BY <1>1, <1>2, <1>7, WidthAssumption DEF OffsetOf, Typed, EntryType
<1> HIDE DEF c
<1>10. at = start + tc + 1 /\ pos + BlocksOf(c) + 2 = at /\ at \in Nat /\ at <= Len(file)
  BY <1>1, <1>2, <1>6 DEF EntryInFile, Typed, AreCells, IsSeq
<1>11. Stored(c, file, pos)
  <2>1. file[pos + 1] = Local(c.entry)
    BY <1>1, <1>3 DEF EntryInFile
  <2>2. ASSUME NEW b \in 1..c.blocks PROVE file[pos + 1 + b] = Data(c.entry, b)
    <3>1. b \in 1..tc /\ b <= ci.crc
      BY <1>2, <1>3, <1>6
    <3> QED
      BY <1>1, <1>3, <3>1 DEF EntryInFile, BlockOf
  <2>3. ASSUME c.mode = "deflate" PROVE file[pos + 2 + c.blocks] = Data(c.entry, 0)
    <3>1. /\ tc \in 1..tc /\ ~(tc <= ci.crc) /\ pos + 1 + tc = pos + 2 + c.blocks
      BY <1>2, <1>3, <1>6, <2>3
    <3> QED
      BY <1>1, <1>3, <3>1 DEF EntryInFile, BlockOf
  <2>4. pos + 2 + BlocksOf(c) = at
    BY <1>2, <1>6, <1>10
  <2>5. file[at].kind = "descriptor" /\ file[at].crc = c.given
    BY <1>1, <1>5 DEF EntryInFile
  <2> QED
    BY <1>10, <2>1, <2>2, <2>3, <2>4, <2>5 DEF Stored
<1>12. Describes(r, c, file, before)
  BY <1>7, <1>8, <1>9, <1>11 DEF Describes
<1>13. before = 0 \/ r.offset # Max32 => OffsetOf(r) + before + BlocksOf(c) + 2 <= at
  BY <1>9, <1>10
<1> QED
  BY <1>2, <1>3, <1>9, <1>12, <1>13 DEF KeptAt, r, c

LEMMA AddRecordKernel ==
    ASSUME BufferInv, Typed, Typed', Kernel, CallInv, err = "ok", AddRecord
    PROVE  Kernel'
<1>1. pc = "record" /\ in_opened_file_inzip /\ in_opened_file_inzip' = FALSE
  BY DEF AddRecord, CallInv, AtEntry
<1>2. /\ central_dir' = Append(central_dir, Record) /\ number_entry' = number_entry + 1
      /\ contents' = Append(contents, ClosedEntry)
      /\ UNCHANGED <<file, at, before>>
  BY DEF AddRecord, ClosedEntry, fileVars
<1>3. ~Closing /\ ~Closing'
  BY <1>1 DEF AddRecord, Closing, Return
<1> DEFINE r == Record
           c == ClosedEntry
           n == Len(contents)
<1>4. KeptAt(r, c, file, before, at)
  BY <1>1, RecordKept DEF Kernel
<1> HIDE DEF r, c
<1>5. /\ IsSeq(contents) /\ n \in Nat /\ Len(central_dir) = n /\ IsSeq(central_dir)
      /\ number_entry = n
      /\ \A i \in 1..n : KeptAt(central_dir[i], contents[i], file, before, at)
  BY <1>3 DEF Kernel, DirInv, Limit, Typed, AreCells, IsSeq
<1>6. /\ IsSeq(contents') /\ Len(contents') = n + 1 /\ contents'[n + 1] = c
      /\ \A i \in 1..n : contents'[i] = contents[i]
  BY <1>2, <1>5, AppendCells DEF c
<1>7. /\ Len(central_dir') = n + 1 /\ central_dir'[n + 1] = r
      /\ \A i \in 1..n : central_dir'[i] = central_dir[i]
  <2>1. central_dir' = Append(central_dir, r)
    BY <1>2 DEF r
  <2> QED
    BY <1>5, <2>1, AppendCells
<1>8. DirInv'
  <2>1. ASSUME NEW i \in 1..(n + 1)
        PROVE  KeptAt(central_dir'[i], contents'[i], file, before, at)
    <3>1. i \in 1..n \/ i = n + 1
      BY <1>5
    <3> QED
      BY <1>4, <1>5, <1>6, <1>7, <3>1
  <2>2. Limit' = at /\ file' = file /\ before' = before
    BY <1>2, <1>3 DEF Limit
  <2> QED
    BY <1>2, <1>5, <1>6, <1>7, <2>1, <2>2 DEF DirInv
<1>9. TailInv'
  <2>1. at \in Nat /\ before \in Nat /\ Max32 \in Nat /\ Len(file) \in Nat
    BY WidthAssumption DEF Typed, AreCells, IsSeq
  <2>2. Len(file) <= at + n + 1 + (IF at - before >= Max32 \/ n > Max32 THEN 2 ELSE 0)
    BY <1>3, <1>5 DEF Kernel, TailInv
  <2> HIDE DEF n
  <2>3. Len(file) <= at + (n + 1) + 1
                       + (IF at - before >= Max32 \/ n + 1 > Max32 THEN 2 ELSE 0)
    BY <1>5, <2>1, <2>2
  <2>4. number_entry' = n + 1 /\ Len(central_dir') = n + 1
    BY <1>2, <1>5, <1>7
  <2> QED
    BY <1>2, <1>3, <2>3, <2>4 DEF TailInv, Closing
<1> QED
  BY <1>1, <1>3, <1>8, <1>9 DEF Kernel, CloseInv, EntryInv

-----------------------------------------------------------------------------
(* The steps of a close.                                                   *)

LEMMA CentralKernel ==
    ASSUME Typed, Typed', Kernel, CallInv, err = "ok", err' = "ok", WriteCentralDir
    PROVE  Kernel'
<1> DEFINE size == Len(central_dir)
<1>1. /\ pc = "central" /\ pc' = "end64" /\ dirPos' = at /\ dirSize' = Cast32(size)
      /\ UNCHANGED <<central_dir, number_entry, before, contents, in_opened_file_inzip>>
  BY DEF WriteCentralDir, Tell, dirVars, entryVars, ghostVars
<1>2. ~in_opened_file_inzip'
  BY <1>1 DEF CallInv, AtEntry
<1>3. /\ size \in Nat /\ AreCells(central_dir) /\ AreCells(file) /\ at \in 0..Len(file)
      /\ at \in Nat /\ Len(file) \in Nat /\ before \in Nat
      /\ at' \in Nat /\ Len(file') \in Nat
  BY DEF Typed, AreCells, IsSeq
<1>4. /\ at' = at + size
      /\ Prefix \/ UNCHANGED fileVars
      /\ Len(file') = IF at + size > Len(file) THEN at + size ELSE Len(file)
      /\ \A i \in 1..size : file'[at + i] = central_dir[i]
  <2>1. CASE central_dir # <<>>
    <3>1. Write(central_dir)
      BY <2>1 DEF WriteCentralDir
    <3> QED
      BY <1>3, <3>1, WritePrefix
  <2>2. CASE central_dir = <<>>
    <3>1. UNCHANGED <<file, at>> /\ size = 0
      BY <2>2 DEF WriteCentralDir, fileVars
    <3> QED
      BY <1>3, <3>1 DEF fileVars
  <2> QED
    BY <2>1, <2>2
<1>5. Closing' /\ ~Closing /\ Limit' = at /\ Limit = at
  BY <1>1 DEF Closing, Limit
<1> HIDE DEF size
<1>6. at <= at'
  BY <1>3, <1>4
<1>7. DirInv'
  BY <1>1, <1>3, <1>4, <1>5, <1>6, DirStays DEF Kernel
<1>8. TailInv'
  <2>1. Room64' = IF at - before >= Max32 \/ number_entry > Max32 THEN 2 ELSE 0
    BY <1>1 DEF Room64, NeedsEnd64
  <2>2. Room64' \in Nat
    BY <2>1
  <2>3. Len(file) <= at + size + 1 + Room64'
    BY <1>5, <2>1 DEF Kernel, TailInv, size
  <2>4. Len(file') <= at' + 1 + Room64'
    BY <1>3, <1>4, <2>2, <2>3
  <2> QED
    BY <1>1, <2>4 DEF TailInv, Closing
<1>9. CloseInv'
  <2>1. /\ dirSize' = Cast32(Len(central_dir')) /\ pc' = "end64"
        /\ \A i \in 1..Len(central_dir') : file'[dirPos' + i] = central_dir'[i]
        /\ at' = dirPos' + Len(central_dir') + 0
    <3>1. at + size + 0 = at + size
      BY <1>3
    <3> QED
      BY <1>1, <1>4, <3>1 DEF size
  <2> QED
    BY <2>1 DEF CloseInv
<1> QED
  BY <1>2, <1>7, <1>8, <1>9 DEF Kernel, EntryInv

\* What the records of a close leave as it is.
LEMMA ClosingKeeps ==
    ASSUME Typed, Typed', DirInv, CloseInv, Closing, Closing', dirPos + Len(central_dir) <= at,
           Prefix \/ UNCHANGED fileVars,
           UNCHANGED <<central_dir, number_entry, before, contents, dirPos, dirSize>>
    PROVE  /\ DirInv'
           /\ \A i \in 1..Len(central_dir) : file'[dirPos + i] = central_dir[i]
<1> DEFINE size == Len(central_dir)
<1>1. /\ size \in Nat /\ at \in Nat /\ dirPos \in Nat /\ at' \in Nat
  BY DEF Typed, AreCells, IsSeq
<1>2. at <= at'
  BY <1>1 DEF Prefix, fileVars
<1>3. \A i \in 1..at : file'[i] = file[i]
  BY DEF Prefix, fileVars
<1>4. Limit = dirPos /\ Limit' = dirPos
  BY DEF Limit
<1>5. dirPos + size <= at /\ \A i \in 1..size : file[dirPos + i] = central_dir[i]
  BY DEF CloseInv
<1> HIDE DEF size
<1>6. dirPos <= at
  BY <1>1, <1>5
<1>7. DirInv'
  <2>1. dirPos <= at'
    BY <1>1, <1>2, <1>6
  <2> QED
    BY <1>1, <1>4, <1>6, <2>1, DirStays
<1>8. ASSUME NEW i \in 1..size PROVE file'[dirPos + i] = central_dir[i]
  <2>1. dirPos + i \in 1..at
    BY <1>1, <1>5
  <2> QED
    BY <1>3, <1>5, <2>1
<1> QED
  BY <1>7, <1>8 DEF size

LEMMA End64Kernel ==
    ASSUME Typed, Typed', Kernel, CallInv, err = "ok", err' = "ok", WriteEnd64
    PROVE  Kernel'
<1> DEFINE size == Len(central_dir)
           behind == dirPos + size
           room == IF NeedsEnd64 THEN 2 ELSE 0
<1>1. /\ pc = "end64" /\ pc' = "end"
      /\ UNCHANGED <<central_dir, number_entry, before, contents, dirPos, dirSize>>
      /\ UNCHANGED in_opened_file_inzip
  BY DEF WriteEnd64, dirVars, entryVars, closeVars
<1>2. ~in_opened_file_inzip'
  BY <1>1 DEF CallInv, AtEntry
<1>3. /\ size \in Nat /\ AreCells(file) /\ at \in 0..Len(file) /\ at \in Nat
      /\ Len(file) \in Nat /\ before \in Nat /\ dirPos \in Nat /\ before <= at
      /\ before <= dirPos /\ at' \in Nat /\ Len(file') \in Nat
  BY <1>1 DEF Typed, AreCells, IsSeq, Closing
<1>4. at = behind /\ dirSize = Cast32(size) /\ Closing /\ Closing'
  <2>1. at = behind + 0 /\ dirSize = Cast32(size)
    BY <1>1 DEF Kernel, CloseInv, Closing
  <2>2. behind + 0 = behind
    BY <1>3
  <2> QED
    BY <1>1, <2>1, <2>2 DEF Closing
<1>5. Room64 = room /\ Room64' = room /\ (NeedsEnd64' <=> NeedsEnd64)
  BY <1>1 DEF Room64, NeedsEnd64
<1>6. Len(file) <= at + 1 + room
  BY <1>1, <1>5 DEF Kernel, TailInv
<1>7. /\ at' = at + room
      /\ Prefix \/ UNCHANGED fileVars
      /\ Len(file') <= at' + 1
      /\ NeedsEnd64 =>
           /\ file'[behind + 1] = End64(number_entry, dirSize, dirPos - before)
           /\ file'[behind + 2] = Locator64(behind - before)
  <2>1. CASE NeedsEnd64
    <3> DEFINE c == End64(number_entry, dirSize, dirPos - before)
               l == Locator64(at - before)
               cells == <<c, l>>
    <3>1. Write(cells)
      BY <2>1 DEF WriteEnd64, Tell
    <3>2. Fields(c) /\ Fields(l)
      <4>1. dirPos - before \in Nat
        BY <1>3
      <4> QED
        BY <1>3, <4>1, EndFields
    <3>3. c = End64(number_entry, dirSize, dirPos - before) /\ l = Locator64(behind - before)
      BY <1>4
    <3> HIDE DEF c, l
    <3>4. AreCells(cells) /\ Len(cells) = 2 /\ cells[1] = c /\ cells[2] = l
      BY <3>2, TwoCells
    <3> HIDE DEF cells
    <3>5. /\ Prefix /\ at' = at + Len(cells)
          /\ Len(file') = IF at + Len(cells) > Len(file) THEN at + Len(cells) ELSE Len(file)
          /\ \A i \in 1..Len(cells) : file'[at + i] = cells[i]
      BY <1>3, <3>1, <3>4, WritePrefix
    <3>6. 1 \in 1..Len(cells) /\ 2 \in 1..Len(cells)
      BY <3>4
    <3>7. room = 2
      BY <2>1
    <3>8. Len(file') <= at' + 1
      BY <1>3, <1>6, <3>4, <3>5, <3>7
    <3> QED
      BY <1>4, <3>3, <3>4, <3>5, <3>6, <3>7, <3>8
  <2>2. CASE ~NeedsEnd64
    <3>1. UNCHANGED <<file, at>> /\ room = 0
      BY <2>2 DEF WriteEnd64, fileVars
    <3> HIDE DEF room
    <3> QED
      BY <1>3, <1>6, <2>2, <3>1 DEF fileVars
  <2> QED
    BY <2>1, <2>2
<1>8. DirInv' /\ \A i \in 1..size : file'[dirPos + i] = central_dir[i]
  <2>1. dirPos + size <= at
    BY <1>3, <1>4
  <2> QED
    BY <1>1, <1>4, <1>7, <2>1, ClosingKeeps DEF Kernel
<1>9. TailInv'
  BY <1>1, <1>4, <1>7 DEF TailInv
<1>10. CloseInv'
  BY <1>1, <1>4, <1>5, <1>7, <1>8 DEF CloseInv
<1> QED
  BY <1>2, <1>8, <1>9, <1>10 DEF Kernel, EntryInv

LEMMA EndKernel ==
    ASSUME Typed, Typed', Kernel, CallInv, err = "ok", err' = "ok", WriteEnd
    PROVE  Kernel'
<1> DEFINE size == Len(central_dir)
           behind == dirPos + size
           room == IF NeedsEnd64 THEN 2 ELSE 0
           c == End(number_entry, dirSize,
                    IF dirPos - before >= Max32 THEN Max32 ELSE dirPos - before)
<1>1. /\ pc = "end" /\ pc' = "fclose" /\ Write(<<c>>)
      /\ UNCHANGED <<central_dir, number_entry, before, contents, dirPos, dirSize>>
      /\ UNCHANGED in_opened_file_inzip
  BY DEF WriteEnd, dirVars, entryVars, closeVars, ghostVars
<1>2. ~in_opened_file_inzip'
  BY <1>1 DEF CallInv, AtEntry
<1>3. /\ size \in Nat /\ at \in Nat /\ Len(file) \in Nat /\ before \in Nat
      /\ dirPos \in Nat /\ before <= dirPos /\ room \in Nat
  BY <1>1 DEF Typed, AreCells, IsSeq, Closing
<1>4. Room64 = room /\ Room64' = room /\ (NeedsEnd64' <=> NeedsEnd64)
  BY <1>1 DEF Room64, NeedsEnd64
<1>5. at = behind + room /\ dirSize = Cast32(size) /\ Closing /\ Closing'
  BY <1>1, <1>4 DEF Kernel, CloseInv, Closing
<1>6. Fields(c)
  <2>1. dirPos - before \in Nat
    BY <1>3
  <2> QED
    BY <2>1, EndFields
<1>7. c = End(number_entry, dirSize,
              IF dirPos - before >= Max32 THEN Max32 ELSE dirPos - before)
  OBVIOUS
<1> HIDE DEF c
<1>8. /\ Prefix /\ at' = at + 1 /\ file'[at + 1] = c
      /\ Len(file') = IF at + 1 > Len(file) THEN at + 1 ELSE Len(file)
  BY <1>1, <1>6, WriteOne
<1>9. Len(file) <= at + 1
  BY <1>1 DEF Kernel, TailInv
<1>10. Len(file') = at'
  BY <1>3, <1>8, <1>9
<1>11. DirInv' /\ \A i \in 1..size : file'[dirPos + i] = central_dir[i]
  <2>1. dirPos + size <= at
    <3> HIDE DEF size, room
    <3> QED
      BY <1>3, <1>5
  <2> QED
    BY <1>1, <1>5, <1>8, <2>1, ClosingKeeps DEF Kernel
<1>12. NeedsEnd64 =>
           /\ file'[behind + 1] = End64(number_entry, dirSize, dirPos - before)
           /\ file'[behind + 2] = Locator64(behind - before)
  <2> SUFFICES ASSUME NeedsEnd64
               PROVE  /\ file'[behind + 1] = End64(number_entry, dirSize, dirPos - before)
                      /\ file'[behind + 2] = Locator64(behind - before)
    OBVIOUS
  <2>1. /\ file[behind + 1] = End64(number_entry, dirSize, dirPos - before)
        /\ file[behind + 2] = Locator64(behind - before)
    BY <1>1, <1>5 DEF Kernel, CloseInv
  <2>2. room = 2 /\ behind \in Nat
    BY <1>3
  <2> HIDE DEF room, behind
  <2>3. behind + 1 \in 1..at /\ behind + 2 \in 1..at
    BY <1>5, <2>2
  <2> QED
    BY <1>8, <2>1, <2>3 DEF Prefix
<1>13. TailInv'
  BY <1>1, <1>5, <1>10 DEF TailInv
<1>14. at' = behind + (room + 1)
  <2> HIDE DEF size, room
  <2> QED
    BY <1>3, <1>5, <1>8
<1>15. CloseInv'
  BY <1>1, <1>4, <1>5, <1>7, <1>8, <1>11, <1>12, <1>14 DEF CloseInv
<1> QED
  BY <1>2, <1>11, <1>13, <1>15 DEF Kernel, EntryInv

-----------------------------------------------------------------------------
(* The archive between two handles.                                        *)

\* The last cell is the end record, and it leads to records that describe the
\* entries.
Closed ==
    LET d == Directory(file)
        start == d.offset + d.before
    IN
    /\ IsSeq(contents)
    /\ d.found /\ d.entries = Len(contents) /\ d.size = Len(contents)
    /\ d.offset \in Nat /\ d.before \in Nat
    /\ Len(file) # 0 => file[Len(file)].kind = "end"
    /\ Len(file) <= start + d.size + 1
                       + (IF d.offset >= Max32 \/ d.entries > Max32 THEN 2 ELSE 0)
    /\ start + d.size <= Len(file)
    /\ \A i \in 1..Len(contents) :
           KeptAt(file[start + i], contents[i], file, d.before, start)

\* An end record that ends the file is the one that is found.
LEMMA EndsWith ==
    ASSUME NEW cells, AreCells(cells), Len(cells) # 0, cells[Len(cells)].kind = "end"
    PROVE  /\ SearchCentralDir(cells) = Len(cells) - 1
           /\ EndRecord(cells) = cells[Len(cells)]
<1>1. Len(cells) \in Nat /\ Len(cells) \in 1..Len(cells)
  BY DEF AreCells, IsSeq
<1>2. SearchCentralDir(cells) + 1 \in Len(cells)..Len(cells) /\ SearchCentralDir(cells) \in Nat
  BY <1>1, SearchFinds
<1>3. SearchCentralDir(cells) = Len(cells) - 1 /\ (Len(cells) - 1) + 1 = Len(cells)
  BY <1>1, <1>2
<1>4. cells # <<>>
  BY EmptyCells
<1> QED
  BY <1>3, <1>4 DEF EndRecord

LEMMA PlainDirectory ==
    ASSUME NEW cells, AreCells(cells), Len(cells) # 0, cells[Len(cells)].kind = "end",
           cells[Len(cells)].entries # Max16, cells[Len(cells)].offset # Max32
    PROVE  Directory(cells) = DirectoryAt(Len(cells) - 1, cells[Len(cells)])
BY EndsWith DEF Directory

LEMMA WideDirectory ==
    ASSUME NEW cells, AreCells(cells), NEW n \in Nat, Len(cells) = n + 1, n # 0,
           cells[n + 1].kind = "end",
           cells[n + 1].entries = Max16 \/ cells[n + 1].offset = Max32,
           cells[n].kind = "locator64", NEW at64 \in 1..n, cells[n].offset = at64,
           cells[at64 + 1].kind = "end64"
    PROVE  Directory(cells) = DirectoryAt(at64, cells[at64 + 1])
<1>1. SearchCentralDir(cells) = n /\ EndRecord(cells) = cells[n + 1]
  <2>1. Len(cells) # 0 /\ cells[Len(cells)].kind = "end" /\ Len(cells) - 1 = n
    OBVIOUS
  <2> QED
    BY <2>1, EndsWith
<1>2. at64 + 1 \in 1..Len(cells) /\ at64 # 0 /\ n > 0
  OBVIOUS
<1>3. SearchCentralDir64(cells, n) = at64
  BY <1>2 DEF SearchCentralDir64
<1> QED
  BY <1>1, <1>2, <1>3 DEF Directory

LEMMA NothingFound ==
    Directory(<<>>) = [found |-> TRUE, entries |-> 0, size |-> 0, offset |-> 0, before |-> 0]
<1>1. SearchCentralDir(<<>>) = 0
  BY EmptyCells DEF SearchCentralDir
<1>2. EndRecord(<<>>) = End(0, 0, 0)
  BY DEF EndRecord
<1>3. End(0, 0, 0) = [kind |-> "end", entries |-> 0, size |-> 0, offset |-> 0]
  BY WidthAssumption DEF End, Put
<1>4. Directory(<<>>) = DirectoryAt(0, End(0, 0, 0))
  BY <1>1, <1>2, <1>3, WidthAssumption DEF Directory
<1> QED
  BY <1>3, <1>4 DEF DirectoryAt

LEMMA InitClosed == Init /\ sound => Closed
<1> SUFFICES ASSUME Init, sound PROVE Closed
  OBVIOUS
<1>1. file = <<>> /\ contents = <<>>
  BY Zenon DEF Init
<1>2. IsSeq(<<>>) /\ Len(<<>>) = 0
  BY EmptyCells DEF AreCells
<1>3. Len(file) = 0 /\ Len(contents) = 0 /\ IsSeq(contents)
  BY <1>1, <1>2
<1> QED
  BY <1>1, <1>3, NothingFound DEF Closed

-----------------------------------------------------------------------------
(* A new handle.                                                           *)

LEMMA EmptyKernel ==
    ASSUME central_dir' = <<>>, number_entry' = 0, contents' = <<>>, before' = 0,
           pc' = "idle", in_opened_file_inzip' = FALSE, at' \in Nat, Len(file') = at'
    PROVE  Kernel'
<1>1. IsSeq(<<>>) /\ Len(<<>>) = 0
  BY EmptyCells DEF AreCells
<1>2. DirInv'
  BY <1>1 DEF DirInv
<1>3. TailInv'
  <2> DEFINE room == IF at' - before' >= Max32 \/ number_entry' > Max32 THEN 2 ELSE 0
  <2>1. room \in Nat
    OBVIOUS
  <2> DEFINE a == at'
  <2>4. a \in Nat
    OBVIOUS
  <2> HIDE DEF room, a
  <2>5. a <= a + 0 + 1 + room
    BY <2>1, <2>4
  <2>2. at' <= at' + 0 + 1 + room
    BY <2>5 DEF a
  <2>3. Len(central_dir') = 0 /\ ~Closing'
    BY <1>1 DEF Closing
  <2> QED
    BY <2>2, <2>3 DEF TailInv, Closing, room
<1> QED
  BY <1>2, <1>3 DEF Kernel, EntryInv, CloseInv, Closing

LEMMA AddInZipKernel ==
    ASSUME Typed, Closed, OpenAddInZip, in_opened_file_inzip' = FALSE
    PROVE  Kernel'
<1> DEFINE d == Directory(file)
           start == d.offset + d.before
           n == Len(contents)
<1>1. /\ at' = start /\ central_dir' = Records(file, d) /\ number_entry' = d.entries
      /\ before' = d.before /\ UNCHANGED <<file, contents>> /\ pc' = "idle"
  BY DEF OpenAddInZip, Opened
<1>2. /\ IsSeq(contents) /\ d.entries = n /\ d.size = n
      /\ d.offset \in Nat /\ d.before \in Nat
      /\ Len(file) <= start + n + 1
                       + (IF d.offset >= Max32 \/ d.entries > Max32 THEN 2 ELSE 0)
      /\ start + n <= Len(file)
      /\ \A i \in 1..n : KeptAt(file[start + i], contents[i], file, d.before, start)
  BY DEF Closed
<1> HIDE DEF d
<1>3. n \in Nat /\ start \in Nat /\ Len(file) \in Nat /\ AreCells(file)
  BY <1>2 DEF IsSeq, Typed, AreCells
<1> HIDE DEF n
<1>4. Len(central_dir') = n /\ \A i \in 1..n : central_dir'[i] = file[start + i]
  <2>1. central_dir' = SubSeq(file, start + 1, start + n)
    BY <1>1, <1>2 DEF Records
  <2> HIDE DEF start
  <2>2. start + 1 \in Nat \ {0} /\ start + n \in Nat /\ start + 1 <= (start + n) + 1
        /\ (start + n) - (start + 1) + 1 = n
        /\ \A i \in 1..n : (start + 1) + i - 1 = start + i
    BY <1>3
  <2>3. /\ Len(central_dir') = (start + n) - (start + 1) + 1
        /\ \A i \in 1..((start + n) - (start + 1) + 1) :
               central_dir'[i] = file[(start + 1) + i - 1]
    BY <1>2, <1>3, <2>1, <2>2, SubCells
  <2> QED
    BY <2>2, <2>3
<1>5. ~Closing' /\ Limit' = start
  BY <1>1 DEF Closing, Limit
<1>6. DirInv'
  BY <1>1, <1>2, <1>4, <1>5 DEF DirInv, n
<1>7. start - d.before = d.offset
  BY <1>2
<1>8. TailInv'
  BY <1>1, <1>2, <1>4, <1>5, <1>7 DEF TailInv, Closing
<1> QED
  BY <1>5, <1>6, <1>8 DEF Kernel, EntryInv, CloseInv

LEMMA OpenKernel ==
    ASSUME Typed, BufferInv, CallInv, sound => Closed, sound',
           OpenCreate \/ OpenCreateAfter \/ OpenAddInZip
    PROVE  Kernel'
<1>1. in_opened_file_inzip' = FALSE
  <2>1. pc = "null" /\ UNCHANGED in_opened_file_inzip
    BY DEF OpenCreate, OpenCreateAfter, OpenAddInZip, Opened, entryVars
  <2>2. in_opened_file_inzip \in BOOLEAN /\ ~in_opened_file_inzip
    BY <2>1 DEF BufferInv, CallInv
  <2> QED
    BY <2>1, <2>2
<1>2. CASE OpenCreate
  BY <1>1, <1>2, EmptyKernel, EmptyCells DEF OpenCreate, Opened
<1>3. CASE OpenCreateAfter
  <2>1. Len(file) \in Nat
    BY DEF Typed, AreCells, IsSeq
  <2> QED
    BY <1>1, <1>3, <2>1, EmptyKernel DEF OpenCreateAfter, Opened
<1>4. CASE OpenAddInZip
  BY <1>1, <1>4, AddInZipKernel DEF OpenAddInZip
<1> QED
  BY <1>2, <1>3, <1>4

-----------------------------------------------------------------------------
(* The archive that a handle leaves.                                       *)

LEMMA CloseStreamGood ==
    ASSUME CallInv, CloseStream, sound'
    PROVE  /\ Good /\ ~reported' /\ Len(central_dir) <= Max32
           /\ NeedsEnd64 => before = 0
           /\ ~NeedsEnd64 => number_entry < Max16
<1>1. sound' = (sound /\ ~reported' /\ Len(central_dir) <= Max32
                 /\ IF NeedsEnd64 THEN before = 0 ELSE number_entry < Max16)
  BY DEF CloseStream
<1>2. /\ sound /\ ~reported' /\ Len(central_dir) <= Max32
      /\ IF NeedsEnd64 THEN before = 0 ELSE number_entry < Max16
  BY <1>1, Zenon
<1>3. ~reported /\ err = "ok"
  BY <1>2, Zenon DEF CloseStream, Fclose
<1>4. NeedsEnd64 => before = 0
  BY <1>2, Zenon
<1>5. ~NeedsEnd64 => number_entry < Max16
  BY <1>2, Zenon
<1> QED
  BY <1>2, <1>3, <1>4, <1>5 DEF Good

\* Wherever the directory is found, when it is the one that was written.
LEMMA DirectoryClosed ==
    ASSUME Typed, Kernel, pc = "fclose", UNCHANGED <<file, contents>>,
           dirSize = Len(central_dir),
           NEW offset \in Nat, NEW stub \in Nat, offset + stub = dirPos, stub = before,
           Directory(file) = [found |-> TRUE, entries |-> number_entry, size |-> dirSize,
                              offset |-> offset, before |-> stub]
    PROVE  Closed'
<1> DEFINE n == Len(contents)
           d == Directory(file)
<1>1. /\ Closing /\ n = number_entry /\ n = Len(central_dir) /\ n = dirSize /\ IsSeq(contents)
      /\ \A i \in 1..n : file[dirPos + i] = central_dir[i]
      /\ \A i \in 1..n : KeptAt(central_dir[i], contents[i], file, before, dirPos)
  BY DEF Kernel, DirInv, CloseInv, Closing, Limit
<1>2. /\ Len(file) = at /\ at = dirPos + n + (Room64 + 1) /\ file[at].kind = "end"
  BY <1>1 DEF Kernel, CloseInv, TailInv, Closing, End
<1>3. /\ d.found /\ d.entries = n /\ d.size = n /\ d.offset = offset /\ d.before = stub
  BY <1>1
<1>4. n \in Nat /\ dirPos \in Nat /\ at \in Nat
  BY <1>1 DEF Typed, IsSeq, AreCells
<1>5. Room64 = IF offset >= Max32 \/ n > Max32 THEN 2 ELSE 0
  <2>1. dirPos - before = offset
    BY <1>4
  <2> QED
    BY <1>1, <2>1 DEF Room64, NeedsEnd64
<1>6. Len(file) = dirPos + n + 1 + (IF offset >= Max32 \/ n > Max32 THEN 2 ELSE 0)
  <2>1. Room64 \in Nat
    BY DEF Room64
  <2> HIDE DEF n
  <2>2. Len(file) = dirPos + n + 1 + Room64
    BY <1>2, <1>4, <2>1
  <2> QED
    BY <1>5, <2>2
<1>7. dirPos + n <= Len(file)
  <2> HIDE DEF n
  <2> QED
    BY <1>4, <1>6
<1>8. \A i \in 1..n : KeptAt(file[dirPos + i], contents[i], file, stub, dirPos)
  BY <1>1
<1>9. /\ d.offset + d.before = dirPos
      /\ Len(file) <= dirPos + n + 1 + (IF offset >= Max32 \/ n > Max32 THEN 2 ELSE 0)
  BY <1>2, <1>3, <1>4, <1>6
<1> HIDE DEF d
<1>10. Closed
  BY <1>1, <1>2, <1>3, <1>7, <1>8, <1>9 DEF Closed, d
<1> QED
  BY <1>10 DEF Closed

LEMMA CloseStreamClosed ==
    ASSUME Typed, Kernel, CallInv, CloseStream, sound'
    PROVE  Closed'
<1> DEFINE n == number_entry
           offset == dirPos - before
<1>1. pc = "fclose" /\ UNCHANGED <<file, contents>>
  BY DEF CloseStream
<1>2. /\ Closing /\ n = Len(central_dir) /\ dirSize = n /\ Len(file) = at
      /\ at = dirPos + n + (Room64 + 1)
      /\ file[at] = End(n, n, IF offset >= Max32 THEN Max32 ELSE offset)
  <2>1. Closing /\ n = Len(central_dir) /\ dirSize = Cast32(n)
    BY <1>1 DEF Kernel, DirInv, CloseInv, Closing
  <2>2. Cast32(n) = n
    <3>1. n \in Nat /\ n <= Max32
      BY <2>1, CloseStreamGood DEF Typed
    <3> QED
      BY <3>1, Casts
  <2> QED
    BY <1>1, <2>1, <2>2 DEF Kernel, CloseInv, TailInv, Closing
<1>3. /\ n \in Nat /\ dirPos \in Nat /\ before \in Nat /\ before <= dirPos
      /\ offset \in Nat /\ offset + before = dirPos /\ at \in Nat /\ AreCells(file)
      /\ Max16 \in Nat /\ Max32 \in Nat /\ Max16 <= Max32 /\ Max32 # 0
  BY <1>2, WidthAssumption DEF Typed, AreCells, IsSeq
<1>4. CASE ~NeedsEnd64
  <2>1. n < Max16 /\ offset < Max32 /\ Room64 = 0
    BY <1>3, <1>4, CloseStreamGood DEF NeedsEnd64, Room64
  <2> DEFINE c == file[at]
  <2>2. c.kind = "end" /\ c.entries = n /\ c.size = n /\ c.offset = offset
    BY <1>2, <1>3, <2>1 DEF End, Put
  <2>3. n # Max16 /\ offset # Max32 /\ at # 0 /\ at - 1 = dirPos + n
    BY <1>2, <1>3, <2>1
  <2>4. Directory(file) = DirectoryAt(dirPos + n, c)
    <3> HIDE DEF offset, n
    <3> QED
      BY <1>2, <1>3, <2>2, <2>3, PlainDirectory
  <2>5. /\ ~(dirPos + n < offset + n)
        /\ (dirPos + n) - (offset + n) = before
    BY <1>3
  <2>6. Directory(file) = [found |-> TRUE, entries |-> n, size |-> n, offset |-> offset,
                           before |-> before]
    <3> HIDE DEF offset, n, c
    <3> QED
      BY <2>2, <2>4, <2>5 DEF DirectoryAt
  <2> QED
    BY <1>1, <1>2, <1>3, <2>6, DirectoryClosed
<1>5. CASE NeedsEnd64
  <2> DEFINE behind == dirPos + n
  <2>1. before = 0 /\ offset = dirPos /\ Room64 = 2
    BY <1>3, <1>5, CloseStreamGood DEF Room64
  <2>2. n > Max32 \/ dirPos >= Max32
    BY <1>3, <1>5, <2>1 DEF NeedsEnd64
  <2>3. /\ file[behind + 1] = End64(n, n, dirPos)
        /\ file[behind + 2] = Locator64(behind)
    <3>1. behind - before = behind
      BY <1>3, <2>1
    <3> QED
      BY <1>1, <1>2, <1>5, <2>1, <3>1 DEF Kernel, CloseInv
  <2>4. /\ behind \in Nat /\ behind # 0 /\ at = behind + 2 + 1 /\ behind + 2 \in Nat
    BY <1>2, <1>3, <2>1, <2>2
  <2>5. /\ file[at].kind = "end"
        /\ file[at].entries = Max16 \/ file[at].offset = Max32
    <3>1. n > Max32 => n >= Max16
      BY <1>3
    <3> QED
      BY <1>2, <2>1, <2>2, <3>1 DEF End
  <2>6. Directory(file) = DirectoryAt(behind, file[behind + 1])
    <3>1. file[behind + 1].kind = "end64"
      BY <2>3 DEF End64
    <3>2. file[behind + 2].kind = "locator64" /\ file[behind + 2].offset = behind
      BY <2>3 DEF Locator64
    <3> DEFINE m == behind + 2
    <3>3. m \in Nat /\ Len(file) = m + 1 /\ m # 0 /\ behind \in 1..m
      BY <1>2, <2>4
    <3> HIDE DEF m, behind
    <3>4. file[m].kind = "locator64" /\ file[m].offset = behind
      BY <3>2 DEF m
    <3>5. file[m + 1].kind = "end"
          /\ (file[m + 1].entries = Max16 \/ file[m + 1].offset = Max32)
      BY <1>2, <2>5, <3>3
    <3> QED
      BY <1>3, <3>1, <3>3, <3>4, <3>5, WideDirectory
  <2>7. Directory(file) = [found |-> TRUE, entries |-> n, size |-> n, offset |-> dirPos,
                           before |-> 0]
    <3> DEFINE c == file[behind + 1]
    <3>1. c.entries = n /\ c.size = n /\ c.offset = dirPos
      BY <2>3 DEF End64
    <3>2. ~(behind < dirPos + n) /\ behind - (dirPos + n) = 0
      BY <2>4
    <3> HIDE DEF c, n, behind
    <3>3. Directory(file) = DirectoryAt(behind, c)
      BY <2>6 DEF c
    <3> QED
      BY <3>1, <3>2, <3>3 DEF DirectoryAt
  <2> QED
    BY <1>1, <1>2, <1>3, <2>1, <2>7, DirectoryClosed
<1> QED
  BY <1>4, <1>5

\* A stub in front of an archive without zip64 records moves all of it.
LEMMA PrependDirectory ==
    ASSUME NEW cells, AreCells(cells), Len(cells) # 0, cells[Len(cells)].kind = "end",
           ~Zip64(cells), Directory(cells).found
    PROVE  LET d == Directory(cells)
               e == Directory(<<Stub>> \o cells)
           IN  /\ e.found /\ e.entries = d.entries /\ e.size = d.size
               /\ e.offset = d.offset /\ e.before = d.before + 1
<1> DEFINE n == Len(cells)
           c == cells[n]
           moved == <<Stub>> \o cells
           d == Directory(cells)
<1>1. n \in Nat /\ n \in 1..n
  BY DEF AreCells, IsSeq
<1>2. SearchCentralDir(cells) = n - 1 /\ EndRecord(cells) = c
  BY EndsWith
<1>3. SearchCentralDir64(cells, n - 1) = 0
  BY DEF SearchCentralDir64, Zip64
<1>4. c.entries # Max16 /\ c.offset # Max32
  BY <1>2, <1>3 DEF Directory, NoDirectory
<1>5. d = DirectoryAt(n - 1, c)
  BY <1>4, PlainDirectory
<1>6. /\ AreCells(moved) /\ Len(moved) = n + 1
      /\ \A i \in 1..n : moved[i + 1] = cells[i]
  BY Shifted
<1>7. moved[n + 1] = c
  BY <1>1, <1>6
<1> HIDE DEF moved
<1>8. Directory(moved) = DirectoryAt((n + 1) - 1, c)
  <2>1. Len(moved) # 0
    BY <1>1, <1>6
  <2> QED
    BY <1>4, <1>6, <1>7, <2>1, PlainDirectory
<1>9. c.offset \in Nat /\ c.size \in Nat
  BY <1>1 DEF AreCells, Fields
<1>10. ~(n - 1 < c.offset + c.size)
  BY <1>5 DEF DirectoryAt, NoDirectory
<1> HIDE DEF c, n, d
<1>11. /\ ~((n + 1) - 1 < c.offset + c.size)
       /\ (n + 1) - 1 - (c.offset + c.size) = n - 1 - (c.offset + c.size) + 1
  BY <1>1, <1>9, <1>10
<1>12. d = [found |-> TRUE, entries |-> c.entries, size |-> c.size, offset |-> c.offset,
            before |-> n - 1 - (c.offset + c.size)]
  BY <1>5, <1>10 DEF DirectoryAt
<1>13. Directory(moved) = [found |-> TRUE, entries |-> c.entries, size |-> c.size,
            offset |-> c.offset, before |-> n - 1 - (c.offset + c.size) + 1]
  BY <1>8, <1>11 DEF DirectoryAt
<1> DEFINE e == Directory(moved)
<1>14. /\ e.found /\ e.entries = d.entries /\ e.size = d.size
       /\ e.offset = d.offset /\ e.before = d.before + 1
  BY <1>12, <1>13
<1> QED
  BY <1>14 DEF d, moved

LEMMA PrependClosed ==
    ASSUME Typed, Closed, Prepend, ~Zip64(file)
    PROVE  Closed'
<1> DEFINE d == Directory(file)
           e == Directory(file')
           start == d.offset + d.before
           n == Len(contents)
<1>1. file' = <<Stub>> \o file /\ file # <<>> /\ UNCHANGED contents
  BY DEF Prepend
<1>2. AreCells(file) /\ Len(file) \in Nat /\ Len(file) # 0
  <2>1. AreCells(file) /\ Len(file) \in Nat
    BY DEF Typed, AreCells, IsSeq
  <2>2. ASSUME Len(file) = 0 PROVE FALSE
    <3>1. file = [i \in {} |-> file[i]]
      BY <2>1, <2>2, 1..0 = {} DEF AreCells, IsSeq
    <3> QED
      BY <1>1, <3>1
  <2> QED
    BY <2>1, <2>2
<1>3. /\ AreCells(file') /\ Len(file') = Len(file) + 1
      /\ \A i \in 1..Len(file) : file'[i + 1] = file[i]
  BY <1>1, <1>2, Shifted
<1>4. /\ IsSeq(contents) /\ d.found /\ d.entries = n /\ d.size = n
      /\ d.offset \in Nat /\ d.before \in Nat /\ file[Len(file)].kind = "end"
      /\ Len(file) <= start + n + 1
                       + (IF d.offset >= Max32 \/ n > Max32 THEN 2 ELSE 0)
      /\ start + n <= Len(file)
      /\ \A i \in 1..n : KeptAt(file[start + i], contents[i], file, d.before, start)
  BY <1>2 DEF Closed
<1>5. /\ e.found /\ e.entries = d.entries /\ e.size = d.size
      /\ e.offset = d.offset /\ e.before = d.before + 1
  BY <1>1, <1>2, <1>4, PrependDirectory
<1> HIDE DEF d, e
<1>6. e.entries = n /\ e.size = n /\ e.before \in Nat /\ e.offset \in Nat
  BY <1>4, <1>5
<1>7. n \in Nat /\ start \in Nat /\ e.offset + e.before = start + 1 /\ start <= Len(file)
  <2>1. n \in Nat
    BY <1>4 DEF IsSeq
  <2>2. d.offset \in Nat /\ d.before \in Nat /\ d.offset + d.before + n <= Len(file)
    BY <1>4
  <2> HIDE DEF n
  <2> QED
    BY <1>2, <1>5, <2>1, <2>2
<1> HIDE DEF n
<1>8. file'[Len(file')].kind = "end"
  BY <1>2, <1>3, <1>4
<1>9. ASSUME NEW i \in 1..n
      PROVE  KeptAt(file'[(start + 1) + i], contents[i], file', d.before + 1, start + 1)
  <2>1. start + i \in 1..Len(file) /\ (start + 1) + i = (start + i) + 1
    <3>1. start \in Nat /\ n \in Nat /\ Len(file) \in Nat /\ start + n <= Len(file)
      BY <1>2, <1>4, <1>7
    <3> HIDE DEF start
    <3> QED
      BY <3>1
  <2>2. file'[(start + 1) + i] = file[start + i]
    BY <1>3, <2>1
  <2>3. KeptAt(file[start + i], contents[i], file, d.before, start)
    BY <1>4
  <2> QED
    BY <1>2, <1>3, <1>4, <1>7, <2>2, <2>3, KeptMoves
<1>10. /\ Len(file') <= (start + 1) + n + 1
                       + (IF d.offset >= Max32 \/ n > Max32 THEN 2 ELSE 0)
       /\ (start + 1) + n <= Len(file')
  <2> DEFINE room == IF d.offset >= Max32 \/ n > Max32 THEN 2 ELSE 0
  <2>1. room \in Nat /\ Len(file) <= start + n + 1 + room
    BY <1>4
  <2> HIDE DEF room, start
  <2>2. /\ Len(file') <= (start + 1) + n + 1 + room
        /\ (start + 1) + n <= Len(file')
    BY <1>2, <1>3, <1>4, <1>7, <2>1
  <2> QED
    BY <2>2 DEF room
<1>11. \A i \in 1..n : KeptAt(file'[(start + 1) + i], contents[i], file', e.before, start + 1)
  BY <1>5, <1>9
<1> QED
  BY <1>1, <1>4, <1>5, <1>6, <1>7, <1>8, <1>10, <1>11 DEF Closed, e, n

-----------------------------------------------------------------------------
(* The invariant.                                                          *)

IInv ==
    /\ CallInv /\ NoError /\ BufferInv /\ Typed
    /\ pc = "null" /\ sound => Closed
    /\ pc # "null" /\ Good => Kernel

LEMMA IInvInit == Init => IInv
<1> SUFFICES ASSUME Init PROVE IInv
  OBVIOUS
<1>1. CallInv /\ NoError /\ BufferInv /\ Typed
  BY InitCall, NoErrorInit, InitBuffer, InitTyped
<1>2. pc = "null" /\ (sound => Closed)
  BY InitClosed DEF Init
<1> HIDE DEF Init
<1> QED
  BY <1>1, <1>2 DEF IInv

\* Within a handle nothing is lost.
LEMMA KernelNext ==
    ASSUME IInv, Typed', [Next]_vars, pc # "null", pc' # "null", Good'
    PROVE  Kernel'
<1>1. Good /\ Kernel
  BY GoodBefore DEF IInv
<1>2. CallInv /\ BufferInv /\ Typed /\ Typed'
  BY DEF IInv
<1>3. err = "ok" /\ err' = "ok" /\ ~reported'
  BY <1>1 DEF Good
<1>4. ASSUME ~Closing, ~Closing', UNCHANGED <<fileVars, dirVars, contents>>, EntryInv'
      PROVE  Kernel'
  BY <1>1, <1>2, <1>4, Quiet DEF Kernel
<1>5. ASSUME pc = "idle" PROVE in_opened_file_inzip => avail_in = 0
  BY <1>1, <1>5 DEF Kernel, EntryInv, EntryInMemory
<1>6. CASE \/ \E kind \in Kinds : CallOpenNewFile(kind)
           \/ \E given \in {0, Max32} : CallCloseFile(given)
           \/ CallClose
  <2>1. /\ pc = "idle" /\ UNCHANGED <<fileVars, dirVars, contents, entryVars, streamVars>>
        /\ pc' \in {"header", "finish", "central"}
        /\ in_opened_file_inzip => pc' = "finish"
    BY <1>6 DEF CallOpenNewFile, CallCloseFile, CallClose, ghostVars
  <2>2. EntryInv'
    <3>1. CASE in_opened_file_inzip
      BY <1>1, <1>2, <1>5, <2>1, <3>1, EntryStays DEF Kernel, dirVars, Ended
    <3>2. CASE ~in_opened_file_inzip
      BY <2>1, <3>2 DEF EntryInv, entryVars
    <3> QED
      BY <3>1, <3>2
  <2> QED
    BY <1>4, <2>1, <2>2 DEF Closing
<1>7. CASE WriteReturns
  <2>1. /\ pc = "write" /\ pc' = "idle" /\ avail_in = 0 /\ avail_in' = 0
        /\ UNCHANGED <<fileVars, dirVars, contents, entryVars, streamVars>>
    BY <1>2, <1>3, <1>7 DEF WriteReturns, Return, ghostVars, streamVars, BufferInv
  <2>2. EntryInv'
    BY <1>1, <1>2, <2>1, EntryStays DEF Kernel, dirVars, Ended
  <2> QED
    BY <1>4, <2>1, <2>2 DEF Closing
<1>8. CASE CallRefused
  <2>1. /\ pc = "idle" /\ pc' = "idle" /\ ~in_opened_file_inzip'
        /\ UNCHANGED <<fileVars, dirVars, contents>>
    BY <1>8 DEF CallRefused, Return, ghostVars, entryVars
  <2> QED
    BY <1>4, <2>1 DEF Closing, EntryInv
<1>9. CASE \E n \in WriteSizes : CallWrite(n)
  <2>1. /\ pc = "idle" /\ pc' = "write" /\ UNCHANGED <<fileVars, dirVars, contents>>
    BY <1>9 DEF CallWrite, ghostVars
  <2>2. EntryInv'
    BY <1>1, <1>2, <1>9, CallWriteEntry DEF Kernel
  <2> QED
    BY <1>4, <2>1, <2>2 DEF Closing
<1>10. CASE Compress
  <2>1. /\ pc = "write" /\ pc' = "write" /\ UNCHANGED <<fileVars, dirVars, contents>>
    BY <1>10 DEF Compress, callVars, ghostVars
  <2>2. in_opened_file_inzip
    BY <1>2, <2>1 DEF CallInv, AtEntry
  <2>3. EntryInv'
    BY <1>1, <1>2, <1>10, <2>2, CompressEntry DEF Kernel
  <2> QED
    BY <1>4, <2>1, <2>3 DEF Closing
<1>11. CASE Finish
  <2>1. /\ pc = "finish" /\ pc' \in {"finish", "tail"}
        /\ UNCHANGED <<fileVars, dirVars, contents>>
    BY <1>11 DEF Finish, ghostVars
  <2>2. in_opened_file_inzip
    BY <1>2, <2>1 DEF CallInv, AtEntry
  <2>3. EntryInv'
    BY <1>1, <1>2, <1>11, <2>2, FinishEntry DEF Kernel
  <2> QED
    BY <1>4, <2>1, <2>3 DEF Closing
<1>12. CASE WriteLocalHeader
  BY <1>1, <1>2, <1>12, HeaderKernel
<1>13. CASE OpenNewFileFails
  <2>1. reported' = (reported \/ "error" # "ok")
    BY <1>13 DEF OpenNewFileFails, Return
  <2> QED
    BY <1>3, <2>1, Zenon
<1>14. CASE FlushInWrite \/ FlushInFinish \/ FlushTail
  BY <1>1, <1>2, <1>3, <1>14, FlushKernel
<1>15. CASE WriteDescriptor
  BY <1>1, <1>2, <1>3, <1>15, DescriptorKernel
<1>16. CASE AddRecord
  BY <1>1, <1>2, <1>3, <1>16, AddRecordKernel
<1>17. CASE WriteCentralDir
  BY <1>1, <1>2, <1>3, <1>17, CentralKernel
<1>18. CASE WriteEnd64
  BY <1>1, <1>2, <1>3, <1>18, End64Kernel
<1>19. CASE WriteEnd
  BY <1>1, <1>2, <1>3, <1>19, EndKernel
<1>20. CASE UNCHANGED vars
  BY <1>1, <1>20 DEF vars, fileVars, dirVars, callVars, entryVars, streamVars, closeVars,
     ghostVars, Kernel, DirInv, EntryInv, TailInv, CloseInv, Closing, Limit, EntryType,
     EntryInFile, EntryInMemory, Ended, Room64, NeedsEnd64, Crc
<1>21. ~(OpenCreate \/ OpenCreateAfter \/ OpenAddInZip \/ OpenFails \/ Prepend \/ Finished
         \/ CloseStream)
  BY DEF OpenCreate, OpenCreateAfter, OpenAddInZip, OpenFails, Opened, Prepend, Finished,
         CloseStream
<1> QED
  BY <1>6, <1>7, <1>8, <1>9, <1>10, <1>11, <1>12, <1>13, <1>14, <1>15, <1>16, <1>17,
     <1>18, <1>19, <1>20, <1>21 DEF Next

LEMMA IInvNext == IInv /\ [Next]_vars => IInv'
<1> SUFFICES ASSUME IInv, [Next]_vars PROVE IInv'
  OBVIOUS
<1>1. CallInv' /\ NoError' /\ BufferInv' /\ Typed'
  BY NextCall, NoErrorNext, NextFits, NextTyped DEF IInv
<1>2. ASSUME pc' = "null", sound' PROVE Closed'
  <2>1. CASE pc = "null"
    <3>1. CASE Prepend
      <4>1. sound' = (sound /\ ~Zip64(file))
        BY <3>1 DEF Prepend
      <4>2. sound /\ ~Zip64(file)
        BY <1>2, <4>1, Zenon
      <4> QED
        BY <2>1, <3>1, <4>2, PrependClosed DEF IInv
    <3>2. CASE ~Prepend
      <4>1. UNCHANGED <<file, contents, sound>>
        BY <1>2, <2>1, <3>2
        DEF Next, OpenCreate, OpenCreateAfter, OpenAddInZip, OpenFails, Opened, Finished, vars,
            CallOpenNewFile, WriteLocalHeader, OpenNewFileFails, CallWrite, Compress,
            FlushInWrite, WriteReturns, CallCloseFile, Finish, FlushInFinish, FlushTail,
            WriteDescriptor, AddRecord, CallRefused, CallClose, WriteCentralDir, WriteEnd64,
            WriteEnd, CloseStream, fileVars, ghostVars
      <4>2. Closed
        BY <1>2, <2>1, <4>1 DEF IInv
      <4> QED
        BY <4>1, <4>2 DEF Closed
    <3> QED
      BY <3>1, <3>2
  <2>2. CASE pc # "null"
    <3>1. CloseStream
      BY <1>2, <2>2
      DEF Next, OpenCreate, OpenCreateAfter, OpenAddInZip, OpenFails, Opened, Finished, vars,
          CallOpenNewFile, WriteLocalHeader, OpenNewFileFails, CallWrite, Compress, FlushInWrite,
          WriteReturns, CallCloseFile, Finish, FlushInFinish, FlushTail, WriteDescriptor,
          AddRecord, CallRefused, CallClose, WriteCentralDir, WriteEnd64, WriteEnd, Prepend,
          Return, callVars
    <3>2. Kernel
      BY <1>2, <2>2, <3>1, CloseStreamGood DEF IInv
    <3> QED
      BY <1>2, <3>1, <3>2, CloseStreamClosed DEF IInv
  <2> QED
    BY <2>1, <2>2
<1>3. ASSUME pc' # "null", Good' PROVE Kernel'
  <2>1. CASE pc = "null"
    <3>1. OpenCreate \/ OpenCreateAfter \/ OpenAddInZip
      BY <1>3, <2>1
      DEF Next, OpenFails, Finished, vars, CallOpenNewFile, WriteLocalHeader, OpenNewFileFails,
          CallWrite, Compress, FlushInWrite, WriteReturns, CallCloseFile, Finish, FlushInFinish,
          FlushTail, WriteDescriptor, AddRecord, CallRefused, CallClose, WriteCentralDir,
          WriteEnd64, WriteEnd, CloseStream, Prepend, callVars
    <3> QED
      BY <1>3, <2>1, <3>1, OpenKernel DEF IInv, Good
  <2>2. CASE pc # "null"
    BY <1>1, <1>3, <2>2, KernelNext
  <2> QED
    BY <2>1, <2>2
<1> QED
  BY <1>1, <1>2, <1>3 DEF IInv

\* Whatever is called, written and failed in whatever order, an open handle
\* has the directory, the entry and the tail of its archive right as long as no
\* call has failed, and a closed archive is found again (HSDzip.c:602-1887).
THEOREM WriterInvariant == Spec => []IInv
BY IInvInit, IInvNext, PTL DEF Spec

\* While a handle is open and none of its calls has failed, its central
\* directory describes every entry that was closed, in order, at the place in
\* the file where it is, the entries of the archive it adds to included
\* (HSDzip.c:1436-1692, 602-848).
THEOREM DirectoryKept == Spec => []DirectoryComplete
<1>1. IInv => DirectoryComplete
  BY DEF IInv, Good, Kernel, DirInv, KeptAt, DirectoryComplete
<1> QED
  BY WriterInvariant, <1>1, PTL

\* A closed archive is what Readable says.
LEMMA ClosedReadable ==
    ASSUME Typed, Closed
    PROVE  LET d == Directory(file)
           IN  /\ d.found /\ d.entries = Len(contents)
               /\ Len(Records(file, d)) = Len(contents)
               /\ \A i \in 1..Len(contents) :
                    Describes(Records(file, d)[i], contents[i], file, d.before)
<1> DEFINE d == Directory(file)
           n == Len(contents)
           start == d.offset + d.before
           records == Records(file, d)
<1>1. /\ n \in Nat /\ d.found /\ d.entries = n /\ d.size = n /\ d.offset \in Nat
      /\ d.before \in Nat /\ start + n <= Len(file)
      /\ \A i \in 1..n : KeptAt(file[start + i], contents[i], file, d.before, start)
  BY DEF Closed, IsSeq
<1>2. AreCells(file) /\ Len(file) \in Nat
  BY DEF Typed, AreCells, IsSeq
<1>3. records = SubSeq(file, start + 1, start + n)
  BY <1>1 DEF Records
<1>4. start \in Nat
  BY <1>1
<1> HIDE DEF start, n, records
<1>5. start + 1 \in Nat \ {0} /\ start + n \in Nat /\ start + 1 <= (start + n) + 1
      /\ (start + n) - (start + 1) + 1 = n
      /\ \A i \in 1..n : (start + 1) + i - 1 = start + i
  BY <1>1, <1>4
<1>6. /\ Len(records) = (start + n) - (start + 1) + 1
      /\ \A i \in 1..((start + n) - (start + 1) + 1) : records[i] = file[(start + 1) + i - 1]
  BY <1>1, <1>2, <1>3, <1>5, SubCells
<1>7. Len(records) = n /\ \A i \in 1..n : records[i] = file[start + i]
  BY <1>5, <1>6
<1>8. \A i \in 1..n : Describes(records[i], contents[i], file, d.before)
  BY <1>1, <1>7 DEF KeptAt
<1> QED
  BY <1>1, <1>7, <1>8 DEF records, n

\* An archive whose calls all returned ZIP_OK is found by the next zipOpen4 and
\* its directory describes its entries: old records behind a shorter archive
\* never take precedence, nor does what was put in front of it matter
\* (HSDzip.c:602-848, 1714-1887).
THEOREM ArchiveReadable == Spec => []Readable
<1>1. IInv => Readable
  <2> SUFFICES ASSUME IInv, pc = "null", opens > 0, sound PROVE Readable
    BY DEF Readable
  <2> QED
    BY ClosedReadable DEF IInv, Readable
<1> QED
  BY WriterInvariant, <1>1, PTL

-----------------------------------------------------------------------------
(* The writer implements Archive.                                          *)

\* What Archive!entry stands for.
Entry == IF in_opened_file_inzip THEN ci.crc ELSE -1

LEMMA ArchiveInit == Init => Archive!Init
<1> SUFFICES ASSUME Init PROVE Archive!Init
  OBVIOUS
<1>1. pc = "null" /\ call.name = "none" /\ in_opened_file_inzip = FALSE /\ reported = FALSE
  BY Zenon DEF Init, NoCall
<1>2. sound \in BOOLEAN
  BY Zenon DEF Init
<1>3. EntriesFound = 0
  <2>1. CASE file = <<>>
    BY <1>1, <2>1, NothingFound DEF EntriesFound
  <2>2. CASE file = <<Stub>>
    <3>1. Len(file) = 1 /\ file[1].kind = "stub" /\ file # <<>>
      BY <2>2 DEF Stub
    <3>2. SearchCentralDir(file) = 0
      BY <3>1 DEF SearchCentralDir
    <3>3. EndRecord(file).kind = "stub"
      BY <3>1, <3>2 DEF EndRecord
    <3>4. Directory(file) = NoDirectory
      BY <3>3 DEF Directory
    <3> QED
      BY <1>1, <3>4 DEF EntriesFound, NoDirectory
  <2> QED
    BY <2>1, <2>2 DEF Init
<1> HIDE DEF Init
<1>4. (pc # "null") = FALSE
  BY <1>1
<1>5. ~in_opened_file_inzip
  BY <1>1
<1> QED
  BY <1>1, <1>2, <1>3, <1>4, <1>5 DEF Archive!Init, Archive!NoFile

\* A step that Archive does not see.
LEMMA Stutter ==
    ASSUME (pc' # "null") = (pc # "null"), call'.name = call.name, Entry' = Entry,
           EntriesFound' = EntriesFound, UNCHANGED <<reported, sound>>
    PROVE  UNCHANGED Archive!vars
BY DEF Archive!vars, Entry

\* What a handle has counted.
LEMMA Counted ==
    ASSUME pc # "null", pc' # "null"
    PROVE  EntriesFound = number_entry /\ EntriesFound' = number_entry'
BY DEF EntriesFound

\* An error that is returned is not forgotten.
LEMMA ReturnFails ==
    ASSUME CallInv, NEW result, Return(result)
    PROVE  /\ call'.name = "none" /\ reported' \in {reported, TRUE}
           /\ result # "ok" => reported' = TRUE
           /\ result = "ok" => reported' = reported
<1>1. reported \in BOOLEAN /\ reported' = (reported \/ result # "ok") /\ call' = NoCall
  BY DEF CallInv, Return
<1>2. /\ reported' \in {reported, TRUE} /\ (result # "ok" => reported' = TRUE)
      /\ (result = "ok" => reported' = reported)
  BY <1>1, Zenon
<1> QED
  BY <1>1, <1>2 DEF NoCall

LEMMA OpenRefines ==
    ASSUME IInv, OpenCreate \/ OpenCreateAfter \/ OpenAddInZip
    PROVE  Archive!Open
<1>1. /\ pc = "null" /\ pc' = "idle" /\ reported' = FALSE
      /\ UNCHANGED <<call, in_opened_file_inzip, ci>>
  BY DEF OpenCreate, OpenCreateAfter, OpenAddInZip, Opened, entryVars
<1>2. (pc' # "null") = TRUE /\ ~(pc # "null")
  BY <1>1
<1>3. EntriesFound' = number_entry'
  BY <1>1 DEF EntriesFound
<1>4. \/ EntriesFound' = 0 /\ sound' = TRUE
      \/ UNCHANGED <<EntriesFound, sound>>
  <2>1. CASE OpenCreate \/ OpenCreateAfter
    BY <1>3, <2>1 DEF OpenCreate, OpenCreateAfter
  <2>2. CASE OpenAddInZip
    <3>1. number_entry' = Directory(file).entries /\ Directory(file).found
          /\ sound' = sound
      BY <2>2 DEF OpenAddInZip
    <3>2. EntriesFound = Directory(file).entries
      BY <1>1, <3>1 DEF EntriesFound
    <3> QED
      BY <1>3, <3>1, <3>2
  <2> QED
    BY <2>1, <2>2
<1> QED
  BY <1>1, <1>2, <1>4 DEF Archive!Open

\* The calls that begin.
LEMMA CallRefines ==
    ASSUME IInv,
           \/ \E kind \in Kinds : CallOpenNewFile(kind)
           \/ \E n \in WriteSizes : CallWrite(n)
           \/ \E given \in {0, Max32} : CallCloseFile(given)
           \/ CallClose
    PROVE  Archive!Call
<1>1. /\ pc = "idle" /\ pc' # "null" /\ UNCHANGED <<number_entry, reported, sound>>
      /\ UNCHANGED in_opened_file_inzip
  BY DEF CallOpenNewFile, CallWrite, CallCloseFile, CallClose, dirVars, ghostVars, entryVars
<1>2. call.name = "none" /\ (pc # "null") = TRUE /\ (pc' # "null") = TRUE
  BY <1>1 DEF IInv, CallInv
<1>3. EntriesFound' = EntriesFound
  BY <1>1, Counted
<1>4. ci.crc \in Nat /\ "crc" \in DOMAIN ci
  BY DEF IInv, BufferInv
<1>5. CASE \E n \in WriteSizes : CallWrite(n)
  <2>1. PICK n \in WriteSizes : CallWrite(n)
    BY <1>5
  <2>2. n \in Nat /\ ci'.crc = ci.crc + n /\ call'.name = "write" /\ in_opened_file_inzip
    BY <1>4, <2>1, BoundsAssumption DEF CallWrite
  <2>3. ci'.crc >= ci.crc /\ ci.crc # -1
    BY <1>4, <2>2
  <2> QED
    BY <1>1, <1>2, <1>3, <2>2, <2>3 DEF Archive!Call, Archive!Calls, Archive!NoFile
<1>6. CASE \/ \E kind \in Kinds : CallOpenNewFile(kind)
           \/ \E given \in {0, Max32} : CallCloseFile(given)
           \/ CallClose
  <2>1. /\ ci' = ci /\ call'.name \in {"open", "closeFile", "close"}
        /\ call'.name = "closeFile" => in_opened_file_inzip
    BY <1>6 DEF CallOpenNewFile, CallCloseFile, CallClose, entryVars
  <2>2. ci.crc # -1
    BY <1>4
  <2> QED
    BY <1>1, <1>2, <1>3, <2>1, <2>2 DEF Archive!Call, Archive!Calls, Archive!NoFile
<1> QED
  BY <1>5, <1>6

LEMMA OpenNewFileRefines ==
    ASSUME IInv, WriteLocalHeader \/ OpenNewFileFails
    PROVE  Archive!OpenNewFile
<1>1. /\ pc = "header" /\ pc' = "idle" /\ UNCHANGED <<number_entry, sound>>
      /\ ci'.crc = 0
  BY DEF WriteLocalHeader, OpenNewFileFails, NewEntry, Return, dirVars
<1>2. call.name = "open" /\ ~in_opened_file_inzip /\ CallInv
  BY <1>1 DEF IInv, CallInv, AtEntry
<1>3. (pc' # "null") = (pc # "null") /\ EntriesFound' = EntriesFound
  BY <1>1, Counted
<1>4. call'.name = "none" /\ reported' \in {reported, TRUE}
  BY <1>2, ReturnFails DEF WriteLocalHeader, OpenNewFileFails
<1>5. CASE WriteLocalHeader
  BY <1>1, <1>2, <1>3, <1>4, <1>5 DEF WriteLocalHeader, Archive!OpenNewFile, Archive!Return,
     Archive!NoFile
<1>6. CASE OpenNewFileFails
  <2>1. reported' = TRUE
    <3>1. Return("error") /\ "error" # "ok"
      BY <1>6 DEF OpenNewFileFails
    <3> QED
      BY <1>2, <3>1, ReturnFails, Zenon
  <2> QED
    BY <1>1, <1>2, <1>3, <1>4, <1>6, <2>1 DEF OpenNewFileFails, Archive!OpenNewFile,
       Archive!Return, Archive!NoFile
<1> QED
  BY <1>5, <1>6

LEMMA WriteRefines ==
    ASSUME IInv, WriteReturns
    PROVE  Archive!WriteInFile
<1>1. /\ pc = "write" /\ pc' = "idle"
      /\ UNCHANGED <<number_entry, sound, in_opened_file_inzip, ci>>
  BY DEF WriteReturns, Return, dirVars, entryVars, ghostVars
<1>2. call.name = "write" /\ CallInv
  BY <1>1 DEF IInv, CallInv
<1>3. (pc' # "null") = (pc # "null") /\ EntriesFound' = EntriesFound
  BY <1>1, Counted
<1>4. call'.name = "none" /\ reported' \in {reported, TRUE}
  BY <1>2, ReturnFails DEF WriteReturns
<1> QED
  BY <1>1, <1>2, <1>3, <1>4 DEF Archive!WriteInFile, Archive!Return

LEMMA RefusedRefines ==
    ASSUME IInv, CallRefused
    PROVE  Archive!Refused
<1>1. /\ pc = "idle" /\ pc' = "idle" /\ ~in_opened_file_inzip
      /\ UNCHANGED <<number_entry, sound, in_opened_file_inzip, ci>>
  BY DEF CallRefused, Return, dirVars, entryVars, ghostVars
<1>2. call.name = "none" /\ CallInv
  BY <1>1 DEF IInv, CallInv
<1>3. (pc # "null") = TRUE /\ (pc' # "null") = TRUE /\ EntriesFound' = EntriesFound
  BY <1>1, Counted
<1>4. call'.name = "none" /\ reported' = TRUE
  <2>1. Return("error") /\ "error" # "ok"
    BY DEF CallRefused
  <2> QED
    BY <1>2, <2>1, ReturnFails, Zenon
<1> QED
  BY <1>1, <1>2, <1>3, <1>4 DEF Archive!Refused, Archive!Return, Archive!NoFile

LEMMA CloseFileRefines ==
    ASSUME IInv, AddRecord
    PROVE  Archive!CloseFile
<1>1. /\ pc = "record" /\ pc' \in {"idle", "header", "central"}
      /\ number_entry' = number_entry + 1 /\ UNCHANGED sound
      /\ in_opened_file_inzip' = FALSE
  BY DEF AddRecord, Return
<1>2. /\ call.name \in {"open", "closeFile", "close"} /\ in_opened_file_inzip /\ CallInv
      /\ err \in {"ok", "error"}
  BY <1>1 DEF IInv, CallInv, AtEntry
<1>3. ci.crc # -1
  BY DEF IInv, BufferInv
<1>4. (pc' # "null") = (pc # "null") /\ EntriesFound' = EntriesFound + 1
  BY <1>1, Counted
<1>5. \/ call.name = "close" /\ UNCHANGED <<call, reported>>
      \/ call.name = "open" /\ err = "ok" /\ UNCHANGED <<call, reported>>
      \/ call.name = "open" /\ err = "error" /\ Return(err)
      \/ call.name = "closeFile" /\ Return(err)
  BY <1>2 DEF AddRecord
<1>6. \/ call.name = "close" /\ UNCHANGED <<call, reported>>
      \/ call.name = "open" /\ UNCHANGED <<call, reported>>
      \/ call.name = "open" /\ call'.name = "none" /\ reported' = TRUE
      \/ call.name = "closeFile" /\ call'.name = "none" /\ reported' \in {reported, TRUE}
  BY <1>2, <1>5, ReturnFails
<1> QED
  BY <1>1, <1>2, <1>3, <1>4, <1>6 DEF Archive!CloseFile, Archive!Return, Archive!NoFile

LEMMA CloseRefines ==
    ASSUME IInv, IInv', CloseStream
    PROVE  Archive!Close
<1>1. /\ pc = "fclose" /\ pc' = "null" /\ call'.name = "none" /\ in_opened_file_inzip' = FALSE
      /\ UNCHANGED contents
  BY DEF CloseStream, NoCall
<1>2. call.name = "close" /\ ~in_opened_file_inzip /\ CallInv
  BY <1>1 DEF IInv, CallInv, AtEntry
<1>3. (pc' # "null") = FALSE
  BY <1>1
<1>4. reported' \in {reported, TRUE}
  <2>1. \/ reported' = (reported \/ err # "ok")
        \/ reported' = TRUE
    BY DEF CloseStream, Fclose
  <2>2. reported \in BOOLEAN
    BY <1>2 DEF CallInv
  <2> QED
    BY <2>1, <2>2, Zenon
<1>5. sound' \in {FALSE, sound /\ ~reported'}
  <2>1. sound' = (sound /\ ~reported' /\ Len(central_dir) <= Max32
                   /\ IF NeedsEnd64 THEN before = 0 ELSE number_entry < Max16)
    BY DEF CloseStream
  <2> QED
    BY <2>1, Zenon
<1>6. EntriesFound' = EntriesFound \/ ~sound'
  <2> SUFFICES ASSUME sound' PROVE EntriesFound' = EntriesFound
    OBVIOUS
  <2>1. Closed'
    BY <1>1 DEF IInv
  <2>2. EntriesFound' = Len(contents)'
    BY <1>1, <2>1 DEF Closed, EntriesFound
  <2>3. Kernel
    BY <1>1, <1>2, CloseStreamGood DEF IInv
  <2>4. EntriesFound = Len(contents)
    BY <1>1, <2>3 DEF Kernel, DirInv, EntriesFound
  <2> QED
    BY <1>1, <2>2, <2>4
<1> QED
  BY <1>1, <1>2, <1>3, <1>4, <1>5, <1>6 DEF Archive!Close, Archive!Return, Archive!NoFile

LEMMA MoveRefines ==
    ASSUME IInv, IInv', Prepend
    PROVE  Archive!Move
<1>1. /\ pc = "null" /\ pc' = "null"
      /\ UNCHANGED <<call, in_opened_file_inzip, ci, reported, contents>>
  BY DEF Prepend, callVars, entryVars
<1>2. (pc' # "null") = (pc # "null") /\ ~(pc # "null")
  BY <1>1
<1>3. sound' \in {FALSE, sound} /\ (sound' => sound)
  <2>1. sound \in BOOLEAN /\ sound' = (sound /\ ~Zip64(file))
    BY DEF Prepend, IInv, CallInv
  <2> QED
    BY <2>1, Zenon
<1>4. EntriesFound' = EntriesFound \/ ~sound'
  <2> SUFFICES ASSUME sound' PROVE EntriesFound' = EntriesFound
    OBVIOUS
  <2>1. Closed /\ Closed'
    BY <1>1, <1>3 DEF IInv
  <2>2. EntriesFound = Len(contents) /\ EntriesFound' = Len(contents)'
    BY <1>1, <2>1 DEF Closed, EntriesFound
  <2> QED
    BY <1>1, <2>2
<1> QED
  BY <1>1, <1>2, <1>3, <1>4 DEF Archive!Move

\* The close that writes the zip64 record may forget an error.
LEMMA End64Refines ==
    ASSUME IInv, WriteEnd64
    PROVE  Archive!ForgetError \/ UNCHANGED Archive!vars
<1>1. /\ pc = "end64" /\ pc' = "end"
      /\ UNCHANGED <<call, number_entry, in_opened_file_inzip, ci, reported>>
  BY DEF WriteEnd64, dirVars, entryVars
<1>2. call.name = "close" /\ ~in_opened_file_inzip
  BY <1>1 DEF IInv, CallInv, AtEntry
<1>3. (pc' # "null") = (pc # "null") /\ EntriesFound' = EntriesFound /\ Entry' = Entry
  BY <1>1, Counted DEF Entry
<1>4. sound' = FALSE \/ sound' = sound
  <2>1. sound \in BOOLEAN /\ sound' = (sound /\ ~(NeedsEnd64 /\ err = "error"))
    BY DEF WriteEnd64, IInv, CallInv
  <2> QED
    BY <2>1, Zenon
<1>5. CASE sound' = FALSE
  BY <1>1, <1>2, <1>3, <1>5 DEF Archive!ForgetError, Archive!NoFile, Entry
<1>6. CASE sound' = sound
  BY <1>1, <1>3, <1>6, Stutter
<1> QED
  BY <1>4, <1>5, <1>6

LEMMA QuietRefines ==
    ASSUME IInv,
           \/ OpenFails \/ Compress \/ FlushInWrite \/ Finish \/ FlushInFinish \/ FlushTail
           \/ WriteDescriptor \/ WriteCentralDir \/ WriteEnd \/ Finished \/ UNCHANGED vars
    PROVE  UNCHANGED Archive!vars
<1>1. "crc" \in DOMAIN ci
  BY DEF IInv, BufferInv
<1>2. CASE OpenFails \/ Finished \/ UNCHANGED vars
  <2>1. UNCHANGED <<file, pc, call, number_entry, in_opened_file_inzip, ci, reported, sound>>
    BY <1>2 DEF OpenFails, Finished, vars, fileVars, callVars, dirVars, entryVars, ghostVars
  <2>2. EntriesFound' = EntriesFound /\ Entry' = Entry
    BY <2>1 DEF EntriesFound, Entry
  <2> QED
    BY <2>1, <2>2, Stutter
<1>3. CASE ~(OpenFails \/ Finished \/ UNCHANGED vars)
  <2>1. /\ pc # "null" /\ pc' # "null"
        /\ UNCHANGED <<call, number_entry, in_opened_file_inzip, reported, sound>>
    BY <1>3 DEF Compress, FlushInWrite, Finish, FlushInFinish, FlushTail, WriteDescriptor,
       WriteCentralDir, WriteEnd, callVars, dirVars, entryVars, ghostVars
  <2>2. ci'.crc = ci.crc
    <3>1. CASE Compress
      BY <1>1, <3>1 DEF Compress
    <3>2. CASE FlushInWrite \/ FlushInFinish \/ FlushTail
      BY <1>1, <3>2 DEF FlushInWrite, FlushInFinish, FlushTail, Flush, FlushFails, Flushed
    <3>3. CASE Finish \/ WriteDescriptor \/ WriteCentralDir \/ WriteEnd
      BY <3>3 DEF Finish, WriteDescriptor, WriteCentralDir, WriteEnd, entryVars
    <3> QED
      BY <1>3, <3>1, <3>2, <3>3
  <2>3. EntriesFound' = EntriesFound /\ Entry' = Entry
    BY <2>1, <2>2, Counted DEF Entry
  <2>4. (pc' # "null") = (pc # "null")
    BY <2>1
  <2> QED
    BY <2>1, <2>3, <2>4, Stutter
<1> QED
  BY <1>2, <1>3

\* Every step is one of Archive, or none.
LEMMA NextRefines == IInv /\ IInv' /\ [Next]_vars => [Archive!Next]_(Archive!vars)
<1> SUFFICES ASSUME IInv, IInv', [Next]_vars PROVE Archive!Next \/ UNCHANGED Archive!vars
  OBVIOUS
<1> QED
  BY OpenRefines, CallRefines, OpenNewFileRefines, WriteRefines, RefusedRefines,
     CloseFileRefines, CloseRefines, MoveRefines, End64Refines, QuietRefines
  DEF Next, Archive!Next

\* The writer implements Archive: every step of it is one of the calls its
\* header promises or none that a caller can see, for every order of calls and
\* of failures (HSDzip.h).
THEOREM Refinement == Spec => ImplementsArchive
BY ArchiveInit, NextRefines, WriterInvariant, PTL DEF Spec, ImplementsArchive, Archive!Spec
=============================================================================
