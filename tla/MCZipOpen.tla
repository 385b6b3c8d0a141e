------------------------------ MODULE MCZipOpen ------------------------------
(***************************************************************************)
(* Instances of ZipOpen for TLC: archives with and without something in    *)
(* front of them, behind them and nested in their data, cut in the middle  *)
(* of their end record, and zip64 ones.                                    *)
(***************************************************************************)
EXTENDS ZipOpen

AllFields == Short + Short + Long + Long + Short

Record(n, size, offset, note, have) ==
    [entriesOnDisk |-> n, entries |-> n, size |-> size, offset |-> offset,
     comment |-> note, have |-> IF have < AllFields THEN have ELSE AllFields]

NoRecord == Record(0, 0, 0, 0, 0)

\* stub bytes, data bytes, a directory of dirSize bytes, an end record (which
\* has a zip64 one in front if wide) with a comment of note bytes, trailing bytes.  An end
\* record may be nested in the data; cut bytes are missing at the end.
Archive(stub, data, dirSize, wide, note, trail, nested, cut) ==
    LET dirEnd == stub + data + dirSize
        pos    == dirEnd + (IF wide THEN End64Size + 2 ELSE 0)
        size   == pos + EndSize + note + trail - cut
        inner  == IF nested THEN {stub} ELSE {}
        outer  == Record(IF wide THEN Max16 ELSE dirSize, dirSize,
                         IF wide THEN Max32 ELSE data, note, size - pos - 4)
    IN  [size |-> size, ends |-> inner \cup {pos},
         record |-> [p \in inner \cup {pos, 0} |->
                        IF p = pos THEN outer
                        ELSE IF nested THEN Record(1, 1, 0, 0, AllFields)
                        ELSE [Record(1, 1, 0, 0, AllFields) EXCEPT !.entries = 2]],
         locator |-> [p \in inner \cup {pos, 0} |->
                        IF p = pos /\ wide THEN data + dirSize ELSE -1],
         ends64 |-> IF wide THEN {[at |-> dirEnd, entries |-> dirSize,
                                   entriesOnDisk |-> dirSize,
                                   size |-> dirSize, offset |-> data]}
                    ELSE {}]

\* A zip64 record that is damaged: the entries of its disk are others, or the
\* sum of offset and size exceeds what can be expressed.
Damaged(entriesOnDisk, size, offset) ==
    LET f == Archive(0, 5, 2, TRUE, 1, 0, FALSE, 0)
    IN  [f EXCEPT !.ends64 = {[e EXCEPT !.entriesOnDisk = entriesOnDisk, !.size = size,
                                        !.offset = offset] : e \in f.ends64}]

Garbage(n) ==
    [size |-> 6, ends |-> {}, record |-> [p \in {0} |-> Record(n, 0, 0, n, AllFields)],
     locator |-> [p \in {0} |-> -1], ends64 |-> {}]

MCFiles ==
    {NoFile, Garbage(0), Garbage(1)}
    \cup {Archive(stub, data, dirSize, FALSE, note, trail, FALSE, 0) :
            stub \in {0, 2}, data \in {0, 3, 14}, dirSize \in {0, 2, 3},
            note \in {0, 2}, trail \in {0, 1, 9}}
    \cup {Archive(stub, 5, 2, wide, 1, trail, nested, 0) :
            stub \in {0, 1}, wide \in BOOLEAN, trail \in {0, 2}, nested \in BOOLEAN}
    \cup {Archive(0, 2, dirSize, FALSE, 0, 0, FALSE, cut) :
            dirSize \in {0, 1}, cut \in {1, 3, 7, 11}}
    \cup {Damaged(1, 2, 5), Damaged(2, 3, Max64), Damaged(2, Max64, 5)}
=============================================================================
