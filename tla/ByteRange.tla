------------------------------- MODULE ByteRange -------------------------------
(***************************************************************************)
(* The byte ranges of HSDGWebServerRequest and HSDGWebServerFileResponse:  *)
(* how a Range header is read, and which bytes of a file it selects.       *)
(*                                                                         *)
(* A header is a record: the numbers it has, with NoNumber for one that is *)
(* missing.  A range is a location and a length, as NSRange; Max stands    *)
(* for NSUIntegerMax and is beyond the size of any file.                   *)
(***************************************************************************)
EXTENDS Integers

CONSTANT Max

ASSUME MaxAssumption == Max \in Nat \ {0}

NoNumber == -1

\* "bytes=start-end"; a request without the header has neither number.
Headers(numbers) ==
    [start : numbers \cup {NoNumber}, end : numbers \cup {NoNumber}]

NoRange == [location |-> Max, length |-> 0]

\* Mutant: the last byte is left out.
Parse_ShortByOne(h) ==
    IF h.start # NoNumber /\ h.end # NoNumber /\ h.end >= h.start
    THEN [location |-> h.start, length |-> h.end - h.start]
    ELSE IF h.start # NoNumber THEN [location |-> h.start, length |-> Max]
    ELSE IF h.end > 0 THEN [location |-> Max, length |-> h.end]
    ELSE NoRange

\* byteRange of a request.  A reversed range is one without an end.
Parse(h) ==
    IF h.start # NoNumber /\ h.end # NoNumber /\ h.end >= h.start
    THEN [location |-> h.start, length |-> h.end - h.start + 1]
    ELSE IF h.start # NoNumber THEN [location |-> h.start, length |-> Max]
    ELSE IF h.end > 0 THEN [location |-> Max, length |-> h.end]
    ELSE NoRange

\* GCDWebServerIsValidByteRange.
IsValid(range) == range.location # Max \/ range.length > 0

Lesser(a, b) == IF a < b THEN a ELSE b

\* The range as initWithFile:byteRange: applies it to a file of that size.
Clamp(range, size) ==
    LET location == Lesser(range.location, size)
        length   == Lesser(range.length, size)
    IN  IF ~IsValid(range) THEN [location |-> 0, length |-> size]
        ELSE IF range.location # Max
        THEN [location |-> location, length |-> Lesser(range.length, size - location)]
        ELSE [location |-> size - length, length |-> length]

-----------------------------------------------------------------------------
\* What HTTP says a header selects, and its absence: the places of the bytes.
Selected(h, size) ==
    {k \in 0..(size - 1) :
        \/ h.start = NoNumber /\ h.end = NoNumber
        \/ h.start # NoNumber /\ h.start <= k /\ (h.end # NoNumber => k <= h.end)
        \/ h.start = NoNumber /\ h.end # NoNumber /\ k >= size - h.end}
=============================================================================
