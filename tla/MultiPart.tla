------------------------------- MODULE MultiPart -------------------------------
(***************************************************************************)
(* HSDGWebServerMultiPartFormRequest: a form that arrives in pieces cut    *)
(* anywhere is parsed as it comes; the contents of files go to temporary   *)
(* files, those of arguments and of nested forms stay in memory.           *)
(*                                                                         *)
(* A byte is a string.  The lines of a part's headers are one byte, which  *)
(* says what the part is.  Failed assertions (GWS_DNOT_REACHED) do         *)
(* nothing, as in a release build.                                         *)
(***************************************************************************)
EXTENDS Integers, Sequences, FiniteSetsExt

CONSTANTS
    Forms,    \* bound: the forms a client sends
    Letters,  \* bound: what they contain apart from what the parser looks for
    MaxFaults \* bound: how many writes or opens of a temporary file fail

\* What the headers say: a form field with or without a file name, a file of a
\* nested form, a nested form, and nothing that names the part.
Kinds == {"field", "file", "nestedFile", "nested", "unnamed"}

CRLF == <<"cr", "lf">>
Dashes == <<"-", "-">>

Boundary(name) == Dashes \o <<name>>

Bytes == Letters \cup Kinds \cup {"cr", "lf", "-", "b", "c"}

ASSUME FormsAssumption == \A f \in Forms : f.bytes \in Seq(Bytes)
ASSUME FaultsAssumption == MaxFaults \in Nat

VARIABLES
    form,      \* the form: its bytes, and the contents of its parts
    sent,      \* how many bytes of it have been handed over
    status,    \* of the request
    parser,
    arguments, \* the contents of the arguments
    files,     \* the contents of the files
    disk,      \* the temporary files there are, with what they contain
    opened,    \* history: how many were created, which names them
    faults     \* history: the operations that failed

formVars == <<form, sent, status, parser, arguments, files, disk, opened, faults>>

NoParser == <<>>
Nil == 0

\* A parser: tmpPath and tmpFile name a temporary file; nested tells whether it
\* is the one of a nested form, whose parts have a default name.
NewParser(name, nested) ==
    [boundary |-> Boundary(name), nested |-> nested,
     state |-> "start", data |-> <<>>, tmpPath |-> Nil,
     tmpFile |-> Nil, subParser |-> NoParser]

FormInit ==
    /\ form \in Forms
    /\ sent = 0
    /\ status = "new"
    /\ parser = NoParser
    /\ arguments = <<>> /\ files = <<>>
    /\ disk = [t \in {} |-> <<>>] /\ opened = 0
    /\ faults = <<>>

-----------------------------------------------------------------------------
(* _parseData.  A parser p works in a world w: the arguments and files so  *)
(* far, the temporary files, what fails, whether p has succeeded, and      *)
(* whether the form went beyond what is followed here: a form nested in a  *)
(* nested one, and a boundary with nothing in front of it, at which the    *)
(* length of the content wraps around (line 238).                          *)

\* The first place of bytes in data, or -1.
RangeOf(bytes, data) ==
    LET places == {i \in 0..(Len(data) - Len(bytes)) :
                       SubSeq(data, i + 1, i + Len(bytes)) = bytes}
    IN  IF places = {} THEN -1 ELSE Min(places)

After(data, n) == SubSeq(data, n + 1, Len(data))

StartsWith(data, bytes) ==
    Len(bytes) <= Len(data) /\ SubSeq(data, 1, Len(bytes)) = bytes

Fails(w) == [w EXCEPT !.success = FALSE]

\* The files of a parser that is released: _tmpPath names what is unlinked,
\* nothing when it is nil.
UnlinksOne(p) == IF p.tmpFile # Nil THEN {p.tmpPath} ELSE {}

\* Mutant: the parser of a nested form unlinks nothing.
Unlinks_OuterOnly(p) == UnlinksOne(p)

Unlinks(p) ==
    UnlinksOne(p) \cup (IF p.subParser = NoParser THEN {} ELSE UnlinksOne(p.subParser[1]))

Without(d, temps) == [t \in DOMAIN d \ temps |-> d[t]]

HasControlName(p, kind) ==
    kind \in {"field", "file", "nested"} \/ (kind = "nestedFile" /\ p.nested)

\* What the headers of a part start.
StartPart(p, w, kind) ==
    IF ~HasControlName(p, kind) THEN [p |-> p, w |-> Fails(w)]
    ELSE IF kind = "nested"
         THEN IF p.nested THEN [p |-> p, w |-> [w EXCEPT !.beyond = TRUE]]
              ELSE [p |-> [p EXCEPT !.subParser = <<NewParser("c", TRUE)>>], w |-> w]
    ELSE IF kind = "field" THEN [p |-> p, w |-> w]
    ELSE IF w.fault = "open"
         THEN [p |-> [p EXCEPT !.tmpFile = Nil], w |-> Fails(w)]
    ELSE LET t == w.opened + 1
         IN  [p |-> [p EXCEPT !.tmpFile = t, !.tmpPath = t],
              w |-> [w EXCEPT !.opened = t,
                              !.disk = [u \in DOMAIN @ \cup {t} |->
                                            IF u = t THEN <<>> ELSE @[u]]]]

ParseHeaders(p, w) ==
    LET end  == RangeOf(CRLF \o CRLF, p.data)
        next == [p EXCEPT !.state = "content", !.tmpPath = Nil,
                          !.subParser = NoParser, !.data = After(@, end + 4)]
    IN  IF p.state # "headers" \/ end = -1 THEN [p |-> p, w |-> w]
        ELSE StartPart(next, w, IF end = 0 THEN "unnamed" ELSE p.data[end])

CannotWrite(w, bytes) == w.fault = "write" /\ bytes # <<>>

Written(p, w, bytes) == [w EXCEPT !.disk[p.tmpFile] = @ \o bytes]

\* The part of a file or an argument ends in front of the boundary, which is at
\* the given place.
EndOwn(p, w, place) ==
    LET content == SubSeq(p.data, 1, place - 2)
        written == Written(p, w, content)
    IN  IF place < 2 THEN [p |-> p, w |-> [w EXCEPT !.beyond = TRUE]]
        ELSE IF p.tmpPath = Nil
        THEN [p |-> p, w |-> [w EXCEPT !.arguments = Append(@, content)]]
        ELSE IF CannotWrite(w, content)
        THEN [p |-> [p EXCEPT !.tmpPath = Nil], w |-> Fails(w)]
        ELSE [p |-> [p EXCEPT !.tmpFile = Nil, !.tmpPath = Nil],
              w |-> [written EXCEPT !.files = Append(@,
                        [tmp |-> p.tmpPath, content |-> written.disk[p.tmpPath]])]]

\* Mutants: nothing is kept; too much is.
Margin_None(p)   == 0
Margin_Hoards(p) == 4 * Len(p.boundary)

\* What may be the start of a boundary is kept.
Margin(p) == 2 * Len(p.boundary)

Sure(p) == SubSeq(p.data, 1, Len(p.data) - Margin(p))

Rest(p) == [p EXCEPT !.data = After(@, Len(p.data) - Margin(p))]

\* What is certainly content of a file is written.
PassOwn(p, w) ==
    IF Len(p.data) <= Margin(p) \/ p.tmpPath = Nil THEN [p |-> p, w |-> w]
    ELSE IF CannotWrite(w, Sure(p)) THEN [p |-> p, w |-> Fails(w)]
    ELSE [p |-> Rest(p), w |-> Written(p, w, Sure(p))]

\* A call of _parseData up to the call of itself, which it makes at the
\* boundary in front of another part and which says whether it succeeded.
\* ended and passed: what becomes of p and w at a boundary, and without one.
Turn(p, w, ended, passed) ==
    LET place == RangeOf(p.boundary, p.data)
        tail  == After(p.data, place + Len(p.boundary))
        Done(r) == [p |-> r.p, w |-> r.w, again |-> FALSE]
        kept  == IF p.state = "content" THEN ended ELSE [p |-> p, w |-> w]
    IN  IF p.state \notin {"start", "content"} THEN Done([p |-> p, w |-> w])
        ELSE IF place = -1 THEN Done(passed)
        ELSE IF StartsWith(tail, CRLF)
        THEN [p |-> [kept.p EXCEPT !.state = "headers", !.data = After(tail, 2)],
              w |-> [kept.w EXCEPT !.success = TRUE], again |-> TRUE]
        ELSE IF StartsWith(tail, Dashes \o CRLF)
        THEN Done([p |-> [kept.p EXCEPT !.state = "end"], w |-> kept.w])
        ELSE Done([p |-> p, w |-> w])

\* The parser of a nested form.
TurnNested(p, w) ==
    LET r == ParseHeaders(p, w)
    IN  Turn(r.p, r.w, EndOwn(r.p, r.w, RangeOf(r.p.boundary, r.p.data)),
             PassOwn(r.p, r.w))

\* Its calls of itself; each takes a boundary from the data.
ParseNested(p, w) ==
    LET turns[i \in 0..(Len(p.data) + 1)] ==
            IF i = 0 THEN [p |-> p, w |-> w, again |-> TRUE]
            ELSE LET last == turns[i - 1]
                 IN  IF last.again THEN TurnNested(last.p, last.w) ELSE last
    IN  turns[Len(p.data) + 1]

Added(p, bytes) == [p EXCEPT !.data = @ \o bytes]

AppendNested(p, w, bytes) ==
    ParseNested(Added(p, bytes), [w EXCEPT !.success = TRUE])

IsAtEnd(p) == p.state = "end"

\* A part ends; the parser of a nested form is released.
EndPart(p, w, place) ==
    LET r == AppendNested(p.subParser[1], w, SubSeq(p.data, 1, place))
    IN  IF p.subParser = NoParser THEN EndOwn(p, w, place)
        ELSE [p |-> [p EXCEPT !.subParser = NoParser],
              w |-> [(IF IsAtEnd(r.p) THEN r.w ELSE Fails(r.w)) EXCEPT
                        !.disk = Without(@, UnlinksOne(r.p))]]

\* What is certainly content is passed on to a file or a nested form.
PassOn(p, w) ==
    LET r == AppendNested(p.subParser[1], w, Sure(p))
    IN  IF p.subParser = NoParser THEN PassOwn(p, w)
        ELSE IF Len(p.data) <= Margin(p) THEN [p |-> p, w |-> w]
        ELSE [p |-> [(IF r.w.success THEN Rest(p) ELSE p) EXCEPT !.subParser = <<r.p>>],
              w |-> r.w]

TurnOuter(p, w) ==
    LET r == ParseHeaders(p, w)
    IN  Turn(r.p, r.w, EndPart(r.p, r.w, RangeOf(r.p.boundary, r.p.data)),
             PassOn(r.p, r.w))

ParseOuter(p, w) ==
    LET turns[i \in 0..(Len(p.data) + 1)] ==
            IF i = 0 THEN [p |-> p, w |-> w, again |-> TRUE]
            ELSE LET last == turns[i - 1]
                 IN  IF last.again THEN TurnOuter(last.p, last.w) ELSE last
    IN  turns[Len(p.data) + 1]

-----------------------------------------------------------------------------
(* The request.                                                            *)

\* A Content-Type without a boundary is refused.
Open ==
    /\ status = "new"
    /\ IF form.named
       THEN status' = "open" /\ parser' = <<NewParser("b", FALSE)>>
       ELSE status' = "failed" /\ UNCHANGED parser
    /\ UNCHANGED <<form, sent, arguments, files, disk, opened, faults>>

World(fault) ==
    [arguments |-> arguments, files |-> files, disk |-> disk, opened |-> opened,
     fault |-> fault, success |-> TRUE, beyond |-> FALSE]

\* writeData:error:, with any number of the bytes that are still to come,
\* as long as they are followed (bound).
WriteData(n, fault) ==
    /\ status = "open"
    /\ LET r == ParseOuter(Added(parser[1], SubSeq(form.bytes, sent + 1, sent + n)),
                           World(fault))
       IN  /\ ~r.w.beyond
           /\ parser' = <<r.p>>
           /\ arguments' = r.w.arguments /\ files' = r.w.files
           /\ disk' = r.w.disk /\ opened' = r.w.opened
           /\ status' = IF r.w.success THEN "open" ELSE "failed"
    /\ sent' = sent + n
    /\ IF fault = "none" THEN UNCHANGED faults
       ELSE Len(faults) < MaxFaults /\ faults' = Append(faults, fault)
    /\ UNCHANGED form

Close ==
    /\ status = "open"
    /\ sent = Len(form.bytes)
    /\ status' = IF IsAtEnd(parser[1]) THEN "accepted" ELSE "failed"
    /\ disk' = Without(disk, Unlinks(parser[1]))
    /\ parser' = NoParser
    /\ UNCHANGED <<form, sent, arguments, files, opened, faults>>

\* The request is released: answered, refused, or its connection lost.  Its
\* parser and its files go with it.
Dealloc ==
    /\ status # "gone"
    /\ status' = "gone"
    /\ disk' = Without(disk, (IF parser = NoParser THEN {} ELSE Unlinks(parser[1]))
                             \cup {files[i].tmp : i \in 1..Len(files)})
    /\ parser' = NoParser
    /\ UNCHANGED <<form, sent, arguments, files, opened, faults>>

Gone == status = "gone" /\ UNCHANGED formVars

FormNext ==
    \/ Open
    \/ \E n \in 1..(Len(form.bytes) - sent), fault \in {"none", "open", "write"} :
           WriteData(n, fault)
    \/ Close
    \/ Dealloc
    \/ Gone

FormSpec == FormInit /\ [][FormNext]_formVars

-----------------------------------------------------------------------------
(* Properties.                                                             *)

Prefix(s, t) == StartsWith(t, s)

Contents(fs) == [i \in 1..Len(fs) |-> fs[i].content]

\* How the parts of a form lie in its bytes: lay.at[i] is the place of the
\* boundary behind part i, of the first one for i = 0; lay.args[i] and
\* lay.files[i] are what has been sent up to there.
PartStart(lay, i) == lay.at[i - 1] + 10

PartContent(bytes, lay, i) == SubSeq(bytes, PartStart(lay, i) + 1, lay.at[i] - 2)

\* Each part is behind a boundary and its headers and in front of a line end and
\* the next boundary, which it does not contain.
LaidOut(bytes, name, lay) ==
    /\ lay.parts \in Nat /\ lay.at \in [0..lay.parts -> Nat]
    /\ \A i \in 0..lay.parts :
           LET from == IF i = 0 THEN 0 ELSE PartStart(lay, i)
               tail == IF i = lay.parts THEN Dashes \o CRLF ELSE CRLF
           IN  /\ RangeOf(Boundary(name), After(bytes, from)) = lay.at[i] - from
               /\ i # 0 => from + 2 <= lay.at[i]
               /\ StartsWith(After(bytes, lay.at[i] + 3), tail)
    /\ \A i \in 1..lay.parts :
           StartsWith(After(bytes, lay.at[i - 1] + 5), <<lay.kind[i]>> \o CRLF \o CRLF)

\* Part i is an argument or a file.
IsOwn(bytes, lay, i, fileKinds) ==
    LET content == PartContent(bytes, lay, i)
    IN  \/ /\ lay.kind[i] = "field"
           /\ lay.args[i] = Append(lay.args[i - 1], content)
           /\ lay.files[i] = lay.files[i - 1]
        \/ /\ lay.kind[i] \in fileKinds
           /\ lay.args[i] = lay.args[i - 1]
           /\ lay.files[i] = Append(lay.files[i - 1], content)

\* The bytes of part i, with the line end behind it, are a form of their own.
IsNested(bytes, lay, i) ==
    LET inner == SubSeq(bytes, PartStart(lay, i) + 1, lay.at[i])
        sub   == lay.nested[i]
    IN  /\ lay.kind[i] = "nested"
        /\ LaidOut(inner, "c", sub)
        /\ \A k \in 1..sub.parts : IsOwn(inner, sub, k, {"file", "nestedFile"})
        /\ sub.args[0] = lay.args[i - 1] /\ sub.files[0] = lay.files[i - 1]
        /\ sub.args[sub.parts] = lay.args[i] /\ sub.files[sub.parts] = lay.files[i]

WellFormed(f) ==
    /\ f.named
    /\ LaidOut(f.bytes, "b", f.lay)
    /\ f.lay.args[0] = <<>> /\ f.lay.files[0] = <<>>
    /\ \A i \in 1..f.lay.parts :
           IsOwn(f.bytes, f.lay, i, {"file"}) \/ IsNested(f.bytes, f.lay, i)

Complete(f) ==
    \E i \in 0..Len(f.bytes) : StartsWith(After(f.bytes, i), Boundary("b") \o Dashes \o CRLF)

\* However a form is cut, its parts are found as they were sent, in order, and
\* it is accepted when it is whole (lines 229-301) and only then (268-274, 358).
\* A file that could not be written is dropped and its form accepted all the
\* same (line 271).
PartsAsSent ==
    /\ status = "accepted" => Complete(form)
    /\ faults = <<>> /\ WellFormed(form) =>
           LET args  == form.lay.args[form.lay.parts]
               found == form.lay.files[form.lay.parts]
           IN  /\ Prefix(arguments, args) /\ Prefix(Contents(files), found)
               /\ status # "failed"
               /\ status = "accepted" => arguments = args /\ Contents(files) = found

\* Of a file of the form itself no more is kept than may be the start of a
\* boundary; where its boundary has come, no more behind it than the part of a
\* line end that does not tell yet what follows (lines 233-296).  The latter is
\* not so for a file that contains its boundary with something else behind it:
\* everything from there on is kept in memory (line 235).
BufferBounded ==
    status = "open" /\ parser[1].tmpPath # Nil =>
        LET p     == parser[1]
            place == RangeOf(p.boundary, p.data)
        IN  /\ place = -1 => Len(p.data) <= 2 * Len(p.boundary)
            /\ place # -1 /\ faults = <<>> /\ WellFormed(form) =>
                   Len(p.data) <= place + Len(p.boundary) + 3

\* A request that is released leaves no temporary file, complete or not,
\* whenever its connection was lost (lines 94, 152).  Not covered: a file whose
\* last write failed, of which the parser has forgotten the path (line 260).
NothingLeft ==
    status = "gone" /\ (\A i \in 1..Len(faults) : faults[i] # "write") => DOMAIN disk = {}
=============================================================================
