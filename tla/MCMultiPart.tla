----------------------------- MODULE MCMultiPart -----------------------------
(***************************************************************************)
(* Forms for TLC: with and without files and nested forms, with contents   *)
(* that look like the start of a boundary, without an end, with nested     *)
(* forms without one, and with parts that have no name.                    *)
(***************************************************************************)
EXTENDS MultiPart, SequencesExt

PartBytes(name, kind, content) ==
    CRLF \o <<kind>> \o CRLF \o CRLF \o content \o CRLF \o Boundary(name)

FormBytes(name, parts) ==
    Boundary(name)
    \o FlattenSeq([i \in 1..Len(parts) |->
                      PartBytes(name, parts[i].kind, parts[i].content)])
    \o Dashes

OfKinds(parts, kinds) ==
    LET chosen == SelectSeq(parts, LAMBDA p : p.kind \in kinds)
    IN  [i \in 1..Len(chosen) |-> chosen[i].content]

\* A nested form of the parts given.
Nested(parts) == [kind |-> "nested", content |-> FormBytes("c", parts), parts |-> parts]

\* A nested form that is over in its last part.
Unended(parts) ==
    LET bytes == FormBytes("c", parts)
    IN  [kind |-> "nested", content |-> SubSeq(bytes, 1, Len(bytes) - 5),
         parts |-> <<[kind |-> "unnamed", content |-> <<>>]>>]

Part(kind, content) == [kind |-> kind, content |-> content, parts |-> <<>>]

Flat(parts) ==
    FlattenSeq([i \in 1..Len(parts) |->
                  IF parts[i].kind = "nested" THEN parts[i].parts ELSE <<parts[i]>>])

\* The parts of a form behind so many bytes, so many arguments and files.
Layout(before, name, parts, args, found) ==
    LET Upto(i) == SubSeq(parts, 1, i)
    IN  [parts |-> Len(parts),
         at |-> [i \in 0..Len(parts) |->
                    before + Len(FormBytes(name, Upto(i))) - Len(Boundary(name) \o Dashes)],
         kind |-> [i \in 1..Len(parts) |-> parts[i].kind],
         args |-> [i \in 0..Len(parts) |-> args \o OfKinds(Flat(Upto(i)), {"field"})],
         files |-> [i \in 0..Len(parts) |->
                       found \o OfKinds(Flat(Upto(i)), {"file", "nestedFile"})]]

NestedLayouts(parts) ==
    [i \in {k \in 1..Len(parts) : parts[k].kind = "nested"} |->
        LET behind == Flat(SubSeq(parts, 1, i - 1))
        IN  Layout(0, "c", parts[i].parts, OfKinds(behind, {"field"}),
                   OfKinds(behind, {"file", "nestedFile"}))]

Form(preamble, parts, cut, named) ==
    LET bytes == preamble \o FormBytes("b", parts) \o CRLF
        lay   == Layout(Len(preamble), "b", parts, <<>>, <<>>)
    IN  [bytes |-> SubSeq(bytes, 1, Len(bytes) - cut), named |-> named,
         lay |-> [x \in DOMAIN lay \cup {"nested"} |->
                     IF x = "nested" THEN NestedLayouts(parts) ELSE lay[x]]]

Short == {<<>>, <<"x">>, CRLF \o <<"-">>}
Long  == [i \in 1..9 |-> "x"] \o CRLF \o Dashes

MCForms ==
    {Form(<<>>, <<Part("file", a), Part("field", b)>>, 0, TRUE) :
        a \in Short \cup {Long}, b \in Short}
    \cup {Form(<<"x">>, <<Part("file", Long), Part("file", a)>>, cut, TRUE) :
        a \in Short, cut \in {0, 1, 3}}
    \cup {Form(<<>>, <<Nested(<<Part("nestedFile", a), Part("field", <<"x">>)>>),
                      Part("file", a)>>, cut, TRUE) :
        a \in {<<"x">>, Long}, cut \in {0, 2}}
    \cup {Form(<<>>, <<Part("unnamed", a), Part("field", a)>>, 0, TRUE) : a \in {<<>>, Long}}
    \cup {Form(<<>>, <<Unended(<<Part("nestedFile", a)>>), Part("file", <<"x">>)>>, 0, TRUE) :
        a \in {<<>>, Long}}
    \cup {Form(CRLF, <<>>, 0, named) : named \in BOOLEAN}
=============================================================================
