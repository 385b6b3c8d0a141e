------------------------------ MODULE MCConnection -----------------------------
(* One connection on clients that send each kind of request: without a body,  *)
(* with a Content-Length that is met, not reached or exceeded, and chunked in  *)
(* every way the framing can end.                                             *)
EXTENDS Connection

Plain == [kind |-> "http", matched |-> TRUE, authorized |-> TRUE, head |-> FALSE,
          hasBody |-> FALSE, chunked |-> FALSE, length |-> 0, expect |-> "none"]

Sized(n)  == [Plain EXCEPT !.hasBody = TRUE, !.length = n]
Chunked   == [Plain EXCEPT !.hasBody = TRUE, !.chunked = TRUE]

\* Requests that are answered without reading a body.
Bodyless ==
    {[request |-> r, body |-> <<>>] :
        r \in {Plain,
               [Plain EXCEPT !.head = TRUE],
               [Plain EXCEPT !.authorized = FALSE],
               [Plain EXCEPT !.matched = FALSE],
               [Plain EXCEPT !.kind = "invalid"],
               [Plain EXCEPT !.kind = "webSocket"]}}

\* A body of two units announced as one, two or three units long; the last
\* two only once 100-continue was answered or refused.
SizedBodies ==
    {[request |-> r, body |-> <<"data", "data">>] :
        r \in {Sized(1), Sized(2), Sized(3),
               [Sized(2) EXCEPT !.expect = "continue"],
               [Sized(2) EXCEPT !.expect = "other"]}}

TwoChunks == <<"size", "data", "size", "data">>

ChunkedBodies ==
    {[request |-> Chunked, body |-> b] :
        b \in {TwoChunks \o <<"last", "trailer">>,
               <<"size", "data", "size", "junk">>,
               <<"size", "data", "junk">>}}

MCClients == Bodyless \union SizedBodies \union ChunkedBodies

\* A chunked request that is complete.
ChunkedClient == {[request |-> Chunked, body |-> <<"size", "data", "last", "trailer">>]}

\* nil, a body of known or of undefined length, and no body.
MCResponses ==
    {NoResponse,
     [hasBody |-> TRUE,  chunked |-> FALSE, fresh |-> FALSE],
     [hasBody |-> TRUE,  chunked |-> TRUE,  fresh |-> FALSE],
     [hasBody |-> TRUE,  chunked |-> FALSE, fresh |-> TRUE],
     [hasBody |-> FALSE, chunked |-> FALSE, fresh |-> FALSE]}
================================================================================
