------------------------------ MODULE Connection -------------------------------
(***************************************************************************)
(* HSDGWebServerConnection (Core/HSDGWebServerConnection.m): the life of   *)
(* one accepted socket, from the first read of the request headers to the  *)
(* end of the response or the hand-over of the socket to a WebSocket.      *)
(*                                                                         *)
(* The client's bytes are a stream: HeaderLen units of headers followed by *)
(* the units of client.body.  A unit arrives whole; which units a read     *)
(* returns together is up to the network, and the client may stop sending  *)
(* or reset the connection at any time.  Each action is the completion     *)
(* block of one asynchronous operation: a read, a write, the handler, or   *)
(* the reader of the response body.                                        *)
(***************************************************************************)
EXTENDS Integers, Sequences

CONSTANTS
    Clients,    \* what a client may send: [request, body]
    Responses,  \* the responses a handler may pass to its completion block
    NoResponse, \* nil
    HeaderLen,  \* the length of the request headers
    MaxData     \* bound: how many blocks of data a response body has

\* What the headers say, and whether a handler matches them and they pass the
\* preflight; length is the Content-Length of a body that is not chunked.
Request == [kind: {"http", "webSocket", "invalid"}, matched: BOOLEAN,
            authorized: BOOLEAN, head: BOOLEAN, hasBody: BOOLEAN, chunked: BOOLEAN,
            length: Nat, expect: {"none", "continue", "other"}]

\* A unit of a body: content or, in a chunked body, a chunk's size line, its
\* content with the CRLF behind it, the line of the last chunk, the end of the
\* trailers; junk is what breaks this framing.
Token == {"data", "size", "last", "trailer", "junk"}

\* A response: it has a body, of undefined length or not; fresh when the
\* conditional headers of the request match it.
Response == [hasBody: BOOLEAN, chunked: BOOLEAN, fresh: BOOLEAN]

ASSUME ClientsAssumption == Clients \subseteq [request: Request, body: Seq(Token)]
ASSUME ResponsesAssumption == Responses \subseteq Response \union {NoResponse}
ASSUME NoResponseAssumption == NoResponse \notin Response
ASSUME LengthsAssumption == HeaderLen \in Nat \ {0} /\ MaxData \in Nat

VARIABLES
    client,   \* the request and the body this client sends
    sent,     \* how much of the stream the client has sent
    peer,     \* the client's side of the socket
    read,     \* how much of the stream the server has read
    stage,    \* the operation whose completion block runs next
    parsed,   \* how many units of a chunked body are removed from chunkData
    writer,   \* the request's body writer
    written,  \* where the data written to it stands in the body
    response, \* _response
    reader,   \* the response's body reader
    out,      \* what was written to the socket
    socket,   \* the file descriptor
    ended     \* how often didEndConnection: was called

streamVars == <<client, sent, peer>>
bodyVars   == <<parsed, writer, written>>
replyVars  == <<response, reader, out>>
lifeVars   == <<socket, ended>>
vars == <<streamVars, read, stage, bodyVars, replyVars, lifeVars>>

request == client.request

\* The operation pending; in "handler" the process block owns the request, in
\* "spin" readNextBodyChunk: never leaves its loop, and in "idle" nothing is
\* pending on a socket that is open.
Stage == {"readHeaders", "writeContinue", "readBody", "parseChunk", "readChunk", "spin",
          "handler", "writeAbort", "writeHeaders", "readData", "writeData", "writeLast",
          "webSocketInit", "webSocket", "idle", "closed"}

Total == HeaderLen + Len(client.body)

\* How much of the body has been read.
BodyRead == read - HeaderLen

Init ==
    /\ client \in Clients
    /\ sent = 0
    /\ peer = "open"
    /\ read = 0
    /\ stage = "readHeaders"
    /\ parsed = 0
    /\ writer = "unopened"
    /\ written = <<>>
    /\ response = NoResponse
    /\ reader = "unopened"
    /\ out = <<>>
    /\ socket = "open"
    /\ ended = 0

-----------------------------------------------------------------------------
(* The client and the two directions of the socket.                        *)

ClientSends ==
    /\ peer = "open" /\ sent < Total
    /\ sent' = sent + 1
    /\ UNCHANGED <<client, peer, read, stage, bodyVars, replyVars, lifeVars>>

\* The client shuts its side down, or resets the connection.
ClientLeaves ==
    /\ \/ peer = "open" /\ peer' \in {"shut", "reset"}
       \/ peer = "shut" /\ peer' = "reset"
    /\ UNCHANGED <<client, sent, read, stage, bodyVars, replyVars, lifeVars>>

\* A read of at most limit units returns n of them.
Reads(n, limit) ==
    /\ n \in 1..limit
    /\ read + n <= sent
    /\ read' = read + n

\* A read fails: on a reset, or at the end of what the client sends.
ReadFails ==
    /\ peer = "reset" \/ (peer = "shut" /\ read = sent)
    /\ UNCHANGED read

\* A write fails on a reset only.
Writes(what) == out' = Append(out, what)
WriteFails == peer = "reset" /\ UNCHANGED out

-----------------------------------------------------------------------------
(* Ending the connection.                                                  *)

\* closeConnection.
CloseConnection ==
    /\ stage' = "closed"
    /\ socket' = "closed"
    /\ ended' = ended + 1

\* abortRequest:withStatusCode: writes the headers of an error.
AbortRequest == stage' = "writeAbort"

\* performClose of the response, then closeConnection.
FinishBody ==
    /\ reader' = "closed"
    /\ CloseConnection

-----------------------------------------------------------------------------
(* From the request to its response.                                       *)

\* overrideResponse:forRequest: -- a fresh response becomes a bodyless one.
OverrideResponse(r) ==
    IF r # NoResponse /\ r.fresh
    THEN [hasBody |-> FALSE, chunked |-> FALSE, fresh |-> FALSE] ELSE r

\* Mutant: the body is sent in answer to a HEAD too.
SendsBody_IgnoresHead(r) == r.hasBody

\* The body of the response is sent, unless a HEAD was mapped to a GET.
SendsBody(r) == r.hasBody /\ ~request.head

\* _finishProcessingRequest: up to the write of the headers; opening the body
\* of the response may fail.
FinishProcessingRequest(original) ==
    LET r == OverrideResponse(original) IN
    \/ /\ r # NoResponse => SendsBody(r)
       /\ AbortRequest
       /\ UNCHANGED <<response, reader>>
    \/ /\ r # NoResponse
       /\ reader' = IF SendsBody(r) THEN "open" ELSE reader
       /\ response' = r
       /\ stage' = "writeHeaders"

\* _startProcessingRequest: an unauthorized request never reaches the handler.
StartProcessingRequest ==
    \/ /\ request.authorized
       /\ stage' = "handler"
       /\ UNCHANGED <<response, reader>>
    \/ /\ ~request.authorized
       /\ FinishProcessingRequest([hasBody |-> FALSE, chunked |-> FALSE, fresh |-> FALSE])

\* performClose of the request, which may fail, then its processing.
CloseWriter ==
    /\ writer' = "closed"
    /\ \/ AbortRequest /\ UNCHANGED <<response, reader>>
       \/ StartProcessingRequest

-----------------------------------------------------------------------------
(* Reading the body of the request.                                        *)

\* The places in the body of the units that the last n units read hold.
Last(n) == [i \in 1..n |-> read' - HeaderLen - n + i]

\* _readBodyWithLength:initialData: -- opening the writer, writing the data that
\* came with the headers and closing the writer may each fail.
ReadBodyWithLength ==
    LET extra == read' - HeaderLen IN
    \/ AbortRequest /\ UNCHANGED <<bodyVars, response, reader>>
    \/ /\ extra > 0
       /\ writer' = "closed"
       /\ AbortRequest
       /\ UNCHANGED <<parsed, written, response, reader>>
    \/ /\ written' = Last(extra)
       /\ IF extra < request.length
          THEN writer' = "open" /\ stage' = "readBody" /\ UNCHANGED <<response, reader>>
          ELSE CloseWriter
       /\ UNCHANGED parsed

\* _readChunkedBodyWithInitialData: up to its loop.
ReadChunkedBody ==
    \/ AbortRequest /\ UNCHANGED <<bodyVars, response, reader>>
    \/ /\ writer' = "open"
       /\ stage' = "parseChunk"
       /\ UNCHANGED <<parsed, written, response, reader>>

ReadBody == IF request.chunked THEN ReadChunkedBody ELSE ReadBodyWithLength

\* Mutant: the length of the data behind the headers is not looked at.
ExtraFits_Unchecked == TRUE

\* The data behind the headers is no longer than the body they announce.
ExtraFits == request.chunked \/ read' - HeaderLen <= request.length

\* The request headers are complete, and data may have been read behind them.
HeadersComplete ==
    \/ /\ request.kind = "invalid" \/ (request.kind = "http" /\ ~request.matched)
       /\ AbortRequest
       /\ UNCHANGED <<bodyVars, response, reader>>
    \/ /\ request.kind = "webSocket"
       /\ stage' = "webSocketInit"
       /\ UNCHANGED <<bodyVars, response, reader>>
    \/ /\ request.kind = "http" /\ request.matched /\ ~request.hasBody
       /\ StartProcessingRequest
       /\ UNCHANGED bodyVars
    \/ /\ request.kind = "http" /\ request.matched /\ request.hasBody
       /\ \/ /\ ~ExtraFits \/ request.expect = "other"
             /\ AbortRequest
             /\ UNCHANGED <<bodyVars, response, reader>>
          \/ /\ ExtraFits /\ request.expect = "continue"
             /\ stage' = "writeContinue"
             /\ UNCHANGED <<bodyVars, response, reader>>
          \/ ExtraFits /\ request.expect = "none" /\ ReadBody

\* Completion of the read of readHeaders:withCompletionBlock:.
ReadHeaders ==
    /\ stage = "readHeaders"
    /\ \/ ReadFails /\ AbortRequest /\ UNCHANGED <<bodyVars, response, reader>>
       \/ \E n \in 1..Total :
             /\ Reads(n, Total)
             /\ IF read' < HeaderLen
                THEN UNCHANGED <<stage, bodyVars, response, reader>>
                ELSE HeadersComplete
    /\ UNCHANGED <<streamVars, out, lifeVars>>

\* Completion of the write of the 100-continue line.
WriteContinue ==
    /\ stage = "writeContinue"
    /\ \/ Writes("continue") /\ UNCHANGED read /\ ReadBody
       \/ WriteFails /\ stage' = "idle" /\ UNCHANGED <<read, bodyVars, response, reader>>
    /\ UNCHANGED <<streamVars, lifeVars>>

\* Completion of the read of readBodyWithRemainingLength:; a failed read, like a
\* failed write of what was read, ends the body and lets the request proceed.
ReadBodyData ==
    /\ stage = "readBody"
    /\ \/ ReadFails /\ CloseWriter /\ UNCHANGED written
       \/ \E n \in 1..(request.length - BodyRead) :
             /\ Reads(n, request.length - BodyRead)
             /\ \/ CloseWriter /\ UNCHANGED written
                \/ /\ written' = written \o Last(n)
                   /\ IF read' - HeaderLen < request.length
                      THEN UNCHANGED <<stage, writer, response, reader>>
                      ELSE CloseWriter
    /\ UNCHANGED <<streamVars, parsed, out, lifeVars>>

\* What chunkData holds: the units read and not removed yet.
ChunkData == SubSeq(client.body, parsed + 1, BodyRead)

\* A chunk begins chunkData, and all of it and what terminates it is there.
ChunkArrived == Len(ChunkData) >= 2 /\ ChunkData[1] = "size"

\* One turn of the loop of readNextBodyChunk:.
ParseChunk ==
    /\ stage = "parseChunk"
    /\ \/ /\ ChunkData = <<>> \/ (Len(ChunkData) = 1 /\ ChunkData[1] = "size")
          /\ stage' = "readChunk"
          /\ UNCHANGED <<parsed, writer, written, response, reader>>
       \/ /\ ChunkArrived /\ ChunkData[2] = "data"
          /\ parsed' = parsed + 2
          /\ written' = Append(written, parsed + 2)
          /\ UNCHANGED <<stage, writer, response, reader>>
       \/ /\ ChunkArrived \* the write failed, or the terminating CRLF is missing
          /\ CloseWriter
          /\ UNCHANGED <<parsed, written>>
       \/ /\ ChunkData # <<>> /\ ChunkData[1] = "last"
          /\ IF \E i \in 2..Len(ChunkData) : ChunkData[i] = "trailer"
             THEN CloseWriter
             ELSE stage' = "spin" /\ UNCHANGED <<writer, response, reader>>
          /\ UNCHANGED <<parsed, written>>
       \/ /\ ChunkData # <<>> /\ ChunkData[1] \notin {"size", "last"}
          /\ CloseWriter
          /\ UNCHANGED <<parsed, written>>
    /\ UNCHANGED <<streamVars, read, out, lifeVars>>

\* Mutant: nothing read is taken for a body that is still to come.
ReadChunk_TriesAgain ==
    /\ stage = "readChunk"
    /\ \/ ReadFails /\ UNCHANGED <<stage, writer, response, reader>>
       \/ \E n \in 1..Total : Reads(n, Total) /\ stage' = "parseChunk"
                              /\ UNCHANGED <<writer, response, reader>>
    /\ UNCHANGED <<streamVars, parsed, written, out, lifeVars>>

\* Completion of the read of readNextBodyChunk:.
ReadChunk ==
    /\ stage = "readChunk"
    /\ \/ ReadFails /\ CloseWriter
       \/ \E n \in 1..Total : Reads(n, Total) /\ stage' = "parseChunk"
                              /\ UNCHANGED <<writer, response, reader>>
    /\ UNCHANGED <<streamVars, parsed, written, out, lifeVars>>

-----------------------------------------------------------------------------
(* Answering.                                                              *)

\* The handler calls the completion block of the request, with a response or nil.
HandlerCompletes ==
    /\ stage = "handler"
    /\ \E r \in Responses : FinishProcessingRequest(r)
    /\ UNCHANGED <<streamVars, read, bodyVars, out, lifeVars>>

\* Completion of the write of the headers of abortRequest:.
WriteAbort ==
    /\ stage = "writeAbort"
    /\ Writes("status") \/ WriteFails
    /\ stage' = "idle"
    /\ UNCHANGED <<streamVars, read, bodyVars, response, reader, lifeVars>>

\* Mutant: a failed write closes the connection only.
WriteHeaders_KeepsReader ==
    /\ stage = "writeHeaders"
    /\ \/ /\ Writes("status")
          /\ stage' = IF SendsBody(response) THEN "readData" ELSE "idle"
          /\ UNCHANGED <<reader, lifeVars>>
       \/ /\ WriteFails
          /\ IF SendsBody(response)
             THEN CloseConnection /\ UNCHANGED reader
             ELSE stage' = "idle" /\ UNCHANGED <<reader, lifeVars>>
    /\ UNCHANGED <<streamVars, read, bodyVars, response>>

\* Completion of writeHeadersWithCompletionBlock:; the connection goes on only
\* for the sake of a body.
WriteHeaders ==
    /\ stage = "writeHeaders"
    /\ \/ /\ Writes("status")
          /\ stage' = IF SendsBody(response) THEN "readData" ELSE "idle"
          /\ UNCHANGED <<reader, lifeVars>>
       \/ /\ WriteFails
          /\ IF SendsBody(response)
             THEN FinishBody
             ELSE stage' = "idle" /\ UNCHANGED <<reader, lifeVars>>
    /\ UNCHANGED <<streamVars, read, bodyVars, response>>

\* The blocks of data written so far.
DataWritten == SelectSeq(out, LAMBDA what : what = "data")

\* The body reader of the response hands over data, the end, or an error.
ReadResponseData ==
    /\ stage = "readData"
    /\ \/ /\ Len(DataWritten) < MaxData
          /\ stage' = "writeData"
          /\ UNCHANGED <<reader, lifeVars>>
       \/ /\ response.chunked
          /\ stage' = "writeLast"
          /\ UNCHANGED <<reader, lifeVars>>
       \/ FinishBody
    /\ UNCHANGED <<streamVars, read, bodyVars, response, out>>

\* Mutant: after a failed write the next block of the body is asked for too.
WriteResponseData_GoesOn ==
    /\ stage = "writeData"
    /\ \/ Writes("data") /\ UNCHANGED <<reader, lifeVars>>
       \/ /\ WriteFails
          /\ reader' = "closed" /\ socket' = "closed" /\ ended' = ended + 1
    /\ stage' = "readData"
    /\ UNCHANGED <<streamVars, read, bodyVars, response>>

\* Completion of the write of a block of the response body.
WriteResponseData ==
    /\ stage = "writeData"
    /\ \/ Writes("data") /\ stage' = "readData" /\ UNCHANGED <<reader, lifeVars>>
       \/ WriteFails /\ FinishBody
    /\ UNCHANGED <<streamVars, read, bodyVars, response>>

\* Mutant: the completion block of the body is not called.
WriteLastChunk_NoBlock ==
    /\ stage = "writeLast"
    /\ Writes("last") \/ WriteFails
    /\ stage' = "idle"
    /\ UNCHANGED <<streamVars, read, bodyVars, response, reader, lifeVars>>

\* Completion of the write of the last chunk.
WriteLastChunk ==
    /\ stage = "writeLast"
    /\ Writes("last") \/ WriteFails
    /\ FinishBody
    /\ UNCHANGED <<streamVars, read, bodyVars, response>>

\* The connection becomes the delegate of the WebSocket, whose initWithServer:
\* has already started to read the socket.
SetDelegate ==
    /\ stage = "webSocketInit"
    /\ stage' = "webSocket"
    /\ UNCHANGED <<streamVars, read, bodyVars, replyVars, lifeVars>>

\* The WebSocket closes the socket and, once it has a delegate, calls its
\* webSocketDidClose.
WebSocketCloses ==
    /\ stage \in {"webSocketInit", "webSocket"}
    /\ socket = "open"
    /\ socket' = "closed"
    /\ IF stage = "webSocket"
       THEN stage' = "closed" /\ ended' = ended + 1
       ELSE UNCHANGED <<stage, ended>>
    /\ UNCHANGED <<streamVars, read, bodyVars, replyVars>>

-----------------------------------------------------------------------------
Client == ClientSends \/ ClientLeaves

Reading == ReadHeaders \/ WriteContinue \/ ReadBodyData \/ ParseChunk \/ ReadChunk

Answering ==
    \/ HandlerCompletes
    \/ WriteAbort \/ WriteHeaders
    \/ ReadResponseData \/ WriteResponseData \/ WriteLastChunk
    \/ SetDelegate

Next == Client \/ Reading \/ Answering \/ WebSocketCloses

Spec == Init /\ [][Next]_vars

\* GCD runs every pending completion block, and the handler and the reader of
\* the response answer; when a WebSocket closes is up to its client.
Fairness == WF_vars(Reading) /\ WF_vars(Answering)

FairSpec == Spec /\ Fairness

-----------------------------------------------------------------------------
(* Properties.                                                             *)

\* The shape of every variable.
TypeOK ==
    /\ client \in Clients
    /\ sent \in 0..Total
    /\ peer \in {"open", "shut", "reset"}
    /\ read \in 0..sent
    /\ stage \in Stage
    /\ parsed \in 0..Len(client.body)
    /\ writer \in {"unopened", "open", "closed"}
    /\ written \in Seq(1..Len(client.body))
    /\ response \in Response \union {NoResponse}
    /\ reader \in {"unopened", "open", "closed"}
    /\ out \in Seq({"continue", "status", "data", "last"})
    /\ socket \in {"open", "closed"}
    /\ ended \in Nat

\* However reading, writing and the reader of the response fail, the socket is
\* closed and the server told at most once, with nothing left to complete on a
\* file descriptor that is no longer the connection's (lines 209-226, 421-436).
EndsOnce == ended <= 1 /\ (ended = 1 => stage = "closed" /\ socket = "closed")

\* The response body that was opened is closed whenever sending it is over
\* (GCDWebServerBodyReader, lines 175, 209-226).
ReaderReleased ==
    reader = "open" => stage \in {"writeHeaders", "readData", "writeData", "writeLast"}

\* The request body that was opened is closed before the request is processed
\* or aborted (GCDWebServerBodyWriter, lines 232-290).
WriterReleased ==
    writer = "open" => stage \in {"readBody", "parseChunk", "readChunk", "spin"}

\* Bodies are closed on every way out.
BodiesClosed == ReaderReleased /\ WriterReleased

\* Where the exchange is when an operation is pending.
PhaseOf(operation) ==
    CASE operation \in {"readHeaders", "writeContinue", "readBody", "parseChunk", "readChunk",
                        "spin"}                            -> "receiving"
      [] operation = "handler"                             -> "processing"
      [] operation = "writeAbort"                          -> "aborting"
      [] operation = "writeHeaders"                        -> "responding"
      [] operation \in {"readData", "writeData", "writeLast"} -> "sending"
      [] operation \in {"webSocketInit", "webSocket"}       -> "upgraded"
      [] OTHER                                             -> "over"

Exchange == INSTANCE HTTPExchange WITH
    phase  <- PhaseOf(stage),
    writer <- writer,
    body   <- written,
    reader <- reader,
    answer <- out,
    socket <- socket,
    told   <- ended

\* Whatever the network cuts the request into and wherever the client leaves,
\* body writer, handler, body reader and the socket see one exchange: the body
\* is over before the request is processed, what is opened is closed once, and
\* the end is told once, after the socket was closed and with nothing left to
\* complete (HSDGWebServerRequest.h:51-77, HSDGWebServerResponse.h:48-85).
ImplementsExchange == Exchange!Spec

\* A unit of the body that is its content, not its framing.
Content(i) == request.chunked => client.body[i] = "data"

\* The handler gets the content the client sent from its beginning, each unit
\* once and in order, whatever reads cut it into (lines 240-249, 526-614).
DeliveredInOrder ==
    \A i \in 1..Len(written) :
        LET before == IF i = 1 THEN 0 ELSE written[i - 1] IN
        /\ before < written[i] /\ Content(written[i])
        /\ \A j \in (before + 1)..(written[i] - 1) : ~Content(j)

\* A body that is not chunked never exceeds its Content-Length, although the
\* read of the headers is unlimited (lines 249, 343, 531).
ContentLengthRespected == writer # "unopened" /\ ~request.chunked => Len(written) <= request.length

\* The handler gets the content, in order and within its length.
ContentDelivered == DeliveredInOrder /\ ContentLengthRespected

\* What the client gets is one response: a status, behind an optional
\* 100-continue line, then body data only if it asked for some, then, of a
\* chunked body only, the last chunk, behind which nothing comes.
AnswerShape ==
    \A i \in 1..Len(out) :
        /\ out[i] = "continue" => i = 1
        /\ out[i] = "status" => \A j \in 1..(i - 1) : out[j] = "continue"
        /\ out[i] \in {"data", "last"} => ~request.head /\ \E j \in 1..(i - 1) : out[j] = "status"
        /\ out[i] = "last" => i = Len(out) /\ response.chunked

\* The client has an answer, or what it sent cannot be answered.
Answered == stage = "spin" \/ peer = "reset" \/ \E i \in 1..Len(out) : out[i] = "status"

\* A client that has sent its request and shut its side down gets an answer,
\* wherever in the request it stopped, unless the loop of readNextBodyChunk: is
\* caught between the last chunk and its trailers (lines 476-486, 493-614).
ShutClientAnswered ==
    (request.kind # "webSocket" /\ peer = "shut") ~> Answered

\* A response whose body was opened ends with the connection (lines 209-226).
BodyEndsConnection == reader = "open" ~> socket = "closed"

-----------------------------------------------------------------------------
(* The inductive invariant behind the safety properties.                   *)

\* The end of the connection is told with the step to "closed".
LifeOK ==
    /\ ended = IF stage = "closed" THEN 1 ELSE 0
    /\ stage = "closed" => socket = "closed"

\* Before its body is read, nothing of a request is written or answered.
HeadersOK ==
    stage \in {"readHeaders", "writeContinue"} =>
        /\ writer = "unopened" /\ written = <<>> /\ parsed = 0 /\ out = <<>>
        /\ stage = "readHeaders" => read < HeaderLen
        /\ stage = "writeContinue" =>
              read >= HeaderLen /\ (request.chunked \/ BodyRead <= request.length)

\* Up to the write of the status, at most the 100-continue line is out.
StatusOK ==
    stage \in {"readBody", "parseChunk", "readChunk", "handler", "writeAbort", "writeHeaders",
               "webSocketInit", "webSocket"}
        => out \in {<<>>, <<"continue">>}

\* A body of known length is written as far as it was read.
SizedBodyOK ==
    /\ stage = "readBody" =>
          /\ ~request.chunked
          /\ read >= HeaderLen /\ BodyRead < request.length
          /\ written = [i \in 1..BodyRead |-> i]
    /\ ContentLengthRespected

\* A chunked body is written as far as it was parsed.
ChunkedBodyOK ==
    stage \in {"parseChunk", "readChunk"} =>
        /\ request.chunked /\ read >= HeaderLen
        /\ parsed <= BodyRead
        /\ parsed = IF written = <<>> THEN 0 ELSE written[Len(written)]

\* Past the status, only a response with a body goes on.
DataOK ==
    /\ stage = "writeHeaders" =>
          response # NoResponse /\ (SendsBody(response) <=> reader = "open")
    /\ stage \in {"readData", "writeData", "writeLast"} =>
          /\ response # NoResponse /\ SendsBody(response) /\ reader = "open"
          /\ \E i \in 1..Len(out) : out[i] = "status"
          /\ \A i \in 1..Len(out) : out[i] # "last"
          /\ stage = "writeLast" => response.chunked

IInv ==
    /\ TypeOK
    /\ LifeOK
    /\ ReaderReleased
    /\ WriterReleased
    /\ HeadersOK
    /\ StatusOK
    /\ SizedBodyOK
    /\ ChunkedBodyOK
    /\ DeliveredInOrder
    /\ DataOK
    /\ AnswerShape

-----------------------------------------------------------------------------
(* Statements of the documentation that the code does not meet.            *)

\* The whole of a request that is to be processed has arrived.
FullyReceived ==
    /\ sent = Total
    /\ request.kind = "http" /\ request.matched /\ request.authorized
    /\ request.chunked => \E i \in 1..Len(client.body) : client.body[i] = "trailer"

\* The process block "is called after the HTTP request has been fully received"
\* (HSDGWebServer.h:46); nothing that arrives gets it past a last chunk that
\* was read without its trailers.
ReceivedIsProcessed ==
    FullyReceived ~> (stage = "handler" \/ peer # "open" \/ \E i \in 1..Len(out) : out[i] = "status")
================================================================================
