------------------------------ MODULE HTTPExchange -----------------------------
(***************************************************************************)
(* What the headers of the server (HSDGWebServerConnection.h,              *)
(* HSDGWebServerRequest.h, HSDGWebServerResponse.h, HSDGWebServer.h) let   *)
(* the author of a handler, of a class of requests or of a class of        *)
(* responses rely on: a connection carries one request and its answer; the *)
(* request's body writer is opened, written and closed in this order and   *)
(* over before the request is processed; the response's body reader is     *)
(* opened before its body is sent and closed after; and the end of the     *)
(* connection is told once, its socket being closed.                       *)
(***************************************************************************)
EXTENDS Integers, Sequences

VARIABLES
    phase,  \* receiving the request, processing or aborting it, responding with
            \* the headers, sending a body, upgraded to a WebSocket, over
    writer, \* the body writer of the request
    body,   \* what was written to it
    reader, \* the body reader of the response
    answer, \* what the client was sent
    socket, \* the connection to the client
    told    \* how often the end of the connection was told

vars == <<phase, writer, body, reader, answer, socket, told>>

Init ==
    /\ phase = "receiving"
    /\ writer = "unopened" /\ body = <<>>
    /\ reader = "unopened" /\ answer = <<>>
    /\ socket = "open" /\ told = 0

\* The writer is opened and closed once, in this order.
OpenWriter == writer = "open" => writer' # "unopened"

\* Data is added to what the writer was given before.
WriteData ==
    /\ Len(body) <= Len(body')
    /\ \A i \in 1..Len(body) : body'[i] = body[i]
    /\ body' # body => writer' # "unopened"

\* A client that expects it may be told to continue, before anything else.
Continue == UNCHANGED answer \/ (answer = <<>> /\ answer' = <<"continue">>)

\* More of the request is received.
DidRead ==
    /\ phase = "receiving" /\ writer # "closed"
    /\ OpenWriter /\ WriteData /\ Continue
    /\ UNCHANGED <<reader, socket, told>>

\* The writer is closed, if it was opened, once the request goes on.
CloseWriter == writer' # "open"

Receive ==
    /\ DidRead /\ writer' # "closed"
    /\ UNCHANGED phase

\* The process block is called.
ProcessRequest ==
    /\ DidRead /\ CloseWriter
    /\ phase' = "processing"

\* The preflight answers in place of the process block.
PreflightRequest ==
    /\ DidRead /\ CloseWriter
    /\ phase' = "responding"

\* The request is not valid, cannot be received, or has no response.
AbortRequest ==
    /\ \/ DidRead /\ CloseWriter
       \/ phase = "processing" /\ UNCHANGED <<writer, body, reader, answer, socket, told>>
    /\ phase' = "aborting"

\* The socket is handed to a WebSocket, or the client is lost.
Leave ==
    /\ phase = "receiving" /\ writer = "unopened"
    /\ phase' \in {"upgraded", "over"}
    /\ UNCHANGED <<writer, body, reader, answer, socket, told>>

\* The completion block of the handler is called with a response, whose body
\* reader is opened if there is a body to send.
Respond ==
    /\ phase = "processing"
    /\ phase' = "responding"
    /\ reader' \in {"unopened", "open"}
    /\ UNCHANGED <<writer, body, answer, socket, told>>

\* Sent, or lost with the client.
Sends(what) == answer' \in {answer, Append(answer, what)}

\* The end of the connection is told.
Close ==
    /\ phase' = "over"
    /\ socket' = "closed"
    /\ told' = told + 1

\* An answer without a body leaves the connection to the client.
SendBare ==
    /\ phase = "aborting" \/ (phase = "responding" /\ reader = "unopened")
    /\ phase' = "over"
    /\ Sends("status")
    /\ UNCHANGED <<writer, body, reader, socket, told>>

SendStatus ==
    /\ phase = "responding" /\ reader = "open"
    /\ phase' = "sending"
    /\ answer' = Append(answer, "status")
    /\ UNCHANGED <<writer, body, reader, socket, told>>

DidWrite ==
    /\ phase = "sending"
    /\ answer' = Append(answer, "data")
    /\ UNCHANGED <<phase, writer, body, reader, socket, told>>

\* The body was sent, or cannot be: its reader is closed.
CloseReader ==
    /\ phase \in {"responding", "sending"} /\ reader = "open"
    /\ reader' = "closed"
    /\ phase = "responding" => UNCHANGED answer
    /\ Sends("last")
    /\ Close
    /\ UNCHANGED <<writer, body>>

\* The WebSocket closes the socket and tells.
WebSocketClose ==
    /\ phase = "upgraded" /\ socket = "open"
    /\ \/ Close
       \/ socket' = "closed" /\ UNCHANGED <<phase, told>>
    /\ UNCHANGED <<writer, body, reader, answer>>

Next ==
    \/ Receive \/ ProcessRequest \/ PreflightRequest \/ AbortRequest \/ Leave
    \/ Respond \/ SendBare \/ SendStatus \/ DidWrite \/ CloseReader
    \/ WebSocketClose

Spec == Init /\ [][Next]_vars
================================================================================
