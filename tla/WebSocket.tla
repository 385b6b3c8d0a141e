------------------------------- MODULE WebSocket -------------------------------
(***************************************************************************)
(* HSDGWebSocket (Core/HSDGWebSocket.m): how frames get from the socket to *)
(* didReceiveMessage:.  The event handler of the read source announces     *)
(* data and starts a read; the completion block of the read decodes the    *)
(* first frame of what was read and prepares for the next.  Both run on    *)
(* global queues, so their steps interleave; they share the properties     *)
(* socketFDBytesAvailable and isReadSourceSuspended and the suspension of  *)
(* the source itself.                                                      *)
(*                                                                         *)
(* The client sends frames once it has the response headers.  Frames       *)
(* arrive whole.  A client that shuts its side down sends nothing more:    *)
(* the event without data that this causes is ignored (line 283).          *)
(***************************************************************************)
EXTENDS Integers, Sequences

CONSTANTS
    Frames,   \* the frames a client may send: text, and others
    Text,     \* a text frame that is decoded; every other frame closes
    Readers,  \* the reads that can be in flight
    MaxFrames \* bound: how many frames a client sends

ASSUME FramesAssumption == Text \in Frames
ASSUME MaxFramesAssumption == MaxFrames \in Nat

VARIABLES
    sent,      \* the frames the client has sent
    peer,      \* the client's side of the socket
    read,      \* how many of the frames were read
    socket,    \* the file descriptor
    source,    \* how often the read source is suspended
    event,     \* where the event handler is in doReadData:
    avail,     \* socketFDBytesAvailable is not 0
    suspended, \* isReadSourceSuspended
    readers,   \* where each read is, up to the end of handleReceivedData:
    head,      \* the first frame of the data of each read
    received,  \* the frames that didReceiveMessage: was called with
    crashed    \* the process has crashed

clientVars == <<sent, peer>>
sourceVars == <<source, event, suspended>>
readVars   == <<read, avail, readers, head>>
vars == <<clientVars, sourceVars, readVars, socket, received, crashed>>

\* The source is resumed and the response headers are sent.
Init ==
    /\ sent = <<>>
    /\ peer = "open"
    /\ read = 0
    /\ socket = "open"
    /\ source = 0
    /\ event = "idle"
    /\ avail = FALSE
    /\ suspended = FALSE
    /\ readers = [r \in Readers |-> "idle"]
    /\ head = [r \in Readers |-> 0]
    /\ received = <<>>
    /\ crashed = FALSE

-----------------------------------------------------------------------------
ClientSends ==
    /\ peer = "open" /\ Len(sent) < MaxFrames
    /\ \E f \in Frames : sent' = Append(sent, f)
    /\ UNCHANGED <<peer, sourceVars, readVars, socket, received, crashed>>

ClientResets ==
    /\ peer = "open"
    /\ peer' = "reset"
    /\ UNCHANGED <<sent, sourceVars, readVars, socket, received, crashed>>

-----------------------------------------------------------------------------
(* The event handler of the read source, doReadData:.                      *)

\* The event handler, in a process that has not crashed.
At(step) == ~crashed /\ event = step

\* The source fires as long as there is data, and never while its handler runs.
SourceFires ==
    /\ At("idle") /\ source = 0
    /\ socket = "open" /\ peer = "open" /\ read < Len(sent)
    /\ event' = "check"
    /\ UNCHANGED <<clientVars, source, suspended, readVars, socket, received, crashed>>

\* The first event starts a read; one that comes before the data it announced
\* was handled suspends the source.
CheckAvailable ==
    /\ At("check")
    /\ \/ /\ ~avail
          /\ avail' = TRUE
          /\ \E r \in Readers :
                readers[r] = "idle" /\ readers' = [readers EXCEPT ![r] = "reading"]
          /\ event' = "idle"
       \/ /\ avail
          /\ event' = "suspend"
          /\ UNCHANGED <<avail, readers>>
    /\ UNCHANGED <<clientVars, source, suspended, read, head, socket, received, crashed>>

\* dispatch_suspend.
SuspendSource ==
    /\ At("suspend")
    /\ source' = source + 1
    /\ event' = "flag"
    /\ UNCHANGED <<clientVars, suspended, readVars, socket, received, crashed>>

SetSuspended ==
    /\ At("flag")
    /\ suspended' = TRUE
    /\ event' = "idle"
    /\ UNCHANGED <<clientVars, source, readVars, socket, received, crashed>>

-----------------------------------------------------------------------------
(* The completion block of the read, handleReceivedData:.                  *)

Step(r, from, to) ==
    ~crashed /\ readers[r] = from /\ readers' = [readers EXCEPT ![r] = to]

\* All that is there is read; a read that fails passes nil, whose bytes are
\* dereferenced.
ReadCompletes(r) ==
    /\ \/ /\ peer = "open" /\ socket = "open"
          /\ Step(r, "reading", "handling")
          /\ \E n \in 1..(Len(sent) - read) :
                read' = read + n /\ head' = [head EXCEPT ![r] = read + 1]
          /\ UNCHANGED crashed
       \/ /\ peer = "reset" \/ socket = "closed"
          /\ Step(r, "reading", "idle")
          /\ crashed' = TRUE
          /\ UNCHANGED <<read, head>>
    /\ UNCHANGED <<clientVars, sourceVars, avail, socket, received>>

\* Mutant: the kind of the frame is not looked at.
HandleFrame_DeliversAll(r) ==
    /\ Step(r, "handling", "checkFlag")
    /\ received' = Append(received, head[r])
    /\ UNCHANGED <<clientVars, sourceVars, read, avail, head, socket, crashed>>

\* Mutant: a frame that closes the WebSocket makes way for the next event too.
HandleFrame_ClearsOnClose(r) ==
    /\ \/ /\ Step(r, "handling", "checkFlag")
          /\ sent[head[r]] = Text
          /\ received' = Append(received, head[r])
          /\ UNCHANGED <<socket, avail>>
       \/ /\ Step(r, "handling", "idle")
          /\ sent[head[r]] # Text
          /\ socket' = "closed"
          /\ avail' = FALSE
          /\ UNCHANGED received
    /\ UNCHANGED <<clientVars, sourceVars, read, head, crashed>>

\* The first frame of the data is a message or closes the WebSocket; frames
\* behind it are dropped.
HandleFrame(r) ==
    /\ \/ /\ Step(r, "handling", "checkFlag")
          /\ sent[head[r]] = Text
          /\ received' = Append(received, head[r])
          /\ UNCHANGED socket
       \/ /\ Step(r, "handling", "idle")
          /\ sent[head[r]] # Text
          /\ socket' = "closed"
          /\ UNCHANGED received
    /\ UNCHANGED <<clientVars, sourceVars, read, avail, head, crashed>>

\* Mutant: socketFDBytesAvailable is reset before the source is resumed.
CheckFlag_ClearsFirst(r) ==
    /\ IF suspended
       THEN Step(r, "checkFlag", "resume") /\ avail' = FALSE
       ELSE Step(r, "checkFlag", "idle") /\ UNCHANGED avail
    /\ UNCHANGED <<clientVars, sourceVars, read, head, socket, received, crashed>>

\* Unless the source is marked as suspended, nothing more is done.
CheckFlag(r) ==
    /\ IF suspended THEN Step(r, "checkFlag", "resume") ELSE Step(r, "checkFlag", "idle")
    /\ UNCHANGED <<clientVars, sourceVars, read, avail, head, socket, received, crashed>>

\* dispatch_resume, which aborts the process when the source is not suspended.
ResumeSource(r) ==
    /\ Step(r, "resume", "clear")
    /\ \/ source > 0 /\ source' = source - 1 /\ UNCHANGED crashed
       \/ source = 0 /\ crashed' = TRUE /\ UNCHANGED source
    /\ UNCHANGED <<clientVars, event, suspended, read, avail, head, socket, received>>

ClearAvailable(r) ==
    /\ Step(r, "clear", "idle")
    /\ avail' = FALSE
    /\ UNCHANGED <<clientVars, sourceVars, read, head, socket, received, crashed>>

-----------------------------------------------------------------------------
Client == ClientSends \/ ClientResets

EventHandler == SourceFires \/ CheckAvailable \/ SuspendSource \/ SetSuspended

Reader(r) ==
    \/ ReadCompletes(r) \/ HandleFrame(r)
    \/ CheckFlag(r) \/ ResumeSource(r) \/ ClearAvailable(r)

Next == Client \/ EventHandler \/ \E r \in Readers : Reader(r)

Spec == Init /\ [][Next]_vars

-----------------------------------------------------------------------------
(* Properties.                                                             *)

ReaderStep == {"idle", "reading", "handling", "checkFlag", "resume", "clear"}

\* The shape of every variable.
TypeOK ==
    /\ sent \in Seq(Frames)
    /\ peer \in {"open", "reset"}
    /\ read \in 0..Len(sent)
    /\ socket \in {"open", "closed"}
    /\ source \in Nat
    /\ event \in {"idle", "check", "suspend", "flag"}
    /\ avail \in BOOLEAN
    /\ suspended \in BOOLEAN
    /\ readers \in [Readers -> ReaderStep]
    /\ head \in [Readers -> 0..Len(sent)]
    /\ received \in Seq(1..Len(sent))
    /\ crashed \in BOOLEAN

Active(r) == readers[r] # "idle"

\* Reads complete on a concurrent queue, so their data stays in order only
\* because the next read is not started before the last one is handled.
OneReadAtATime == \A r, s \in Readers : Active(r) /\ Active(s) => r = s

\* After closeWebSocket no read is started on the number of a descriptor that
\* may be another connection's by now (lines 139-153, 285-291).
ReadsOwnSocket == socket = "closed" => \A r \in Readers : readers[r] # "reading"

\* The WebSocket implements the stream of messages its subclasses rely on.
Stream == INSTANCE MessageStream WITH open <- (socket = "open")
DeliversStream == Stream!Spec

\* A read is announced for as long as it is in flight, and for ever once it
\* closed the WebSocket.
AvailableOK ==
    /\ \A r \in Readers : Active(r) => avail /\ socket = "open"
    /\ socket = "closed" => avail

\* The event handler and the suspension of the source exclude each other.
SourceOK ==
    /\ source \in {0, 1}
    /\ event \in {"check", "suspend"} => source = 0

\* What was delivered was read, and before the data being handled.
ReceivedOK ==
    /\ Stream!Latest <= read
    /\ \A r \in Readers : readers[r] = "handling" => head[r] \in (Stream!Latest + 1)..read

IInv == TypeOK /\ OneReadAtATime /\ AvailableOK /\ SourceOK /\ ReceivedOK

-----------------------------------------------------------------------------
(* Statements of the comments that the code does not meet.                 *)

Idle == event = "idle" /\ \A r \in Readers : ~Active(r)

\* After a message, "current reading finished, prepare for the next read event"
\* (HSDGWebSocket.m:386): the next event can come, and will start a read.
ReadyForNext == Idle /\ ~crashed /\ socket = "open" => source = 0 /\ ~avail
================================================================================
