---------------------------- MODULE WebSocket_proofs ---------------------------
(* For any frames, and any number of them and of reads, HSDGWebSocket handles *)
(* one read at a time and implements the stream of messages its subclasses    *)
(* rely on.                                                                   *)
EXTENDS WebSocket, SequenceTheorems, TLAPS

-----------------------------------------------------------------------------
(* The invariant.                                                           *)

LEMMA IInvInit == Init => IInv
<1> SUFFICES ASSUME Init PROVE IInv
  OBVIOUS
<1>1. TypeOK
  <2>1. Len(sent) = 0 /\ sent \in Seq(Frames) /\ received \in Seq(1..0)
    BY DEF Init
  <2>2. /\ readers \in [Readers -> ReaderStep] /\ head \in [Readers -> 0..0]
        /\ read \in 0..0 /\ source \in Nat
    BY DEF Init, ReaderStep
  <2> QED
    BY <2>1, <2>2 DEF Init, TypeOK
<1>2. OneReadAtATime /\ AvailableOK /\ SourceOK
  BY DEF Init, OneReadAtATime, Active, AvailableOK, SourceOK
<1>3. ReceivedOK
  BY DEF Init, ReceivedOK, Stream!Latest
<1> QED
  BY <1>1, <1>2, <1>3 DEF IInv

\* The last message delivered was sent.
LEMMA LatestSent ==
  ASSUME TypeOK
  PROVE  Stream!Latest \in 0..Len(sent)
<1>1. CASE received = <<>>
  BY <1>1 DEF TypeOK, Stream!Latest
<1>2. CASE received # <<>>
  <2>1. Len(received) \in 1..Len(received)
    BY <1>2 DEF TypeOK
  <2> QED
    BY <1>2, <2>1 DEF TypeOK, Stream!Latest
<1> QED
  BY <1>1, <1>2

\* A step of one read leaves the others alone.
LEMMA OtherReaders ==
  ASSUME TypeOK, NEW r \in Readers, NEW from \in ReaderStep, NEW to \in ReaderStep,
         Step(r, from, to)
  PROVE  /\ readers' \in [Readers -> ReaderStep]
         /\ readers[r] = from /\ readers'[r] = to
         /\ \A s \in Readers : s # r => readers'[s] = readers[s]
BY DEF Step, TypeOK

LEMMA ClientStep == IInv /\ Client => IInv'
<1> SUFFICES ASSUME IInv, Client PROVE IInv'
  OBVIOUS
<1> USE DEF IInv
<1>1. CASE ClientSends
  <2> USE DEF clientVars, sourceVars, readVars
  <2>1. PICK f \in Frames : sent' = Append(sent, f)
    BY <1>1 DEF ClientSends
  <2>2. sent' \in Seq(Frames) /\ Len(sent') = Len(sent) + 1 /\ Len(sent) \in Nat
    BY <2>1 DEF TypeOK
  <2>3. UNCHANGED <<peer, source, event, suspended, read, avail, readers, head, socket, received, crashed>>
    BY <1>1 DEF ClientSends
  <2>4. 0..Len(sent) \subseteq 0..Len(sent') /\ 1..Len(sent) \subseteq 1..Len(sent')
    BY <2>2
  <2>5. received \in Seq(1..Len(sent'))
    BY <2>4, SeqMonotonic DEF TypeOK
  <2>6. TypeOK'
    BY <2>2, <2>3, <2>4, <2>5 DEF TypeOK
  <2>7. ReceivedOK'
    BY <2>3 DEF ReceivedOK, Stream!Latest
  <2> QED
    BY <2>3, <2>6, <2>7 DEF OneReadAtATime, Active, AvailableOK, SourceOK
<1>2. CASE ClientResets
  <2> USE DEF clientVars, sourceVars, readVars
  <2>1. TypeOK'
    BY <1>2 DEF ClientResets, TypeOK
  <2>2. ReceivedOK'
    BY <1>2 DEF ClientResets, ReceivedOK, Stream!Latest
  <2> QED
    BY <1>2, <2>1, <2>2 DEF ClientResets, OneReadAtATime, Active, AvailableOK, SourceOK
<1> QED
  BY <1>1, <1>2 DEF Client

\* The event handler starts a read only when none is active.
LEMMA EventHandlerStep == IInv /\ EventHandler => IInv'
<1> SUFFICES ASSUME IInv, EventHandler PROVE IInv'
  OBVIOUS
<1> USE DEF IInv, clientVars, sourceVars, readVars, At
<1>1. UNCHANGED <<clientVars, read, head, socket, received, crashed>>
  BY DEF EventHandler, SourceFires, CheckAvailable, SuspendSource, SetSuspended
<1>2. Stream!Latest' = Stream!Latest
  BY <1>1 DEF Stream!Latest
<1>3. ASSUME UNCHANGED <<avail, readers>>, event' \in {"idle", "check", "suspend", "flag"},
             source' \in {0, 1}, suspended' \in BOOLEAN,
             event' \in {"check", "suspend"} => source' = 0
      PROVE  IInv'
  <2>1. TypeOK'
    BY <1>1, <1>3 DEF TypeOK
  <2> QED
    BY <1>1, <1>2, <1>3, <2>1 DEF OneReadAtATime, Active, AvailableOK, SourceOK, ReceivedOK
<1>4. CASE SourceFires
  BY <1>3, <1>4 DEF SourceFires, TypeOK
<1>5. CASE CheckAvailable
  <2>1. CASE avail
    BY <1>3, <1>5, <2>1 DEF CheckAvailable, SourceOK, TypeOK
  <2>2. CASE ~avail
    <3>1. PICK r \in Readers :
             readers[r] = "idle" /\ readers' = [readers EXCEPT ![r] = "reading"]
      BY <1>5, <2>2 DEF CheckAvailable
    <3>2. avail' = TRUE /\ event' = "idle" /\ UNCHANGED <<source, suspended>>
      BY <1>5, <2>2 DEF CheckAvailable
    <3>3. \A s \in Readers : ~Active(s)
      BY <2>2 DEF AvailableOK
    <3>4. /\ readers' \in [Readers -> ReaderStep] /\ readers'[r] = "reading"
          /\ \A s \in Readers : s # r => readers'[s] = readers[s]
      BY <3>1 DEF TypeOK, ReaderStep
    <3>5. TypeOK'
      BY <1>1, <3>2, <3>4 DEF TypeOK
    <3>6. \A s \in Readers : Active(s)' => s = r
      BY <3>3, <3>4 DEF Active
    <3>7. socket = "open"
      BY <2>2 DEF AvailableOK, TypeOK
    <3>8. ReceivedOK'
      BY <1>1, <1>2, <3>4, <3>6 DEF ReceivedOK, Active
    <3> QED
      BY <1>1, <3>2, <3>5, <3>6, <3>7, <3>8 DEF OneReadAtATime, AvailableOK, SourceOK
  <2> QED
    BY <2>1, <2>2 DEF TypeOK
<1>6. CASE SuspendSource
  BY <1>3, <1>6 DEF SuspendSource, SourceOK, TypeOK
<1>7. CASE SetSuspended
  BY <1>3, <1>7 DEF SetSuspended, SourceOK, TypeOK
<1> QED
  BY <1>4, <1>5, <1>6, <1>7 DEF EventHandler

\* The messages delivered with one more.
LEMMA Delivered ==
  ASSUME TypeOK, NEW i \in 1..Len(sent), received' = Append(received, i), UNCHANGED sent
  PROVE  received' \in Seq(1..Len(sent)) /\ Stream!Latest' = i
<1>1. /\ received' \in Seq(1..Len(sent)) /\ received' # <<>>
      /\ received'[Len(received')] = i
  BY DEF TypeOK
<1> QED
  BY <1>1 DEF Stream!Latest

\* A frame is handled by the only active read, whose data is the latest.
LEMMA ReaderStepKeeps == ASSUME NEW r \in Readers PROVE IInv /\ Reader(r) => IInv'
<1> SUFFICES ASSUME IInv, Reader(r) PROVE IInv'
  OBVIOUS
<1> USE DEF IInv, clientVars, sourceVars, readVars, ReaderStep
<1>1. PICK from \in ReaderStep \ {"idle"}, to \in ReaderStep : Step(r, from, to)
  BY DEF Reader, ReadCompletes, HandleFrame, CheckFlag, ResumeSource, ClearAvailable
<1>2. /\ readers' \in [Readers -> ReaderStep]
      /\ readers[r] = from /\ readers'[r] = to
      /\ \A s \in Readers : s # r => readers'[s] = readers[s]
  BY <1>1, OtherReaders DEF ReaderStep
<1>3. /\ Active(r) /\ avail /\ socket = "open"
      /\ \A s \in Readers : s # r => ~Active(s) /\ ~Active(s)'
  BY <1>1, <1>2 DEF Active, OneReadAtATime, AvailableOK
<1>4. OneReadAtATime'
  BY <1>3 DEF OneReadAtATime
<1>5. UNCHANGED <<sent, peer, event, suspended>>
  BY DEF Reader, ReadCompletes, HandleFrame, CheckFlag, ResumeSource, ClearAvailable
<1>6. Stream!Latest \in 0..Len(sent) /\ Stream!Latest <= read
  BY LatestSent DEF ReceivedOK
<1>7. ASSUME UNCHANGED <<read, socket, source, avail, head, received>>, crashed' \in BOOLEAN,
             to # "handling"
      PROVE  IInv'
  <2>1. TypeOK' /\ AvailableOK' /\ SourceOK'
    BY <1>2, <1>3, <1>5, <1>7 DEF TypeOK, AvailableOK, SourceOK, Active
  <2>2. ReceivedOK'
    BY <1>2, <1>3, <1>6, <1>7 DEF ReceivedOK, Active, Stream!Latest
  <2> QED
    BY <1>4, <2>1, <2>2
<1>8. CASE ReadCompletes(r)
  <2>1. CASE peer = "reset" \/ socket = "closed"
    <3>1. ~(peer = "open" /\ socket = "open")
      BY <2>1
    <3>2. to = "idle" /\ crashed' = TRUE
          /\ UNCHANGED <<read, socket, source, avail, head, received>>
      BY <1>2, <1>8, <3>1 DEF ReadCompletes, Step, TypeOK
    <3> QED
      BY <1>7, <3>2
  <2>2. CASE peer = "open" /\ socket = "open"
    <3>1. PICK n \in 1..(Len(sent) - read) :
             read' = read + n /\ head' = [head EXCEPT ![r] = read + 1]
      BY <1>8, <2>2 DEF ReadCompletes
    <3>2. UNCHANGED <<socket, source, avail, received, crashed>>
      BY <1>8, <2>2 DEF ReadCompletes
    <3>3. /\ read \in Nat /\ Len(sent) \in Nat /\ n \in Nat /\ n > 0
          /\ read' \in 0..Len(sent) /\ read + 1 \in 0..Len(sent) /\ read < read'
      BY <3>1 DEF TypeOK
    <3>4. head' \in [Readers -> 0..Len(sent)] /\ head'[r] = read + 1
      BY <3>1, <3>3 DEF TypeOK
    <3>5. TypeOK' /\ AvailableOK' /\ SourceOK'
      BY <1>2, <1>3, <1>5, <3>2, <3>3, <3>4 DEF TypeOK, AvailableOK, SourceOK, Active
    <3>6. Stream!Latest' = Stream!Latest
      BY <3>2 DEF Stream!Latest
    <3>7. head'[r] \in (Stream!Latest + 1)..read'
      BY <1>6, <3>1, <3>3, <3>4
    <3>8. ReceivedOK'
      BY <1>2, <1>3, <1>6, <3>3, <3>6, <3>7 DEF ReceivedOK, Active
    <3> QED
      BY <1>4, <3>5, <3>8
  <2> QED
    BY <2>1, <2>2 DEF TypeOK
<1>9. CASE HandleFrame(r)
  <2>1. from = "handling" /\ head[r] \in (Stream!Latest + 1)..read /\ head[r] \in 1..Len(sent)
    BY <1>2, <1>6, <1>9 DEF HandleFrame, Step, ReceivedOK, TypeOK
  <2>2. CASE sent[head[r]] = Text
    <3>1. /\ received' = Append(received, head[r]) /\ to = "checkFlag"
          /\ UNCHANGED <<sent, source, read, avail, head, socket, crashed>>
      BY <1>2, <1>9, <2>2 DEF HandleFrame, Step, TypeOK
    <3>2. received' \in Seq(1..Len(sent)) /\ Stream!Latest' = head[r]
      BY <2>1, <3>1, Delivered
    <3>3. TypeOK' /\ AvailableOK' /\ SourceOK'
      BY <1>2, <1>3, <1>5, <3>1, <3>2 DEF TypeOK, AvailableOK, SourceOK, Active
    <3>4. ReceivedOK'
      BY <1>2, <1>3, <2>1, <3>1, <3>2 DEF ReceivedOK, Active, TypeOK
    <3> QED
      BY <1>4, <3>3, <3>4
  <2>3. CASE sent[head[r]] # Text
    <3>1. /\ socket' = "closed" /\ to = "idle"
          /\ UNCHANGED <<sent, source, read, avail, head, received, crashed>>
      BY <1>2, <1>9, <2>3 DEF HandleFrame, Step, TypeOK
    <3>2. \A s \in Readers : ~Active(s)'
      BY <1>2, <1>3, <3>1 DEF Active
    <3>3. TypeOK' /\ AvailableOK' /\ SourceOK'
      BY <1>2, <1>3, <1>5, <3>1, <3>2 DEF TypeOK, AvailableOK, SourceOK
    <3>4. ReceivedOK'
      BY <1>6, <3>1, <3>2 DEF ReceivedOK, Active, Stream!Latest
    <3> QED
      BY <1>4, <3>3, <3>4
  <2> QED
    BY <2>2, <2>3
<1>10. CASE CheckFlag(r)
  <2>1. to # "handling" /\ UNCHANGED <<read, socket, source, avail, head, received, crashed>>
    BY <1>2, <1>10 DEF CheckFlag, Step, TypeOK
  <2> QED
    BY <1>7, <2>1 DEF TypeOK
<1>11. CASE ResumeSource(r)
  <2>1. /\ to = "clear" /\ source' \in {0, 1} /\ source' <= source /\ crashed' \in BOOLEAN
        /\ UNCHANGED <<read, socket, avail, head, received>>
    <3>1. to = "clear" /\ UNCHANGED <<read, socket, avail, head, received>>
      BY <1>2, <1>11 DEF ResumeSource, Step, TypeOK
    <3>2. source' \in {0, 1} /\ source' <= source
      BY <1>11 DEF ResumeSource, SourceOK
    <3>3. crashed' \in BOOLEAN
      BY <1>11 DEF ResumeSource, TypeOK
    <3> QED
      BY <3>1, <3>2, <3>3
  <2>2. TypeOK' /\ AvailableOK' /\ SourceOK'
    BY <1>2, <1>3, <1>5, <2>1 DEF TypeOK, AvailableOK, SourceOK, Active
  <2>3. ReceivedOK'
    BY <1>2, <1>3, <1>6, <2>1 DEF ReceivedOK, Active, Stream!Latest
  <2> QED
    BY <1>4, <2>2, <2>3
<1>12. CASE ClearAvailable(r)
  <2>1. /\ to = "idle" /\ avail' = FALSE
        /\ UNCHANGED <<read, socket, source, head, received, crashed>>
    BY <1>2, <1>12 DEF ClearAvailable, Step, TypeOK
  <2>2. \A s \in Readers : ~Active(s)'
    BY <1>2, <1>3, <2>1 DEF Active
  <2>3. TypeOK' /\ AvailableOK' /\ SourceOK'
    BY <1>2, <1>3, <1>5, <2>1, <2>2 DEF TypeOK, AvailableOK, SourceOK
  <2>4. ReceivedOK'
    BY <1>6, <2>1, <2>2 DEF ReceivedOK, Active, Stream!Latest
  <2> QED
    BY <1>4, <2>3, <2>4
<1> QED
  BY <1>8, <1>9, <1>10, <1>11, <1>12 DEF Reader

LEMMA IInvStep == IInv /\ [Next]_vars => IInv'
<1>1. IInv /\ UNCHANGED vars => IInv'
  BY DEF IInv, vars, clientVars, sourceVars, readVars, TypeOK, OneReadAtATime, Active,
         AvailableOK, SourceOK, ReceivedOK, Stream!Latest
<1> QED
  BY <1>1, ClientStep, EventHandlerStep, ReaderStepKeeps DEF Next

\* The inductive invariant: socketFDBytesAvailable is set for as long as a read
\* is in flight or its data is handled (lines 282-300, 321-393).
THEOREM Invariance == Spec => []IInv
BY IInvInit, IInvStep, PTL DEF Spec

\* Although reads complete on a concurrent queue, one is handled at a time
\* (lines 285-291, 385-389).
THEOREM ReadsAreSerial == Spec => []OneReadAtATime
<1>1. IInv => OneReadAtATime
  BY DEF IInv
<1> QED
  BY <1>1, Invariance, PTL

\* Nothing is read from the number of a descriptor that was closed
\* (lines 139-153, 285-291).
THEOREM NoReadAfterClose == Spec => []ReadsOwnSocket
<1>1. IInv => ReadsOwnSocket
  BY DEF IInv, AvailableOK, ReadsOwnSocket, Active, TypeOK
<1> QED
  BY <1>1, Invariance, PTL

-----------------------------------------------------------------------------
(* The stream of messages.                                                  *)

\* Every step of the WebSocket is a step of the stream, or changes nothing of it.
LEMMA StreamStep == IInv /\ [Next]_vars => [Stream!Next]_(Stream!vars)
<1> SUFFICES ASSUME IInv, [Next]_vars PROVE Stream!Next \/ UNCHANGED Stream!vars
  BY DEF Stream!Next, Stream!vars
<1> USE DEF clientVars, sourceVars, readVars
<1>1. CASE UNCHANGED vars
  BY <1>1 DEF vars, Stream!vars
<1>2. CASE ClientSends
  BY <1>2 DEF ClientSends, Stream!Next, Stream!Send
<1>3. CASE ClientResets
  BY <1>3 DEF ClientResets, Stream!vars
<1>4. CASE EventHandler
  BY <1>4 DEF EventHandler, SourceFires, CheckAvailable, SuspendSource, SetSuspended, Stream!vars
<1>5. ASSUME NEW r \in Readers, HandleFrame(r)
      PROVE  Stream!Next
  <2>1. readers[r] = "handling" /\ socket = "open"
    BY <1>5 DEF HandleFrame, Step, IInv, AvailableOK, Active
  <2>2. head[r] \in (Stream!Latest + 1)..Len(sent)
    BY <2>1, LatestSent DEF IInv, ReceivedOK, TypeOK
  <2>3. CASE sent[head[r]] = Text
    BY <1>5, <2>1, <2>2, <2>3 DEF HandleFrame, Stream!Next, Stream!Receive
  <2>4. CASE sent[head[r]] # Text
    BY <1>5, <2>1, <2>2, <2>4 DEF HandleFrame, Stream!Next, Stream!Close
  <2> QED
    BY <2>3, <2>4
<1>6. ASSUME NEW r \in Readers,
             ReadCompletes(r) \/ CheckFlag(r) \/ ResumeSource(r) \/ ClearAvailable(r)
      PROVE  UNCHANGED Stream!vars
  BY <1>6 DEF ReadCompletes, CheckFlag, ResumeSource, ClearAvailable, Stream!vars
<1> QED
  BY <1>1, <1>2, <1>3, <1>4, <1>5, <1>6 DEF Next, Client, Reader

\* didReceiveMessage: is called with text frames in the order they were sent,
\* none twice, until didClose (lines 139-153, 321-393).
THEOREM Implements == Spec => DeliversStream
<1>1. Init => Stream!Init
  BY DEF Init, Stream!Init
<1> QED
  BY <1>1, StreamStep, Invariance, PTL DEF Spec, DeliversStream, Stream!Spec
================================================================================
