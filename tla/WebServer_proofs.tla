---------------------------- MODULE WebServer_proofs ----------------------------
(* Safety of HSDGWebServer for every set of connections, every set of option  *)
(* dictionaries and every length of the main queue.                           *)
EXTENDS WebServer, FiniteSetTheorems, TLAPS

USE DEF Check

\* The initial state has the shape TypeOK gives.
LEMMA TypeInit == Init => TypeOK
<1> USE DEF Source, Block, Main, Phase, Acceptor, Idle
<1> SUFFICES ASSUME Init PROVE TypeOK
  OBVIOUS
<1>1. mainQueue \in Seq(Block)
  BY DEF Init
<1>2. phase \in [Conns -> Phase] /\ connections \subseteq Conns
  BY DEF Init
<1>3. acceptor \in Acceptor \union {Idle}
  BY DEF Init
<1>4. /\ options \in OptionSets \union {NoOptions}
      /\ source4 \in Source
      /\ appState \in {"foreground", "background"}
      /\ main \in Main
      /\ activeConnections \in Int
  BY DEF Init
<1>5. /\ suspendInBackground \in BOOLEAN /\ coalesce \in BOOLEAN
      /\ connected \in BOOLEAN /\ disconnectTimer \in BOOLEAN
      /\ backgroundTask \in BOOLEAN /\ aborted \in BOOLEAN
  BY DEF Init
<1> QED
  BY <1>1, <1>2, <1>3, <1>4, <1>5 DEF TypeOK

\* Every step keeps the shape of every variable.
LEMMA TypeStep == TypeOK /\ [Next]_vars => TypeOK'
<1> USE OptionSetsAssumption DEF Source, Block, Main, Phase, Acceptor, Idle
<1> SUFFICES ASSUME TypeOK, [Next]_vars PROVE TypeOK'
  OBVIOUS
<1> USE DEF TypeOK, optionVars, connVars, stateVars
<1>1. ASSUME NEW opts \in OptionSets, Start(opts) PROVE TypeOK'
  BY <1>1 DEF Start, Listen
<1>2. CASE Stop
  BY <1>2 DEF Stop, CancelSource
<1>3. CASE FinishStop
  BY <1>3 DEF FinishStop
<1>4. CASE EnterBackground
  BY <1>4 DEF EnterBackground, CancelSource
<1>5. CASE EnterForeground
  BY <1>5 DEF EnterForeground, Listen, Observing
<1>6. CASE RunBlock
  <2>1. mainQueue' \in Seq(Block)
    BY <1>6 DEF RunBlock
  <2>2. Head(mainQueue) \in Block
    BY <1>6 DEF RunBlock
  <2>3. CASE ConnectBlock
    BY <1>6, <2>1, <2>3 DEF RunBlock, ConnectBlock
  <2>4. CASE DisconnectBlock
    BY ZenonT(30), <1>6, <2>1, <2>4
    DEF RunBlock, DisconnectBlock, DidDisconnect, EndBackgroundTask, CancelSource
  <2>5. CASE StoppedBlock
    BY <1>6, <2>1, <2>5
    DEF RunBlock, StoppedBlock, DidDisconnect, EndBackgroundTask, CancelSource
  <2> QED
    BY <1>6, <2>2, <2>3, <2>4, <2>5 DEF RunBlock
<1>7. CASE TimerFires
  BY <1>7 DEF TimerFires, DidDisconnect, EndBackgroundTask, CancelSource
<1>8. CASE ExpireBackgroundTask
  BY <1>8 DEF ExpireBackgroundTask, EndBackgroundTask, CancelSource
<1>9. ASSUME NEW c \in Conns, Accept(c) PROVE TypeOK'
  BY <1>9 DEF Accept
<1>10. CASE WillStartConnection
  BY <1>10 DEF WillStartConnection
<1>11. CASE AddConnection
  BY <1>11 DEF AddConnection
<1>12. CASE CancelHandler
  BY <1>12 DEF CancelHandler
<1>13. ASSUME NEW c \in Conns, DidEndConnection(c) PROVE TypeOK'
  BY <1>13 DEF DidEndConnection
<1>14. ASSUME NEW c \in Conns, Dealloc(c) PROVE TypeOK'
  BY <1>14 DEF Dealloc
<1>15. CASE UNCHANGED vars
  BY <1>15 DEF vars
<1> QED
  BY <1>1, <1>2, <1>3, <1>4, <1>5, <1>6, <1>7, <1>8, <1>9, <1>10, <1>11, <1>12,
     <1>13, <1>14, <1>15 DEF Next, MainThread, EventHandler

\* Every variable of the server keeps its shape.
THEOREM TypeCorrect == Spec => []TypeOK
BY TypeInit, TypeStep, PTL DEF Spec

-----------------------------------------------------------------------------
(* The main queue: what posting a block and running one do to QueueOK.      *)

\* Whoever posts a block that the new number of connections accounts for keeps
\* the main queue explained.
LEMMA PostExplained ==
  ASSUME mainQueue \in Seq(Block), QueueOK,
         NEW b \in Block, mainQueue' = Append(mainQueue, b),
         (connected' /\ ~disconnectTimer') = (connected /\ ~disconnectTimer),
         b = "connect" => ~(activeConnections > 0) /\ activeConnections' > 0,
         b = "disconnect" => activeConnections > 0 /\ ~(activeConnections' > 0),
         b = "stopped" => (activeConnections' > 0) = (activeConnections > 0)
  PROVE  QueueOK'
<1> DEFINE n == Len(mainQueue)
<1>1. PICK f \in [0..n -> BOOLEAN] : Explains(f)
  BY DEF QueueOK
<1>g. PICK g : g = [i \in 0..(n + 1) |-> IF i = n + 1 THEN activeConnections' > 0 ELSE f[i]]
  OBVIOUS
<1>2. n \in Nat /\ Len(mainQueue') = n + 1
  OBVIOUS
<1>3. g \in [0..Len(mainQueue') -> BOOLEAN]
  BY <1>1, <1>2, <1>g
<1>4. g[n + 1] = (activeConnections' > 0) /\ \A i \in 0..n : g[i] = f[i]
  BY <1>2, <1>g
<1>5. g[0] = (connected' /\ ~disconnectTimer')
  BY <1>1, <1>2, <1>4 DEF Explains
<1>6. ASSUME NEW i \in 1..Len(mainQueue')
      PROVE  /\ mainQueue'[i] = "connect" => ~g[i - 1] /\ g[i]
             /\ mainQueue'[i] = "disconnect" => g[i - 1] /\ ~g[i]
             /\ mainQueue'[i] = "stopped" => g[i] = g[i - 1]
  <2>1. CASE i \in 1..n
    <3>1. mainQueue'[i] = mainQueue[i] /\ g[i] = f[i] /\ g[i - 1] = f[i - 1]
      BY <1>2, <1>4, <2>1
    <3> QED
      BY <1>1, <2>1, <3>1 DEF Explains
  <2>2. CASE i = n + 1
    <3>1. mainQueue'[i] = b /\ g[i] = (activeConnections' > 0)
      BY <1>2, <1>4, <2>2
    <3>2. g[i - 1] = (activeConnections > 0)
      BY <1>1, <1>2, <1>4, <2>2 DEF Explains
    <3> QED
      BY <3>1, <3>2
  <2> QED
    BY <1>2, <2>1, <2>2
<1>7. Explains(g)'
  BY <1>2, <1>4, <1>5, <1>6 DEF Explains
<1> QED
  BY <1>3, <1>7 DEF QueueOK

\* Running the oldest block keeps the main queue explained when the connected
\* state becomes the one the block stands for.
LEMMA RunExplained ==
  ASSUME mainQueue \in Seq(Block), mainQueue # <<>>, QueueOK,
         mainQueue' = Tail(mainQueue), activeConnections' = activeConnections,
         Head(mainQueue) = "connect" => connected' /\ ~disconnectTimer',
         Head(mainQueue) = "disconnect" => ~(connected' /\ ~disconnectTimer'),
         Head(mainQueue) = "stopped" =>
             (connected' /\ ~disconnectTimer') = (connected /\ ~disconnectTimer)
  PROVE  QueueOK'
<1> DEFINE n == Len(mainQueue)
<1>1. PICK f \in [0..n -> BOOLEAN] : Explains(f)
  BY DEF QueueOK
<1>g. PICK g : g = [i \in 0..(n - 1) |-> f[i + 1]]
  OBVIOUS
<1>2. n \in Nat \ {0} /\ Len(mainQueue') = n - 1
  OBVIOUS
<1>3. g \in [0..Len(mainQueue') -> BOOLEAN]
  BY <1>1, <1>2, <1>g
<1>4. \A i \in 0..(n - 1) : g[i] = f[i + 1]
  BY <1>2, <1>g
<1>5. \A i \in 1..(n - 1) : mainQueue'[i] = mainQueue[i + 1]
  BY <1>2
<1>6. g[0] = (connected' /\ ~disconnectTimer')
  <2>1. g[0] = f[1] /\ 1 \in 1..n
    BY <1>2, <1>4
  <2>2. mainQueue[1] = Head(mainQueue) /\ Head(mainQueue) \in Block
    BY <1>2
  <2>3. f[1] = (connected' /\ ~disconnectTimer')
    BY <1>1, <1>2, <2>1, <2>2 DEF Explains, Block
  <2> QED
    BY <2>1, <2>3
<1>7. g[n - 1] = (activeConnections' > 0)
  <2>1. g[n - 1] = f[n]
    BY <1>2, <1>4
  <2> QED
    BY <1>1, <2>1 DEF Explains
<1>8. ASSUME NEW i \in 1..(n - 1)
      PROVE  /\ mainQueue'[i] = "connect" => ~g[i - 1] /\ g[i]
             /\ mainQueue'[i] = "disconnect" => g[i - 1] /\ ~g[i]
             /\ mainQueue'[i] = "stopped" => g[i] = g[i - 1]
  <2>1. /\ i + 1 \in 1..n
        /\ mainQueue'[i] = mainQueue[i + 1]
        /\ g[i] = f[i + 1]
        /\ g[i - 1] = f[(i + 1) - 1]
    BY <1>2, <1>4, <1>5
  <2> QED
    BY <1>1, <2>1 DEF Explains
<1>9. /\ g[Len(mainQueue')] = (activeConnections' > 0)
      /\ 1..Len(mainQueue') = 1..(n - 1)
  BY <1>2, <1>7
<1>10. Explains(g)'
  BY <1>6, <1>8, <1>9 DEF Explains
<1> QED
  BY <1>3, <1>10 DEF QueueOK

\* A step that leaves the queue and what explains it alone.
LEMMA SameExplained ==
  ASSUME QueueOK, mainQueue' = mainQueue, activeConnections' = activeConnections,
         (connected' /\ ~disconnectTimer') = (connected /\ ~disconnectTimer)
  PROVE  QueueOK'
<1>1. PICK f \in [0..Len(mainQueue) -> BOOLEAN] : Explains(f)
  BY DEF QueueOK
<1>2. Explains(f)'
  BY <1>1 DEF Explains
<1> QED
  BY <1>1, <1>2 DEF QueueOK

\* When the queue's oldest block is a disconnect block, the server is connected.
LEMMA DisconnectFindsConnected ==
  ASSUME mainQueue \in Seq(Block), mainQueue # <<>>, QueueOK,
         Head(mainQueue) = "disconnect"
  PROVE  connected /\ ~disconnectTimer
<1>1. PICK f \in [0..Len(mainQueue) -> BOOLEAN] : Explains(f)
  BY DEF QueueOK
<1>2. 1 \in 1..Len(mainQueue) /\ mainQueue[1] = Head(mainQueue)
  OBVIOUS
<1>3. f[0]
  BY <1>1, <1>2 DEF Explains
<1> QED
  BY <1>1, <1>3 DEF Explains

-----------------------------------------------------------------------------
(* The number of connections.                                               *)

\* The set of open connections is finite and its size is a natural number.
LEMMA OpenFinite == IsFiniteSet(OpenConns) /\ Cardinality(OpenConns) \in Nat
BY ConnsAssumption, FS_Subset, FS_CardinalityType DEF OpenConns

\* Opening a connection adds one to the number of open connections.
LEMMA OpenOne ==
  ASSUME CountOK, phase \in [Conns -> Phase], NEW c \in Conns, phase[c] # "open",
         phase' = [phase EXCEPT ![c] = "open"],
         activeConnections' = activeConnections + 1
  PROVE  CountOK' /\ activeConnections \in Nat
<1>1. OpenConns' = OpenConns \union {c} /\ c \notin OpenConns
  BY DEF OpenConns
<1> QED
  BY <1>1, OpenFinite, FS_AddElement DEF CountOK

\* Ending a connection finds one counted and takes it away.
LEMMA EndOne ==
  ASSUME CountOK, phase \in [Conns -> Phase], NEW c \in Conns, phase[c] = "open",
         phase' = [phase EXCEPT ![c] = "ended"],
         activeConnections' = activeConnections - 1
  PROVE  CountOK' /\ activeConnections \in Nat \ {0}
<1>1. OpenConns' = OpenConns \ {c} /\ c \in OpenConns
  BY DEF OpenConns
<1>2. Cardinality(OpenConns) # 0
  BY <1>1, OpenFinite, FS_EmptySet
<1> QED
  BY <1>1, <1>2, OpenFinite, FS_RemoveElement DEF CountOK

\* Other changes of phase do not change the count.
LEMMA SameCount ==
  ASSUME CountOK, phase \in [Conns -> Phase], NEW c \in Conns, phase[c] # "open",
         NEW p \in Phase \ {"open"}, phase' = [phase EXCEPT ![c] = p],
         activeConnections' = activeConnections
  PROVE  CountOK'
<1>1. OpenConns' = OpenConns
  BY DEF OpenConns
<1> QED
  BY <1>1 DEF CountOK

-----------------------------------------------------------------------------
(* The inductive invariant.                                                 *)

\* The server starts with nothing listening, connected or posted.
LEMMA IInvInit == Init => IInv
<1> SUFFICES ASSUME Init PROVE IInv
  OBVIOUS
<1>1. TypeOK
  BY TypeInit
<1>2. CountOK
  <2>1. OpenConns = {}
    BY DEF Init, OpenConns
  <2> QED
    BY <2>1, FS_EmptySet DEF Init, CountOK
<1>3. SourceOK
  BY DEF Init, SourceOK, StoppedAcceptsNothing
<1>4. AcceptorOK
  BY DEF Init, AcceptorOK, OpenConnectionRegistered, OpenConns, Idle
<1>5. ConnectedOK /\ NoAbort
  BY DEF Init, ConnectedOK, NoAbort, TaskOnlyWhileConnected, BackgroundListeningHasTask
<1>6. QueueOK
  <2>1. PICK f : f = [i \in 0..0 |-> FALSE]
    OBVIOUS
  <2>2. Len(mainQueue) = 0 /\ f \in [0..Len(mainQueue) -> BOOLEAN]
    BY <2>1 DEF Init
  <2>3. Explains(f)
    <3>1. f[0] = FALSE /\ 1..Len(mainQueue) = {} /\ ~(activeConnections > 0)
      BY <2>1, <2>2 DEF Init
    <3> QED
      BY <2>2, <3>1 DEF Init, Explains
  <2> QED
    BY <2>2, <2>3 DEF QueueOK
<1> QED
  BY <1>1, <1>2, <1>3, <1>4, <1>5, <1>6 DEF IInv

\* A step of one of the connections or of the event handler that opens them.
LEMMA ConnectionStep ==
  ASSUME IInv, TypeOK',
         \/ EventHandler
         \/ \E c \in Conns : DidEndConnection(c) \/ Dealloc(c)
  PROVE  IInv'
<1> USE DEF IInv, TypeOK, optionVars, connVars, stateVars
<1> DEFINE Rest == ConnectedOK' /\ SourceOK'
<1>1. ASSUME NEW c \in Conns, Accept(c) PROVE IInv'
  <2>1. CountOK'
    BY <1>1, SameCount DEF Accept, Phase
  <2>2. AcceptorOK'
    <3>1. phase' = [phase EXCEPT ![c] = "accepted"] /\ acceptor' = [conn |-> c, at |-> "accepted"]
      BY <1>1 DEF Accept
    <3>2. \A d \in Conns : phase[d] # "accepted" /\ (phase[d] = "open" => d \in connections)
      BY <1>1, ConnsAssumption DEF Accept, AcceptorOK, OpenConnectionRegistered, OpenConns, Idle
    <3>3. connections' = connections
      BY <1>1 DEF Accept
    <3> QED
      BY <3>1, <3>2, <3>3 DEF AcceptorOK, OpenConnectionRegistered, OpenConns
  <2>3. Rest
    BY <1>1 DEF Accept, SourceOK, StoppedAcceptsNothing, ConnectedOK,
       TaskOnlyWhileConnected, BackgroundListeningHasTask
  <2>4. QueueOK'
    BY <1>1, SameExplained DEF Accept
  <2> QED
    BY <1>1, <2>1, <2>2, <2>3, <2>4 DEF Accept, NoAbort
<1>2. CASE WillStartConnection
  <2> DEFINE c == acceptor.conn
  <2>1. c \in Conns /\ phase[c] = "accepted" /\ acceptor = [conn |-> c, at |-> "accepted"]
    BY <1>2 DEF WillStartConnection, AcceptorOK, Acceptor, Idle
  <2>2. CountOK' /\ activeConnections \in Nat
    BY <1>2, <2>1, OpenOne DEF WillStartConnection
  <2>3. AcceptorOK'
    BY <1>2, <2>1 DEF WillStartConnection, AcceptorOK, OpenConnectionRegistered, OpenConns
  <2>4. Rest
    BY <1>2, <2>1 DEF WillStartConnection, SourceOK, StoppedAcceptsNothing, ConnectedOK,
       TaskOnlyWhileConnected, BackgroundListeningHasTask, Idle
  <2>5. ASSUME activeConnections = 0 PROVE QueueOK'
    BY <1>2, <2>2, <2>5, PostExplained DEF WillStartConnection, Block
  <2>6. ASSUME activeConnections # 0 PROVE QueueOK'
    <3>1. PICK f \in [0..Len(mainQueue) -> BOOLEAN] : Explains(f)
      BY DEF QueueOK
    <3>2. (activeConnections' > 0) = (activeConnections > 0)
      BY <1>2, <2>2, <2>6 DEF WillStartConnection
    <3>3. Explains(f)'
      BY <1>2, <2>6, <3>1, <3>2 DEF WillStartConnection, Explains
    <3> QED
      BY <1>2, <2>6, <3>1, <3>3 DEF WillStartConnection, QueueOK
  <2> QED
    BY <1>2, <2>2, <2>3, <2>4, <2>5, <2>6 DEF WillStartConnection, NoAbort
<1>3. CASE AddConnection
  <2>1. CountOK'
    BY <1>3 DEF AddConnection, CountOK, OpenConns
  <2>2. AcceptorOK'
    BY <1>3 DEF AddConnection, AcceptorOK, OpenConnectionRegistered, OpenConns, Acceptor, Idle
  <2>3. Rest
    BY <1>3 DEF AddConnection, SourceOK, StoppedAcceptsNothing, ConnectedOK,
       TaskOnlyWhileConnected, BackgroundListeningHasTask
  <2>4. QueueOK'
    BY <1>3, SameExplained DEF AddConnection
  <2> QED
    BY <1>3, <2>1, <2>2, <2>3, <2>4 DEF AddConnection, NoAbort
<1>4. ASSUME NEW c \in Conns, DidEndConnection(c) PROVE IInv'
  <2>1. CountOK' /\ activeConnections \in Nat \ {0}
    BY <1>4, EndOne DEF DidEndConnection
  <2>2. AcceptorOK'
    BY <1>4 DEF DidEndConnection, AcceptorOK, OpenConnectionRegistered, OpenConns, Acceptor, Idle
  <2>3. Rest
    BY <1>4 DEF DidEndConnection, SourceOK, StoppedAcceptsNothing, ConnectedOK,
       TaskOnlyWhileConnected, BackgroundListeningHasTask
  <2>4. ASSUME activeConnections = 1 PROVE QueueOK'
    BY <1>4, <2>1, <2>4, PostExplained DEF DidEndConnection, Block
  <2>5. ASSUME activeConnections # 1 PROVE QueueOK'
    <3>1. PICK f \in [0..Len(mainQueue) -> BOOLEAN] : Explains(f)
      BY DEF QueueOK
    <3>2. (activeConnections' > 0) = (activeConnections > 0)
      BY <1>4, <2>1, <2>5 DEF DidEndConnection
    <3>3. Explains(f)'
      BY <1>4, <2>5, <3>1, <3>2 DEF DidEndConnection, Explains
    <3> QED
      BY <1>4, <2>5, <3>1, <3>3 DEF DidEndConnection, QueueOK
  <2> QED
    BY <1>4, <2>1, <2>2, <2>3, <2>4, <2>5 DEF DidEndConnection, NoAbort
<1>5. ASSUME NEW c \in Conns, Dealloc(c) PROVE IInv'
  <2>1. CountOK'
    BY <1>5, SameCount DEF Dealloc, Phase
  <2>2. AcceptorOK'
    BY <1>5 DEF Dealloc, AcceptorOK, OpenConnectionRegistered, OpenConns, Acceptor, Idle
  <2>3. Rest
    BY <1>5 DEF Dealloc, SourceOK, StoppedAcceptsNothing, ConnectedOK,
       TaskOnlyWhileConnected, BackgroundListeningHasTask
  <2>4. QueueOK'
    BY <1>5, SameExplained DEF Dealloc
  <2> QED
    BY <1>5, <2>1, <2>2, <2>3, <2>4 DEF Dealloc, NoAbort
<1> QED
  BY <1>1, <1>2, <1>3, <1>4, <1>5 DEF EventHandler

\* A step of start, stop, the notifications of the app, and the cancel handler
\* that lets _stop return.
LEMMA ListenStep ==
  ASSUME IInv, TypeOK',
         \/ \E opts \in OptionSets : Start(opts)
         \/ Stop \/ FinishStop \/ EnterBackground \/ EnterForeground
         \/ CancelHandler
  PROVE  IInv'
<1> USE DEF IInv, TypeOK, optionVars, connVars, stateVars
<1>1. UNCHANGED <<phase, connections, activeConnections, acceptor, connected>>
  BY DEF Start, Stop, FinishStop, EnterBackground, EnterForeground, CancelHandler, Listen,
     CancelSource
<1>2. CountOK' /\ AcceptorOK'
  BY <1>1 DEF CountOK, AcceptorOK, OpenConns, OpenConnectionRegistered
<1> DEFINE Rest == ConnectedOK' /\ SourceOK' /\ NoAbort'
<1> USE DEF SourceOK, StoppedAcceptsNothing, ConnectedOK, TaskOnlyWhileConnected,
            BackgroundListeningHasTask, NoAbort, Source, Main
<1>3. ASSUME NEW opts \in OptionSets, Start(opts) PROVE Rest /\ QueueOK'
  BY <1>3, OptionSetsAssumption, SameExplained DEF Start, Listen
<1>4. ASSUME Stop PROVE Rest /\ QueueOK'
  BY <1>4, SameExplained DEF Stop, CancelSource
<1>5. ASSUME FinishStop PROVE Rest /\ QueueOK'
  <2>1. Rest
    BY <1>5 DEF FinishStop
  <2>2. (connected' /\ ~disconnectTimer') = (connected /\ ~disconnectTimer)
    BY <1>5 DEF FinishStop
  <2>3. QueueOK'
    BY <1>5, <2>2, PostExplained DEF FinishStop, Block
  <2> QED
    BY <2>1, <2>3
<1>6. ASSUME EnterBackground PROVE Rest /\ QueueOK'
  BY <1>6, SameExplained DEF EnterBackground, CancelSource, Observing
<1>7. ASSUME EnterForeground PROVE Rest /\ QueueOK'
  BY <1>7, SameExplained DEF EnterForeground, Listen, Observing
<1>8. ASSUME CancelHandler PROVE Rest /\ QueueOK'
  BY <1>8, SameExplained DEF CancelHandler
<1> QED
  BY <1>2, <1>3, <1>4, <1>5, <1>6, <1>7, <1>8

\* A step of the main thread on the connected state: a block of the main queue,
\* the disconnect timer or the expiration of the background task.
LEMMA ConnectedStep ==
  ASSUME IInv, TypeOK', RunBlock \/ TimerFires \/ ExpireBackgroundTask
  PROVE  IInv'
<1> USE DEF IInv, TypeOK, optionVars, connVars, stateVars
<1>1. /\ UNCHANGED <<optionVars, connVars, appState>>
      /\ main = "free"
  BY DEF RunBlock, TimerFires, ExpireBackgroundTask
<1>2. CountOK' /\ AcceptorOK'
  BY <1>1 DEF CountOK, AcceptorOK, OpenConns, OpenConnectionRegistered
<1> DEFINE Rest == ConnectedOK' /\ SourceOK' /\ NoAbort'
<1> USE DEF SourceOK, StoppedAcceptsNothing, ConnectedOK, TaskOnlyWhileConnected,
            BackgroundListeningHasTask, NoAbort, Source, Main
<1>3. ASSUME RunBlock PROVE Rest /\ QueueOK'
  <2>1. /\ mainQueue # <<>> /\ mainQueue' = Tail(mainQueue)
        /\ Head(mainQueue) \in Block
    BY <1>3 DEF RunBlock
  <2>2. ASSUME Head(mainQueue) = "connect" PROVE Rest /\ QueueOK'
    <3>1. ConnectBlock
      BY <1>3, <2>2 DEF RunBlock
    <3>2. Rest
      BY <1>1, <3>1 DEF ConnectBlock
    <3>3. QueueOK'
      BY <1>1, <2>1, <2>2, <3>1, RunExplained DEF ConnectBlock
    <3> QED
      BY <3>2, <3>3
  <2>3. ASSUME Head(mainQueue) = "disconnect" PROVE Rest /\ QueueOK'
    <3>1. DisconnectBlock /\ connected /\ ~disconnectTimer
      BY <1>3, <2>1, <2>3, DisconnectFindsConnected DEF RunBlock
    <3>2. Rest
      BY <1>1, <3>1 DEF DisconnectBlock, DidDisconnect, EndBackgroundTask, CancelSource
    <3>3. QueueOK'
      BY <1>1, <2>1, <2>3, <3>1, RunExplained DEF DisconnectBlock, DidDisconnect
    <3> QED
      BY <3>2, <3>3
  <2>4. ASSUME Head(mainQueue) = "stopped" PROVE Rest /\ QueueOK'
    <3>1. StoppedBlock
      BY <1>3, <2>4 DEF RunBlock
    <3>2. Rest
      BY <1>1, <3>1 DEF StoppedBlock, DidDisconnect, EndBackgroundTask, CancelSource
    <3>3. (connected' /\ ~disconnectTimer') = (connected /\ ~disconnectTimer)
      BY <1>1, <3>1 DEF StoppedBlock, DidDisconnect
    <3>4. QueueOK'
      BY <1>1, <2>1, <2>4, <3>3, RunExplained
    <3> QED
      BY <3>2, <3>4
  <2> QED
    BY <2>1, <2>2, <2>3, <2>4 DEF Block
<1>4. ASSUME TimerFires PROVE Rest /\ QueueOK'
  <2>1. Rest
    BY <1>1, <1>4 DEF TimerFires, DidDisconnect, EndBackgroundTask, CancelSource
  <2>2. (connected' /\ ~disconnectTimer') = (connected /\ ~disconnectTimer)
    BY <1>4 DEF TimerFires, DidDisconnect
  <2>3. QueueOK'
    BY <1>1, <1>4, <2>2, SameExplained DEF TimerFires
  <2> QED
    BY <2>1, <2>3
<1>5. ASSUME ExpireBackgroundTask PROVE Rest /\ QueueOK'
  <2>1. Rest
    <3>1. /\ UNCHANGED <<connected, disconnectTimer, aborted>>
          /\ appState = "background" /\ backgroundTask
      BY <1>5 DEF ExpireBackgroundTask
    <3>2. CASE suspendInBackground /\ source4 # "null"
      <4>1. source4' = "cancelled" /\ main' = "endTask"
        BY <1>5, <3>1, <3>2 DEF ExpireBackgroundTask, EndBackgroundTask, CancelSource
      <4>2. SourceOK'
        BY <1>1, <3>2, <4>1
      <4>3. ConnectedOK' /\ NoAbort'
        BY <1>1, <3>1, <4>1
      <4> QED
        BY <4>2, <4>3
    <3>3. CASE ~(suspendInBackground /\ source4 # "null")
      <4>1. source4' = source4 /\ main' = main /\ ~backgroundTask'
        BY <1>5, <3>1, <3>3 DEF ExpireBackgroundTask, EndBackgroundTask, CancelSource
      <4> QED
        BY <1>1, <3>1, <3>3, <4>1
    <3> QED
      BY <3>2, <3>3
  <2>2. QueueOK'
    BY <1>1, <1>5, SameExplained DEF ExpireBackgroundTask
  <2> QED
    BY <2>1, <2>2
<1> QED
  BY <1>2, <1>3, <1>4, <1>5

\* Every step keeps the inductive invariant.
LEMMA IInvStep == IInv /\ [Next]_vars => IInv'
<1> SUFFICES ASSUME IInv, [Next]_vars PROVE IInv'
  OBVIOUS
<1>1. TypeOK'
  BY TypeStep DEF IInv
<1>2. CASE UNCHANGED vars
  <2>1. QueueOK'
    BY <1>2, SameExplained DEF IInv, vars, connVars, stateVars
  <2> QED
    BY <1>1, <1>2, <2>1 DEF IInv, vars, optionVars, connVars, stateVars, CountOK, OpenConns,
       SourceOK, StoppedAcceptsNothing, AcceptorOK, OpenConnectionRegistered, ConnectedOK,
       TaskOnlyWhileConnected, BackgroundListeningHasTask, NoAbort
<1> QED
  BY <1>1, <1>2, ConnectionStep, ListenStep, ConnectedStep DEF Next, MainThread

\* The inductive invariant holds for any number of connections and any length
\* of the main queue.
THEOREM Invariance == Spec => []IInv
BY IInvInit, IInvStep, PTL DEF Spec

-----------------------------------------------------------------------------
(* The safety properties.                                                   *)

\* A set of positive numbers up to n that has the predecessor of each of its
\* elements is empty: taking the predecessor would be an injection of a finite
\* set into itself that misses its largest element.
LEMMA NoDescent ==
  ASSUME NEW n \in Nat, NEW S \in SUBSET (1..n), n \in S,
         \A i \in S : i - 1 \in S
  PROVE  FALSE
<1>1. IsFiniteSet(S)
  <2>1. IsFiniteSet(1..n)
    BY FS_Interval
  <2> QED
    BY <2>1, FS_Subset
<1> DEFINE h == [i \in S |-> i - 1]
<1>2. h \in Injection(S, S)
  BY DEF Injection, IsInjective
<1>3. h \in Surjection(S, S)
  BY <1>1, <1>2, FS_Injection
<1>4. PICK i \in S : h[i] = n
  BY <1>3 DEF Surjection
<1> QED
  BY <1>4

\* While the main thread does not know of the open connections, the block that
\* connects is on the main queue.
LEMMA ConnectPosted ==
  IInv /\ ~(connected /\ ~disconnectTimer) /\ activeConnections > 0
    => \E i \in 1..Len(mainQueue) : mainQueue[i] = "connect"
<1> SUFFICES ASSUME IInv, ~(connected /\ ~disconnectTimer), activeConnections > 0
             PROVE  \E i \in 1..Len(mainQueue) : mainQueue[i] = "connect"
  OBVIOUS
<1> USE DEF IInv, TypeOK
<1>1. PICK f \in [0..Len(mainQueue) -> BOOLEAN] : Explains(f)
  BY DEF QueueOK
<1> SUFFICES ASSUME \A i \in 1..Len(mainQueue) : mainQueue[i] # "connect" PROVE FALSE
  OBVIOUS
<1> DEFINE n == Len(mainQueue)
           S == {i \in 1..n : f[i]}
<1>2. n \in Nat /\ ~f[0] /\ f[n]
  BY <1>1 DEF Explains
<1>3. n \in S
  BY <1>2
<1>4. ASSUME NEW i \in S PROVE i - 1 \in S
  <2>1. mainQueue[i] \in {"disconnect", "stopped"} /\ f[i]
    BY DEF Block
  <2>2. f[i - 1]
    BY <1>1, <2>1 DEF Explains
  <2>3. i - 1 \in 0..n /\ i - 1 # 0
    BY <1>2, <2>2
  <2> QED
    BY <2>2, <2>3
<1> HIDE DEF S
<1> QED
  BY <1>2, <1>3, <1>4, NoDescent DEF S

\* No assertion of the server fails.
THEOREM NoAssertionFails == Spec => []NoAbort
BY Invariance, PTL DEF IInv

\* With nothing left on the main queue the connected state is that of the connections.
THEOREM ConnectedTracksConnections == Spec => []ConnectedFollowsConnections
<1>1. IInv => ConnectedFollowsConnections
  <2> SUFFICES ASSUME IInv, mainQueue = <<>>
               PROVE  (connected /\ ~disconnectTimer) <=> activeConnections > 0
    BY DEF ConnectedFollowsConnections
  <2>1. PICK f \in [0..Len(mainQueue) -> BOOLEAN] : Explains(f)
    BY DEF IInv, QueueOK
  <2>2. Len(mainQueue) = 0
    OBVIOUS
  <2> QED
    BY <2>1, <2>2 DEF Explains
<1> QED
  BY <1>1, Invariance, PTL

\* In background the server never listens without a task, nor keeps a task it is
\* not connected for.
THEOREM BackgroundSafety == Spec => []BackgroundTaskHeld
<1>1. IInv => BackgroundTaskHeld
  BY DEF IInv, ConnectedOK, BackgroundTaskHeld
<1> QED
  BY <1>1, Invariance, PTL

\* _stop leaves nobody in the event handler, and open connections stay registered.
THEOREM AcceptSafety == Spec => []ConnectionsKept
<1>1. IInv => ConnectionsKept
  BY DEF IInv, SourceOK, AcceptorOK, ConnectionsKept
<1> QED
  BY <1>1, Invariance, PTL

-----------------------------------------------------------------------------
(* The series of connections that the delegate is told of.                  *)

\* The connect blocks on the main queue are counted by a natural number, which
\* is zero when there is none.
LEMMA ConnectsCounted ==
  ASSUME mainQueue \in Seq(Block)
  PROVE  /\ IsFiniteSet(ConnectBlocks)
         /\ Cardinality(ConnectBlocks) \in Nat
         /\ Cardinality(ConnectBlocks) = 0 <=> ConnectBlocks = {}
<1>1. Len(mainQueue) \in Nat
  OBVIOUS
<1>2. IsFiniteSet(1..Len(mainQueue))
  BY <1>1, FS_Interval
<1>3. IsFiniteSet(ConnectBlocks)
  BY <1>2, FS_Subset DEF ConnectBlocks
<1> QED
  BY <1>3, FS_CardinalityType, FS_EmptySet

\* A connect block that is posted is one more, another block is none.
LEMMA PostCount ==
  ASSUME mainQueue \in Seq(Block), NEW b \in Block, mainQueue' = Append(mainQueue, b)
  PROVE  Cardinality(ConnectBlocks)' =
             IF b = "connect" THEN Cardinality(ConnectBlocks) + 1 ELSE Cardinality(ConnectBlocks)
<1> DEFINE n == Len(mainQueue)
<1>1. /\ n \in Nat /\ Len(mainQueue') = n + 1
      /\ mainQueue'[n + 1] = b
      /\ \A i \in 1..n : mainQueue'[i] = mainQueue[i]
  OBVIOUS
<1>2. CASE b = "connect"
  <2>1. ConnectBlocks' = ConnectBlocks \union {n + 1} /\ n + 1 \notin ConnectBlocks
    BY <1>1, <1>2 DEF ConnectBlocks
  <2> QED
    BY <1>2, <2>1, ConnectsCounted, FS_AddElement
<1>3. CASE b # "connect"
  <2>1. ConnectBlocks' = ConnectBlocks
    BY <1>1, <1>3 DEF ConnectBlocks
  <2> QED
    BY <1>3, <2>1
<1> QED
  BY <1>2, <1>3

\* Running a connect block leaves one less, another block leaves as many.
LEMMA RunCount ==
  ASSUME mainQueue \in Seq(Block), mainQueue # <<>>, mainQueue' = Tail(mainQueue)
  PROVE  /\ Head(mainQueue) = "connect" =>
              /\ Cardinality(ConnectBlocks) > 0
              /\ Cardinality(ConnectBlocks)' = Cardinality(ConnectBlocks) - 1
         /\ Head(mainQueue) # "connect" => Cardinality(ConnectBlocks)' = Cardinality(ConnectBlocks)
<1> DEFINE n == Len(mainQueue)
           Later == ConnectBlocks \ {1}
           h == [i \in Later |-> i - 1]
<1>1. /\ n \in Nat \ {0} /\ Len(mainQueue') = n - 1
      /\ mainQueue[1] = Head(mainQueue)
      /\ \A i \in 1..(n - 1) : mainQueue'[i] = mainQueue[i + 1]
  OBVIOUS
<1>2. IsFiniteSet(Later) /\ Later \subseteq 2..n
  <2>1. IsFiniteSet(ConnectBlocks) /\ ConnectBlocks \subseteq 1..n
    BY ConnectsCounted DEF ConnectBlocks
  <2>2. IsFiniteSet(Later)
    BY <2>1, FS_RemoveElement
  <2> QED
    BY <1>1, <2>1, <2>2
<1>3. ConnectBlocks' = {i \in 1..(n - 1) : mainQueue[i + 1] = "connect"}
  BY <1>1 DEF ConnectBlocks
<1>4. Cardinality(ConnectBlocks') = Cardinality(Later)
  <2>1. \A i \in Later : i - 1 \in ConnectBlocks'
    BY <1>1, <1>2, <1>3 DEF ConnectBlocks
  <2>2. \A j \in ConnectBlocks' : j + 1 \in Later /\ (j + 1) - 1 = j
    BY <1>1, <1>3 DEF ConnectBlocks
  <2>3. \A i, j \in Later : i - 1 = j - 1 => i = j
    BY <1>2
  <2> HIDE DEF Later
  <2>4. h \in Bijection(Later, ConnectBlocks')
    <3>1. h \in [Later -> ConnectBlocks']
      BY <2>1
    <3>2. \A i, j \in Later : h[i] = h[j] => i = j
      BY <2>3
    <3>3. \A j \in ConnectBlocks' : \E i \in Later : h[i] = j
      BY <2>2
    <3> QED
      BY <3>1, <3>2, <3>3 DEF Bijection, Injection, Surjection, IsInjective
  <2> HIDE DEF h
  <2> QED
    BY <1>2, <2>4, FS_Bijection DEF ExistsBijection
<1>5. CASE Head(mainQueue) = "connect"
  <2>1. 1 \in ConnectBlocks
    BY <1>1, <1>5 DEF ConnectBlocks
  <2>2. Cardinality(Later) = Cardinality(ConnectBlocks) - 1
    BY <2>1, ConnectsCounted, FS_RemoveElement
  <2>3. Cardinality(ConnectBlocks) # 0 /\ Cardinality(ConnectBlocks) \in Nat
    BY <2>1, ConnectsCounted
  <2> QED
    BY <1>4, <1>5, <2>2, <2>3
<1>6. CASE Head(mainQueue) # "connect"
  <2>1. Later = ConnectBlocks
    BY <1>1, <1>6 DEF ConnectBlocks
  <2> QED
    BY <1>4, <1>6, <2>1
<1> QED
  BY <1>5, <1>6

\* A connect block is never run by a server that is connected with no timer.
LEMMA ConnectFindsDisconnected ==
  ASSUME IInv, mainQueue # <<>>, Head(mainQueue) = "connect"
  PROVE  ~(connected /\ ~disconnectTimer)
<1>1. PICK f \in [0..Len(mainQueue) -> BOOLEAN] : Explains(f)
  BY DEF IInv, QueueOK
<1>2. 1 \in 1..Len(mainQueue) /\ mainQueue[1] = Head(mainQueue)
  BY DEF IInv, TypeOK
<1>3. ~f[0]
  BY <1>1, <1>2 DEF Explains
<1> QED
  BY <1>1, <1>3 DEF Explains

\* A series that the main thread does not know to go on is over, or the block
\* that connects the next one is on the main queue.
LEMMA OverOrPosted ==
  IInv /\ ~(connected /\ ~disconnectTimer) =>
      activeConnections = 0 \/ Cardinality(ConnectBlocks) > 0
<1> SUFFICES ASSUME IInv, ~(connected /\ ~disconnectTimer), activeConnections # 0
             PROVE  Cardinality(ConnectBlocks) > 0
  OBVIOUS
<1>1. activeConnections > 0
  BY OpenFinite DEF IInv, CountOK
<1>2. ConnectBlocks # {}
  BY <1>1, ConnectPosted DEF ConnectBlocks
<1> QED
  BY <1>2, ConnectsCounted DEF IInv, TypeOK

\* The number of connections is a natural number.
LEMMA CountNatural == IInv => activeConnections \in Nat
BY OpenFinite DEF IInv, CountOK

\* Steps of the event handler and of the connections: a connection opens or
\* closes, or the delegate and the listening socket are not concerned.
LEMMA ConnectionMaps ==
  ASSUME IInv, IInv',
         \/ EventHandler
         \/ \E c \in Conns : DidEndConnection(c) \/ Dealloc(c)
  PROVE  [Series!Next]_(Series!vars)
<1> USE DEF optionVars, connVars, stateVars
<1>0. mainQueue \in Seq(Block) /\ activeConnections \in Nat
  BY CountNatural DEF IInv, TypeOK
<1>1. ASSUME NEW c \in Conns, Accept(c) PROVE UNCHANGED Series!vars
  BY <1>1 DEF Accept, Series!vars, ConnectBlocks
<1>2. ASSUME WillStartConnection PROVE Series!ConnectionOpens
  <2>1. source4 \in {"listening", "cancelled"}
    BY <1>2 DEF WillStartConnection, IInv, TypeOK, Source, SourceOK, StoppedAcceptsNothing, Idle
  <2>2. Cardinality(ConnectBlocks)' =
           IF activeConnections = 0 THEN Cardinality(ConnectBlocks) + 1 ELSE Cardinality(ConnectBlocks)
    <3>1. CASE activeConnections = 0
      BY <1>0, <1>2, <3>1, PostCount DEF WillStartConnection, Block
    <3>2. CASE activeConnections # 0
      BY <1>2, <3>2 DEF WillStartConnection, ConnectBlocks
    <3> QED
      BY <3>1, <3>2
  <2> QED
    BY <1>2, <2>1, <2>2 DEF WillStartConnection, Series!ConnectionOpens
<1>3. ASSUME AddConnection PROVE UNCHANGED Series!vars
  BY <1>3 DEF AddConnection, Series!vars, ConnectBlocks
<1>4. ASSUME NEW c \in Conns, DidEndConnection(c) PROVE Series!ConnectionCloses
  <2>1. activeConnections > 0
    <3>1. CountOK /\ phase \in [Conns -> Phase]
      BY DEF IInv, TypeOK
    <3>2. activeConnections \in Nat \ {0}
      BY <1>4, <3>1, EndOne DEF DidEndConnection
    <3> QED
      BY <3>2
  <2>2. Cardinality(ConnectBlocks)' = Cardinality(ConnectBlocks)
    <3>1. CASE activeConnections = 1
      BY <1>0, <1>4, <3>1, PostCount DEF DidEndConnection, Block
    <3>2. CASE activeConnections # 1
      BY <1>4, <3>2 DEF DidEndConnection, ConnectBlocks
    <3> QED
      BY <3>1, <3>2
  <2> QED
    BY <1>4, <2>1, <2>2 DEF DidEndConnection, Series!ConnectionCloses
<1>5. ASSUME NEW c \in Conns, Dealloc(c) PROVE UNCHANGED Series!vars
  BY <1>5 DEF Dealloc, Series!vars, ConnectBlocks
<1> QED
  BY <1>1, <1>2, <1>3, <1>4, <1>5 DEF EventHandler, Series!Next

\* Steps of start, stop, the notifications and the cancel handler.
LEMMA ListenMaps ==
  ASSUME IInv, IInv',
         \/ \E opts \in OptionSets : Start(opts)
         \/ Stop \/ FinishStop \/ EnterBackground \/ EnterForeground
         \/ CancelHandler
  PROVE  [Series!Next]_(Series!vars)
<1> USE OptionSetsAssumption DEF optionVars, connVars, stateVars, SourceOK, Source, Main
<1>0. /\ mainQueue \in Seq(Block)
      /\ disconnectTimer \in BOOLEAN /\ connected \in BOOLEAN
      /\ source4 \in Source /\ main \in Main /\ SourceOK
      /\ main = "timer" => ~connected
  BY DEF IInv, TypeOK, ConnectedOK
<1>1. ASSUME NEW opts \in OptionSets, Start(opts) PROVE [Series!Next]_(Series!vars)
  <2>1. UNCHANGED <<activeConnections, Cardinality(ConnectBlocks), connected, disconnectTimer>>
    BY <1>1 DEF Start, Listen, ConnectBlocks
  <2>2. options = NoOptions /\ source4 = "null"
    BY <1>0, <1>1 DEF Start
  <2>3. CASE options' = opts
    <3>1. Series!Start
      BY <1>0, <2>1, <2>2, <2>3 DEF Series!Start
    <3> QED
      BY <3>1 DEF Series!Next
  <2>4. CASE UNCHANGED <<options, source4>>
    BY <2>1, <2>4 DEF Series!vars
  <2> QED
    BY <1>1, <2>3, <2>4 DEF Start, Listen
<1>2. ASSUME Stop PROVE [Series!Next]_(Series!vars)
  <2>1. UNCHANGED <<activeConnections, Cardinality(ConnectBlocks), connected, disconnectTimer>>
    BY <1>2 DEF Stop, CancelSource, ConnectBlocks
  <2>2. CASE source4 # "null"
    BY <1>0, <1>2, <2>1, <2>2 DEF Stop, CancelSource, Series!vars
  <2>3. CASE source4 = "null"
    <3>1. Series!Stop
      BY <1>0, <1>2, <2>1, <2>3 DEF Stop, CancelSource, Series!Stop
    <3> QED
      BY <3>1 DEF Series!Next
  <2> QED
    BY <2>2, <2>3
<1>3. ASSUME FinishStop PROVE [Series!Next]_(Series!vars)
  <2>1. /\ UNCHANGED <<activeConnections, Cardinality(ConnectBlocks), connected>>
        /\ (disconnectTimer' /\ connected') = (disconnectTimer /\ connected)
        /\ source4 = "closed" /\ source4' = "null"
    BY <1>0, <1>3, PostCount DEF FinishStop, Block
  <2>2. CASE main = "stop"
    <3>1. Series!Stop
      BY <1>0, <1>3, <2>1, <2>2 DEF FinishStop, Series!Stop
    <3> QED
      BY <3>1 DEF Series!Next
  <2>3. CASE main # "stop"
    BY <1>3, <2>1, <2>3 DEF FinishStop, Series!vars
  <2> QED
    BY <2>2, <2>3
<1>4. ASSUME EnterBackground PROVE UNCHANGED Series!vars
  BY <1>0, <1>4 DEF EnterBackground, CancelSource, Series!vars, ConnectBlocks
<1>5. ASSUME EnterForeground PROVE [Series!Next]_(Series!vars)
  <2>1. UNCHANGED <<activeConnections, Cardinality(ConnectBlocks), connected, disconnectTimer, options>>
    BY <1>5 DEF EnterForeground, Listen, ConnectBlocks
  <2>2. CASE Observing /\ source4 = "null" /\ Listen(options)
    <3>1. Series!Resume
      BY <2>1, <2>2 DEF Listen, Observing, Series!Resume
    <3> QED
      BY <3>1 DEF Series!Next
  <2>3. CASE source4' = source4
    BY <2>1, <2>3 DEF Series!vars
  <2> QED
    BY <1>5, <2>2, <2>3 DEF EnterForeground
<1>6. ASSUME CancelHandler PROVE Series!StopListening
  BY <1>0, <1>6 DEF CancelHandler, Series!StopListening, ConnectBlocks
<1> QED
  BY <1>1, <1>2, <1>3, <1>4, <1>5, <1>6 DEF Series!Next

\* _didDisconnect ends a series that is over.
LEMMA DisconnectMaps ==
  ASSUME IInv, IInv', mainQueue' = Tail(mainQueue) \/ mainQueue' = mainQueue,
         UNCHANGED <<options, activeConnections>>,
         NEW resume \in Main, DidDisconnect(resume),
         Cardinality(ConnectBlocks)' = Cardinality(ConnectBlocks),
         main = "free"
  PROVE  Series!DidDisconnect
<1> USE DEF Main, Source
<1>1. connected /\ ~connected'
  BY DEF DidDisconnect, IInv, NoAbort
<1>2. activeConnections' = 0 \/ Cardinality(ConnectBlocks)' > 0
  <2>1. (IInv /\ ~(connected /\ ~disconnectTimer) =>
            activeConnections = 0 \/ Cardinality(ConnectBlocks) > 0)'
    BY OverOrPosted, PTL
  <2> HIDE DEF Main, Source
  <2> QED
    BY <1>1, <2>1
<1>3. source4' \in {"listening", "cancelled"} <=> source4 \in {"listening", "cancelled"}
  BY DEF DidDisconnect, EndBackgroundTask, CancelSource, IInv, SourceOK
<1> QED
  BY <1>1, <1>2, <1>3 DEF Series!DidDisconnect, Series!SeriesOver

\* Steps of the main thread on the connected state.
LEMMA ConnectedMaps ==
  ASSUME IInv, IInv', RunBlock \/ TimerFires \/ ExpireBackgroundTask
  PROVE  [Series!Next]_(Series!vars)
<1> USE DEF optionVars, connVars
<1>0. /\ mainQueue \in Seq(Block) /\ activeConnections \in Nat
      /\ disconnectTimer \in BOOLEAN /\ connected \in BOOLEAN /\ source4 \in Source
      /\ main = "free" => source4 \in {"null", "listening"}
      /\ main = "free" /\ disconnectTimer => connected
  BY CountNatural DEF IInv, TypeOK, SourceOK, ConnectedOK
<1>1. ASSUME RunBlock PROVE [Series!Next]_(Series!vars)
  <2>1. /\ mainQueue # <<>> /\ mainQueue' = Tail(mainQueue) /\ main = "free"
        /\ Head(mainQueue) \in Block
        /\ UNCHANGED <<options, activeConnections>>
    BY <1>0, <1>1 DEF RunBlock
  <2>2. CASE Head(mainQueue) = "connect"
    <3>1. ConnectBlock
      BY <1>1, <2>2 DEF RunBlock
    <3>2. ~(connected /\ ~disconnectTimer)
      BY <2>1, <2>2, ConnectFindsDisconnected
    <3>3. Cardinality(ConnectBlocks) > 0 /\ Cardinality(ConnectBlocks)' = Cardinality(ConnectBlocks) - 1
      BY <1>0, <2>1, <2>2, RunCount
    <3>4. CASE connected
      <4>1. Series!Coalesce
        BY <2>1, <3>1, <3>2, <3>3, <3>4 DEF ConnectBlock, Series!Coalesce
      <4> QED
        BY <4>1 DEF Series!Next
    <3>5. CASE ~connected
      <4>1. Series!DidConnect
        BY <2>1, <3>1, <3>2, <3>3, <3>5 DEF ConnectBlock, Series!DidConnect
      <4> QED
        BY <4>1 DEF Series!Next
    <3> QED
      BY <3>4, <3>5
  <2>3. ASSUME Head(mainQueue) # "connect"
        PROVE  Cardinality(ConnectBlocks)' = Cardinality(ConnectBlocks)
    BY <1>0, <2>1, <2>3, RunCount
  <2>4. CASE Head(mainQueue) = "disconnect"
    <3>1. DisconnectBlock /\ connected /\ ~disconnectTimer
      BY <1>0, <1>1, <2>1, <2>4, DisconnectFindsConnected DEF RunBlock, IInv
    <3>2. CASE coalesce /\ source4 # "null"
      <4>1. ~(connected' /\ ~disconnectTimer') /\ disconnectTimer'
        BY <3>1, <3>2 DEF DisconnectBlock
      <4>2. (IInv /\ ~(connected /\ ~disconnectTimer) =>
                activeConnections = 0 \/ Cardinality(ConnectBlocks) > 0)'
        BY OverOrPosted, PTL
      <4>3. activeConnections' = 0 \/ Cardinality(ConnectBlocks)' > 0
        BY <4>1, <4>2
      <4>4. Series!HoldBack
        BY <2>1, <2>3, <2>4, <3>1, <3>2, <4>3 DEF DisconnectBlock, Series!HoldBack, Series!SeriesOver
      <4> QED
        BY <4>4 DEF Series!Next
    <3>3. CASE ~(coalesce /\ source4 # "null")
      <4>1. DidDisconnect("endTask")
        BY <3>1, <3>3 DEF DisconnectBlock
      <4>2. Series!DidDisconnect
        BY <2>1, <2>3, <2>4, <4>1, DisconnectMaps DEF Main
      <4> QED
        BY <4>2 DEF Series!Next
    <3> QED
      BY <3>2, <3>3
  <2>5. CASE Head(mainQueue) = "stopped"
    <3>1. StoppedBlock
      BY <1>1, <2>5 DEF RunBlock
    <3>2. CASE disconnectTimer
      <4>1. DidDisconnect("endTask")
        BY <3>1, <3>2 DEF StoppedBlock
      <4>2. Series!DidDisconnect
        BY <2>1, <2>3, <2>5, <4>1, DisconnectMaps DEF Main
      <4> QED
        BY <4>2 DEF Series!Next
    <3>3. CASE ~disconnectTimer
      BY <2>1, <2>3, <2>5, <3>1, <3>3 DEF StoppedBlock, stateVars, Series!vars
    <3> QED
      BY <3>2, <3>3
  <2> QED
    BY <2>1, <2>2, <2>4, <2>5 DEF Block
<1>2. ASSUME TimerFires PROVE Series!DidDisconnect
  BY <1>2, DisconnectMaps DEF TimerFires, Main, ConnectBlocks
<1>3. ASSUME ExpireBackgroundTask PROVE UNCHANGED Series!vars
  <2>1. UNCHANGED <<options, activeConnections, mainQueue, connected, disconnectTimer>>
    BY <1>3 DEF ExpireBackgroundTask
  <2>2. (source4' \in {"listening", "cancelled"}) = (source4 \in {"listening", "cancelled"})
    <3>1. CASE source4' = source4
      BY <3>1
    <3>2. CASE source4' = "cancelled" /\ source4 # "null" /\ main = "free"
      BY <1>0, <3>2
    <3> QED
      BY <1>3, <3>1, <3>2 DEF ExpireBackgroundTask, EndBackgroundTask, CancelSource
  <2> QED
    BY <2>1, <2>2 DEF Series!vars, ConnectBlocks
<1> QED
  BY <1>1, <1>2, <1>3 DEF Series!Next

\* What the delegate of the server is told are series of connections, for any
\* number of connections, whatever the options and the length of the main queue.
THEOREM Refinement == Spec => ImplementsConnectionSeries
<1>1. Init => Series!Init
  <2> SUFFICES ASSUME Init PROVE Series!Init
    OBVIOUS
  <2>1. ConnectBlocks = {}
    BY DEF Init, ConnectBlocks
  <2>2. Cardinality(ConnectBlocks) = 0
    BY <2>1, FS_EmptySet
  <2> QED
    BY <2>2 DEF Init, Series!Init
<1>2. IInv /\ IInv' /\ [Next]_vars => [Series!Next]_(Series!vars)
  <2>1. ASSUME UNCHANGED vars PROVE UNCHANGED Series!vars
    BY <2>1 DEF vars, optionVars, connVars, stateVars, Series!vars, ConnectBlocks
  <2> QED
    BY <2>1, ConnectionMaps, ListenMaps, ConnectedMaps DEF Next, MainThread
<1> QED
  BY <1>1, <1>2, Invariance, PTL DEF Spec, ImplementsConnectionSeries, Series!Spec
================================================================================
