------------------------------- MODULE WebServer -------------------------------
(***************************************************************************)
(* HSDGWebServer (Classes/Others/WebServer/Core/HSDGWebServer.m): the      *)
(* listening socket, the connections it has accepted, the "connected"      *)
(* state the server derives from them on the main thread, and the way the  *)
(* server suspends itself while the iOS app is in background.              *)
(*                                                                         *)
(* Four kinds of actors interleave:                                        *)
(*   - the main thread: the public API (start, stop), the UIApplication    *)
(*     notifications, the disconnect timer, the expiration of the          *)
(*     background task and the blocks of the main dispatch queue;          *)
(*   - the event handler of the dispatch source: accept, initWithServer:   *)
(*     and the registration of the connection are three steps;             *)
(*   - the connections, which end on their own queues;                     *)
(*   - the cancel handler of the dispatch source.                          *)
(* A block run by dispatch_sync on _syncQueue is one step.                 *)
(***************************************************************************)
EXTENDS Integers, Sequences, FiniteSets

CONSTANTS
    Conns,      \* the HSDGWebServerConnection objects
    NoConn,     \* the event handler holds no connection
    OptionSets, \* the option dictionaries startWithOptions: is given
    NoOptions,  \* _options = nil
    MaxMain     \* bound: nothing new starts while mainQueue is this long

ASSUME ConnsAssumption == IsFiniteSet(Conns) /\ NoConn \notin Conns
ASSUME OptionSetsAssumption ==
    /\ OptionSets \subseteq [suspendInBackground: BOOLEAN, coalesce: BOOLEAN]
    /\ NoOptions \notin OptionSets
ASSUME MaxMainAssumption == MaxMain \in Nat \ {0}

VARIABLES
    options,             \* _options
    suspendInBackground, \* _suspendInBackground
    coalesce,            \* _disconnectDelay > 0
    source4,             \* the dispatch source on the listening socket (see Source)
    acceptor,            \* what the event handler of source4 is doing
    phase,               \* the life of each connection
    connections,         \* _connections
    activeConnections,   \* _activeConnections
    mainQueue,           \* blocks posted on the main dispatch queue, oldest first
    connected,           \* _connected
    disconnectTimer,     \* _disconnectTimer # NULL
    backgroundTask,      \* _backgroundTask # UIBackgroundTaskInvalid
    appState,            \* -[UIApplication applicationState]
    main,                \* where the main thread resumes when _stop's group wait returns
    aborted              \* a GWS_DCHECK or GWS_DNOT_REACHED failed: a debug build aborts

optionVars == <<options, suspendInBackground, coalesce>>
connVars   == <<acceptor, phase, connections, activeConnections>>
stateVars  == <<connected, disconnectTimer, backgroundTask>>
vars == <<optionVars, source4, connVars, mainQueue, stateVars, appState, main, aborted>>

\* NULL; resumed; cancelled, its cancel handler pending; its cancel handler done.
Source == {"null", "listening", "cancelled", "closed"}

\* The blocks of willStartConnection:, didEndConnection: and _stop.
Block == {"connect", "disconnect", "stopped"}

\* The main thread is free, or it waits in the group wait of a _stop called by
\* stop, by _didEnterBackground:, or by _endBackgroundTask; the latter called
\* by the handler of the disconnect timer is told apart.
Main == {"free", "stop", "background", "endTask", "timer"}

\* A connection: not allocated, accepted but not counted, opened, ended.
Phase == {"free", "accepted", "open", "ended"}

Acceptor == [conn: Conns, at: {"accepted", "opened"}]
Idle == [conn |-> NoConn, at |-> "idle"]

OpenConns == {c \in Conns : phase[c] = "open"}

Init ==
    /\ options = NoOptions
    /\ suspendInBackground = FALSE
    /\ coalesce = FALSE
    /\ source4 = "null"
    /\ acceptor = Idle
    /\ phase = [c \in Conns |-> "free"]
    /\ connections = {}
    /\ activeConnections = 0
    /\ mainQueue = <<>>
    /\ connected = FALSE
    /\ disconnectTimer = FALSE
    /\ backgroundTask = FALSE
    /\ appState \in {"foreground", "background"}
    /\ main = "free"
    /\ aborted = FALSE

HasRoom == Len(mainQueue) < MaxMain

\* GWS_DCHECK; GWS_DNOT_REACHED checks FALSE.
Check(condition) == aborted' = ~condition

-----------------------------------------------------------------------------
(* Starting and stopping the listening socket.                             *)

\* A successful _start with the given options; a failure to open, bind or
\* listen returns before anything is assigned.
Listen(opts) ==
    /\ source4' = "listening"
    /\ coalesce' = opts.coalesce
    /\ Check(source4 = "null")

\* _stop up to its group wait, after which the main thread resumes as told.
CancelSource(resume) ==
    /\ source4' = "cancelled"
    /\ main' = resume

\* Mutant: the listening socket is closed without waiting for the event handler.
CancelHandler_NoWait ==
    /\ source4 = "cancelled"
    /\ source4' = "closed"
    /\ UNCHANGED <<optionVars, connVars, mainQueue, stateVars, appState, main, aborted>>

\* The cancel handler runs once the event handler does not: it closes the
\* listening socket and leaves the group.
CancelHandler ==
    /\ source4 = "cancelled"
    /\ acceptor = Idle
    /\ source4' = "closed"
    /\ UNCHANGED <<optionVars, connVars, mainQueue, stateVars, appState, main, aborted>>

\* The group wait returns: the rest of _stop, then the rest of its caller.
FinishStop ==
    /\ main # "free"
    /\ source4 = "closed"
    /\ source4' = "null"
    /\ mainQueue' = Append(mainQueue, "stopped")
    /\ options' = IF main = "stop" THEN NoOptions ELSE options
    /\ backgroundTask' = (backgroundTask /\ main \notin {"endTask", "timer"})
    /\ disconnectTimer' = (disconnectTimer /\ main # "timer")
    /\ main' = "free"
    /\ UNCHANGED <<suspendInBackground, coalesce, connVars, connected, appState, aborted>>

\* startWithOptions:error: -- with the suspend option, an app in background
\* records the options only and listens when it is back in foreground.
Start(opts) ==
    /\ main = "free"
    /\ options = NoOptions
    /\ suspendInBackground' = opts.suspendInBackground
    /\ \/ /\ opts.suspendInBackground /\ appState = "background"
          /\ options' = opts
          /\ UNCHANGED <<source4, coalesce, aborted>>
       \/ /\ ~opts.suspendInBackground \/ appState # "background"
          /\ options' = opts
          /\ Listen(opts)
       \/ /\ ~opts.suspendInBackground \/ appState # "background"
          /\ UNCHANGED <<options, source4, coalesce, aborted>>
    /\ UNCHANGED <<connVars, mainQueue, stateVars, appState, main>>

\* stop, called while the server runs.
Stop ==
    /\ main = "free" /\ HasRoom
    /\ options # NoOptions
    /\ \/ source4 # "null" /\ CancelSource("stop") /\ UNCHANGED options
       \/ source4 = "null" /\ options' = NoOptions /\ UNCHANGED <<source4, main>>
    /\ UNCHANGED <<suspendInBackground, coalesce, connVars, mainQueue, stateVars, appState, aborted>>

\* The observers are registered while a server with the suspend option runs.
Observing == options # NoOptions /\ suspendInBackground

\* The app goes to background, _didEnterBackground: if observed.
EnterBackground ==
    /\ main = "free" /\ HasRoom
    /\ appState = "foreground"
    /\ appState' = "background"
    /\ IF Observing /\ ~backgroundTask /\ source4 # "null"
       THEN CancelSource("background")
       ELSE UNCHANGED <<source4, main>>
    /\ UNCHANGED <<optionVars, connVars, mainQueue, stateVars, aborted>>

\* The app comes back to foreground, _willEnterForeground: if observed; the
\* failure of its _start is ignored.
EnterForeground ==
    /\ main = "free"
    /\ appState = "background"
    /\ appState' = "foreground"
    /\ \/ Observing /\ source4 = "null" /\ Listen(options)
       \/ UNCHANGED <<source4, coalesce, aborted>>
    /\ UNCHANGED <<options, suspendInBackground, connVars, mainQueue, stateVars, main>>

-----------------------------------------------------------------------------
(* Accepting and ending connections.                                       *)

\* The event handler of the listening source: accept() returned a socket.
Accept(c) ==
    /\ source4 = "listening" /\ HasRoom
    /\ acceptor = Idle
    /\ phase[c] = "free"
    /\ phase' = [phase EXCEPT ![c] = "accepted"]
    /\ acceptor' = [conn |-> c, at |-> "accepted"]
    /\ UNCHANGED <<optionVars, source4, connections, activeConnections, mainQueue,
                   stateVars, appState, main, aborted>>

\* Mutant: the connect block is posted with dispatch_sync on the main queue.
WillStartConnection_Sync ==
    /\ main = "free"
    /\ acceptor.at = "accepted"
    /\ acceptor' = [acceptor EXCEPT !.at = "opened"]
    /\ phase' = [phase EXCEPT ![acceptor.conn] = "open"]
    /\ mainQueue' = IF activeConnections = 0 THEN Append(mainQueue, "connect") ELSE mainQueue
    /\ activeConnections' = activeConnections + 1
    /\ UNCHANGED <<optionVars, source4, connections, stateVars, appState, main, aborted>>

\* initWithServer: calls willStartConnection: and starts the first read; from
\* here on the connection may end at any time.
WillStartConnection ==
    LET c == acceptor.conn IN
    /\ acceptor.at = "accepted"
    /\ acceptor' = [acceptor EXCEPT !.at = "opened"]
    /\ phase' = [phase EXCEPT ![c] = "open"]
    /\ mainQueue' = IF activeConnections = 0 THEN Append(mainQueue, "connect") ELSE mainQueue
    /\ activeConnections' = activeConnections + 1
    /\ UNCHANGED <<optionVars, source4, connections, stateVars, appState, main, aborted>>

\* The event handler registers the connection it has opened and returns.
AddConnection ==
    /\ acceptor.at = "opened"
    /\ connections' = connections \union {acceptor.conn}
    /\ acceptor' = Idle
    /\ UNCHANGED <<optionVars, source4, phase, activeConnections, mainQueue,
                   stateVars, appState, main, aborted>>

\* A connection that closes tells the server, once.
DidEndConnection(c) ==
    /\ phase[c] = "open"
    /\ phase' = [phase EXCEPT ![c] = "ended"]
    /\ Check(activeConnections > 0)
    /\ activeConnections' = activeConnections - 1
    /\ connections' = connections \ {c}
    /\ mainQueue' = IF activeConnections = 1 THEN Append(mainQueue, "disconnect") ELSE mainQueue
    /\ UNCHANGED <<optionVars, source4, acceptor, stateVars, appState, main>>

\* An ended connection that neither the event handler nor _connections holds is
\* deallocated; its identity stands for a new object from then on.
Dealloc(c) ==
    /\ phase[c] = "ended"
    /\ c \notin connections
    /\ acceptor.conn # c
    /\ phase' = [phase EXCEPT ![c] = "free"]
    /\ UNCHANGED <<optionVars, source4, acceptor, connections, activeConnections, mainQueue,
                   stateVars, appState, main, aborted>>

-----------------------------------------------------------------------------
(* What the main thread does with the connected state.                     *)

\* Mutant: the task is given back and the listening source kept.
EndBackgroundTask_KeepsListening(resume) ==
    backgroundTask' = FALSE /\ UNCHANGED <<source4, main>>

\* _endBackgroundTask: without its task an app in background must not listen.
EndBackgroundTask(resume) ==
    IF backgroundTask /\ suspendInBackground /\ appState = "background" /\ source4 # "null"
    THEN CancelSource(resume) /\ UNCHANGED backgroundTask
    ELSE backgroundTask' = FALSE /\ UNCHANGED <<source4, main>>

\* _didDisconnect.
DidDisconnect(resume) ==
    /\ Check(connected)
    /\ connected' = FALSE
    /\ EndBackgroundTask(resume)

\* Mutant: the pending disconnect timer is not invalidated.
ConnectBlock_KeepsTimer ==
    /\ connected' = TRUE
    /\ \/ /\ ~connected /\ appState # "background"
          /\ backgroundTask' \in BOOLEAN
          /\ Check(~backgroundTask)
       \/ /\ connected \/ appState = "background"
          /\ UNCHANGED <<backgroundTask, aborted>>
    /\ UNCHANGED <<source4, main, disconnectTimer>>

\* Mutant: _didConnect is called without looking at _connected.
ConnectBlock_Unconditional ==
    /\ disconnectTimer' = FALSE
    /\ connected' = TRUE
    /\ Check(~connected /\ (backgroundTask => appState = "background"))
    /\ IF appState # "background" THEN backgroundTask' \in BOOLEAN ELSE UNCHANGED backgroundTask
    /\ UNCHANGED <<source4, main>>

\* The block of willStartConnection:, with _didConnect and _startBackgroundTask;
\* the system may refuse the background task.
ConnectBlock ==
    /\ disconnectTimer' = FALSE
    /\ connected' = TRUE
    /\ \/ /\ ~connected /\ appState # "background"
          /\ backgroundTask' \in BOOLEAN
          /\ Check(~backgroundTask)
       \/ /\ connected \/ appState = "background"
          /\ UNCHANGED <<backgroundTask, aborted>>
    /\ UNCHANGED <<source4, main>>

\* Mutant: a server that has stopped listening does not disconnect.
DisconnectBlock_ListeningOnly ==
    /\ disconnectTimer' = (coalesce /\ source4 # "null")
    /\ UNCHANGED <<source4, main, connected, backgroundTask, aborted>>

\* The block of didEndConnection:.
DisconnectBlock ==
    IF coalesce /\ source4 # "null"
    THEN disconnectTimer' = TRUE /\ UNCHANGED <<source4, main, connected, backgroundTask, aborted>>
    ELSE DidDisconnect("endTask") /\ UNCHANGED disconnectTimer

\* The block of _stop.
StoppedBlock ==
    IF disconnectTimer
    THEN disconnectTimer' = FALSE /\ DidDisconnect("endTask")
    ELSE UNCHANGED <<source4, main, stateVars, aborted>>

\* The main dispatch queue runs its oldest block.
RunBlock ==
    /\ main = "free"
    /\ mainQueue # <<>>
    /\ mainQueue' = Tail(mainQueue)
    /\ CASE Head(mainQueue) = "connect"    -> ConnectBlock
         [] Head(mainQueue) = "disconnect" -> DisconnectBlock
         [] Head(mainQueue) = "stopped"    -> StoppedBlock
    /\ UNCHANGED <<optionVars, connVars, appState>>

\* The disconnect timer fires; the timer is released after _didDisconnect.
TimerFires ==
    /\ main = "free"
    /\ disconnectTimer
    /\ DidDisconnect("timer")
    /\ disconnectTimer' = (main' # "free")
    /\ UNCHANGED <<optionVars, connVars, mainQueue, appState>>

\* The expiration handler of the background task, which runs in background only.
ExpireBackgroundTask ==
    /\ main = "free"
    /\ appState = "background"
    /\ backgroundTask
    /\ EndBackgroundTask("endTask")
    /\ UNCHANGED <<optionVars, connVars, mainQueue, connected, disconnectTimer, appState, aborted>>

-----------------------------------------------------------------------------
EventHandler == (\E c \in Conns : Accept(c)) \/ WillStartConnection \/ AddConnection

MainThread ==
    \/ \E opts \in OptionSets : Start(opts)
    \/ Stop \/ FinishStop
    \/ EnterBackground \/ EnterForeground
    \/ RunBlock \/ TimerFires \/ ExpireBackgroundTask

\* NoAbort being an invariant, what would follow an abort does not matter.
Next ==
    \/ MainThread
    \/ EventHandler
    \/ CancelHandler
    \/ \E c \in Conns : DidEndConnection(c) \/ Dealloc(c)

Spec == Init /\ [][Next]_vars

\* The process is scheduled in foreground, while it holds a background task and
\* until a handler the main thread is in returns.
Scheduled == appState = "foreground" \/ backgroundTask \/ main # "free"

\* GCD runs what is pending while the process is scheduled.  The main run loop
\* does too, though a handler may keep it busy time and again: it serves its
\* sources in turn.  iOS ends every background task.
Fairness ==
    /\ WF_vars(Scheduled /\ CancelHandler)
    /\ WF_vars(Scheduled /\ (WillStartConnection \/ AddConnection))
    /\ WF_vars(Scheduled /\ FinishStop)
    /\ SF_vars(Scheduled /\ RunBlock)
    /\ SF_vars(Scheduled /\ TimerFires)
    /\ SF_vars(ExpireBackgroundTask)

FairSpec == Spec /\ Fairness

-----------------------------------------------------------------------------
(* Properties.                                                             *)

\* The shape of every variable.
TypeOK ==
    /\ options \in OptionSets \union {NoOptions}
    /\ suspendInBackground \in BOOLEAN
    /\ coalesce \in BOOLEAN
    /\ source4 \in Source
    /\ acceptor \in Acceptor \union {Idle}
    /\ phase \in [Conns -> Phase]
    /\ connections \subseteq Conns
    /\ activeConnections \in Int
    /\ mainQueue \in Seq(Block)
    /\ connected \in BOOLEAN
    /\ disconnectTimer \in BOOLEAN
    /\ backgroundTask \in BOOLEAN
    /\ appState \in {"foreground", "background"}
    /\ main \in Main
    /\ aborted \in BOOLEAN

\* No GWS_DCHECK or GWS_DNOT_REACHED of HSDGWebServer.m ever fails, whatever
\* order connections, timer, notifications, start, stop and the main queue run
\* in: _didConnect finds the server not connected and holding no background
\* task, _didDisconnect finds it connected, _start finds no source, and
\* didEndConnection: finds a connection counted (lines 219, 229, 282, 297, 481).
NoAbort == ~aborted

\* Once the main queue has caught up the connected state tells whether
\* connections are open, except for the coalescing delay: the blocks of
\* willStartConnection: and didEndConnection: are never lost, doubled or
\* applied out of order (lines 243-326).
ConnectedFollowsConnections ==
    mainQueue = <<>> => ((connected /\ ~disconnectTimer) <=> activeConnections > 0)

\* In background a server with the suspend option listens only while it holds
\* a background task (lines 268, 623, 643).
BackgroundListeningHasTask ==
    (appState = "background" /\ main = "free" /\ suspendInBackground /\ source4 # "null")
        => backgroundTask

\* The background task never outlives the connected state (lines 234, 287).
TaskOnlyWhileConnected ==
    backgroundTask => connected \/ main \in {"endTask", "timer"}

\* The background task and what it is for belong together.
BackgroundTaskHeld == BackgroundListeningHasTask /\ TaskOnlyWhileConnected

\* When _stop returns the listening socket is closed and nobody is still inside
\* the event handler, about to open one more connection (line 587).
StoppedAcceptsNothing ==
    source4 \in {"null", "closed"} => acceptor = Idle

\* Every open connection is in _connections, which is all that keeps it
\* referenced by the server, once the event handler that opened it is done
\* (lines 302, 467-471).
OpenConnectionRegistered ==
    \A c \in OpenConns : c \in connections \/ acceptor.conn = c

\* A connection is accepted by a server that runs, and kept by it while open.
ConnectionsKept == StoppedAcceptsNothing /\ OpenConnectionRegistered

\* The connect blocks on the main queue: series of connections not told yet.
ConnectBlocks == {i \in 1..Len(mainQueue) : mainQueue[i] = "connect"}

Series == INSTANCE ConnectionSeries WITH
    running   <- options # NoOptions,
    listening <- source4 \in {"listening", "cancelled"},
    open      <- activeConnections,
    pending   <- Cardinality(ConnectBlocks),
    connected <- connected,
    grace     <- disconnectTimer /\ connected

\* Whatever order the main queue, the timer, the notifications and the
\* connections come in, what the delegate is told are series of connections:
\* none is told twice or after its end, the end of one only when its
\* connections are closed, and none is opened by a server that has stopped
\* (HSDGWebServer.h:258-286).
ImplementsConnectionSeries == Series!Spec

\* _stop always returns: no thread the group wait depends on waits for the main
\* thread (lines 243-245, 467-471, 587).
StopReturns == main # "free" ~> main = "free"

\* A server whose connections have all ended for good does not stay connected
\* in foreground (lines 295-326).
EventuallyDisconnected ==
    <>[](activeConnections = 0 /\ appState = "foreground") => <>[](~connected /\ ~backgroundTask)

-----------------------------------------------------------------------------
(* The inductive invariant behind the safety properties.                   *)

\* activeConnections counts the open connections.
CountOK == activeConnections = Cardinality(OpenConns)

\* _source4 against the main thread, the options and the event handler.
SourceOK ==
    /\ main = "free" <=> source4 \in {"null", "listening"}
    /\ options = NoOptions => source4 = "null"
    /\ StoppedAcceptsNothing

\* The connection in the event handler, and the connections it has opened.
AcceptorOK ==
    /\ \A c \in Conns : phase[c] = "accepted" <=> acceptor = [conn |-> c, at |-> "accepted"]
    /\ OpenConnectionRegistered

\* The timer and the background task only exist while the server is connected,
\* or while the handler that disconnects it waits for _stop.
ConnectedOK ==
    /\ TaskOnlyWhileConnected
    /\ disconnectTimer => connected \/ main = "timer"
    /\ main = "timer" => ~connected
    /\ BackgroundListeningHasTask

\* f tells, before and after each block of the main queue, whether connections
\* were open when the block was posted: a connect block is the only one that
\* starts a series of connections and a disconnect block the only one that ends it.
Explains(f) ==
    /\ f[0] = (connected /\ ~disconnectTimer)
    /\ f[Len(mainQueue)] = (activeConnections > 0)
    /\ \A i \in 1..Len(mainQueue) :
          /\ mainQueue[i] = "connect" => ~f[i - 1] /\ f[i]
          /\ mainQueue[i] = "disconnect" => f[i - 1] /\ ~f[i]
          /\ mainQueue[i] = "stopped" => f[i] = f[i - 1]

\* The blocks on the main queue lead from the connected state the main thread
\* knows to the one the connections are in.
QueueOK == \E f \in [0..Len(mainQueue) -> BOOLEAN] : Explains(f)

IInv ==
    /\ TypeOK
    /\ NoAbort
    /\ CountOK
    /\ SourceOK
    /\ AcceptorOK
    /\ ConnectedOK
    /\ QueueOK
================================================================================
