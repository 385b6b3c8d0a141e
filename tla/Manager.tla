-------------------------------- MODULE Manager --------------------------------
(***************************************************************************)
(* HSDManager, which starts and stops the server, the control panel        *)
(* (HSDHttpServerControlPannelController), which shows whether it runs,    *)
(* and HSDHostNameResolveComponent, which finds its address.               *)
(*                                                                         *)
(* All of it runs on the main thread, one call at a time; notifications    *)
(* reach the panel by blocks posted to the main queue, and the callbacks   *)
(* of a resolver (NSNetService) come whenever they like.                   *)
(***************************************************************************)
EXTENDS Integers, Sequences

CONSTANTS
    MaxStarts,   \* bound: how often a server is started
    MaxPanels,   \* bound: how often the panel is opened
    MaxPosts,    \* bound: the app does not stop while so many blocks wait
    MaxResolves  \* bound: how often an address is resolved

ASSUME ManagerAssumption == {MaxStarts, MaxPanels, MaxPosts, MaxResolves} \subseteq Nat

VARIABLES
    server,    \* manager.server: none, one that failed to start, or running
    autoStart, \* the user's setting
    launched,
    panel,     \* the panel: its number, or 0 when there is none
    loaded,    \* whether its view is
    switch,    \* startSwitchView.on
    main,      \* the blocks on the main queue
    timers,    \* how many resolve the address a second after a start
    resolving, \* isResolving
    service,   \* netService: the number of a resolve, or 0
    phase,     \* of that service
    late,      \* stops of services that were replaced, still to be told
    starts, panels, resolves, \* how many there were, which numbers them
    named      \* history: the start whose server the last resolve named, or 0

managerVars ==
    <<server, autoStart, launched, panel, loaded, switch, main, timers, resolving,
      service, phase, late, starts, panels, resolves, named>>

Resolver == <<resolving, service, phase, late, resolves, named>>
Panel == <<panel, loaded, panels>>

IsRunning == server = "running"

ManagerInit ==
    /\ server = "none" /\ autoStart \in BOOLEAN /\ launched = FALSE
    /\ panel = 0 /\ loaded = FALSE /\ switch = FALSE
    /\ main = <<>> /\ timers = 0
    /\ resolving = FALSE /\ service = 0 /\ phase = "none" /\ late = 0
    /\ starts = 0 /\ panels = 0 /\ resolves = 0
    /\ named = 0

\* Every panel there is observes the notifications.
Post(name) ==
    main' = IF panel = 0 THEN main ELSE Append(main, [name |-> name, panel |-> panel])

\* startHttpServer; ok: the port could be listened at.
StartHttpServer(ok) ==
    IF IsRunning THEN UNCHANGED <<server, starts, main>>
    ELSE /\ starts < MaxStarts /\ starts' = starts + 1
         /\ server' = IF ok THEN "running" ELSE "failed"
         /\ IF ok THEN Post("started") ELSE UNCHANGED main

StopHttpServer ==
    /\ server' = "none"
    /\ Post("stopped")
    /\ UNCHANGED starts

DidFinishLaunching(ok) ==
    /\ ~launched /\ launched' = TRUE
    /\ IF autoStart THEN StartHttpServer(ok) ELSE UNCHANGED <<server, starts, main>>
    /\ UNCHANGED <<autoStart, Panel, switch, timers, Resolver>>

\* The app calls the manager, from its own didFinishLaunching on.
AppStarts(ok) ==
    /\ StartHttpServer(ok)
    /\ UNCHANGED <<autoStart, launched, Panel, switch, timers, Resolver>>

AppStops ==
    /\ Len(main) < MaxPosts /\ StopHttpServer
    /\ UNCHANGED <<autoStart, launched, Panel, switch, timers, Resolver>>

\* The user moves the switches of the panel.
StartSwitch(ok) ==
    /\ panel # 0 /\ loaded
    /\ switch' = ~switch
    /\ IF switch THEN StopHttpServer ELSE StartHttpServer(ok)
    /\ UNCHANGED <<autoStart, launched, Panel, timers, Resolver>>

AutoStartSwitch ==
    /\ panel # 0 /\ loaded
    /\ autoStart' = ~autoStart
    /\ UNCHANGED <<server, launched, Panel, switch, main, timers, Resolver, starts>>

-----------------------------------------------------------------------------
(* Resolving the address of the server.                                    *)

\* resolveHostName, of the name the server has now: another service takes the
\* place of the one in progress, whose stop is told at once, later, or not at all
\* as it is released.
Resolve ==
    /\ resolves < MaxResolves /\ resolves' = resolves + 1
    /\ service' = resolves' /\ phase' = "asked"
    /\ IF resolving /\ service # 0
       THEN \/ resolving' = FALSE /\ UNCHANGED late
            \/ late' = late + 1 /\ UNCHANGED resolving
            \/ UNCHANGED <<late, resolving>>
       ELSE UNCHANGED <<late, resolving>>
    /\ named' = IF IsRunning THEN starts ELSE 0

Others == <<server, autoStart, launched, Panel, switch, main, timers, starts>>

WillResolve ==
    /\ phase = "asked" /\ phase' = "resolving"
    /\ resolving' = TRUE
    /\ UNCHANGED <<service, late, resolves, named>> /\ UNCHANGED Others

\* Its outcome is shown: an address, or, at once or when the time is over, a failure.
DidResolveAddress ==
    /\ phase = "resolving" /\ phase' = "resolved"
    /\ UNCHANGED <<resolving, service, late, resolves, named>> /\ UNCHANGED Others

DidNotResolve ==
    /\ phase \in {"asked", "resolving"} /\ phase' = "failed"
    /\ UNCHANGED <<resolving, service, late, resolves, named>> /\ UNCHANGED Others

\* Mutant: the service is not let go.
Stopped_KeepsService ==
    /\ resolving' = FALSE
    /\ UNCHANGED <<service, phase>>

\* netServiceDidStop, which does not look at its sender.
Stopped ==
    /\ resolving' = FALSE
    /\ service' = 0 /\ phase' = "none"

\* The service stops, after its failure or when its time is over.
DidStop ==
    /\ phase \in {"resolved", "failed"}
    /\ Stopped
    /\ UNCHANGED <<late, resolves, named>> /\ UNCHANGED Others

\* The stop of a service that was replaced ends the one in its place.
DidStopLate ==
    /\ late > 0 /\ late' = late - 1
    /\ Stopped
    /\ UNCHANGED <<resolves, named>> /\ UNCHANGED Others

-----------------------------------------------------------------------------
(* The panel.                                                              *)

\* Its init observes the notifications; its view is loaded later.
CreatePanel ==
    /\ panel = 0 /\ panels < MaxPanels
    /\ panels' = panels + 1 /\ panel' = panels' /\ loaded' = FALSE
    /\ UNCHANGED <<server, autoStart, launched, switch, main, timers, Resolver,
                   starts>>

ViewDidLoad ==
    /\ panel # 0 /\ ~loaded /\ loaded' = TRUE
    /\ switch' = IsRunning
    /\ IF IsRunning THEN Resolve ELSE UNCHANGED Resolver
    /\ UNCHANGED <<server, autoStart, launched, panel, panels, main, timers, starts>>

ClosePanel ==
    /\ loaded /\ panel' = 0 /\ loaded' = FALSE
    /\ UNCHANGED <<server, autoStart, launched, switch, panels, main, timers, Resolver,
                   starts>>

\* Mutant: only the start is followed by the switch.
NotificationReceived_StartOnly ==
    /\ main # <<>> /\ main' = Tail(main)
    /\ switch' = IF Head(main).panel = panel /\ loaded /\ Head(main).name = "started"
                 THEN TRUE ELSE switch
    /\ timers' = IF Head(main).name = "started" THEN timers + 1 ELSE timers
    /\ UNCHANGED <<server, autoStart, launched, Panel, Resolver, starts>>

\* Mutant: the address is not resolved after a start.
NotificationReceived_NoTimer ==
    /\ main # <<>> /\ main' = Tail(main)
    /\ switch' = IF Head(main).panel = panel /\ loaded THEN Head(main).name = "started"
                 ELSE switch
    /\ UNCHANGED <<server, autoStart, launched, Panel, timers, Resolver, starts>>

\* The block of a notification, which keeps a panel that was closed alive.
NotificationReceived ==
    /\ main # <<>> /\ main' = Tail(main)
    /\ switch' = IF Head(main).panel = panel /\ loaded THEN Head(main).name = "started"
                 ELSE switch
    /\ timers' = IF Head(main).name = "started" THEN timers + 1 ELSE timers
    /\ UNCHANGED <<server, autoStart, launched, Panel, Resolver, starts>>

TimerFires ==
    /\ timers > 0 /\ timers' = timers - 1
    /\ Resolve
    /\ UNCHANGED <<server, autoStart, launched, Panel, switch, main, starts>>

ManagerNext ==
    \/ \E ok \in BOOLEAN : DidFinishLaunching(ok) \/ AppStarts(ok) \/ StartSwitch(ok)
    \/ AppStops \/ AutoStartSwitch \/ CreatePanel \/ ViewDidLoad \/ ClosePanel
    \/ NotificationReceived \/ TimerFires
    \/ WillResolve \/ DidResolveAddress \/ DidNotResolve \/ DidStop \/ DidStopLate

ManagerSpec == ManagerInit /\ [][ManagerNext]_managerVars

-----------------------------------------------------------------------------
(* Properties.                                                             *)

\* When the main queue is empty the switch of the panel shows whether the server
\* runs, however starts and stops of the app, the user and a launch were mixed;
\* only a start that failed leaves the switch as the user put it
\* (HSDHttpServerControlPannelController.m:159-166, 259-266, 316-332).
SwitchShowsServer ==
    panel # 0 /\ loaded /\ main = <<>> /\ server # "failed" => switch = IsRunning

\* A service that resolves is the one asked for last, and isResolving says so, so
\* that the next resolve stops it: two never resolve at the same time, although the
\* late stop of one that was replaced is taken for the stop of its successor.  That
\* one is let go then, and nothing tells the user
\* (HSDHostNameResolveComponent.m:31-41, 99-106).
ResolvingIsMarked == phase = "resolving" => resolving /\ service = resolves

\* A timer started by one server fires when that one may have stopped, failed to
\* start again or been replaced.  Once no block and no timer is left, the last
\* resolve that an open panel asked for was of the name of the server that runs now.
\* What comes of it is up to the network and to late stops
\* (HSDHttpServerControlPannelController.m:159-166, 319-326).
LastResolveIsOfServer ==
    IsRunning /\ panel # 0 /\ loaded /\ main = <<>> /\ timers = 0 => named = starts
=============================================================================
