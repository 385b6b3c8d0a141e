---------------------------- MODULE ConnectionSeries ---------------------------
(***************************************************************************)
(* What the interface of HSDGWebServer (Core/HSDGWebServer.h) promises its *)
(* delegate: connections come in series, which it is told of one by one.   *)
(* A series begins with a connection opened while none is; its beginning   *)
(* may be told after it is over, but never its end before.  With           *)
(* coalescing a series that follows closely continues the one before.      *)
(*                                                                         *)
(* Connections are opened while the server listens, which it may also do   *)
(* after -stop was called and until it has returned.                       *)
(***************************************************************************)
EXTENDS Integers

VARIABLES
    running,   \* started and not stopped
    listening, \* connections may be opened
    open,      \* how many are
    pending,   \* how many series begun are not told yet
    connected, \* what the delegate was told last
    grace      \* the end of the series is held back, to coalesce the next with it

vars == <<running, listening, open, pending, connected, grace>>

Init ==
    /\ running = FALSE /\ listening = FALSE
    /\ open = 0 /\ pending = 0
    /\ connected = FALSE /\ grace = FALSE

\* A server that is suspended from its start on does not listen.
Start ==
    /\ ~running /\ ~listening
    /\ running' = TRUE
    /\ listening' \in BOOLEAN
    /\ UNCHANGED <<open, pending, connected, grace>>

\* Suspended in background, or on its way to be stopped.
StopListening ==
    /\ running /\ listening
    /\ listening' = FALSE
    /\ UNCHANGED <<running, open, pending, connected, grace>>

\* Back in foreground.
Resume ==
    /\ running /\ ~listening
    /\ listening' = TRUE
    /\ UNCHANGED <<running, open, pending, connected, grace>>

\* The connections there are go on until they are completed.
Stop ==
    /\ running /\ ~listening
    /\ running' = FALSE
    /\ UNCHANGED <<listening, open, pending, connected, grace>>

ConnectionOpens ==
    /\ listening
    /\ open' = open + 1
    /\ pending' = IF open = 0 THEN pending + 1 ELSE pending
    /\ UNCHANGED <<running, listening, connected, grace>>

ConnectionCloses ==
    /\ open > 0
    /\ open' = open - 1
    /\ UNCHANGED <<running, listening, pending, connected, grace>>

DidConnect ==
    /\ pending > 0 /\ ~connected
    /\ pending' = pending - 1
    /\ connected' = TRUE
    /\ UNCHANGED <<running, listening, open, grace>>

\* No connection of the series that the delegate knows of is open.
SeriesOver == connected /\ (open = 0 \/ pending > 0)

HoldBack ==
    /\ SeriesOver /\ ~grace
    /\ grace' = TRUE
    /\ UNCHANGED <<running, listening, open, pending, connected>>

Coalesce ==
    /\ grace /\ pending > 0
    /\ pending' = pending - 1
    /\ grace' = FALSE
    /\ UNCHANGED <<running, listening, open, connected>>

DidDisconnect ==
    /\ SeriesOver
    /\ connected' = FALSE /\ grace' = FALSE
    /\ UNCHANGED <<running, listening, open, pending>>

Next ==
    \/ Start \/ StopListening \/ Resume \/ Stop
    \/ ConnectionOpens \/ ConnectionCloses
    \/ DidConnect \/ HoldBack \/ Coalesce \/ DidDisconnect

Spec == Init /\ [][Next]_vars
================================================================================
