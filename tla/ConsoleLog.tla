------------------------------- MODULE ConsoleLog ------------------------------
(***************************************************************************)
(* The console log: HSDConsoleLogComponent, one for the whole app, driven  *)
(* by the WebSocket sessions of HSDWebSocketHandler.  didOpen redirects    *)
(* STDERR_FILENO to a pipe, whose lines are read on the main thread and    *)
(* sent to the session; didClose recovers it.  didOpen runs on the thread  *)
(* that initialises the WebSocket and didClose on the one that reads it,   *)
(* both on concurrent queues, and the component takes no lock: sessions    *)
(* and their calls overlap each other and the main thread in any way.      *)
(*                                                                         *)
(* A session makes at most one pipe, which is named after it.  A line is   *)
(* its number in its pipe; a pipe holds the lines logged and not taken.    *)
(* Left out are the empty reads of a pipe without writers, and reads that  *)
(* end within a character, of which str is nil: reads end between lines.   *)
(***************************************************************************)
EXTENDS Integers, Sequences

CONSTANTS
    Sessions, \* the WebSockets opened in turn or together
    Console,  \* the file stderr refers to when the app starts
    None,     \* kStdErrIllegalFd, no block, and no read to handle
    MaxLines  \* bound: how many lines are logged to a pipe

ASSUME NamesAssumption == Console \notin Sessions /\ None \notin Sessions \union {Console}
ASSUME HandlingAssumption ==
    None \notin [at : {"send", "again"}, pipe : Sessions, first : Nat, last : Nat]
ASSUME MaxLinesAssumption == MaxLines \in Nat

VARIABLES
    opener,   \* where each session is in didOpen
    closer,   \* where each session is in didClose
    clash,    \* whether two of these calls have overlapped, or came the wrong way round
    block,    \* the session that readCompletionBlock sends to
    saved,    \* the file that the duplicate in stdErrFd refers to
    stderr,   \* the file that STDERR_FILENO refers to
    observed, \* the pipes whose reads are observed
    reading,  \* the pipes that are read in the background
    handling, \* the read that the main thread was notified of
    logged,   \* how many lines were logged to each pipe
    taken,    \* how many of them were read from it
    forwarded \* the lines of each pipe that were forwarded, and to which session

sessionVars == <<opener, closer, clash>>
fileVars    == <<block, saved, stderr>>
pipeVars    == <<reading, handling, logged, taken, forwarded>>
vars == <<sessionVars, fileVars, observed, pipeVars>>

Init ==
    /\ opener = [s \in Sessions |-> "new"]
    /\ closer = [s \in Sessions |-> "none"]
    /\ clash = FALSE
    /\ block = None
    /\ saved = None
    /\ stderr = Console
    /\ observed = {}
    /\ reading = {}
    /\ handling = None
    /\ logged = [p \in Sessions |-> 0]
    /\ taken = [p \in Sessions |-> 0]
    /\ forwarded = [p \in Sessions |-> <<>>]

OpenerStep(s, from, to) == opener[s] = from /\ opener' = [opener EXCEPT ![s] = to]
CloserStep(s, from, to) == closer[s] = from /\ closer' = [closer EXCEPT ![s] = to]

\* A session is in the middle of a call of the component.
InCall(s) == opener[s] \notin {"new", "open"} \/ closer[s] \notin {"none", "closed"}
Busy == \E s \in Sessions : InCall(s)

-----------------------------------------------------------------------------
(* didOpen.                                                                *)

\* The block is replaced whether or not stderr is redirected already.
DidOpen(s) ==
    /\ OpenerStep(s, "new", "check")
    /\ clash' = (clash \/ Busy)
    /\ block' = s
    /\ UNCHANGED <<closer, saved, stderr, observed, pipeVars>>

\* isRedirected.
CheckRedirected(s) ==
    /\ \/ saved # None /\ OpenerStep(s, "check", "open")
       \/ saved = None /\ OpenerStep(s, "check", "save")
    /\ UNCHANGED <<closer, clash, fileVars, observed, pipeVars>>

SaveStderr(s) ==
    /\ OpenerStep(s, "save", "redirect")
    /\ saved' = stderr
    /\ UNCHANGED <<closer, clash, block, stderr, observed, pipeVars>>

RedirectStderr(s) ==
    /\ OpenerStep(s, "redirect", "observe")
    /\ stderr' = s
    /\ UNCHANGED <<closer, clash, block, saved, observed, pipeVars>>

ObservePipe(s) ==
    /\ OpenerStep(s, "observe", "open")
    /\ observed' = observed \union {s}
    /\ reading' = reading \union {s}
    /\ UNCHANGED <<closer, clash, fileVars, handling, logged, taken, forwarded>>

-----------------------------------------------------------------------------
(* didClose.                                                               *)

\* A frame may close the WebSocket before didOpen has returned, or was called.
DidClose(s) ==
    /\ CloserStep(s, "none", "check")
    /\ clash' = (clash \/ Busy \/ opener[s] = "new")
    /\ UNCHANGED <<opener, fileVars, observed, pipeVars>>

CheckRecover(s) ==
    /\ \/ saved = None /\ CloserStep(s, "check", "closed")
       \/ saved # None /\ CloserStep(s, "check", "remove")
    /\ UNCHANGED <<opener, clash, fileVars, observed, pipeVars>>

\* Whatever pipe is observed, and whichever session made it.
RemoveObserver(s) ==
    /\ CloserStep(s, "remove", "recover")
    /\ observed' = {}
    /\ UNCHANGED <<opener, clash, fileVars, pipeVars>>

CheckSaved(s) ==
    /\ \/ saved = None /\ CloserStep(s, "recover", "closed")
       \/ saved # None /\ CloserStep(s, "recover", "restore")
    /\ UNCHANGED <<opener, clash, fileVars, observed, pipeVars>>

\* To duplicate a descriptor that has become illegal fails, which is ignored.
RestoreStderr(s) ==
    /\ CloserStep(s, "restore", "forget")
    /\ stderr' = IF saved = None THEN stderr ELSE saved
    /\ UNCHANGED <<opener, clash, block, saved, observed, pipeVars>>

\* Mutant: stdErrFd keeps its value.
ForgetSaved_Keeps(s) ==
    /\ CloserStep(s, "forget", "closed")
    /\ UNCHANGED <<opener, clash, fileVars, observed, pipeVars>>

ForgetSaved(s) ==
    /\ CloserStep(s, "forget", "closed")
    /\ saved' = None
    /\ UNCHANGED <<opener, clash, block, stderr, observed, pipeVars>>

-----------------------------------------------------------------------------
(* The log.                                                                *)

\* The app writes a line to STDERR_FILENO; one to the console is of no concern.
Log ==
    /\ stderr # Console /\ logged[stderr] < MaxLines
    /\ logged' = [logged EXCEPT ![stderr] = @ + 1]
    /\ UNCHANGED <<sessionVars, fileVars, observed, reading, handling, taken, forwarded>>

\* On the main thread, a read in the background has lines.  The component is
\* called with them if the pipe is observed at this time; they are lost if not.
Notify(p) ==
    /\ handling = None
    /\ p \in reading /\ taken[p] < logged[p]
    /\ reading' = reading \ {p}
    /\ \E n \in (taken[p] + 1)..logged[p] :
          /\ taken' = [taken EXCEPT ![p] = n]
          /\ handling' = IF p \in observed
                         THEN [at |-> "send", pipe |-> p, first |-> taken[p] + 1, last |-> n]
                         ELSE None
    /\ UNCHANGED <<sessionVars, fileVars, observed, logged, forwarded>>

\* The lines of a read, as they were sent to a session.
SentTo(s, m, n) == [i \in 1..(n - m + 1) |-> [line |-> m + i - 1, to |-> s]]

\* Mutant: lines are dropped while stderr is not redirected.
SendLines_Redirected ==
    /\ handling # None /\ handling.at = "send"
    /\ forwarded' = [forwarded EXCEPT ![handling.pipe] =
                   IF saved # None THEN @ \o SentTo(block, handling.first, handling.last) ELSE @]
    /\ handling' = [handling EXCEPT !.at = "again"]
    /\ UNCHANGED <<sessionVars, fileVars, observed, reading, logged, taken>>

\* readCompletionBlock, whatever it is by now, is called.
SendLines ==
    /\ handling # None /\ handling.at = "send"
    /\ forwarded' = [forwarded EXCEPT ![handling.pipe] =
                   @ \o SentTo(block, handling.first, handling.last)]
    /\ handling' = [handling EXCEPT !.at = "again"]
    /\ UNCHANGED <<sessionVars, fileVars, observed, reading, logged, taken>>

\* Mutant: a pipe is read once.
ReadAgain_Never ==
    /\ handling # None /\ handling.at = "again"
    /\ handling' = None
    /\ UNCHANGED <<sessionVars, fileVars, observed, reading, logged, taken, forwarded>>

\* Whether or not the pipe is observed still.
ReadAgain ==
    /\ handling # None /\ handling.at = "again"
    /\ reading' = reading \union {handling.pipe}
    /\ handling' = None
    /\ UNCHANGED <<sessionVars, fileVars, observed, logged, taken, forwarded>>

-----------------------------------------------------------------------------
Opening(s) ==
    DidOpen(s) \/ CheckRedirected(s) \/ SaveStderr(s) \/ RedirectStderr(s) \/ ObservePipe(s)

Closing(s) ==
    \/ DidClose(s) \/ CheckRecover(s) \/ RemoveObserver(s)
    \/ CheckSaved(s) \/ RestoreStderr(s) \/ ForgetSaved(s)

Next ==
    \/ \E s \in Sessions : Opening(s) \/ Closing(s)
    \/ Log \/ SendLines \/ ReadAgain
    \/ \E p \in Sessions : Notify(p)

Spec == Init /\ [][Next]_vars

\* The main run loop reads the pipes, and the main thread runs.
FairSpec ==
    /\ Spec
    /\ \A p \in Sessions : WF_vars(Notify(p))
    /\ WF_vars(SendLines) /\ WF_vars(ReadAgain)

-----------------------------------------------------------------------------
(* Properties.                                                             *)

\* The shape of every variable.
TypeOK ==
    /\ opener \in [Sessions -> {"new", "check", "save", "redirect", "observe", "open"}]
    /\ closer \in [Sessions ->
          {"none", "check", "remove", "recover", "restore", "forget", "closed"}]
    /\ clash \in BOOLEAN
    /\ block \in Sessions \union {None}
    /\ saved \in Sessions \union {Console, None}
    /\ stderr \in Sessions \union {Console}
    /\ observed \in SUBSET Sessions
    /\ reading \in SUBSET Sessions
    /\ handling \in {None} \union
          [at : {"send", "again"}, pipe : Sessions, first : Nat, last : Nat]
    /\ logged \in [Sessions -> Nat]
    /\ taken \in [Sessions -> Nat]
    /\ forwarded \in [Sessions -> Seq([line : Nat, to : Sessions])]

\* Nothing of the session has begun, or all of it is over.
Quiet(s) == opener[s] = "new" \/ closer[s] = "closed"

\* Stderr is the console, or one pipe that is observed and can be recovered from.
Consistent ==
    \/ stderr = Console /\ saved = None /\ observed = {}
    \/ stderr \in Sessions /\ saved = Console /\ observed = {stderr}

\* Sessions may overlap in any way.  As long as their calls of the component have
\* not, and no session was closed before it was opened, stderr is either the
\* console or the one pipe observed whenever no call runs; and once every session
\* that began is over it is the console, whichever of them redirected it and
\* whichever closed first.  Calls that overlap leave stderr redirected for good.
Recovered ==
    ~clash /\ ~Busy =>
        Consistent /\ ((\A s \in Sessions : Quiet(s)) => stderr = Console)

\* However sessions, their calls and the main thread overlap: of the lines of a
\* pipe the first up to some place are sent, in order, none of them twice; and the
\* ones that a session is sent follow each other.  The session need not be the one
\* whose pipe it is: a read that was matched before the pipe was given up goes to
\* the block of the next session.
GetsEveryLine ==
    \A p \in Sessions : \A i, k \in 1..Len(forwarded[p]) :
        /\ forwarded[p][i].line = i
        /\ forwarded[p][i].to = forwarded[p][k].to =>
              \A j \in i..k : forwarded[p][j].to = forwarded[p][i].to

\* A line in a pipe that is observed is sent, unless a session closes, which ends
\* the observation of every pipe.
OpenIsFed ==
    \A p \in Sessions : \A n \in 1..MaxLines :
        (p \in observed /\ logged[p] >= n) ~> (Len(forwarded[p]) >= n \/ p \notin observed)

\* Where the only call has got to tells the state of the files.
PhaseOK(s) ==
    /\ closer[s] # "none" => opener[s] = "open"
    /\ opener[s] = "check" \/ closer[s] = "check" => Consistent
    /\ opener[s] = "save" => stderr = Console /\ saved = None /\ observed = {}
    /\ opener[s] = "redirect" => stderr = Console /\ saved = Console /\ observed = {}
    /\ opener[s] = "observe" => stderr = s /\ saved = Console /\ observed = {}
    /\ closer[s] = "remove" => Consistent /\ saved # None
    /\ closer[s] \in {"recover", "restore"} => saved = Console /\ observed = {}
    /\ closer[s] = "forget" => stderr = Console /\ saved = Console /\ observed = {}

\* As long as no calls have overlapped.
CallsOK ==
    /\ \A s, t \in Sessions : InCall(s) /\ InCall(t) => s = t
    /\ \A s \in Sessions : PhaseOK(s)
    /\ ~Busy => Consistent
    /\ saved # None => \E s \in Sessions : ~Quiet(s)

\* The lines of a pipe that were taken from it and are still to be sent.
Pending(p) ==
    IF handling # None /\ handling.pipe = p /\ handling.at = "send"
    THEN handling.last - handling.first + 1 ELSE 0

\* The lines of a pipe, from the pipe by way of the read at hand to the sessions.
FeedOK(p) ==
    /\ \A i \in 1..Len(forwarded[p]) : forwarded[p][i].line = i
    /\ p \in observed => Len(forwarded[p]) + Pending(p) = taken[p]
    /\ handling # None /\ handling.pipe = p /\ handling.at = "send" =>
          handling.first = Len(forwarded[p]) + 1 /\ handling.first <= handling.last
    /\ opener[p] # "open" =>
          /\ forwarded[p] = <<>> /\ taken[p] = 0 /\ p \notin observed /\ p \notin reading
          /\ handling # None => handling.pipe # p

\* The sessions that lines of a pipe are sent to: each was opened, and no session
\* is sent lines again when the block has become that of another one.
BlocksOK(p) ==
    /\ \A i \in 1..Len(forwarded[p]) : opener[forwarded[p][i].to] # "new"
    /\ \A i, k \in 1..Len(forwarded[p]) : forwarded[p][i].to = forwarded[p][k].to =>
          \A j \in i..k : forwarded[p][j].to = forwarded[p][i].to
    /\ \A i, k \in 1..Len(forwarded[p]) :
          i <= k /\ forwarded[p][i].to = block => forwarded[p][k].to = block

BlockOK ==
    /\ block # None => opener[block] # "new"
    /\ \A s \in Sessions : opener[s] # "new" => block # None

IInv ==
    /\ TypeOK /\ BlockOK
    /\ ~clash => CallsOK
    /\ \A p \in Sessions : FeedOK(p) /\ BlocksOK(p)
================================================================================
