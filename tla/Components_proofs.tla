--------------------------- MODULE Components_proofs ---------------------------
(***************************************************************************)
(* The components around the server.  HSDConsoleLogComponent: however      *)
(* sessions overlap, the lines of a pipe are sent in order, and as long as *)
(* their calls do not overlap stderr is recovered.  HSDManager and its     *)
(* panel: the switch follows the server, for every number of starts,       *)
(* panels and resolves.  HSDGWebServerMultiPartFormRequest: for every      *)
(* form, however it is cut, its parts are found as they were sent, no      *)
(* parser hoards the data of a file and no request that is released leaves *)
(* a temporary file.                                                       *)
(***************************************************************************)
EXTENDS ConsoleLog, Manager, MultiPart, SequenceTheorems, WellFoundedInduction,
        NaturalsInduction, TLAPS

-----------------------------------------------------------------------------
(* The console log: one call, as long as none have overlapped.             *)

callVars == <<opener, closer, clash, saved, stderr, observed>>

\* What the calls are about, without the pipes.
CallTypes ==
    /\ opener \in [Sessions -> {"new", "check", "save", "redirect", "observe", "open"}]
    /\ closer \in [Sessions ->
          {"none", "check", "remove", "recover", "restore", "forget", "closed"}]
    /\ clash \in BOOLEAN
    /\ saved \in Sessions \union {Console, None}
    /\ stderr \in Sessions \union {Console}
    /\ observed \in SUBSET Sessions

LEMMA CallTypesKept ==
  ASSUME CallTypes, [Next]_vars
  PROVE  CallTypes'
<1> USE DEF CallTypes
<1>1. ASSUME NEW s \in Sessions, Opening(s) PROVE CallTypes'
  BY <1>1 DEF Opening, DidOpen, CheckRedirected, SaveStderr, RedirectStderr, ObservePipe,
              OpenerStep, fileVars
<1>2. ASSUME NEW s \in Sessions, Closing(s) PROVE CallTypes'
  BY <1>2 DEF Closing, DidClose, CheckRecover, RemoveObserver, CheckSaved, RestoreStderr,
              ForgetSaved, CloserStep, fileVars
<1>3. ASSUME UNCHANGED callVars PROVE CallTypes'
  BY <1>3 DEF callVars
<1>4. ASSUME Log \/ SendLines \/ ReadAgain \/ (\E p \in Sessions : Notify(p)) \/ UNCHANGED vars
      PROVE  UNCHANGED callVars
  BY <1>4 DEF Log, SendLines, ReadAgain, Notify, vars, sessionVars, fileVars, callVars
<1> QED
  BY <1>1, <1>2, <1>3, <1>4 DEF Next
\* While one session is in a call, or begins one with none running, no other is.
LEMMA OneCall ==
  ASSUME CallsOK, NEW s \in Sessions, InCall(s) \/ ~Busy, NEW t \in Sessions, t # s
  PROVE  ~InCall(t)
BY DEF CallsOK, Busy

LEMMA NotInCall ==
  ASSUME CallTypes, NEW t \in Sessions, ~InCall(t)
  PROVE  opener[t] \in {"new", "open"} /\ closer[t] \in {"none", "closed"}
BY DEF CallTypes, InCall

\* One session has moved on, and the others are not in a call: what there is to
\* show is about this session.
LEMMA OneMoves ==
  ASSUME CallTypes, CallsOK, NEW s \in Sessions,
         \A t \in Sessions \ {s} :
             ~InCall(t) /\ opener'[t] = opener[t] /\ closer'[t] = closer[t],
         PhaseOK(s)',
         ~InCall(s)' => Consistent',
         saved' # None => ~Quiet(s)' \/ \E t \in Sessions \ {s} : ~Quiet(t)
  PROVE  CallsOK'
<1>1. ASSUME NEW t \in Sessions, t # s PROVE ~InCall(t)' /\ PhaseOK(t)' /\ (Quiet(t)' <=> Quiet(t))
  <2>1. opener'[t] \in {"new", "open"} /\ closer'[t] \in {"none", "closed"}
    BY <1>1, NotInCall
  <2>2. closer'[t] # "none" => opener'[t] = "open"
    BY <1>1 DEF CallsOK, PhaseOK
  <2> QED
    BY <2>1, <2>2, <1>1 DEF InCall, PhaseOK, Quiet
<1>2. (\A t, u \in Sessions : InCall(t) /\ InCall(u) => t = u)'
  BY <1>1
<1>3. (\A t \in Sessions : PhaseOK(t))'
  BY <1>1
<1>4. (~Busy => Consistent)'
  BY DEF Busy
<1>5. (saved # None => \E t \in Sessions : ~Quiet(t))'
  BY <1>1
<1> QED
  BY <1>2, <1>3, <1>4, <1>5 DEF CallsOK

LEMMA OpeningCalls ==
  ASSUME CallTypes, ~clash => CallsOK, ~clash', NEW s \in Sessions, Opening(s)
  PROVE  CallsOK'
<1> USE NamesAssumption DEF OpenerStep
<1>1. CASE DidOpen(s)
  <2>1. CallsOK /\ ~Busy
    BY <1>1 DEF DidOpen
  <2>2. \A t \in Sessions \ {s} :
            ~InCall(t) /\ opener'[t] = opener[t] /\ closer'[t] = closer[t]
    BY <1>1, <2>1, OneCall DEF DidOpen, CallTypes
  <2>3. opener'[s] = "check" /\ closer'[s] = "none" /\ opener[s] = "new"
    BY <1>1, <2>1 DEF DidOpen, CallTypes, CallsOK, PhaseOK, Busy, InCall
  <2>4. Consistent'
    BY <1>1, <2>1 DEF DidOpen, CallsOK, Consistent
  <2>5. PhaseOK(s)' /\ InCall(s)' /\ ~Quiet(s)'
    BY <2>3, <2>4 DEF PhaseOK, InCall, Quiet
  <2> QED
    BY <2>1, <2>2, <2>5, OneMoves
<1>2. CASE CheckRedirected(s)
  <2>1. CallsOK /\ InCall(s) /\ opener[s] = "check" /\ Consistent
    BY <1>2 DEF CheckRedirected, CallsOK, PhaseOK, InCall
  <2>2. \A t \in Sessions \ {s} :
            ~InCall(t) /\ opener'[t] = opener[t] /\ closer'[t] = closer[t]
    BY <1>2, <2>1, OneCall DEF CheckRedirected, CallTypes
  <2>3. closer'[s] = "none" /\ opener'[s] = (IF saved # None THEN "open" ELSE "save")
    BY <1>2, <2>1 DEF CheckRedirected, CallTypes, CallsOK, PhaseOK
  <2>4. UNCHANGED <<saved, stderr, observed>>
    BY <1>2 DEF CheckRedirected, fileVars
  <2>5. PhaseOK(s)' /\ Consistent' /\ ~Quiet(s)'
    BY <2>1, <2>3, <2>4 DEF PhaseOK, Consistent, Quiet
  <2> QED
    BY <2>1, <2>2, <2>5, OneMoves
<1>3. CASE SaveStderr(s)
  <2>1. CallsOK /\ InCall(s) /\ opener[s] = "save" /\ stderr = Console /\ observed = {}
    BY <1>3 DEF SaveStderr, CallsOK, PhaseOK, InCall
  <2>2. \A t \in Sessions \ {s} :
            ~InCall(t) /\ opener'[t] = opener[t] /\ closer'[t] = closer[t]
    BY <1>3, <2>1, OneCall DEF SaveStderr, CallTypes
  <2>3. closer'[s] = "none" /\ opener'[s] = "redirect"
    BY <1>3, <2>1 DEF SaveStderr, CallTypes, CallsOK, PhaseOK
  <2>4. PhaseOK(s)' /\ InCall(s)' /\ ~Quiet(s)'
    BY <1>3, <2>1, <2>3 DEF SaveStderr, PhaseOK, InCall, Quiet
  <2> QED
    BY <2>1, <2>2, <2>4, OneMoves
<1>4. CASE RedirectStderr(s)
  <2>1. CallsOK /\ InCall(s) /\ opener[s] = "redirect" /\ saved = Console /\ observed = {}
    BY <1>4 DEF RedirectStderr, CallsOK, PhaseOK, InCall
  <2>2. \A t \in Sessions \ {s} :
            ~InCall(t) /\ opener'[t] = opener[t] /\ closer'[t] = closer[t]
    BY <1>4, <2>1, OneCall DEF RedirectStderr, CallTypes
  <2>3. closer'[s] = "none" /\ opener'[s] = "observe"
    BY <1>4, <2>1 DEF RedirectStderr, CallTypes, CallsOK, PhaseOK
  <2>4. PhaseOK(s)' /\ InCall(s)' /\ ~Quiet(s)'
    BY <1>4, <2>1, <2>3 DEF RedirectStderr, PhaseOK, InCall, Quiet
  <2> QED
    BY <2>1, <2>2, <2>4, OneMoves
<1>5. CASE ObservePipe(s)
  <2>1. /\ CallsOK /\ InCall(s) /\ opener[s] = "observe"
        /\ stderr = s /\ saved = Console /\ observed = {}
    BY <1>5 DEF ObservePipe, CallsOK, PhaseOK, InCall
  <2>2. \A t \in Sessions \ {s} :
            ~InCall(t) /\ opener'[t] = opener[t] /\ closer'[t] = closer[t]
    BY <1>5, <2>1, OneCall DEF ObservePipe, CallTypes
  <2>3. closer'[s] = "none" /\ opener'[s] = "open"
    BY <1>5, <2>1 DEF ObservePipe, CallTypes, CallsOK, PhaseOK
  <2>4. stderr' = s /\ saved' = Console /\ observed' = {s}
    BY <1>5, <2>1 DEF ObservePipe, fileVars
  <2>5. PhaseOK(s)' /\ Consistent' /\ ~Quiet(s)'
    BY <2>3, <2>4 DEF PhaseOK, Consistent, Quiet
  <2> QED
    BY <2>1, <2>2, <2>5, OneMoves
<1> QED
  BY <1>1, <1>2, <1>3, <1>4, <1>5 DEF Opening

LEMMA ClosingCalls ==
  ASSUME CallTypes, ~clash => CallsOK, ~clash', NEW s \in Sessions, Closing(s)
  PROVE  CallsOK'
<1> USE NamesAssumption DEF CloserStep
<1>1. CASE DidClose(s)
  <2>1. CallsOK /\ ~Busy /\ opener[s] # "new"
    BY <1>1 DEF DidClose
  <2>2. \A t \in Sessions \ {s} :
            ~InCall(t) /\ opener'[t] = opener[t] /\ closer'[t] = closer[t]
    BY <1>1, <2>1, OneCall DEF DidClose, CallTypes
  <2>3. opener'[s] = "open" /\ closer'[s] = "check"
    BY <1>1, <2>1, NotInCall DEF DidClose, CallTypes, Busy
  <2>4. Consistent'
    BY <1>1, <2>1 DEF DidClose, CallsOK, Consistent, fileVars
  <2>5. PhaseOK(s)' /\ InCall(s)' /\ ~Quiet(s)'
    BY <2>3, <2>4 DEF PhaseOK, InCall, Quiet
  <2> QED
    BY <2>1, <2>2, <2>5, OneMoves
<1>2. CASE CheckRecover(s)
  <2>1. CallsOK /\ InCall(s) /\ closer[s] = "check" /\ opener[s] = "open" /\ Consistent
    BY <1>2 DEF CheckRecover, CallsOK, PhaseOK, InCall
  <2>2. \A t \in Sessions \ {s} :
            ~InCall(t) /\ opener'[t] = opener[t] /\ closer'[t] = closer[t]
    BY <1>2, <2>1, OneCall DEF CheckRecover, CallTypes
  <2>3. opener'[s] = "open" /\ closer'[s] = (IF saved = None THEN "closed" ELSE "remove")
    BY <1>2, <2>1 DEF CheckRecover, CallTypes
  <2>4. UNCHANGED <<saved, stderr, observed>>
    BY <1>2 DEF CheckRecover, fileVars
  <2>5. PhaseOK(s)' /\ Consistent' /\ (saved' # None => ~Quiet(s)')
    BY <2>1, <2>3, <2>4 DEF PhaseOK, Consistent, Quiet
  <2> QED
    BY <2>1, <2>2, <2>5, OneMoves
<1>3. CASE RemoveObserver(s)
  <2>1. /\ CallsOK /\ InCall(s) /\ closer[s] = "remove" /\ opener[s] = "open"
        /\ Consistent /\ saved # None
    BY <1>3 DEF RemoveObserver, CallsOK, PhaseOK, InCall
  <2>2. \A t \in Sessions \ {s} :
            ~InCall(t) /\ opener'[t] = opener[t] /\ closer'[t] = closer[t]
    BY <1>3, <2>1, OneCall DEF RemoveObserver, CallTypes
  <2>3. opener'[s] = "open" /\ closer'[s] = "recover"
    BY <1>3, <2>1 DEF RemoveObserver, CallTypes
  <2>4. saved' = Console /\ observed' = {}
    BY <1>3, <2>1 DEF RemoveObserver, fileVars, Consistent
  <2>5. PhaseOK(s)' /\ InCall(s)' /\ ~Quiet(s)'
    BY <2>3, <2>4 DEF PhaseOK, InCall, Quiet
  <2> QED
    BY <2>1, <2>2, <2>5, OneMoves
<1>4. CASE CheckSaved(s)
  <2>1. /\ CallsOK /\ InCall(s) /\ closer[s] = "recover" /\ opener[s] = "open"
        /\ saved = Console /\ observed = {}
    BY <1>4 DEF CheckSaved, CallsOK, PhaseOK, InCall
  <2>2. \A t \in Sessions \ {s} :
            ~InCall(t) /\ opener'[t] = opener[t] /\ closer'[t] = closer[t]
    BY <1>4, <2>1, OneCall DEF CheckSaved, CallTypes
  <2>3. opener'[s] = "open" /\ closer'[s] = "restore"
    BY <1>4, <2>1 DEF CheckSaved, CallTypes
  <2>4. PhaseOK(s)' /\ InCall(s)' /\ ~Quiet(s)'
    BY <1>4, <2>1, <2>3 DEF CheckSaved, fileVars, PhaseOK, InCall, Quiet
  <2> QED
    BY <2>1, <2>2, <2>4, OneMoves
<1>5. CASE RestoreStderr(s)
  <2>1. /\ CallsOK /\ InCall(s) /\ closer[s] = "restore" /\ opener[s] = "open"
        /\ saved = Console /\ observed = {}
    BY <1>5 DEF RestoreStderr, CallsOK, PhaseOK, InCall
  <2>2. \A t \in Sessions \ {s} :
            ~InCall(t) /\ opener'[t] = opener[t] /\ closer'[t] = closer[t]
    BY <1>5, <2>1, OneCall DEF RestoreStderr, CallTypes
  <2>3. opener'[s] = "open" /\ closer'[s] = "forget"
    BY <1>5, <2>1 DEF RestoreStderr, CallTypes
  <2>4. stderr' = Console /\ saved' = Console /\ observed' = {}
    BY <1>5, <2>1 DEF RestoreStderr
  <2>5. PhaseOK(s)' /\ InCall(s)' /\ ~Quiet(s)'
    BY <2>3, <2>4 DEF PhaseOK, InCall, Quiet
  <2> QED
    BY <2>1, <2>2, <2>5, OneMoves
<1>6. CASE ForgetSaved(s)
  <2>1. /\ CallsOK /\ InCall(s) /\ closer[s] = "forget" /\ opener[s] = "open"
        /\ stderr = Console /\ observed = {}
    BY <1>6 DEF ForgetSaved, CallsOK, PhaseOK, InCall
  <2>2. \A t \in Sessions \ {s} :
            ~InCall(t) /\ opener'[t] = opener[t] /\ closer'[t] = closer[t]
    BY <1>6, <2>1, OneCall DEF ForgetSaved, CallTypes
  <2>3. opener'[s] = "open" /\ closer'[s] = "closed"
    BY <1>6, <2>1 DEF ForgetSaved, CallTypes
  <2>4. stderr' = Console /\ saved' = None /\ observed' = {}
    BY <1>6, <2>1 DEF ForgetSaved
  <2>5. PhaseOK(s)' /\ Consistent' /\ saved' = None
    BY <2>3, <2>4 DEF PhaseOK, Consistent
  <2> QED
    BY <2>1, <2>2, <2>5, OneMoves
<1> QED
  BY <1>1, <1>2, <1>3, <1>4, <1>5, <1>6 DEF Closing

-----------------------------------------------------------------------------
(* The console log: the lines, whatever calls overlap.                     *)

Forwarded == [line : Nat, to : Sessions]

Read == [at : {"send", "again"}, pipe : Sessions, first : Nat, last : Nat]

PipeTypes ==
    /\ block \in Sessions \union {None}
    /\ reading \in SUBSET Sessions
    /\ handling \in {None} \union Read
    /\ logged \in [Sessions -> Nat]
    /\ taken \in [Sessions -> Nat]
    /\ forwarded \in [Sessions -> Seq(Forwarded)]

LEMMA TypesAre == TypeOK <=> CallTypes /\ PipeTypes
BY DEF TypeOK, CallTypes, PipeTypes, Forwarded, Read

LEMMA TypesAreNext == CallTypes' /\ PipeTypes' => TypeOK'
BY DEF TypeOK, CallTypes, PipeTypes, Forwarded, Read

LinesInv == BlockOK /\ \A p \in Sessions : FeedOK(p) /\ BlocksOK(p)

\* What is forwarded goes to sessions.
LEMMA Receivers ==
  ASSUME NEW q \in Seq(Forwarded)
  PROVE  \A i \in 1..Len(q) : q[i].to \in Sessions
<1>1. \A i \in 1..Len(q) : q[i] \in Forwarded
  BY ElementOfSeq
<1>2. \A r \in Forwarded : r.to \in Sessions
  BY DEF Forwarded
<1> QED
  BY <1>1, <1>2

\* r is q and, behind it, the lines up to n, from m on sent to s.
Lengthened(r, q, s, m, n) ==
    /\ r \in Seq(Forwarded) /\ Len(r) = n
    /\ \A i \in 1..Len(q) : r[i] = q[i]
    /\ \A i \in m..n : r[i].line = i /\ r[i].to = s

\* What is forwarded of a read goes behind what was forwarded before.
LEMMA SentBehind ==
  ASSUME NEW q \in Seq(Forwarded), NEW s \in Sessions, NEW m \in Nat, NEW n \in Nat,
         m = Len(q) + 1, m <= n
  PROVE  Lengthened(q \o SentTo(s, m, n), q, s, m, n)
<1> DEFINE r == SentTo(s, m, n)
<1>1. n - m + 1 \in Nat /\ Len(q) \in Nat
  OBVIOUS
<1>2. \A i \in 1..(n - m + 1) : [line |-> m + i - 1, to |-> s] \in Forwarded
  BY <1>1 DEF Forwarded
<1>3. r \in Seq(Forwarded) /\ Len(r) = n - m + 1
  BY <1>1, <1>2 DEF SentTo
<1>4. \A i \in 1..(n - m + 1) : r[i] = [line |-> m + i - 1, to |-> s]
  BY <1>1 DEF SentTo
<1> HIDE DEF r
<1> DEFINE b == q \o r
<1>5. /\ b \in Seq(Forwarded) /\ Len(b) = Len(q) + Len(r)
      /\ \A i \in 1..Len(q) : b[i] = q[i]
      /\ \A i \in 1..Len(r) : b[Len(q) + i] = r[i]
  BY <1>3, ConcatProperties
<1> HIDE DEF b
<1>6. ASSUME NEW i \in m..n PROVE b[i].line = i /\ b[i].to = s
  <2>1. i - Len(q) \in 1..Len(r) /\ Len(q) + (i - Len(q)) = i /\ m + (i - Len(q)) - 1 = i
    BY <1>1, <1>3
  <2>2. b[Len(q) + (i - Len(q))] = r[i - Len(q)]
    BY <2>1, <1>5
  <2>3. r[i - Len(q)] = [line |-> m + (i - Len(q)) - 1, to |-> s]
    BY <2>1, <1>3, <1>4
  <2> QED
    BY <2>1, <2>2, <2>3
<1> QED
  BY <1>1, <1>3, <1>5, <1>6 DEF Lengthened, b, r

\* A call leaves the lines alone, ends observations and takes the block over at most.
LEMMA CallsKeepLines ==
  ASSUME TypeOK, LinesInv, UNCHANGED pipeVars, observed' \subseteq observed,
         \A t \in Sessions : /\ opener[t] = "open" => opener'[t] = "open"
                             /\ opener[t] # "new" => opener'[t] # "new",
         \/ block' = block /\ \A t \in Sessions : opener[t] = "new" => opener'[t] = "new"
         \/ block' \in Sessions /\ opener[block'] = "new" /\ opener'[block'] # "new"
  PROVE  LinesInv'
<1> USE NamesAssumption
<1>1. UNCHANGED <<reading, handling, logged, taken, forwarded>>
  BY DEF pipeVars
<1>2. \A p \in Sessions : FeedOK(p)'
  BY <1>1 DEF LinesInv, FeedOK, Pending
<1>3. ASSUME NEW p \in Sessions PROVE BlocksOK(p)'
  <2>1. BlocksOK(p) /\ forwarded[p] \in Seq(Forwarded)
    BY TypesAre DEF LinesInv, PipeTypes
  <2>2. \A i \in 1..Len(forwarded[p]) : forwarded[p][i].to \in Sessions
    BY <2>1, Receivers
  <2>3. \A i \in 1..Len(forwarded[p]) : opener'[forwarded[p][i].to] # "new"
    BY <2>1, <2>2 DEF BlocksOK
  <2>4. CASE block' = block
    BY <1>1, <2>1, <2>3, <2>4 DEF BlocksOK
  <2>5. CASE block' \in Sessions /\ opener[block'] = "new"
    BY <1>1, <2>1, <2>3, <2>5 DEF BlocksOK
  <2> QED
    BY <2>4, <2>5
<1>4. BlockOK'
  BY TypesAre DEF LinesInv, BlockOK, PipeTypes
<1> QED
  BY <1>2, <1>3, <1>4 DEF LinesInv

\* A pipe that is observed from now on has had no lines taken from it.
LEMMA ObserveKeepsLines ==
  ASSUME TypeOK, LinesInv, NEW s \in Sessions, ObservePipe(s)
  PROVE  LinesInv'
<1>1. /\ opener[s] = "observe" /\ opener' = [opener EXCEPT ![s] = "open"]
      /\ observed' = observed \union {s} /\ reading' = reading \union {s}
      /\ UNCHANGED <<block, handling, logged, taken, forwarded>>
  BY DEF ObservePipe, OpenerStep, fileVars
<1>2. \A t \in Sessions : opener'[t] = IF t = s THEN "open" ELSE opener[t]
  BY <1>1 DEF TypeOK
<1>3. ASSUME NEW p \in Sessions PROVE FeedOK(p)'
  <2>1. FeedOK(p)
    BY DEF LinesInv
  <2>2. CASE p = s
    <3>1. forwarded[p] = <<>> /\ taken[p] = 0 /\ (handling # None => handling.pipe # p)
      BY <1>1, <2>1, <2>2 DEF FeedOK
    <3>2. Len(forwarded[p]) + Pending(p) = taken[p]
      BY <3>1 DEF Pending
    <3> QED
      BY <1>1, <1>2, <2>1, <2>2, <3>1, <3>2 DEF FeedOK, Pending
  <2>3. CASE p # s
    BY <1>1, <1>2, <2>1, <2>3 DEF FeedOK, Pending
  <2> QED
    BY <2>2, <2>3
<1>4. ASSUME NEW p \in Sessions PROVE BlocksOK(p)'
  <2>1. BlocksOK(p) /\ forwarded[p] \in Seq(Forwarded)
    BY TypesAre DEF LinesInv, PipeTypes
  <2>2. \A i \in 1..Len(forwarded[p]) : forwarded[p][i].to \in Sessions
    BY <2>1, Receivers
  <2>3. \A i \in 1..Len(forwarded[p]) : opener'[forwarded[p][i].to] # "new"
    BY <1>2, <2>1, <2>2 DEF BlocksOK
  <2> QED
    BY <1>1, <2>1, <2>3 DEF BlocksOK
<1>5. BlockOK'
  BY <1>1, <1>2, TypesAre DEF LinesInv, BlockOK, PipeTypes
<1> QED
  BY <1>3, <1>4, <1>5 DEF LinesInv

LEMMA CallsLines ==
  ASSUME TypeOK, LinesInv, NEW s \in Sessions, Opening(s) \/ Closing(s)
  PROVE  LinesInv'
<1> USE DEF TypeOK, OpenerStep, CloserStep
<1>1. CASE DidOpen(s)
  BY <1>1, CallsKeepLines DEF DidOpen
<1>2. CASE CheckRedirected(s) \/ SaveStderr(s) \/ RedirectStderr(s)
  BY <1>2, CallsKeepLines DEF CheckRedirected, SaveStderr, RedirectStderr, fileVars
<1>3. CASE ObservePipe(s)
  BY <1>3, ObserveKeepsLines
<1>4. CASE Closing(s)
  <2>1. UNCHANGED <<opener, block, pipeVars>> /\ observed' \subseteq observed
    BY <1>4 DEF Closing, DidClose, CheckRecover, RemoveObserver, CheckSaved, RestoreStderr,
                ForgetSaved, fileVars
  <2> QED
    BY <2>1, CallsKeepLines
<1> QED
  BY <1>1, <1>2, <1>3, <1>4 DEF Opening

\* Nothing but the block and how far a session has come decides who gets lines.
LEMMA BlocksKept ==
  ASSUME NEW p \in Sessions, BlocksOK(p), UNCHANGED <<opener, block>>,
         forwarded'[p] = forwarded[p]
  PROVE  BlocksOK(p)'
BY DEF BlocksOK

LEMMA NotifyLines ==
  ASSUME TypeOK, LinesInv, NEW p \in Sessions, Notify(p)
  PROVE  LinesInv' /\ PipeTypes'
<1>1. PICK n \in (taken[p] + 1)..logged[p] :
        /\ taken' = [taken EXCEPT ![p] = n]
        /\ handling' = IF p \in observed
                       THEN [at |-> "send", pipe |-> p, first |-> taken[p] + 1, last |-> n]
                       ELSE None
  BY DEF Notify
<1>2. /\ handling = None /\ p \in reading /\ reading' = reading \ {p}
      /\ UNCHANGED <<opener, block, observed, logged, forwarded>>
  BY DEF Notify, sessionVars, fileVars
<1>3. /\ taken \in [Sessions -> Nat] /\ logged \in [Sessions -> Nat]
      /\ forwarded \in [Sessions -> Seq(Forwarded)]
  BY TypesAre DEF PipeTypes
<1>4. n \in Nat /\ taken[p] + 1 \in Nat /\ taken[p] + 1 <= n
  BY <1>3
<1>5. \A t \in Sessions : taken'[t] = IF t = p THEN n ELSE taken[t]
  BY <1>1, <1>3
<1>6. /\ p \in observed =>
            /\ handling' \in Read /\ handling' # None
            /\ handling'.at = "send" /\ handling'.pipe = p
            /\ handling'.first = taken[p] + 1 /\ handling'.last = n
      /\ p \notin observed => handling' = None
  BY <1>1, <1>4, HandlingAssumption DEF Read
<1>7. PipeTypes'
  <2>1. taken' \in [Sessions -> Nat]
    BY <1>1, <1>3, <1>4
  <2> QED
    BY <2>1, <1>2, <1>6, TypesAre DEF PipeTypes
<1>8. ASSUME NEW t \in Sessions PROVE FeedOK(t)'
  <2>1. FeedOK(t) /\ Pending(t) = 0
    BY <1>2 DEF LinesInv, Pending
  <2>2. Len(forwarded[t]) \in Nat
    BY <1>3
  <2>3. CASE t = p /\ p \in observed
    <3>1. Len(forwarded[p]) = taken[p]
      BY <2>1, <2>2, <2>3 DEF FeedOK
    <3>2. Pending(p)' = n - (taken[p] + 1) + 1
      BY <1>6, <2>3 DEF Pending
    <3>3. Len(forwarded[p]) + Pending(p)' = taken'[p]
      BY <3>1, <3>2, <1>3, <1>4, <1>5
    <3>4. opener[p] = "open"
      BY <2>1, <2>3 DEF FeedOK
    <3> QED
      BY <3>1, <3>3, <3>4, <2>1, <2>3, <1>2, <1>4, <1>6 DEF FeedOK
  <2>4. CASE t = p /\ p \notin observed
    <3>1. opener[p] = "open"
      BY <2>1, <2>4, <1>2 DEF FeedOK
    <3> QED
      BY <3>1, <2>1, <2>4, <1>2, <1>6 DEF FeedOK
  <2>5. CASE t # p
    <3>1. Pending(t)' = 0 /\ (handling' # None => handling'.pipe # t)
      BY <2>5, <1>6 DEF Pending
    <3> QED
      BY <3>1, <2>1, <2>5, <1>2, <1>5 DEF FeedOK
  <2> QED
    BY <2>3, <2>4, <2>5
<1>9. BlockOK' /\ \A t \in Sessions : BlocksOK(t)'
  BY <1>2, BlocksKept DEF LinesInv, BlockOK
<1> QED
  BY <1>7, <1>8, <1>9 DEF LinesInv

LEMMA SendLinesOf ==
  ASSUME TypeOK, LinesInv, SendLines, handling \in Read,
         NEW p \in Sessions, NEW m \in Nat, NEW n \in Nat,
         handling.pipe = p, handling.first = m, handling.last = n
  PROVE  LinesInv' /\ PipeTypes'
<1> DEFINE q == forwarded[p]
           f == forwarded'[p]
<1>1. /\ handling # None /\ handling.at = "send"
      /\ forwarded' = [forwarded EXCEPT ![p] = @ \o SentTo(block, m, n)]
      /\ handling' = [handling EXCEPT !.at = "again"]
      /\ UNCHANGED <<opener, block, observed, reading, logged, taken>>
  BY DEF SendLines, sessionVars, fileVars
<1>2. /\ handling' \in Read /\ handling' # None
      /\ handling'.pipe = p /\ handling'.at = "again"
  BY <1>1, HandlingAssumption DEF Read
<1>3. /\ forwarded \in [Sessions -> Seq(Forwarded)]
      /\ taken \in [Sessions -> Nat] /\ block \in Sessions \union {None}
  BY TypesAre DEF PipeTypes
<1>4. q \in Seq(Forwarded) /\ Len(q) \in Nat
  BY <1>3
<1>5. FeedOK(p) /\ BlocksOK(p) /\ BlockOK
  BY DEF LinesInv
<1>6. m = Len(q) + 1 /\ m <= n /\ opener[p] = "open"
  BY <1>1, <1>5 DEF FeedOK
<1>7. block \in Sessions /\ opener[block] # "new"
  BY <1>3, <1>5, <1>6, NamesAssumption DEF BlockOK
<1>8. f = q \o SentTo(block, m, n) /\ \A t \in Sessions \ {p} : forwarded'[t] = forwarded[t]
  BY <1>1, <1>3
<1>9. /\ \A i \in 1..Len(q) : q[i].line = i /\ opener[q[i].to] # "new"
      /\ \A i, k \in 1..Len(q) : i <= k /\ q[i].to = block => q[k].to = block
      /\ \A i, k \in 1..Len(q) : q[i].to = q[k].to => \A j \in i..k : q[j].to = q[i].to
  BY <1>5 DEF FeedOK, BlocksOK
<1> HIDE DEF q, f
<1>10. /\ f \in Seq(Forwarded) /\ Len(f) = n
       /\ \A i \in 1..Len(q) : f[i] = q[i]
       /\ \A i \in m..n : f[i].line = i /\ f[i].to = block
  <2>1. m = Len(q) + 1 /\ m <= n /\ block \in Sessions
    BY <1>6, <1>7
  <2>2. Lengthened(q \o SentTo(block, m, n), q, block, m, n)
    BY <2>1, <1>4, SentBehind
  <2>3. Lengthened(f, q, block, m, n)
    BY <2>2, <1>8
  <2> QED
    BY <2>3 DEF Lengthened
<1>11. PipeTypes'
  <2>1. forwarded' = [forwarded EXCEPT ![p] = f]
    BY <1>1, <1>3 DEF f
  <2>2. forwarded' \in [Sessions -> Seq(Forwarded)]
    BY <2>1, <1>3, <1>10
  <2> QED
    BY <2>2, <1>1, <1>2, TypesAre DEF PipeTypes
<1>12. \A i \in 1..n : i \in 1..Len(q) \/ i \in m..n
  BY <1>4, <1>6
<1>13. \A i \in m..n : f[i].line = i /\ f[i].to = block
  BY <1>10
<1>14. ASSUME NEW i \in 1..n PROVE f[i].line = i /\ opener[f[i].to] # "new"
  <2>1. CASE i \in 1..Len(q)
    BY <2>1, <1>9, <1>10
  <2>2. CASE i \in m..n
    BY <2>2, <1>7, <1>13
  <2> QED
    BY <2>1, <2>2, <1>12
<1>15. ASSUME NEW i \in 1..n, NEW k \in 1..n, i <= k, f[i].to = block PROVE f[k].to = block
  <2>1. CASE k \in m..n
    BY <2>1, <1>13
  <2>2. CASE k \in 1..Len(q)
    <3>1. i \in 1..Len(q)
      BY <2>2, <1>15, <1>4
    <3> QED
      BY <3>1, <2>2, <1>9, <1>10, <1>15
  <2> QED
    BY <2>1, <2>2, <1>12
<1>16. ASSUME NEW i \in 1..n, NEW k \in 1..n, f[i].to = f[k].to, NEW j \in i..k
       PROVE  f[j].to = f[i].to
  <2>1. i <= j /\ j <= k /\ j \in 1..n
    OBVIOUS
  <2>2. CASE k \in 1..Len(q)
    <3>1. i \in 1..Len(q) /\ j \in 1..Len(q)
      BY <2>1, <2>2, <1>4
    <3> QED
      BY <3>1, <2>2, <1>9, <1>10, <1>16
  <2>3. CASE k \in m..n
    <3>1. f[i].to = block
      BY <2>3, <1>13, <1>16
    <3> QED
      BY <3>1, <2>1, <1>15
  <2> QED
    BY <2>2, <2>3, <1>12
<1>17. FeedOK(p)'
  <2>1. Pending(p) = n - m + 1 /\ Pending(p)' = 0
    BY <1>1, <1>2 DEF Pending
  <2>2. p \in observed => taken[p] = n
    <3>1. p \in observed => Len(q) + (n - m + 1) = taken[p]
      BY <1>5, <2>1 DEF FeedOK, q
    <3> QED
      BY <3>1, <1>4, <1>6
  <2>3. Len(f) + Pending(p)' = n
    BY <2>1, <1>10
  <2>4. \A i \in 1..Len(f) : f[i].line = i
    BY <1>10, <1>14
  <2> QED
    BY <2>2, <2>3, <2>4, <1>1, <1>2, <1>6 DEF FeedOK, f
<1>18. BlocksOK(p)'
  <2>1. /\ \A i \in 1..Len(f) : opener'[f[i].to] # "new"
        /\ \A i, k \in 1..Len(f) : f[i].to = f[k].to => \A j \in i..k : f[j].to = f[i].to
        /\ \A i, k \in 1..Len(f) : i <= k /\ f[i].to = block' => f[k].to = block'
    BY <1>1, <1>10, <1>14, <1>15, <1>16
  <2> QED
    BY <2>1 DEF BlocksOK, f
<1>19. ASSUME NEW t \in Sessions, t # p PROVE FeedOK(t)' /\ BlocksOK(t)'
  <2>1. FeedOK(t) /\ BlocksOK(t) /\ forwarded'[t] = forwarded[t]
    BY <1>8, <1>19 DEF LinesInv
  <2>2. Pending(t) = 0 /\ Pending(t)' = 0
    BY <1>2, <1>19 DEF Pending
  <2>3. FeedOK(t)'
    BY <1>1, <1>2, <1>19, <2>1, <2>2 DEF FeedOK
  <2> QED
    BY <1>1, <2>1, <2>3, BlocksKept
<1>20. BlockOK'
  BY <1>1, <1>5 DEF BlockOK
<1>21. \A t \in Sessions : FeedOK(t)' /\ BlocksOK(t)'
  BY <1>17, <1>18, <1>19
<1> QED
  BY <1>11, <1>20, <1>21 DEF LinesInv

LEMMA SendLinesOK ==
  ASSUME TypeOK, LinesInv, SendLines
  PROVE  LinesInv' /\ PipeTypes'
<1>1. handling \in Read
  BY TypesAre DEF SendLines, PipeTypes
<1>2. handling.pipe \in Sessions /\ handling.first \in Nat /\ handling.last \in Nat
  BY <1>1 DEF Read
<1> QED
  BY <1>1, <1>2, SendLinesOf

LEMMA ReadAgainOK ==
  ASSUME TypeOK, LinesInv, ReadAgain
  PROVE  LinesInv' /\ PipeTypes'
<1>1. /\ handling # None /\ handling.at = "again" /\ handling \in Read /\ handling' = None
      /\ reading' = reading \union {handling.pipe} /\ handling.pipe \in Sessions
      /\ UNCHANGED <<opener, block, observed, logged, taken, forwarded>>
  BY TypesAre DEF ReadAgain, sessionVars, fileVars, PipeTypes, Read
<1>2. PipeTypes'
  BY <1>1, TypesAre DEF PipeTypes
<1>3. ASSUME NEW t \in Sessions PROVE FeedOK(t)' /\ BlocksOK(t)'
  <2>1. FeedOK(t) /\ BlocksOK(t) /\ Pending(t) = 0 /\ Pending(t)' = 0
    BY <1>1 DEF LinesInv, Pending
  <2> QED
    BY <1>1, <2>1, BlocksKept DEF FeedOK
<1> QED
  BY <1>1, <1>2, <1>3 DEF LinesInv, BlockOK

LEMMA CallsTypes ==
  ASSUME TypeOK, NEW s \in Sessions, Opening(s) \/ Closing(s)
  PROVE  PipeTypes'
<1>1. /\ UNCHANGED <<handling, logged, taken, forwarded>>
      /\ block' \in {block, s} /\ reading' \in {reading, reading \union {s}}
  BY DEF Opening, DidOpen, CheckRedirected, SaveStderr, RedirectStderr, ObservePipe,
         Closing, DidClose, CheckRecover, RemoveObserver, CheckSaved, RestoreStderr,
         ForgetSaved, fileVars, pipeVars
<1> QED
  BY <1>1, TypesAre DEF PipeTypes

LEMMA LogLines ==
  ASSUME TypeOK, LinesInv, Log
  PROVE  LinesInv' /\ PipeTypes'
<1>1. /\ UNCHANGED <<opener, block, observed, reading, handling, taken, forwarded>>
      /\ stderr # Console /\ logged' = [logged EXCEPT ![stderr] = @ + 1]
  BY DEF Log, sessionVars, fileVars
<1>2. logged' \in [Sessions -> Nat]
  BY <1>1 DEF TypeOK
<1> QED
  BY <1>1, <1>2, TypesAre, BlocksKept DEF PipeTypes, LinesInv, BlockOK, FeedOK, Pending

\* Where the calls are is told by these variables.
LEMMA CallsSame ==
  ASSUME CallsOK, UNCHANGED callVars
  PROVE  CallsOK'
<1>1. UNCHANGED <<opener, closer, saved, stderr, observed>>
  BY DEF callVars
<1>2. \A s : InCall(s)' = InCall(s) /\ Quiet(s)' = Quiet(s)
  BY <1>1 DEF InCall, Quiet
<1>3. Consistent' = Consistent /\ Busy' = Busy
  BY <1>1, <1>2 DEF Consistent, Busy
<1>4. \A s : PhaseOK(s)' = PhaseOK(s)
  BY <1>1, <1>3 DEF PhaseOK
<1> QED
  BY <1>1, <1>2, <1>3, <1>4 DEF CallsOK

\* What the console log does however sessions overlap, and what while their calls
\* do not (HSDConsoleLogComponent.m:40-98, HSDWebSocketHandler.m:14-28).
THEOREM Invariance == Spec => []IInv
<1> USE NamesAssumption
<1>1. Init => IInv
  <2> SUFFICES ASSUME Init PROVE IInv
    OBVIOUS
  <2>1. TypeOK
    <3>1. CallTypes
      BY DEF Init, CallTypes
    <3>2. <<>> \in Seq(Forwarded)
      OBVIOUS
    <3>3. forwarded \in [Sessions -> Seq(Forwarded)]
      BY <3>2 DEF Init
    <3>4. PipeTypes
      BY <3>3 DEF Init, PipeTypes
    <3> QED
      BY <3>1, <3>4, TypesAre
  <2>2. \A s \in Sessions : ~InCall(s) /\ Quiet(s)
    BY DEF Init, InCall, Quiet
  <2>3. CallsOK
    BY <2>2 DEF Init, CallsOK, Busy, Consistent, PhaseOK
  <2>4. ASSUME NEW p \in Sessions PROVE FeedOK(p) /\ BlocksOK(p)
    <3>1. /\ forwarded[p] = <<>> /\ handling = None /\ observed = {} /\ reading = {}
          /\ taken[p] = 0
      BY DEF Init
    <3>2. 1..Len(forwarded[p]) = {}
      BY <3>1
    <3> QED
      BY <3>1, <3>2 DEF FeedOK, BlocksOK
  <2> QED
    BY <2>1, <2>3, <2>4 DEF Init, IInv, BlockOK
<1>2. IInv /\ [Next]_vars => IInv'
  <2> SUFFICES ASSUME IInv, [Next]_vars PROVE IInv'
    OBVIOUS
  <2>1. TypeOK /\ CallTypes /\ LinesInv /\ (~clash => CallsOK) /\ CallTypes'
    BY TypesAre, CallTypesKept DEF IInv, LinesInv
  <2>2. CASE UNCHANGED vars
    <3>1. UNCHANGED <<opener, block, observed, pipeVars>> /\ UNCHANGED callVars
      BY <2>2 DEF vars, sessionVars, fileVars, callVars
    <3>2. LinesInv'
      BY <2>1, <3>1, CallsKeepLines
    <3>3. PipeTypes'
      BY <2>1, <3>1, TypesAre DEF PipeTypes, pipeVars
    <3>4. (~clash => CallsOK)'
      BY <2>1, <3>1, CallsSame DEF callVars
    <3> QED
      BY <2>1, <3>2, <3>3, <3>4, TypesAreNext DEF IInv, LinesInv
  <2>3. ASSUME NEW s \in Sessions, Opening(s) \/ Closing(s) PROVE IInv'
    <3>1. (~clash => CallsOK)'
      BY <2>1, <2>3, OpeningCalls, ClosingCalls
    <3> QED
      BY <2>1, <2>3, <3>1, CallsLines, CallsTypes, TypesAreNext DEF IInv, LinesInv
  <2>4. ASSUME Log \/ SendLines \/ ReadAgain \/ \E p \in Sessions : Notify(p) PROVE IInv'
    <3>1. LinesInv' /\ PipeTypes'
      BY <2>1, <2>4, LogLines, SendLinesOK, ReadAgainOK, NotifyLines
    <3>2. UNCHANGED callVars
      BY <2>4 DEF Log, SendLines, ReadAgain, Notify, sessionVars, fileVars, callVars
    <3>3. (~clash => CallsOK)'
      BY <2>1, <3>2, CallsSame DEF callVars
    <3> QED
      BY <2>1, <3>1, <3>3, TypesAreNext DEF IInv, LinesInv
  <2> QED
    BY <2>2, <2>3, <2>4 DEF Next
<1> QED
  BY <1>1, <1>2, PTL DEF Spec

\* As long as no calls have overlapped, stderr can be recovered whenever none runs,
\* and is the console when the sessions are over (HSDConsoleLogComponent.m:84-97).
THEOREM StderrRecovered == Spec => []Recovered
<1>1. IInv => Recovered
  <2> SUFFICES ASSUME IInv, ~clash, ~Busy
               PROVE  Consistent /\ ((\A s \in Sessions : Quiet(s)) => stderr = Console)
    BY DEF Recovered
  <2>1. CallsOK
    BY DEF IInv
  <2> QED
    BY <2>1, NamesAssumption DEF CallsOK, Consistent
<1> QED
  BY <1>1, Invariance, PTL

\* Whatever overlaps, the lines of a pipe are sent in order, none of them twice, and
\* each session gets consecutive ones (HSDConsoleLogComponent.m:41-52).
THEOREM EveryLine == Spec => []GetsEveryLine
<1>1. IInv => GetsEveryLine
  BY DEF IInv, FeedOK, BlocksOK, GetsEveryLine
<1> QED
  BY <1>1, Invariance, PTL

-----------------------------------------------------------------------------
(* The switch of the control panel.                                        *)

Notification == [name : {"started", "stopped"}, panel : Nat]

\* What the switch depends on; a notification was posted to a panel that was
\* opened before.
SwitchTypes ==
    /\ server \in {"none", "failed", "running"}
    /\ panel \in Nat /\ panels \in Nat /\ panel <= panels
    /\ loaded \in BOOLEAN /\ switch \in BOOLEAN
    /\ main \in Seq(Notification)
    /\ \A i \in 1..Len(main) : main[i].panel <= panels

Mine(i) == main[i].panel = panel

\* The last notification that the panel has still to receive tells what the
\* server does now, and the switch tells it when there is none.  The invariant
\* says nothing of a panel without its view, which reads the state when loaded.
Follows ==
    panel # 0 /\ server # "failed" =>
        /\ \A i \in 1..Len(main) :
               Mine(i) /\ (\A j \in (i + 1)..Len(main) : ~Mine(j)) =>
                   (main[i].name = "started" <=> IsRunning)
        /\ loaded /\ (\A i \in 1..Len(main) : ~Mine(i)) => (switch <=> IsRunning)

SwitchInv == SwitchTypes /\ Follows

switchVars == <<server, panel, panels, loaded, switch, main>>

-----------------------------------------------------------------------------
LEMMA SwitchInit == ManagerInit => SwitchInv
<1> SUFFICES ASSUME ManagerInit PROVE SwitchInv
  OBVIOUS
<1>1. server = "none" /\ panel = 0 /\ panels = 0 /\ loaded = FALSE /\ switch = FALSE
  BY DEF ManagerInit
<1>2. main \in Seq(Notification) /\ Len(main) = 0
  BY DEF ManagerInit
<1>3. loaded \in BOOLEAN /\ switch \in BOOLEAN
  BY <1>1, Zenon
<1>4. \A i \in 1..Len(main) : main[i].panel <= panels
  BY <1>2
<1>5. server \in {"none", "failed", "running"} /\ panel \in Nat /\ panels \in Nat
      /\ panel <= panels
  BY <1>1
<1>6. SwitchTypes
  BY <1>2, <1>3, <1>4, <1>5, Zenon DEF SwitchTypes
<1>7. Follows
  BY <1>1, Zenon DEF Follows
<1> QED
  BY <1>6, <1>7, Zenon DEF SwitchInv

LEMMA Untouched == SwitchInv /\ UNCHANGED switchVars => SwitchInv'
BY DEF SwitchInv, SwitchTypes, Follows, Mine, IsRunning, switchVars

\* A notification tells the panel what the server has become.
LEMMA Posted ==
    ASSUME SwitchInv, UNCHANGED <<panel, panels, loaded>>, switch' \in BOOLEAN,
           NEW name \in {"started", "stopped"}, Post(name),
           server' \in {"none", "failed", "running"},
           name = "started" <=> IsRunning'
    PROVE  SwitchInv'
<1>1. CASE panel = 0
  BY <1>1 DEF Post, SwitchInv, SwitchTypes, Follows
<1>2. CASE panel # 0
  <2> DEFINE m == [name |-> name, panel |-> panel]
  <2>1. main' = Append(main, m) /\ m \in Notification /\ main \in Seq(Notification)
    BY <1>2 DEF Post, SwitchInv, SwitchTypes, Notification
  <2>2. /\ main' \in Seq(Notification) /\ Len(main') = Len(main) + 1
        /\ \A i \in 1..Len(main) : main'[i] = main[i]
        /\ main'[Len(main) + 1] = m
    BY <2>1
  <2>3. SwitchTypes'
    BY <2>2 DEF SwitchInv, SwitchTypes
  <2>4. Len(main) \in Nat /\ m.panel = panel /\ m.name = name
    BY <2>1
  <2>5. \A i \in 1..Len(main') :
            Mine(i)' /\ (\A j \in (i + 1)..Len(main') : ~Mine(j)') =>
                (main'[i].name = "started" <=> IsRunning')
    <3>1. TAKE i \in 1..Len(main')
    <3>2. HAVE Mine(i)' /\ (\A j \in (i + 1)..Len(main') : ~Mine(j)')
    <3>3. i = Len(main) + 1
      <4>1. main'[Len(main) + 1].panel = panel'
        BY <2>2, <2>4
      <4> QED
        BY <2>2, <2>4, <3>1, <3>2, <4>1 DEF Mine
    <3> QED
      BY <2>2, <2>4, <3>3
  <2>6. main'[Len(main) + 1].panel = panel' /\ Len(main) + 1 \in 1..Len(main')
    BY <2>2, <2>4
  <2> QED
    BY <2>3, <2>5, <2>6 DEF SwitchInv, Follows, Mine
<1> QED
  BY <1>1, <1>2

LEMMA Starting ==
    ASSUME SwitchInv, UNCHANGED <<panel, panels, loaded>>, NEW ok \in BOOLEAN,
           StartHttpServer(ok),
           switch' = switch \/ (switch' = TRUE /\ switch = FALSE)
    PROVE  SwitchInv'
<1>1. CASE IsRunning /\ switch' = switch
  BY <1>1, Untouched DEF StartHttpServer, switchVars
<1>2. CASE IsRunning /\ switch' = TRUE
  BY <1>2 DEF StartHttpServer, SwitchInv, SwitchTypes, Follows, Mine, IsRunning
<1>3. CASE ~IsRunning /\ ok
  <2>1. server' = "running" /\ Post("started") /\ switch' \in BOOLEAN
    BY <1>3 DEF StartHttpServer, SwitchInv, SwitchTypes
  <2> QED
    BY <2>1, Posted DEF IsRunning
<1>4. CASE ~IsRunning /\ ~ok
  <2>1. server' = "failed" /\ main' = main /\ switch' \in BOOLEAN
    BY <1>4 DEF StartHttpServer, SwitchInv, SwitchTypes
  <2> QED
    BY <2>1 DEF SwitchInv, SwitchTypes, Follows
<1> QED
  BY <1>1, <1>2, <1>3, <1>4

LEMMA Stopping ==
    ASSUME SwitchInv, UNCHANGED <<panel, panels, loaded>>, StopHttpServer,
           switch' \in BOOLEAN
    PROVE  SwitchInv'
BY Posted DEF StopHttpServer, IsRunning

LEMMA StartSwitchKeeps == ASSUME SwitchInv, NEW ok \in BOOLEAN, StartSwitch(ok) PROVE SwitchInv'
<1>1. UNCHANGED <<panel, panels, loaded>> /\ switch' = ~switch /\ switch \in BOOLEAN
  BY DEF StartSwitch, Panel, SwitchInv, SwitchTypes
<1>2. CASE switch
  BY <1>1, <1>2, Stopping DEF StartSwitch
<1>3. CASE ~switch
  BY <1>1, <1>3, Starting DEF StartSwitch
<1> QED
  BY <1>2, <1>3

\* The oldest notification is received.
LEMMA NotificationKeeps == ASSUME SwitchInv, NotificationReceived PROVE SwitchInv'
<1>1. /\ main # <<>> /\ main' = Tail(main) /\ main \in Seq(Notification)
      /\ UNCHANGED <<server, panel, panels, loaded>>
      /\ switch' = IF Head(main).panel = panel /\ loaded
                   THEN Head(main).name = "started" ELSE switch
  BY DEF NotificationReceived, Panel, SwitchInv, SwitchTypes
<1>2. /\ main' \in Seq(Notification) /\ Len(main) \in Nat \ {0}
      /\ Len(main') = Len(main) - 1
      /\ Head(main) = main[1]
      /\ \A i \in 1..Len(main') : main'[i] = main[i + 1]
  BY <1>1
<1>3. SwitchTypes'
  <2>1. switch' \in BOOLEAN
    BY <1>1, Zenon DEF SwitchInv, SwitchTypes
  <2>2. \A i \in 1..Len(main') : main'[i].panel <= panels
    BY <1>2 DEF SwitchInv, SwitchTypes
  <2>3. main' \in Seq(Notification) /\ UNCHANGED <<server, panel, panels, loaded>>
    BY <1>1, <1>2
  <2> QED
    BY <2>1, <2>2, <2>3 DEF SwitchInv, SwitchTypes
<1>4. \A i \in 1..Len(main') : main'[i].panel = panel' <=> Mine(i + 1)
  BY <1>1, <1>2 DEF Mine
<1>5. ASSUME panel # 0, server # "failed", NEW i \in 1..Len(main'), main'[i].panel = panel',
             \A j \in (i + 1)..Len(main') : main'[j].panel # panel'
      PROVE  main'[i].name = "started" <=> IsRunning'
  <2>1. i + 1 \in 1..Len(main) /\ Mine(i + 1)
    BY <1>2, <1>4, <1>5
  <2>2. \A j \in (i + 2)..Len(main) : ~Mine(j)
    <3>1. TAKE j \in (i + 2)..Len(main)
    <3>2. j - 1 \in (i + 1)..Len(main') /\ j - 1 \in 1..Len(main')
      BY <1>2, <3>1
    <3> QED
      <4>1. main'[j - 1].panel # panel'
        BY <1>5, <3>2
      <4>2. (j - 1) + 1 = j
        BY <3>1
      <4> QED
        BY <1>4, <3>2, <4>1, <4>2
  <2>3. main[i + 1].name = "started" <=> IsRunning
    BY <1>5, <2>1, <2>2 DEF SwitchInv, Follows
  <2> QED
    BY <1>1, <1>2, <2>3 DEF IsRunning
<1>6. ASSUME panel # 0, server # "failed", loaded,
             \A i \in 1..Len(main') : main'[i].panel # panel'
      PROVE  switch' <=> IsRunning'
  <2>1. \A j \in 2..Len(main) : ~Mine(j)
    <3>1. TAKE j \in 2..Len(main)
    <3>2. j - 1 \in 1..Len(main')
      BY <1>2, <3>1
    <3> QED
      <4>1. main'[j - 1].panel # panel'
        BY <1>6, <3>2
      <4>2. (j - 1) + 1 = j
        BY <3>1
      <4> QED
        BY <1>4, <3>2, <4>1, <4>2
  <2>2. CASE Mine(1)
    <3>1. main[1].name = "started" <=> IsRunning
      BY <1>2, <1>6, <2>1, <2>2 DEF SwitchInv, Follows
    <3> QED
      BY <1>1, <1>2, <1>6, <2>2, <3>1 DEF IsRunning, Mine
  <2>3. CASE ~Mine(1)
    <3>1. \A j \in 1..Len(main) : ~Mine(j)
      BY <1>2, <2>1, <2>3
    <3>2. switch <=> IsRunning
      BY <1>6, <3>1 DEF SwitchInv, Follows
    <3> QED
      BY <1>1, <1>2, <2>3, <3>2 DEF IsRunning, Mine
  <2> QED
    BY <2>2, <2>3
<1> QED
  BY <1>1, <1>3, <1>5, <1>6 DEF SwitchInv, Follows, Mine

\* A new panel has received nothing and is sent nothing that was posted before.
LEMMA CreateKeeps == ASSUME SwitchInv, CreatePanel PROVE SwitchInv'
<1>1. /\ panels' = panels + 1 /\ panel' = panels + 1 /\ loaded' = FALSE
      /\ UNCHANGED <<server, switch, main>> /\ panels \in Nat
  BY DEF CreatePanel, SwitchInv, SwitchTypes
<1>2. \A i \in 1..Len(main) : main[i] \in Notification /\ main[i].panel <= panels
  BY DEF SwitchInv, SwitchTypes
<1>3. SwitchTypes'
  <2>1. loaded' \in BOOLEAN
    BY <1>1, Zenon
  <2>2. \A i \in 1..Len(main) : main[i].panel <= panels + 1
    BY <1>1, <1>2 DEF Notification
  <2>3. panel' \in Nat /\ panels' \in Nat /\ panel' <= panels'
    BY <1>1
  <2>4. UNCHANGED <<server, switch, main>> /\ panels' = panels + 1
    BY <1>1
  <2> QED
    BY <2>1, <2>2, <2>3, <2>4 DEF SwitchInv, SwitchTypes
<1>4. \A i \in 1..Len(main) : ~Mine(i)'
  BY <1>1, <1>2 DEF Mine, Notification
<1> QED
  BY <1>1, <1>3, <1>4 DEF SwitchInv, Follows

LEMMA LoadKeeps == ASSUME SwitchInv, ViewDidLoad PROVE SwitchInv'
BY DEF ViewDidLoad, SwitchInv, SwitchTypes, Follows, Mine, IsRunning

LEMMA CloseKeeps == ASSUME SwitchInv, ClosePanel PROVE SwitchInv'
<1>1. panel' = 0 /\ UNCHANGED <<server, panels, switch, main>>
  BY DEF ClosePanel
<1>2. loaded' \in BOOLEAN
  BY Zenon DEF ClosePanel
<1> QED
  BY <1>1, <1>2 DEF SwitchInv, SwitchTypes, Follows

LEMMA SwitchStep == SwitchInv /\ [ManagerNext]_managerVars => SwitchInv'
<1> SUFFICES ASSUME SwitchInv, [ManagerNext]_managerVars PROVE SwitchInv'
  OBVIOUS
<1>1. CASE \E ok \in BOOLEAN : DidFinishLaunching(ok)
  <2>1. PICK ok \in BOOLEAN : DidFinishLaunching(ok)
    BY <1>1
  <2>2. CASE autoStart
    BY <2>1, <2>2, Starting DEF DidFinishLaunching, Panel
  <2>3. CASE ~autoStart
    BY <2>1, <2>3, Untouched DEF DidFinishLaunching, Panel, switchVars
  <2> QED
    BY <2>2, <2>3
<1>2. CASE \E ok \in BOOLEAN : AppStarts(ok)
  BY <1>2, Starting DEF AppStarts, Panel
<1>3. CASE \E ok \in BOOLEAN : StartSwitch(ok)
  BY <1>3, StartSwitchKeeps
<1>4. CASE AppStops
  <2>1. switch' \in BOOLEAN
    BY <1>4 DEF AppStops, SwitchInv, SwitchTypes
  <2> QED
    BY <1>4, <2>1, Stopping DEF AppStops, Panel
<1>5. CASE AutoStartSwitch
  BY <1>5, Untouched DEF AutoStartSwitch, Panel, switchVars
<1>6. CASE CreatePanel
  BY <1>6, CreateKeeps
<1>7. CASE ViewDidLoad
  BY <1>7, LoadKeeps
<1>8. CASE ClosePanel
  BY <1>8, CloseKeeps
<1>9. CASE NotificationReceived
  BY <1>9, NotificationKeeps
<1>10. CASE TimerFires
  BY <1>10, Untouched DEF TimerFires, Panel, switchVars
<1>11. CASE WillResolve \/ DidResolveAddress \/ DidNotResolve \/ DidStop \/ DidStopLate
  BY <1>11, Untouched
  DEF WillResolve, DidResolveAddress, DidNotResolve, DidStop, DidStopLate, Others,
      Panel, switchVars
<1>12. CASE UNCHANGED managerVars
  BY <1>12, Untouched DEF managerVars, switchVars
<1> QED
  BY <1>1, <1>2, <1>3, <1>4, <1>5, <1>6, <1>7, <1>8, <1>9, <1>10, <1>11, <1>12
  DEF ManagerNext

\* Whenever the main queue is empty the switch of the open panel shows whether
\* the server runs, unless the last start failed
\* (HSDHttpServerControlPannelController.m:159-166, 259-266, 316-332).
THEOREM SwitchFollows == ManagerSpec => []SwitchShowsServer
<1>1. ASSUME SwitchInv PROVE SwitchShowsServer
  <2>1. SUFFICES ASSUME panel # 0, loaded, main = <<>>, server # "failed"
                 PROVE  switch = IsRunning
    BY DEF SwitchShowsServer
  <2>2. \A i \in 1..Len(main) : ~Mine(i)
    BY <2>1
  <2>3. (switch <=> IsRunning) /\ switch \in BOOLEAN
    BY <1>1, <2>1, <2>2 DEF SwitchInv, SwitchTypes, Follows
  <2>4. CASE switch = TRUE
    BY <2>3, <2>4, Zenon DEF IsRunning
  <2>5. CASE switch = FALSE
    BY <2>3, <2>5, Zenon DEF IsRunning
  <2> QED
    BY <2>3, <2>4, <2>5
<1> QED
  BY SwitchInit, SwitchStep, <1>1, PTL DEF ManagerSpec

-----------------------------------------------------------------------------
(* The address of the server.                                              *)

Marked ==
    /\ phase = "asked" => service = resolves
    /\ phase = "resolving" => resolving /\ service = resolves

resolverVars == <<resolving, service, phase, resolves>>

LEMMA ResolveMarks == ASSUME Resolve PROVE Marked'
BY DEF Resolve, Marked

LEMMA MarkedStep == ASSUME Marked, [ManagerNext]_managerVars PROVE Marked'
<1>1. CASE UNCHANGED resolverVars
  BY <1>1 DEF Marked, resolverVars
<1>2. CASE ViewDidLoad \/ TimerFires
  BY <1>1, <1>2, ResolveMarks DEF ViewDidLoad, TimerFires, Resolver, resolverVars
<1>3. CASE WillResolve \/ DidResolveAddress \/ DidNotResolve \/ DidStop \/ DidStopLate
  BY <1>3 DEF WillResolve, DidResolveAddress, DidNotResolve, DidStop, DidStopLate,
              Stopped, Marked
<1>4. ASSUME \/ \E ok \in BOOLEAN : DidFinishLaunching(ok) \/ AppStarts(ok) \/ StartSwitch(ok)
             \/ AppStops \/ AutoStartSwitch \/ CreatePanel \/ ClosePanel
             \/ NotificationReceived \/ UNCHANGED managerVars
      PROVE  UNCHANGED resolverVars
  BY <1>4 DEF DidFinishLaunching, AppStarts, StartSwitch, AppStops, AutoStartSwitch,
              CreatePanel, ClosePanel, NotificationReceived, managerVars, Resolver,
              resolverVars
<1> QED
  BY <1>1, <1>2, <1>3, <1>4 DEF ManagerNext

\* At most one service resolves, and a further resolve will stop it
\* (HSDHostNameResolveComponent.m:31-41, 99-106).
THEOREM OneResolves == ManagerSpec => []ResolvingIsMarked
<1>1. ManagerInit => Marked
  BY DEF ManagerInit, Marked
<1>2. Marked => ResolvingIsMarked
  BY DEF Marked, ResolvingIsMarked
<1> QED
  BY <1>1, <1>2, MarkedStep, PTL DEF ManagerSpec

\* A start was announced, and the address of its server is still to be asked for.
StillToAsk == timers > 0 \/ \E i \in 1..Len(main) : main[i].name = "started"

Asked == IsRunning /\ loaded => named = starts \/ StillToAsk

AskTypes == timers \in Nat /\ (loaded => panel # 0)

AskInv == SwitchInv /\ AskTypes /\ Asked

\* A panel that is loaded is told of a start.
LEMMA StartAsks ==
  ASSUME AskInv, NEW ok \in BOOLEAN, StartHttpServer(ok),
         UNCHANGED <<panel, loaded, timers, named>>
  PROVE  Asked'
<1>1. CASE IsRunning
  BY <1>1 DEF StartHttpServer, AskInv, Asked, IsRunning, StillToAsk
<1>2. CASE ~IsRunning /\ ~ok
  BY <1>2 DEF StartHttpServer, Asked, IsRunning
<1>3. CASE ~IsRunning /\ ok /\ ~loaded
  BY <1>3 DEF Asked
<1>4. CASE ~IsRunning /\ ok /\ loaded
  <2> DEFINE n == [name |-> "started", panel |-> panel]
  <2>1. main' = Append(main, n) /\ main \in Seq(Notification)
    BY <1>4 DEF StartHttpServer, Post, AskInv, AskTypes, SwitchInv, SwitchTypes
  <2>2. n \in Notification
    BY DEF AskInv, SwitchInv, SwitchTypes, Notification
  <2> HIDE DEF n
  <2>3. Len(main) + 1 \in 1..Len(main') /\ main'[Len(main) + 1] = n
    BY <2>1, <2>2
  <2>4. n.name = "started"
    BY DEF n
  <2>5. \E i \in 1..Len(main') : main'[i].name = "started"
    BY <2>3, <2>4
  <2> QED
    BY <2>5 DEF Asked, StillToAsk
<1> QED
  BY <1>1, <1>2, <1>3, <1>4

LEMMA StopAsks == ASSUME StopHttpServer PROVE Asked'
BY DEF StopHttpServer, Asked, IsRunning

\* Its block starts a timer.
LEMMA NotificationAsks ==
  ASSUME AskInv, NotificationReceived
  PROVE  Asked' /\ timers' \in Nat /\ UNCHANGED <<panel, loaded>>
<1>1. /\ main # <<>> /\ main' = Tail(main) /\ main \in Seq(Notification)
      /\ timers' = IF Head(main).name = "started" THEN timers + 1 ELSE timers
      /\ UNCHANGED <<server, panel, loaded, named, starts>> /\ timers \in Nat
  BY DEF NotificationReceived, AskInv, AskTypes, SwitchInv, SwitchTypes, Panel, Resolver
<1>2. /\ Len(main) \in Nat \ {0} /\ Len(main') = Len(main) - 1 /\ Head(main) = main[1]
      /\ \A i \in 1..Len(main') : main'[i] = main[i + 1]
  BY <1>1
<1>3. ASSUME StillToAsk PROVE StillToAsk'
  <2>1. CASE timers > 0 \/ Head(main).name = "started"
    BY <2>1, <1>1 DEF StillToAsk
  <2>2. CASE \E i \in 1..Len(main) : main[i].name = "started" /\ i # 1
    <3>1. PICK i \in 1..Len(main) : main[i].name = "started" /\ i # 1
      BY <2>2
    <3>2. i - 1 \in 1..Len(main') /\ (i - 1) + 1 = i
      BY <3>1, <1>2
    <3>3. main'[i - 1] = main[(i - 1) + 1]
      BY <3>2, <1>2
    <3> QED
      BY <3>1, <3>2, <3>3 DEF StillToAsk
  <2> QED
    BY <2>1, <2>2, <1>2, <1>3 DEF StillToAsk
<1> QED
  BY <1>1, <1>3 DEF AskInv, Asked, IsRunning

\* The resolve of a panel that was just loaded, or of a timer.
LEMMA ResolveAsks ==
  ASSUME Resolve, UNCHANGED <<server, starts>>
  PROVE  Asked'
BY DEF Resolve, Asked, IsRunning

LEMMA AskTypesKept ==
  ASSUME AskInv, UNCHANGED <<panel, loaded>>, timers' \in Nat
  PROVE  AskTypes'
<1>1. (loaded => panel # 0) /\ loaded' = loaded /\ panel' = panel
  BY DEF AskInv, AskTypes
<1>2. loaded' => panel' # 0
  BY <1>1
<1> QED
  BY <1>2 DEF AskTypes

\* Nothing that matters to what is still to be asked has changed.
LEMMA AskUntouched ==
  ASSUME AskInv, UNCHANGED <<server, starts, panel, loaded, main, timers, named>>
  PROVE  Asked' /\ AskTypes'
<1>1. Asked' = Asked
  BY DEF Asked, IsRunning, StillToAsk
<1>2. timers' \in Nat
  BY DEF AskInv, AskTypes
<1> QED
  BY <1>1, <1>2, AskTypesKept DEF AskInv

LEMMA AskStep == ASSUME AskInv, [ManagerNext]_managerVars PROVE AskInv'
<1>1. SwitchInv'
  BY SwitchStep DEF AskInv
<1> SUFFICES Asked' /\ AskTypes'
  BY <1>1 DEF AskInv
<1>2. ASSUME NEW ok \in BOOLEAN, DidFinishLaunching(ok) \/ AppStarts(ok) \/ StartSwitch(ok)
      PROVE  Asked' /\ AskTypes'
  <2>1. UNCHANGED <<panel, loaded, timers, named>>
    BY <1>2 DEF DidFinishLaunching, AppStarts, StartSwitch, Panel, Resolver
  <2>2. \/ StartHttpServer(ok) \/ StopHttpServer \/ UNCHANGED <<server, starts, main>>
    BY <1>2 DEF DidFinishLaunching, AppStarts, StartSwitch
  <2>3. CASE UNCHANGED <<server, starts, main>>
    BY <2>1, <2>3, AskUntouched
  <2>4. timers' \in Nat
    BY <2>1 DEF AskInv, AskTypes
  <2>5. AskTypes'
    BY <2>1, <2>4, AskTypesKept
  <2>6. Asked'
    BY <2>1, <2>2, <2>3, StartAsks, StopAsks
  <2> QED
    BY <2>5, <2>6
<1>3. CASE AppStops
  <2>1. StopHttpServer /\ UNCHANGED <<panel, loaded, timers>>
    BY <1>3 DEF AppStops, Panel
  <2>2. timers' \in Nat
    BY <2>1 DEF AskInv, AskTypes
  <2> QED
    BY <2>1, <2>2, StopAsks, AskTypesKept
<1>4. CASE CreatePanel \/ ClosePanel
  <2>1. loaded' = FALSE /\ timers' = timers
    BY <1>4, Zenon DEF CreatePanel, ClosePanel
  <2>2. ~loaded'
    BY <2>1, Zenon
  <2>3. timers' \in Nat
    BY <2>1 DEF AskInv, AskTypes
  <2> QED
    BY <2>2, <2>3 DEF AskTypes, Asked
<1>5. CASE ViewDidLoad
  <2>1. /\ panel # 0 /\ UNCHANGED <<server, starts, panel, timers>>
        /\ IsRunning => Resolve
    BY <1>5 DEF ViewDidLoad
  <2>2. AskTypes'
    BY <2>1 DEF AskInv, AskTypes
  <2>3. CASE IsRunning
    BY <2>1, <2>2, <2>3, ResolveAsks
  <2>4. CASE ~IsRunning
    <3>1. ~IsRunning'
      BY <2>1, <2>4 DEF IsRunning
    <3> QED
      BY <3>1, <2>2 DEF Asked
  <2> QED
    BY <2>3, <2>4
<1>6. CASE NotificationReceived
  BY <1>6, NotificationAsks, AskTypesKept
<1>7. CASE TimerFires
  <2>1. /\ timers > 0 /\ timers' = timers - 1 /\ timers \in Nat /\ Resolve
        /\ UNCHANGED <<server, starts, panel, loaded>>
    BY <1>7 DEF TimerFires, AskInv, AskTypes, Panel
  <2>2. timers' \in Nat
    BY <2>1
  <2> QED
    BY <2>1, <2>2, ResolveAsks, AskTypesKept
<1>8. CASE \/ AutoStartSwitch \/ UNCHANGED managerVars
           \/ WillResolve \/ DidResolveAddress \/ DidNotResolve \/ DidStop \/ DidStopLate
  <2>1. UNCHANGED <<server, starts, panel, loaded, main, timers, named>>
    BY <1>8 DEF AutoStartSwitch, managerVars, WillResolve, DidResolveAddress,
                DidNotResolve, DidStop, DidStopLate, Others, Panel, Resolver
  <2> QED
    BY <2>1, AskUntouched
<1> QED
  BY <1>2, <1>3, <1>4, <1>5, <1>6, <1>7, <1>8 DEF ManagerNext

\* When no block and no timer is left, the last resolve of an open panel named the
\* server that runs (HSDHttpServerControlPannelController.m:159-166, 319-326).
THEOREM AsksForServer == ManagerSpec => []LastResolveIsOfServer
<1>1. ManagerInit => AskInv
  BY SwitchInit DEF ManagerInit, AskInv, AskTypes, Asked, IsRunning
<1>2. AskInv => LastResolveIsOfServer
  BY DEF AskInv, Asked, StillToAsk, LastResolveIsOfServer
<1> QED
  BY <1>1, <1>2, AskStep, PTL DEF ManagerSpec

-----------------------------------------------------------------------------
(* Multipart forms: least numbers, for recursions that end.                 *)

LEMMA LeastNatural ==
    ASSUME NEW T \in SUBSET Nat, T # {}
    PROVE  \E x \in T : \A y \in T : x <= y
<1> DEFINE R == {ss \in Nat \X Nat : ss[1] < ss[2]}
<1>1. IsWellFoundedOn(R, Nat)
  BY NatLessThanWellFounded, Zenon DEF OpToRel
<1>2. \E x \in T : \A y \in T : ~(<<y, x>> \in R)
  <2> HIDE DEF R
  <2> QED
    BY <1>1, WFMin, Zenon
<1>3. \A x, y \in Nat : ~(<<y, x>> \in R) => x <= y
  OBVIOUS
<1> QED
  BY <1>2, <1>3

\* What holds at 0 and goes on holds everywhere.
LEMMA Everywhere ==
    ASSUME NEW n \in Nat, NEW T, 0 \in T, \A i \in 1..n : i - 1 \in T => i \in T
    PROVE  \A i \in 0..n : i \in T
<1> DEFINE Out == {i \in 0..n : i \notin T}
<1> SUFFICES ASSUME Out # {} PROVE FALSE
  OBVIOUS
<1>0. Out \in SUBSET Nat
  OBVIOUS
<1>1. PICK m \in Out : \A y \in Out : m <= y
  <2> HIDE DEF Out
  <2> QED
    BY <1>0, LeastNatural
<1>2. m \in 1..n /\ m - 1 \in 0..n
  BY <1>1
<1>3. m - 1 \notin Out
  BY <1>1, <1>2
<1> QED
  BY <1>1, <1>2, <1>3

-----------------------------------------------------------------------------
(* Sequences.                                                               *)

Content == Seq(Bytes)

LEMMA Cuts ==
    ASSUME NEW d \in Content, NEW n \in Int
    PROVE  /\ n >= 0 => After(d, n) \in Content
           /\ n \in 0..Len(d) => Len(After(d, n)) = Len(d) - n
           /\ n <= Len(d) => SubSeq(d, 1, n) \in Content
<1>1. Len(d) \in Nat
  BY DEF Content
<1>2. ASSUME n >= 0 PROVE After(d, n) \in Content
  BY <1>1, <1>2 DEF After, Content
<1>3. ASSUME n \in 0..Len(d) PROVE Len(After(d, n)) = Len(d) - n
  BY <1>1, <1>3 DEF After, Content
<1>4. ASSUME n <= Len(d) PROVE SubSeq(d, 1, n) \in Content
  BY <1>1, <1>4 DEF Content
<1> QED
  BY <1>2, <1>3, <1>4

LEMMA Short ==
    ASSUME NEW S, NEW a \in S, NEW b \in S
    PROVE  /\ <<a>> \in Seq(S) /\ Len(<<a>>) = 1
           /\ <<a, b>> \in Seq(S) /\ Len(<<a, b>>) = 2
OBVIOUS

LEMMA Joined ==
    ASSUME NEW S, NEW s \in Seq(S), NEW t \in Seq(S)
    PROVE  s \o t \in Seq(S) /\ Len(s \o t) = Len(s) + Len(t)
BY ConcatProperties

LEMMA LineEnds ==
    /\ CRLF \in Content /\ Len(CRLF) = 2
    /\ CRLF \o CRLF \in Content /\ Len(CRLF \o CRLF) = 4
    /\ Dashes \in Content /\ Len(Dashes) = 2
<1>1. "cr" \in Bytes /\ "lf" \in Bytes /\ "-" \in Bytes
  BY DEF Bytes
<1>2. /\ CRLF \in Content /\ Len(CRLF) = 2
      /\ Dashes \in Content /\ Len(Dashes) = 2
  BY <1>1, Short DEF CRLF, Dashes, Content
<1> DEFINE k == CRLF
<1>3. k \o k \in Seq(Bytes) /\ Len(k \o k) = Len(k) + Len(k)
  BY <1>2, Joined DEF Content
<1> HIDE DEF k
<1>4. Len(k) = 2
  BY <1>2 DEF k
<1>5. k \o k \in Seq(Bytes) /\ Len(k \o k) = 4
  BY <1>3, <1>4
<1> QED
  BY <1>2, <1>5 DEF Content, k

LEMMA Place ==
    ASSUME NEW b \in Content, NEW d \in Content
    PROVE  RangeOf(b, d) \in Int /\ (RangeOf(b, d) # -1 => RangeOf(b, d) \in 0..(Len(d) - Len(b)))
<1> DEFINE places == {i \in 0..(Len(d) - Len(b)) : SubSeq(d, i + 1, i + Len(b)) = b}
<1>1. RangeOf(b, d) = IF places = {} THEN -1 ELSE Min(places)
  BY DEF RangeOf
<1>2. places \in SUBSET (0..(Len(d) - Len(b))) /\ Len(d) - Len(b) \in Int
  BY DEF Content
<1> HIDE DEF places
<1>3. ASSUME places # {} PROVE Min(places) \in places
  <2>1. places \in SUBSET Nat
    BY <1>2
  <2>2. \E x \in places : \A y \in places : x <= y
    BY <1>3, <2>1, LeastNatural
  <2> QED
    BY <2>2 DEF Min
<1>4. CASE places = {}
  BY <1>1, <1>4
<1>5. CASE places # {}
  <2>1. RangeOf(b, d) \in 0..(Len(d) - Len(b))
    BY <1>1, <1>2, <1>3, <1>5
  <2> QED
    BY <1>2, <2>1
<1> QED
  BY <1>4, <1>5

-----------------------------------------------------------------------------
(* Pieces of the bytes of a form.                                           *)

\* A piece of the bytes from place a to place b.
LEMMA Piece ==
    ASSUME NEW s \in Content, NEW a \in Nat, NEW b \in Nat, a <= b, b <= Len(s)
    PROVE  /\ SubSeq(s, a + 1, b) \in Content /\ Len(SubSeq(s, a + 1, b)) = b - a
           /\ \A k \in 1..(b - a) : SubSeq(s, a + 1, b)[k] = s[a + k]
<1>1. Len(s) \in Nat /\ s \in Seq(Bytes)
  BY DEF Content
<1>2. \A k \in (a + 1)..b : s[k] \in Bytes
  BY <1>1
<1>3. SubSeq(s, a + 1, b) = [k \in 1..(b - a) |-> s[a + k]]
  BY <1>1
<1>4. [k \in 1..(b - a) |-> s[a + k]] \in Seq(Bytes)
  BY <1>2
<1> QED
  BY <1>3, <1>4 DEF Content

\* Sequences of the same elements are the same.
LEMMA SamePieces ==
    ASSUME NEW s \in Content, NEW t \in Content, Len(s) = Len(t),
           \A k \in 1..Len(s) : s[k] = t[k]
    PROVE  s = t
BY DEF Content

\* A piece of a piece.
LEMMA PieceOfPiece ==
    ASSUME NEW s \in Content, NEW a \in Nat, NEW b \in Nat, a <= b, b <= Len(s),
           NEW x \in Nat, NEW y \in Nat, x <= y, y <= b - a
    PROVE  SubSeq(SubSeq(s, a + 1, b), x + 1, y) = SubSeq(s, a + x + 1, a + y)
<1> DEFINE d == SubSeq(s, a + 1, b)
           l == SubSeq(d, x + 1, y)
           r == SubSeq(s, a + x + 1, a + y)
<1>1. d \in Content /\ Len(d) = b - a /\ \A k \in 1..(b - a) : d[k] = s[a + k]
  BY Piece
<1> HIDE DEF d
<1>2. l \in Content /\ Len(l) = y - x /\ \A k \in 1..(y - x) : l[k] = d[x + k]
  BY <1>1, Piece
<1>3. a + x \in Nat /\ a + y \in Nat /\ a + x <= a + y /\ a + y <= Len(s)
  <2>1. Len(s) \in Nat
    BY DEF Content
  <2> QED
    BY <2>1
<1>4. /\ r \in Content /\ Len(r) = (a + y) - (a + x)
      /\ \A k \in 1..((a + y) - (a + x)) : r[k] = s[(a + x) + k]
  <2> DEFINE e == a + x
             h == a + y
  <2>1. e \in Nat /\ h \in Nat /\ e <= h /\ h <= Len(s)
    BY <1>3
  <2> HIDE DEF e, h
  <2>2. /\ SubSeq(s, e + 1, h) \in Content /\ Len(SubSeq(s, e + 1, h)) = h - e
        /\ \A k \in 1..(h - e) : SubSeq(s, e + 1, h)[k] = s[e + k]
    BY <2>1, Piece
  <2> QED
    BY <2>2 DEF e, h
<1> HIDE DEF l, r
<1>5. \A k \in 1..(y - x) : l[k] = r[k]
  <2> TAKE k \in 1..(y - x)
  <2>1. x + k \in 1..(b - a) /\ k \in 1..((a + y) - (a + x)) /\ a + (x + k) = (a + x) + k
    OBVIOUS
  <2> QED
    BY <1>1, <1>2, <1>4, <2>1
<1>6. Len(l) = Len(r) /\ Len(l) = y - x
  BY <1>2, <1>4
<1>7. l = r
  BY <1>2, <1>4, <1>5, <1>6, SamePieces
<1> QED
  BY <1>7 DEF l, r, d

\* A piece without its first bytes.
LEMMA CutFront ==
    ASSUME NEW s \in Content, NEW a \in Nat, NEW b \in Nat, a <= b, b <= Len(s),
           NEW k \in 0..(b - a)
    PROVE  After(SubSeq(s, a + 1, b), k) = SubSeq(s, a + k + 1, b)
<1> DEFINE d == SubSeq(s, a + 1, b)
<1>1. Len(d) = b - a
  BY Piece
<1>2. SubSeq(d, k + 1, b - a) = SubSeq(s, a + k + 1, a + (b - a))
  <2> DEFINE y == b - a
  <2>1. y \in Nat /\ k <= y /\ y <= b - a /\ k \in Nat
    OBVIOUS
  <2> HIDE DEF y
  <2> SUFFICES SubSeq(d, k + 1, y) = SubSeq(s, a + k + 1, a + y)
    BY DEF y
  <2> QED
    BY <2>1, PieceOfPiece
<1>3. a + (b - a) = b
  OBVIOUS
<1> QED
  BY <1>1, <1>2, <1>3 DEF After

\* The first bytes of a piece.
LEMMA CutBack ==
    ASSUME NEW s \in Content, NEW a \in Nat, NEW b \in Nat, a <= b, b <= Len(s),
           NEW k \in 0..(b - a)
    PROVE  SubSeq(SubSeq(s, a + 1, b), 1, k) = SubSeq(s, a + 1, a + k)
<1>1. SubSeq(SubSeq(s, a + 1, b), 0 + 1, k) = SubSeq(s, a + 0 + 1, a + k)
  BY PieceOfPiece
<1> QED
  BY <1>1

\* Two pieces that touch.
LEMMA JoinPieces ==
    ASSUME NEW s \in Content, NEW a \in Nat, NEW b \in Nat, NEW c \in Nat,
           a <= b, b <= c, c <= Len(s)
    PROVE  SubSeq(s, a + 1, b) \o SubSeq(s, b + 1, c) = SubSeq(s, a + 1, c)
<1> DEFINE l == SubSeq(s, a + 1, b)
           r == SubSeq(s, b + 1, c)
           d == SubSeq(s, a + 1, c)
<1>0. Len(s) \in Nat
  BY DEF Content
<1>1. l \in Content /\ Len(l) = b - a /\ \A k \in 1..(b - a) : l[k] = s[a + k]
  BY <1>0, Piece
<1>2. r \in Content /\ Len(r) = c - b /\ \A k \in 1..(c - b) : r[k] = s[b + k]
  BY <1>0, Piece
<1>3. d \in Content /\ Len(d) = c - a /\ \A k \in 1..(c - a) : d[k] = s[a + k]
  BY <1>0, Piece
<1> HIDE DEF l, r, d
<1>4. /\ l \o r \in Content /\ Len(l \o r) = Len(l) + Len(r)
      /\ \A k \in 1..(Len(l) + Len(r)) :
             (l \o r)[k] = IF k <= Len(l) THEN l[k] ELSE r[k - Len(l)]
  BY <1>1, <1>2, ConcatProperties DEF Content
<1> DEFINE z == l \o r
<1>5. z \in Content /\ Len(z) = Len(d)
  BY <1>1, <1>2, <1>3, <1>4
<1>6. \A k \in 1..Len(z) : z[k] = d[k]
  <2> TAKE k \in 1..Len(z)
  <2>0. k \in 1..(Len(l) + Len(r)) /\ k \in 1..(c - a)
    BY <1>1, <1>2, <1>4
  <2>1. z[k] = IF k <= Len(l) THEN l[k] ELSE r[k - Len(l)]
    BY <1>4, <2>0
  <2> HIDE DEF z
  <2>2. CASE k <= b - a
    BY <1>1, <1>3, <2>0, <2>1, <2>2
  <2>3. CASE ~(k <= b - a)
    <3>1. k - (b - a) \in 1..(c - b) /\ b + (k - (b - a)) = a + k
      BY <2>0, <2>3
    <3>2. z[k] = r[k - (b - a)]
      BY <1>1, <2>1, <2>3
    <3> QED
      BY <1>2, <1>3, <2>0, <3>1, <3>2
  <2> QED
    BY <2>2, <2>3
<1> HIDE DEF z
<1>7. z = d
  BY <1>3, <1>5, <1>6, SamePieces
<1> QED
  BY <1>7 DEF z, l, r, d

-----------------------------------------------------------------------------
(* Where something occurs in them.                                          *)

OccursAt(pat, s, j) == \A k \in 1..Len(pat) : s[j + k] = pat[k]

\* A pattern occurs where its bytes do.
LEMMA OccursIs ==
    ASSUME NEW s \in Content, NEW pat \in Content, NEW j \in Nat, j + Len(pat) <= Len(s)
    PROVE  SubSeq(s, j + 1, j + Len(pat)) = pat <=> OccursAt(pat, s, j)
<1> DEFINE m == Len(pat)
           d == SubSeq(s, j + 1, j + m)
<1>1. m \in Nat
  BY DEF Content
<1>2. d \in Content /\ Len(d) = m /\ \A k \in 1..m : d[k] = s[j + k]
  <2> DEFINE b == j + m
  <2>1. b \in Nat /\ j <= b /\ b <= Len(s) /\ b - j = m
    BY <1>1
  <2> HIDE DEF b, m
  <2>2. /\ SubSeq(s, j + 1, b) \in Content /\ Len(SubSeq(s, j + 1, b)) = b - j
        /\ \A k \in 1..(b - j) : SubSeq(s, j + 1, b)[k] = s[j + k]
    BY <2>1, Piece
  <2> QED
    BY <2>1, <2>2 DEF b
<1> HIDE DEF d
<1>3. ASSUME d = pat PROVE OccursAt(pat, s, j)
  BY <1>2, <1>3 DEF OccursAt
<1>4. ASSUME OccursAt(pat, s, j) PROVE d = pat
  <2>1. \A k \in 1..Len(d) : d[k] = pat[k]
    BY <1>2, <1>4 DEF OccursAt
  <2> QED
    BY <1>2, <2>1, SamePieces
<1> QED
  BY <1>3, <1>4 DEF d

\* Bytes start with those they share from the first one on.
LEMMA StartsIs ==
    ASSUME NEW d \in Content, NEW pat \in Content
    PROVE  StartsWith(d, pat) <=> Len(pat) <= Len(d) /\ OccursAt(pat, d, 0)
<1>1. Len(d) \in Nat /\ Len(pat) \in Nat
  BY DEF Content
<1>2. ASSUME Len(pat) <= Len(d)
      PROVE  SubSeq(d, 1, Len(pat)) = pat <=> OccursAt(pat, d, 0)
  <2>1. 0 + Len(pat) <= Len(d) /\ 0 + 1 = 1 /\ 0 + Len(pat) = Len(pat)
    BY <1>1, <1>2
  <2>2. SubSeq(d, 0 + 1, 0 + Len(pat)) = pat <=> OccursAt(pat, d, 0)
    BY <2>1, OccursIs
  <2> QED
    BY <2>1, <2>2
<1> QED
  BY <1>2 DEF StartsWith

\* The search finds the first occurrence, if there is one.
LEMMA RangeIs ==
    ASSUME NEW pat \in Content, NEW d \in Content
    PROVE  \/ /\ RangeOf(pat, d) = -1
              /\ \A j \in 0..(Len(d) - Len(pat)) : ~OccursAt(pat, d, j)
           \/ /\ RangeOf(pat, d) \in 0..(Len(d) - Len(pat))
              /\ OccursAt(pat, d, RangeOf(pat, d))
              /\ \A j \in 0..(RangeOf(pat, d) - 1) : ~OccursAt(pat, d, j)
<1> DEFINE places == {i \in 0..(Len(d) - Len(pat)) : SubSeq(d, i + 1, i + Len(pat)) = pat}
           r == RangeOf(pat, d)
<1>0. Len(d) \in Nat /\ Len(pat) \in Nat
  BY DEF Content
<1>1. \A j \in 0..(Len(d) - Len(pat)) : j \in places <=> OccursAt(pat, d, j)
  <2> TAKE j \in 0..(Len(d) - Len(pat))
  <2>1. j \in Nat /\ j + Len(pat) <= Len(d)
    BY <1>0
  <2> QED
    BY <2>1, OccursIs
<1>2. r = IF places = {} THEN -1 ELSE Min(places)
  BY DEF RangeOf
<1>3. places \subseteq 0..(Len(d) - Len(pat)) /\ places \in SUBSET Nat
  BY <1>0
<1> HIDE DEF places, r
<1>4. CASE places = {}
  BY <1>1, <1>2, <1>4 DEF r
<1>5. CASE places # {}
  <2>1. \E x \in places : \A y \in places : x <= y
    BY <1>3, <1>5, LeastNatural
  <2>2. r \in places /\ \A y \in places : r <= y
    BY <1>2, <1>5, <2>1 DEF Min
  <2>3. r \in 0..(Len(d) - Len(pat)) /\ OccursAt(pat, d, r)
    BY <1>1, <1>3, <2>2
  <2>4. ASSUME NEW j \in 0..(r - 1) PROVE ~OccursAt(pat, d, j)
    <3>1. j \in 0..(Len(d) - Len(pat)) /\ ~(r <= j)
      BY <1>0, <2>3
    <3> QED
      BY <1>1, <2>2, <3>1
  <2> QED
    BY <2>3, <2>4 DEF r
<1> QED
  BY <1>4, <1>5

\* RangeOf finds the first place there is.
LEMMA RangeThere ==
    ASSUME NEW pat \in Content, NEW d \in Content, NEW x \in 0..(Len(d) - Len(pat)),
           OccursAt(pat, d, x), \A j \in 0..(x - 1) : ~OccursAt(pat, d, j)
    PROVE  RangeOf(pat, d) = x
<1> DEFINE r == RangeOf(pat, d)
           m == Len(d) - Len(pat)
<1>1. m \in Int
  BY DEF Content
<1>2. \/ r = -1 /\ \A j \in 0..m : ~OccursAt(pat, d, j)
      \/ r \in 0..m /\ OccursAt(pat, d, r) /\ \A j \in 0..(r - 1) : ~OccursAt(pat, d, j)
  BY RangeIs
<1>3. x \in 0..m
  OBVIOUS
<1> HIDE DEF r, m
<1>4. r \in 0..m /\ OccursAt(pat, d, r) /\ \A j \in 0..(r - 1) : ~OccursAt(pat, d, j)
  BY <1>2, <1>3
<1>5. ~(r < x)
  <2>1. r < x => r \in 0..(x - 1)
    BY <1>1, <1>3, <1>4
  <2> QED
    BY <1>4, <2>1
<1>6. ~(x < r)
  <2>1. x < r => x \in 0..(r - 1)
    BY <1>1, <1>3, <1>4
  <2> QED
    BY <1>4, <2>1
<1>7. r = x
  BY <1>1, <1>3, <1>4, <1>5, <1>6
<1> QED
  BY <1>7 DEF r

\* RangeOf finds nothing where there is nothing.
LEMMA RangeNone ==
    ASSUME NEW pat \in Content, NEW d \in Content,
           \A j \in 0..(Len(d) - Len(pat)) : ~OccursAt(pat, d, j)
    PROVE  RangeOf(pat, d) = -1
BY RangeIs

\* What occurs in a piece occurs in the whole.
LEMMA OccursInPiece ==
    ASSUME NEW s \in Content, NEW a \in Nat, NEW b \in Nat, a <= b, b <= Len(s),
           NEW pat \in Content, NEW j \in Nat, j + Len(pat) <= b - a
    PROVE  OccursAt(pat, SubSeq(s, a + 1, b), j) <=> OccursAt(pat, s, a + j)
<1> DEFINE d == SubSeq(s, a + 1, b)
<1>1. \A k \in 1..(b - a) : d[k] = s[a + k]
  BY Piece
<1> HIDE DEF d
<1>2. \A k \in 1..Len(pat) : d[j + k] = s[(a + j) + k]
  <2> TAKE k \in 1..Len(pat)
  <2> DEFINE m == Len(pat)
  <2>1. m \in Nat /\ k \in 1..m /\ j + m <= b - a
    BY DEF Content
  <2> HIDE DEF m
  <2>2. j + k \in 1..(b - a) /\ a + (j + k) = (a + j) + k
    BY <2>1
  <2> QED
    BY <1>1, <2>2
<1>3. OccursAt(pat, d, j) <=> OccursAt(pat, s, a + j)
  BY <1>2 DEF OccursAt
<1> QED
  BY <1>3 DEF d

\* What does not occur does not occur behind the first bytes.
LEMMA NoneBehind ==
    ASSUME NEW pat \in Content, NEW d \in Content, RangeOf(pat, d) = -1,
           NEW k \in 0..Len(d)
    PROVE  RangeOf(pat, After(d, k)) = -1
<1> DEFINE n == Len(d)
           m == Len(pat)
           rest == After(d, k)
<1>0. n \in Nat /\ m \in Nat /\ k \in Nat /\ k <= n
  BY DEF Content
<1>1. rest \in Content /\ Len(rest) = n - k
  <2>1. k >= 0 /\ k \in Int
    BY <1>0
  <2> QED
    BY <2>1, Cuts
<1>2. \A j \in 0..(n - m) : ~OccursAt(pat, d, j)
  BY RangeIs
<1>3. \A j \in 0..(Len(rest) - m) : ~OccursAt(pat, rest, j)
  <2> TAKE j \in 0..(Len(rest) - m)
  <2> HIDE DEF n, m, rest
  <2>1. j \in Nat /\ j + m <= n - k /\ k + j \in 0..(n - m)
    BY <1>0, <1>1
  <2>2. rest = SubSeq(d, k + 1, n)
    BY DEF After, n, rest
  <2>3. n <= Len(d)
    BY <1>0 DEF n
  <2>4. OccursAt(pat, SubSeq(d, k + 1, n), j) <=> OccursAt(pat, d, k + j)
    BY <1>0, <2>1, <2>3, OccursInPiece DEF m
  <2> QED
    BY <1>2, <2>1, <2>2, <2>4
<1> QED
  BY <1>1, <1>3, RangeNone

-----------------------------------------------------------------------------
(* What a parser and its world look like.                                   *)

ParserOf(nesteds, subs) ==
    [boundary : {s \in Content : s # <<>>}, nested : nesteds,
     state : {"start", "headers", "content", "end"}, data : Content,
     tmpPath : Nat, tmpFile : Nat, subParser : subs]

Inner == ParserOf({TRUE}, {NoParser})
Outer == ParserOf({FALSE}, {NoParser} \cup {<<q>> : q \in Inner})

IsWorld(w) ==
    /\ w = [arguments |-> w.arguments, files |-> w.files, disk |-> w.disk,
            opened |-> w.opened, fault |-> w.fault, success |-> w.success,
            beyond |-> w.beyond]
    /\ w.opened \in Nat /\ w.success \in BOOLEAN /\ w.beyond \in BOOLEAN

Stored(w) ==
    /\ w.files \in Seq([tmp : Nat, content : Content])
    /\ w.disk \in [DOMAIN w.disk -> Content]
    /\ DOMAIN w.disk \subseteq 1..w.opened

Tmps(fs) == {fs[i].tmp : i \in 1..Len(fs)}

\* The temporary file of a part is the one that is open; unless a write has
\* failed (leak), the files on disk are those of the form and this one.
Holds(p, w, leak) ==
    ~w.beyond =>
        /\ Stored(w) /\ (w.fault = "write" => leak)
        /\ (p.state # "content" => p.tmpPath = Nil)
        /\ (p.tmpPath # Nil => p.tmpFile = p.tmpPath /\ p.tmpPath \in DOMAIN w.disk)
        /\ (~leak => p.tmpFile = p.tmpPath /\ DOMAIN w.disk \subseteq Tmps(w.files) \cup {p.tmpPath})

\* While there is a parser of a nested form, it is the one that has a file.
Keeps(p, w, leak) ==
    /\ p.subParser = NoParser => Holds(p, w, leak)
    /\ p.subParser # NoParser /\ ~w.beyond =>
           /\ p.state = "content" /\ p.tmpPath = Nil /\ (~leak => p.tmpFile = Nil)
           /\ Holds(p.subParser[1], w, leak)

Few(p) ==
    p.tmpPath # Nil /\ RangeOf(p.boundary, p.data) = -1 =>
        Len(p.data) <= 2 * Len(p.boundary)

\* Where the boundary has come, it cannot be seen yet what follows it.
Waits(p) ==
    LET tail == After(p.data, RangeOf(p.boundary, p.data) + Len(p.boundary))
    IN  p.tmpPath # Nil /\ RangeOf(p.boundary, p.data) # -1 =>
            ~StartsWith(tail, CRLF) /\ ~StartsWith(tail, Dashes \o CRLF)

Bounded(p) == Few(p) /\ Waits(p)

\* What an operation makes of p and w.
Good(r, ns, subs, w, leak) ==
    /\ r.p \in ParserOf(ns, subs)
    /\ IsWorld(r.w) /\ (w.beyond => r.w.beyond)
    /\ Keeps(r.p, r.w, leak)

-----------------------------------------------------------------------------
(* The operations on the part of a parser.                                  *)

LEMMA Writing ==
    ASSUME NEW ns, NEW subs, NEW p \in ParserOf(ns, subs), NEW w, IsWorld(w),
           NEW bytes \in Content, ~w.beyond, Stored(w),
           p.tmpFile \in DOMAIN w.disk
    PROVE  /\ IsWorld(Written(p, w, bytes)) /\ ~Written(p, w, bytes).beyond
           /\ Stored(Written(p, w, bytes))
           /\ DOMAIN Written(p, w, bytes).disk = DOMAIN w.disk
           /\ Written(p, w, bytes).files = w.files
           /\ Written(p, w, bytes).fault = w.fault
           /\ Written(p, w, bytes).success = w.success
           /\ Written(p, w, bytes).opened = w.opened
<1> DEFINE v == Written(p, w, bytes)
           d == [w.disk EXCEPT ![p.tmpFile] = @ \o bytes]
<1>1. v = [arguments |-> w.arguments, files |-> w.files, disk |-> d,
           opened |-> w.opened, fault |-> w.fault, success |-> w.success,
           beyond |-> w.beyond]
  <2>1. v = [w EXCEPT !.disk = d]
    BY DEF Written
  <2>2. PICK a, f, k, o, x, s, b :
            w = [arguments |-> a, files |-> f, disk |-> k, opened |-> o, fault |-> x,
                 success |-> s, beyond |-> b]
    BY DEF IsWorld
  <2> HIDE DEF v, d
  <2> QED
    BY <2>1, <2>2
<1>2. DOMAIN d = DOMAIN w.disk
  OBVIOUS
<1>3. d \in [DOMAIN d -> Content]
  <2>1. w.disk[p.tmpFile] \in Content
    BY DEF Stored
  <2>2. w.disk[p.tmpFile] \o bytes \in Content
    BY <2>1 DEF Content
  <2> QED
    BY <1>2, <2>2 DEF Stored
<1> HIDE DEF v, d
<1>4. /\ v.arguments = w.arguments /\ v.files = w.files /\ v.disk = d /\ v.opened = w.opened
      /\ v.fault = w.fault /\ v.success = w.success /\ v.beyond = w.beyond
  BY <1>1
<1>5. IsWorld(v)
  BY <1>1, <1>4 DEF IsWorld
<1>6. Stored(v)
  BY <1>2, <1>3, <1>4 DEF Stored
<1> QED
  BY <1>2, <1>4, <1>5, <1>6 DEF v

\* Everything the properties look at is the same.
Alike(v, w) ==
    /\ v.files = w.files /\ v.disk = w.disk /\ v.opened = w.opened
    /\ v.fault = w.fault /\ v.beyond = w.beyond

LEMMA SetArguments ==
    ASSUME NEW w, IsWorld(w), NEW x, NEW v, v = [w EXCEPT !.arguments = x]
    PROVE  /\ IsWorld(v) /\ v.arguments = x
           /\ v.files = w.files /\ v.disk = w.disk /\ v.opened = w.opened
           /\ v.fault = w.fault /\ v.success = w.success /\ v.beyond = w.beyond
<1>1. PICK a, f, d, o, t, s, b :
          /\ w = [arguments |-> a, files |-> f, disk |-> d, opened |-> o, fault |-> t,
                  success |-> s, beyond |-> b]
          /\ o \in Nat /\ s \in BOOLEAN /\ b \in BOOLEAN
  BY DEF IsWorld
<1>2. v = [arguments |-> x, files |-> f, disk |-> d, opened |-> o, fault |-> t,
           success |-> s, beyond |-> b]
  BY <1>1
<1> QED
  BY <1>1, <1>2 DEF IsWorld

LEMMA SetFiles ==
    ASSUME NEW w, IsWorld(w), NEW x, NEW v, v = [w EXCEPT !.files = x]
    PROVE  /\ IsWorld(v) /\ v.files = x
           /\ v.arguments = w.arguments /\ v.disk = w.disk /\ v.opened = w.opened
           /\ v.fault = w.fault /\ v.success = w.success /\ v.beyond = w.beyond
<1>1. PICK a, f, d, o, t, s, b :
          /\ w = [arguments |-> a, files |-> f, disk |-> d, opened |-> o, fault |-> t,
                  success |-> s, beyond |-> b]
          /\ o \in Nat /\ s \in BOOLEAN /\ b \in BOOLEAN
  BY DEF IsWorld
<1>2. v = [arguments |-> a, files |-> x, disk |-> d, opened |-> o, fault |-> t,
           success |-> s, beyond |-> b]
  BY <1>1
<1> QED
  BY <1>1, <1>2 DEF IsWorld

LEMMA SetDisk ==
    ASSUME NEW w, IsWorld(w), NEW x, NEW v, v = [w EXCEPT !.disk = x]
    PROVE  /\ IsWorld(v) /\ v.disk = x
           /\ v.arguments = w.arguments /\ v.files = w.files /\ v.opened = w.opened
           /\ v.fault = w.fault /\ v.success = w.success /\ v.beyond = w.beyond
<1>1. PICK a, f, d, o, t, s, b :
          /\ w = [arguments |-> a, files |-> f, disk |-> d, opened |-> o, fault |-> t,
                  success |-> s, beyond |-> b]
          /\ o \in Nat /\ s \in BOOLEAN /\ b \in BOOLEAN
  BY DEF IsWorld
<1>2. v = [arguments |-> a, files |-> f, disk |-> x, opened |-> o, fault |-> t,
           success |-> s, beyond |-> b]
  BY <1>1
<1> QED
  BY <1>1, <1>2 DEF IsWorld

LEMMA SetOpened ==
    ASSUME NEW w, IsWorld(w), NEW x, x \in Nat, NEW v, v = [w EXCEPT !.opened = x]
    PROVE  /\ IsWorld(v) /\ v.opened = x
           /\ v.arguments = w.arguments /\ v.files = w.files /\ v.disk = w.disk
           /\ v.fault = w.fault /\ v.success = w.success /\ v.beyond = w.beyond
<1>1. PICK a, f, d, o, t, s, b :
          /\ w = [arguments |-> a, files |-> f, disk |-> d, opened |-> o, fault |-> t,
                  success |-> s, beyond |-> b]
          /\ o \in Nat /\ s \in BOOLEAN /\ b \in BOOLEAN
  BY DEF IsWorld
<1>2. v = [arguments |-> a, files |-> f, disk |-> d, opened |-> x, fault |-> t,
           success |-> s, beyond |-> b]
  BY <1>1
<1> QED
  BY <1>1, <1>2 DEF IsWorld

LEMMA SetSuccess ==
    ASSUME NEW w, IsWorld(w), NEW x, x \in BOOLEAN, NEW v, v = [w EXCEPT !.success = x]
    PROVE  /\ IsWorld(v) /\ v.success = x
           /\ v.arguments = w.arguments /\ v.files = w.files /\ v.disk = w.disk
           /\ v.opened = w.opened /\ v.fault = w.fault /\ v.beyond = w.beyond
<1>1. PICK a, f, d, o, t, s, b :
          /\ w = [arguments |-> a, files |-> f, disk |-> d, opened |-> o, fault |-> t,
                  success |-> s, beyond |-> b]
          /\ o \in Nat /\ s \in BOOLEAN /\ b \in BOOLEAN
  BY DEF IsWorld
<1>2. v = [arguments |-> a, files |-> f, disk |-> d, opened |-> o, fault |-> t,
           success |-> x, beyond |-> b]
  BY <1>1
<1> QED
  BY <1>1, <1>2 DEF IsWorld

LEMMA Succeeds ==
    ASSUME NEW w, IsWorld(w), NEW v, v = [w EXCEPT !.success = TRUE]
    PROVE  /\ IsWorld(v) /\ v.success
           /\ v.arguments = w.arguments /\ v.files = w.files /\ v.disk = w.disk
           /\ v.opened = w.opened /\ v.fault = w.fault /\ v.beyond = w.beyond
<1> DEFINE x == TRUE
<1>1. x \in BOOLEAN /\ v = [w EXCEPT !.success = x] /\ x
  OBVIOUS
<1> HIDE DEF x
<1> QED
  BY <1>1, SetSuccess

LEMMA SetBeyond ==
    ASSUME NEW w, IsWorld(w), NEW x, x \in BOOLEAN, NEW v, v = [w EXCEPT !.beyond = x]
    PROVE  /\ IsWorld(v) /\ v.beyond = x
           /\ v.arguments = w.arguments /\ v.files = w.files /\ v.disk = w.disk
           /\ v.opened = w.opened /\ v.fault = w.fault /\ v.success = w.success
<1>1. PICK a, f, d, o, t, s, b :
          /\ w = [arguments |-> a, files |-> f, disk |-> d, opened |-> o, fault |-> t,
                  success |-> s, beyond |-> b]
          /\ o \in Nat /\ s \in BOOLEAN /\ b \in BOOLEAN
  BY DEF IsWorld
<1>2. v = [arguments |-> a, files |-> f, disk |-> d, opened |-> o, fault |-> t,
           success |-> s, beyond |-> x]
  BY <1>1
<1> QED
  BY <1>1, <1>2 DEF IsWorld

LEMMA Failing ==
    ASSUME NEW w, IsWorld(w)
    PROVE  IsWorld(Fails(w)) /\ Alike(Fails(w), w) /\ ~Fails(w).success
<1> DEFINE v == Fails(w)
<1>1. v = [w EXCEPT !.success = FALSE]
  BY DEF Fails
<1> HIDE DEF v
<1>2. FALSE \in BOOLEAN
  OBVIOUS
<1> QED
  BY <1>1, <1>2, SetSuccess DEF Alike, v

\* A change that no property looks at.
LEMMA AlikeHolds ==
    ASSUME NEW p, NEW v, NEW w, NEW leak, Alike(v, w)
    PROVE  Holds(p, w, leak) => Holds(p, v, leak)
BY DEF Alike, Holds, Stored

LEMMA TmpsAppend ==
    ASSUME NEW fs \in Seq([tmp : Nat, content : Content]), NEW f
    PROVE  Tmps(Append(fs, f)) = Tmps(fs) \cup {f.tmp}
<1>1. /\ Len(Append(fs, f)) = Len(fs) + 1 /\ Len(fs) \in Nat
      /\ \A i \in 1..Len(fs) : Append(fs, f)[i] = fs[i]
      /\ Append(fs, f)[Len(fs) + 1] = f
  OBVIOUS
<1>2. \A i : i \in 1..(Len(fs) + 1) <=> i \in 1..Len(fs) \/ i = Len(fs) + 1
  BY <1>1
<1> DEFINE a == Append(fs, f)
           n == Len(fs)
<1> HIDE DEF a, n
<1>3. /\ {a[i].tmp : i \in 1..(n + 1)} = {a[i].tmp : i \in 1..n} \cup {a[n + 1].tmp}
  BY <1>2 DEF n
<1>4. {a[i].tmp : i \in 1..n} = {fs[i].tmp : i \in 1..n}
  BY <1>1 DEF a, n
<1> QED
  BY <1>1, <1>3, <1>4 DEF Tmps, a, n

LEMMA EndOwnKeeps ==
    ASSUME NEW ns, NEW subs, NEW p \in ParserOf(ns, subs), NEW w, IsWorld(w),
           NEW leak \in BOOLEAN, p.subParser = NoParser, Holds(p, w, leak),
           NEW place \in Int, place <= Len(p.data)
    PROVE  LET r == EndOwn(p, w, place)
           IN  /\ Good(r, ns, subs, w, leak)
               /\ ~r.w.beyond => r.p.tmpPath = Nil /\ r.p.subParser = NoParser
<1> DEFINE r == EndOwn(p, w, place)
           body == SubSeq(p.data, 1, place - 2)
           written == Written(p, w, body)
<1>0. p.data \in Content /\ Len(p.data) \in Nat /\ p.tmpPath \in Nat /\ p.tmpFile \in Nat
  BY DEF ParserOf, Content
<1>1. body \in Content
  BY <1>0, Cuts
<1> HIDE DEF body
<1>2. CASE place < 2
  <2>1. r.p = p /\ r.w = [w EXCEPT !.beyond = TRUE]
    BY <1>2 DEF EndOwn
  <2>2. IsWorld(r.w) /\ r.w.beyond = TRUE
    BY <2>1, SetBeyond
  <2> QED
    BY <2>1, <2>2 DEF Good, Keeps, Holds
<1>3. CASE place >= 2 /\ p.tmpPath = Nil
  <2>1. r.p = p /\ r.w = [w EXCEPT !.arguments = Append(w.arguments, body)]
    BY <1>3 DEF EndOwn, body
  <2>2. IsWorld(r.w) /\ Alike(r.w, w)
    <3> HIDE DEF r
    <3> QED
      BY <2>1, SetArguments DEF Alike
  <2> QED
    BY <1>3, <2>1, <2>2, AlikeHolds DEF Good, Keeps, Alike
<1>4. CASE place >= 2 /\ p.tmpPath # Nil /\ CannotWrite(w, body)
  <2>1. r.p = [p EXCEPT !.tmpPath = Nil] /\ r.w = Fails(w)
    BY <1>4 DEF EndOwn, body
  <2>2. IsWorld(r.w) /\ Alike(r.w, w)
    BY <2>1, Failing
  <2>3. /\ r.p \in ParserOf(ns, subs) /\ r.p.tmpPath = Nil /\ r.p.subParser = NoParser
        /\ r.p.state = p.state
    BY <2>1 DEF ParserOf, Nil
  <2>4. Holds(r.p, w, leak)
    BY <1>4, <2>3 DEF Holds, CannotWrite
  <2> QED
    BY <2>2, <2>3, <2>4, AlikeHolds DEF Good, Keeps, Alike
<1>5. CASE place >= 2 /\ p.tmpPath # Nil /\ ~CannotWrite(w, body)
  <2> DEFINE file == [tmp |-> p.tmpPath, content |-> written.disk[p.tmpPath]]
  <2>1. /\ r.p = [p EXCEPT !.tmpFile = Nil, !.tmpPath = Nil]
        /\ r.w = [written EXCEPT !.files = Append(written.files, file)]
    BY <1>5 DEF EndOwn, body
  <2> DEFINE d  == [w.disk EXCEPT ![p.tmpFile] = @ \o body]
             fs == Append(written.files, file)
             q  == [p EXCEPT !.tmpFile = Nil]
  <2>a. written = [w EXCEPT !.disk = d]
    BY DEF Written
  <2>b. r.w = [written EXCEPT !.files = fs]
    BY <2>1
  <2>c. r.p = [q EXCEPT !.tmpPath = Nil]
    BY <2>1
  <2> HIDE DEF r, written, d, fs, file
  <2>2. /\ r.p \in ParserOf(ns, subs) /\ r.p.tmpPath = Nil /\ r.p.tmpFile = Nil
        /\ r.p.subParser = NoParser /\ r.p.state = p.state
    <3>1. /\ q \in ParserOf(ns, subs) /\ q.tmpFile = Nil
          /\ q.subParser = NoParser /\ q.state = p.state
      BY DEF ParserOf, Nil
    <3> HIDE DEF q
    <3> QED
      BY <2>c, <3>1 DEF ParserOf, Nil
  <2>4. IsWorld(written) /\ written.beyond = w.beyond
    BY <2>a, SetDisk
  <2>5. /\ IsWorld(r.w) /\ r.w.beyond = w.beyond
        /\ r.w.files = fs /\ r.w.disk = written.disk
        /\ r.w.opened = written.opened /\ r.w.fault = written.fault
    BY <2>b, <2>4, SetFiles
  <2>6. ASSUME ~w.beyond PROVE Holds(r.p, r.w, leak)
    <3>1. /\ Stored(w) /\ (w.fault = "write" => leak) /\ p.tmpFile = p.tmpPath
          /\ p.tmpPath \in DOMAIN w.disk
          /\ ~leak => DOMAIN w.disk \subseteq Tmps(w.files) \cup {p.tmpPath}
      BY <1>5, <2>6 DEF Holds
    <3>2. /\ Stored(written) /\ DOMAIN written.disk = DOMAIN w.disk
          /\ written.files = w.files /\ written.fault = w.fault
          /\ written.opened = w.opened
      BY <1>1, <2>6, <3>1, Writing DEF written
    <3>3. file \in [tmp : Nat, content : Content]
      BY <1>0, <3>1, <3>2 DEF Stored, file
    <3>4. w.files \in Seq([tmp : Nat, content : Content])
      BY <3>1 DEF Stored
    <3>5. /\ r.w.files = Append(w.files, file) /\ r.w.disk = written.disk
          /\ r.w.opened = w.opened /\ r.w.fault = w.fault
      BY <2>5, <3>2 DEF fs
    <3>6. Append(w.files, file) \in Seq([tmp : Nat, content : Content])
      BY <3>3, <3>4
    <3>7. Stored(r.w)
      BY <3>2, <3>5, <3>6 DEF Stored
    <3>8. Tmps(r.w.files) = Tmps(w.files) \cup {p.tmpPath}
      <4>1. file.tmp = p.tmpPath
        BY DEF file
      <4> QED
        BY <3>4, <3>5, <4>1, TmpsAppend
    <3>9. ~leak => DOMAIN r.w.disk \subseteq Tmps(r.w.files)
      BY <3>1, <3>2, <3>5, <3>8
    <3> QED
      BY <2>2, <3>1, <3>5, <3>7, <3>9 DEF Holds
  <2>7. Holds(r.p, r.w, leak)
    BY <2>5, <2>6 DEF Holds
  <2> QED
    BY <2>2, <2>5, <2>7 DEF Good, Keeps, r
<1> QED
  BY <1>2, <1>3, <1>4, <1>5

LEMMA PassOwnKeeps ==
    ASSUME NEW ns, NEW subs, NEW p \in ParserOf(ns, subs), NEW w, IsWorld(w),
           NEW leak \in BOOLEAN, p.subParser = NoParser, Holds(p, w, leak)
    PROVE  LET r == PassOwn(p, w)
           IN  /\ Good(r, ns, subs, w, leak)
               /\ RangeOf(p.boundary, p.data) = -1 /\ r.w.success /\ ~r.w.beyond =>
                      Bounded(r.p)
<1> DEFINE r == PassOwn(p, w)
           n == Len(p.data) - Margin(p)
<1>0. /\ p.data \in Content /\ Len(p.data) \in Nat /\ p.tmpPath \in Nat
      /\ Margin(p) = 2 * Len(p.boundary) /\ Len(p.boundary) \in Nat /\ n \in Int
      /\ Len(p.boundary) >= 1
  BY DEF ParserOf, Content, Margin
<1>1. CASE Len(p.data) <= Margin(p) \/ p.tmpPath = Nil
  <2>1. r.p = p /\ r.w = w
    BY <1>1 DEF PassOwn
  <2> QED
    BY <1>0, <1>1, <2>1 DEF Good, Keeps, Bounded, Few, Waits
<1>2. CASE Len(p.data) > Margin(p) /\ p.tmpPath # Nil
  <2>0. n \in 0..Len(p.data) /\ Sure(p) \in Content /\ After(p.data, n) \in Content
        /\ Len(After(p.data, n)) = Margin(p)
    <3> DEFINE m == Len(p.data)
               k == Margin(p)
    <3>1. m \in Nat /\ k \in Nat /\ m > k /\ n = m - k
      BY <1>0, <1>2
    <3>2. n \in 0..m /\ n <= m /\ m - n = k /\ n >= 0
      <4> HIDE DEF m, k, n
      <4> QED
        BY <3>1
    <3> HIDE DEF n
    <3>3. SubSeq(p.data, 1, n) \in Content /\ After(p.data, n) \in Content
          /\ Len(After(p.data, n)) = m - n
      BY <1>0, <3>2, Cuts
    <3> QED
      BY <3>2, <3>3 DEF Sure, n
  <2>1. CASE CannotWrite(w, Sure(p))
    <3>1. r.p = p /\ r.w = Fails(w)
      BY <1>0, <1>2, <2>1 DEF PassOwn
    <3> QED
      BY <3>1, Failing, AlikeHolds DEF Good, Keeps, Alike
  <2>2. CASE ~CannotWrite(w, Sure(p))
    <3>1. r.p = Rest(p) /\ r.w = Written(p, w, Sure(p))
      BY <1>0, <1>2, <2>2 DEF PassOwn
    <3>2. /\ r.p \in ParserOf(ns, subs) /\ r.p.subParser = NoParser
          /\ r.p.state = p.state /\ r.p.tmpPath = p.tmpPath /\ r.p.tmpFile = p.tmpFile
          /\ r.p.boundary = p.boundary /\ Len(r.p.data) = Margin(p)
          /\ r.p.data = After(p.data, n)
      <4>1. r.p = [p EXCEPT !.data = After(p.data, n)]
        BY <3>1 DEF Rest
      <4> HIDE DEF r, n
      <4> QED
        BY <2>0, <4>1 DEF ParserOf
    <3>3. r.w = [w EXCEPT !.disk = [w.disk EXCEPT ![p.tmpFile] = @ \o Sure(p)]]
      BY <3>1 DEF Written
    <3>4. IsWorld(r.w) /\ r.w.beyond = w.beyond
      <4> HIDE DEF r
      <4> QED
        BY <3>3, SetDisk
    <3>5. ASSUME ~w.beyond PROVE Holds(r.p, r.w, leak)
      <4>1. /\ Stored(w) /\ (w.fault = "write" => leak) /\ p.tmpFile = p.tmpPath
            /\ p.tmpPath \in DOMAIN w.disk
            /\ ~leak => DOMAIN w.disk \subseteq Tmps(w.files) \cup {p.tmpPath}
        BY <1>2, <3>5 DEF Holds
      <4>2. /\ Stored(r.w) /\ DOMAIN r.w.disk = DOMAIN w.disk
            /\ r.w.files = w.files /\ r.w.fault = w.fault
        BY <2>0, <3>1, <3>5, <4>1, Writing
      <4> QED
        BY <3>2, <3>5, <4>1, <4>2 DEF Holds
    <3>6. Holds(r.p, r.w, leak)
      BY <3>4, <3>5 DEF Holds
    <3>7. ASSUME RangeOf(p.boundary, p.data) = -1 PROVE Bounded(r.p)
      <4> HIDE DEF n, r
      <4>1. p.boundary \in Content
        BY DEF ParserOf
      <4>2. RangeOf(p.boundary, After(p.data, n)) = -1
        BY <1>0, <2>0, <3>7, <4>1, NoneBehind
      <4>3. RangeOf(r.p.boundary, r.p.data) = -1
        BY <3>2, <4>2
      <4> QED
        BY <1>0, <3>2, <4>3 DEF Bounded, Few, Waits
    <3> QED
      BY <3>2, <3>4, <3>6, <3>7 DEF Good, Keeps
  <2> QED
    BY <2>1, <2>2
<1> QED
  BY <1>0, <1>1, <1>2

-----------------------------------------------------------------------------
(* What the headers start.                                                  *)

LEMMA NewParserKeeps ==
    ASSUME NEW name \in Bytes, NEW nested \in BOOLEAN
    PROVE  /\ NewParser(name, nested) \in ParserOf({nested}, {NoParser})
           /\ NewParser(name, nested).subParser = NoParser
           /\ NewParser(name, nested).state = "start"
           /\ NewParser(name, nested).tmpPath = Nil
           /\ NewParser(name, nested).tmpFile = Nil
<1> DEFINE b == Boundary(name)
<1>1. b \in Content /\ b # <<>>
  <2>1. <<name>> \in Content /\ Len(<<name>>) = 1
    BY Short DEF Content
  <2>2. b \in Content /\ Len(b) = 3
    BY <2>1, LineEnds, Joined DEF Boundary, Content
  <2> QED
    BY <2>2
<1> HIDE DEF b
<1>2. <<>> \in Content
  BY DEF Content
<1>3. NewParser(name, nested)
      = [boundary |-> b, nested |-> nested, state |-> "start", data |-> <<>>,
         tmpPath |-> Nil, tmpFile |-> Nil, subParser |-> NoParser]
  BY DEF NewParser, b
<1> QED
  BY <1>1, <1>2, <1>3 DEF ParserOf, Nil

LEMMA OpenKeeps ==
    ASSUME NEW ns, NEW subs, NEW p \in ParserOf(ns, subs), NEW w, IsWorld(w),
           NEW leak \in BOOLEAN, p.subParser = NoParser, p.tmpPath = Nil,
           p.state = "content", Holds(p, w, leak),
           NEW t, t = w.opened + 1,
           NEW d, DOMAIN d = DOMAIN w.disk \cup {t},
           w.disk \in [DOMAIN w.disk -> Content] => d \in [DOMAIN d -> Content],
           NEW r, r.p \in ParserOf(ns, subs), r.p.tmpFile = t, r.p.tmpPath = t,
           r.p.subParser = NoParser, r.p.state = "content",
           IsWorld(r.w), r.w.disk = d, r.w.opened = t, r.w.files = w.files,
           r.w.fault = w.fault, r.w.beyond = w.beyond
    PROVE  Good(r, ns, subs, w, leak)
<1>0. w.opened \in Nat
  BY DEF IsWorld
<1>1. t \in Nat /\ t # Nil
  BY <1>0 DEF Nil
<1>7. ASSUME ~w.beyond PROVE Holds(r.p, r.w, leak)
  <2>1. /\ Stored(w) /\ (w.fault = "write" => leak)
        /\ ~leak => DOMAIN w.disk \subseteq Tmps(w.files) \cup {Nil}
    BY <1>7 DEF Holds
  <2>2. DOMAIN d = DOMAIN w.disk \cup {t}
    OBVIOUS
  <2>3. d \in [DOMAIN d -> Content]
    BY <2>1 DEF Stored
  <2>4. DOMAIN d \subseteq 1..t
    BY <1>0, <2>1, <2>2 DEF Stored
  <2>5. Stored(r.w)
    BY <2>1, <2>3, <2>4 DEF Stored
  <2>6. 0 \notin DOMAIN w.disk
    BY <2>1 DEF Stored
  <2> QED
    BY <1>1, <2>1, <2>2, <2>5, <2>6 DEF Holds, Nil
<1> QED
  BY <1>7 DEF Good, Keeps, Holds

LEMMA StartPartKeeps ==
    ASSUME NEW ns, NEW subs, NEW p \in ParserOf(ns, subs), NEW w, IsWorld(w),
           NEW leak \in BOOLEAN, p.subParser = NoParser, p.tmpPath = Nil,
           p.state = "content", Holds(p, w, leak), NEW kind,
           p.nested \/ \A q \in Inner : <<q>> \in subs
    PROVE  LET r == StartPart(p, w, kind)
           IN  Good(r, ns, subs, w, leak) /\ r.p.data = p.data
<1> DEFINE r == StartPart(p, w, kind)
<1>0. p.tmpFile \in Nat
  BY DEF ParserOf
<1>1. CASE ~HasControlName(p, kind)
  <2>1. r.p = p /\ r.w = Fails(w)
    BY <1>1 DEF StartPart
  <2> QED
    BY <2>1, Failing, AlikeHolds DEF Good, Keeps, Alike
<1>2. CASE HasControlName(p, kind) /\ kind = "nested" /\ p.nested
  <2>1. r.p = p /\ r.w = [w EXCEPT !.beyond = TRUE]
    BY <1>2 DEF StartPart
  <2>2. IsWorld(r.w) /\ r.w.beyond = TRUE
    BY <2>1, SetBeyond
  <2> QED
    BY <2>1, <2>2 DEF Good, Keeps, Holds
<1>3. CASE HasControlName(p, kind) /\ kind = "nested" /\ ~p.nested
  <2> DEFINE c == NewParser("c", TRUE)
  <2>1. r.p = [p EXCEPT !.subParser = <<c>>] /\ r.w = w
    BY <1>3 DEF StartPart
  <2>2. /\ c \in Inner /\ c.subParser = NoParser /\ c.state = "start"
        /\ c.tmpPath = Nil /\ c.tmpFile = Nil
    <3>1. "c" \in Bytes /\ TRUE \in BOOLEAN
      BY DEF Bytes
    <3> QED
      BY <3>1, NewParserKeeps, Zenon DEF Inner
  <2> HIDE DEF c, r
  <2>3. <<c>> \in subs /\ <<c>> # NoParser /\ <<c>>[1] = c
    BY <1>3, <2>2 DEF NoParser
  <2>4. /\ r.p \in ParserOf(ns, subs) /\ r.p.subParser = <<c>> /\ r.p.tmpPath = Nil
        /\ r.p.state = "content" /\ r.p.tmpFile = p.tmpFile /\ r.p.data = p.data
    BY <2>1, <2>3 DEF ParserOf
  <2>5. Holds(c, w, leak)
    BY <2>2 DEF Holds
  <2>6. ~w.beyond /\ ~leak => p.tmpFile = Nil
    BY DEF Holds
  <2>7. Keeps(r.p, r.w, leak)
    BY <2>1, <2>3, <2>4, <2>5, <2>6 DEF Keeps
  <2> QED
    BY <2>1, <2>4, <2>7 DEF Good, r
<1>4. CASE HasControlName(p, kind) /\ kind = "field"
  <2>1. r.p = p /\ r.w = w
    BY <1>4 DEF StartPart
  <2> QED
    BY <2>1 DEF Good, Keeps
<1>5. CASE HasControlName(p, kind) /\ kind \notin {"field", "nested"} /\ w.fault = "open"
  <2>1. r.p = [p EXCEPT !.tmpFile = Nil] /\ r.w = Fails(w)
    BY <1>5 DEF StartPart
  <2>2. IsWorld(r.w) /\ Alike(r.w, w)
    BY <2>1, Failing
  <2> HIDE DEF r
  <2>3. /\ r.p \in ParserOf(ns, subs) /\ r.p.tmpFile = Nil /\ r.p.subParser = NoParser
        /\ r.p.tmpPath = Nil /\ r.p.state = "content" /\ r.p.data = p.data
    BY <2>1 DEF ParserOf, Nil
  <2>4. Holds(r.p, w, leak)
    BY <2>3 DEF Holds
  <2> QED
    BY <2>2, <2>3, <2>4, AlikeHolds DEF Good, Keeps, Alike, r
<1>6. CASE HasControlName(p, kind) /\ kind \notin {"field", "nested"} /\ w.fault # "open"
  <2> DEFINE t == w.opened + 1
             d == [u \in DOMAIN w.disk \cup {t} |-> IF u = t THEN <<>> ELSE w.disk[u]]
             q == [p EXCEPT !.tmpFile = t]
             v == [w EXCEPT !.opened = t]
  <2>1. t \in Nat
    BY DEF IsWorld
  <2>2. /\ IsWorld(v) /\ v.opened = t /\ v.disk = w.disk /\ v.files = w.files
        /\ v.fault = w.fault /\ v.beyond = w.beyond
    <3> HIDE DEF t
    <3> QED
      BY <2>1, SetOpened
  <2>3. /\ r.p = [q EXCEPT !.tmpPath = t]
        /\ r.w = [v EXCEPT !.disk = d]
    <3>1. /\ r.p = [p EXCEPT !.tmpFile = t, !.tmpPath = t]
          /\ r.w = [w EXCEPT !.opened = t,
                             !.disk = [u \in DOMAIN @ \cup {t} |-> IF u = t THEN <<>> ELSE @[u]]]
      BY <1>6 DEF StartPart
    <3> HIDE DEF r, t
    <3> QED
      BY <2>2, <3>1
  <2> HIDE DEF r
  <2>4. /\ IsWorld(r.w) /\ r.w.disk = d /\ r.w.opened = t /\ r.w.files = w.files
        /\ r.w.fault = w.fault /\ r.w.beyond = w.beyond
    <3> HIDE DEF v, d
    <3> QED
      BY <2>2, <2>3, SetDisk
  <2>5. /\ q \in ParserOf(ns, subs) /\ q.tmpFile = t /\ q.data = p.data
        /\ q.subParser = NoParser /\ q.state = "content"
    <3> HIDE DEF t
    <3> QED
      BY <2>1 DEF ParserOf
  <2>6. /\ r.p \in ParserOf(ns, subs) /\ r.p.tmpFile = t /\ r.p.tmpPath = t
        /\ r.p.subParser = NoParser /\ r.p.state = "content" /\ r.p.data = p.data
    <3> HIDE DEF t, q
    <3> QED
      BY <2>1, <2>3, <2>5 DEF ParserOf
  <2>7. Good(r, ns, subs, w, leak)
    <3>1. DOMAIN d = DOMAIN w.disk \cup {t}
      OBVIOUS
    <3>2. ASSUME w.disk \in [DOMAIN w.disk -> Content] PROVE d \in [DOMAIN d -> Content]
      <4>1. <<>> \in Content
        BY DEF Content
      <4>2. \A u \in DOMAIN w.disk : w.disk[u] \in Content
        BY <3>2
      <4> QED
        BY <4>1, <4>2
    <3>3. t = w.opened + 1
      OBVIOUS
    <3> HIDE DEF t, d, q, v
    <3> QED
      BY <2>4, <2>6, <3>1, <3>2, <3>3, OpenKeeps
  <2> QED
    BY <2>6, <2>7 DEF r
<1> QED
  BY <1>1, <1>2, <1>3, <1>4, <1>5, <1>6

LEMMA HeadersKeep ==
    ASSUME NEW ns, NEW subs, NEW p \in ParserOf(ns, subs), NEW w, IsWorld(w),
           NEW leak \in BOOLEAN, Keeps(p, w, leak), NoParser \in subs,
           p.nested \/ \A q \in Inner : <<q>> \in subs
    PROVE  LET r == ParseHeaders(p, w)
           IN  Good(r, ns, subs, w, leak) /\ Len(r.p.data) <= Len(p.data)
<1> DEFINE r   == ParseHeaders(p, w)
           end == RangeOf(CRLF \o CRLF, p.data)
           d   == After(p.data, end + 4)
           next == [p EXCEPT !.state = "content", !.tmpPath = Nil,
                             !.subParser = NoParser, !.data = d]
           kind == IF end = 0 THEN "unnamed" ELSE p.data[end]
<1>0. p.data \in Content /\ Len(p.data) \in Nat
  BY DEF ParserOf, Content
<1>1. CASE p.state # "headers" \/ end = -1
  <2>1. r.p = p /\ r.w = w
    BY <1>1 DEF ParseHeaders
  <2> QED
    BY <1>0, <2>1 DEF Good
<1>2. CASE p.state = "headers" /\ end # -1
  <2>1. r = StartPart(next, w, kind)
    BY <1>2 DEF ParseHeaders
  <2>2. CRLF \o CRLF \in Content /\ Len(CRLF \o CRLF) = 4
    BY LineEnds
  <2>3. end \in 0..(Len(p.data) - 4)
    BY <1>0, <1>2, <2>2, Place
  <2> HIDE DEF end, kind
  <2>4. d \in Content /\ Len(d) <= Len(p.data)
    <3>1. end + 4 \in 0..Len(p.data) /\ end + 4 >= 0
      BY <1>0, <2>3
    <3> DEFINE n == end + 4
    <3>2. n \in 0..Len(p.data) /\ n >= 0 /\ n \in Int
      BY <3>1
    <3> HIDE DEF n
    <3>3. After(p.data, n) \in Content /\ Len(After(p.data, n)) = Len(p.data) - n
      BY <1>0, <3>2, Cuts
    <3> QED
      BY <1>0, <3>2, <3>3 DEF n
  <2> HIDE DEF d
  <2>5. /\ next \in ParserOf(ns, subs) /\ next.subParser = NoParser /\ next.tmpPath = Nil
        /\ next.state = "content" /\ next.data = d /\ next.nested = p.nested
        /\ next.tmpFile = p.tmpFile
    BY <2>4 DEF ParserOf, Nil
  <2>6. Holds(next, w, leak)
    BY <1>2, <2>5 DEF Keeps, Holds
  <2> HIDE DEF next
  <2>7. Good(r, ns, subs, w, leak) /\ r.p.data = d
    BY <2>1, <2>5, <2>6, StartPartKeeps
  <2> QED
    BY <2>4, <2>7
<1> QED
  BY <1>1, <1>2

-----------------------------------------------------------------------------
(* One call of _parseData, and all of them.                                 *)

\* A parser goes on from a boundary.
LEMMA AtBoundary ==
    ASSUME NEW p, NEW q, NEW w, NEW leak \in BOOLEAN, Keeps(p, w, leak),
           ~w.beyond => p.tmpPath = Nil /\ p.subParser = NoParser,
           q.tmpPath = p.tmpPath, q.tmpFile = p.tmpFile, q.subParser = p.subParser
    PROVE  Keeps(q, w, leak)
<1>1. CASE w.beyond
  BY <1>1 DEF Keeps, Holds
<1>2. CASE ~w.beyond
  BY <1>2 DEF Keeps, Holds
<1> QED
  BY <1>1, <1>2

LEMMA TurnKeeps ==
    ASSUME NEW ns, NEW subs, NEW p \in ParserOf(ns, subs), NEW w, IsWorld(w),
           NEW leak \in BOOLEAN, Keeps(p, w, leak),
           NEW ended, Good(ended, ns, subs, w, leak),
           ~ended.w.beyond => ended.p.tmpPath = Nil /\ ended.p.subParser = NoParser,
           NEW passed, Good(passed, ns, subs, w, leak),
           RangeOf(p.boundary, p.data) = -1 /\ passed.w.success /\ ~passed.w.beyond =>
               Bounded(passed.p)
    PROVE  LET r == Turn(p, w, ended, passed)
           IN  /\ Good(r, ns, subs, w, leak)
               /\ r.again \in BOOLEAN
               /\ r.again => Len(r.p.data) < Len(p.data)
               /\ ~r.again /\ r.w.success /\ ~r.w.beyond => Bounded(r.p)
<1> DEFINE r == Turn(p, w, ended, passed)
           place == RangeOf(p.boundary, p.data)
           size  == place + Len(p.boundary)
           tail  == After(p.data, size)
           kept  == IF p.state = "content" THEN ended ELSE [p |-> p, w |-> w]
<1>0. /\ p.data \in Content /\ Len(p.data) \in Nat /\ p.boundary \in Content
      /\ Len(p.boundary) \in Nat /\ Len(p.boundary) >= 1
      /\ p.state \in {"start", "headers", "content", "end"}
  BY DEF ParserOf, Content
<1>a. ASSUME p.state # "content", ~w.beyond
      PROVE  p.tmpPath = Nil /\ p.subParser = NoParser
  BY <1>a DEF Keeps, Holds
<1>1. CASE p.state \notin {"start", "content"}
  <2>1. r.p = p /\ r.w = w /\ r.again = FALSE
    BY <1>1 DEF Turn
  <2>2. ~w.beyond => Bounded(p)
    BY <1>a, <1>1 DEF Bounded, Few, Waits
  <2> QED
    BY <2>1, <2>2 DEF Good
<1>2. CASE p.state \in {"start", "content"} /\ place = -1
  <2>1. r.p = passed.p /\ r.w = passed.w /\ r.again = FALSE
    BY <1>2 DEF Turn
  <2> QED
    BY <1>2, <2>1 DEF Good
<1>3. CASE p.state \in {"start", "content"} /\ place # -1
  <2>1. place \in 0..(Len(p.data) - Len(p.boundary))
    BY <1>0, <1>3, Place
  <2>2. size \in 1..Len(p.data)
    <3> DEFINE n == Len(p.data)
               b == Len(p.boundary)
    <3>1. n \in Nat /\ b \in Nat /\ b >= 1 /\ place \in 0..(n - b)
      BY <1>0, <2>1
    <3> HIDE DEF place, n, b
    <3>2. place + b \in 1..n
      BY <3>1
    <3> QED
      BY <3>2 DEF n, b
  <2>3. tail \in Content /\ Len(tail) = Len(p.data) - size
    <3>1. size \in 0..Len(p.data) /\ size >= 0 /\ size \in Int
      BY <1>0, <2>2
    <3> HIDE DEF size, tail, place, r, kept
    <3> QED
      BY <1>0, <3>1, Cuts DEF tail
  <2>4. /\ kept.p \in ParserOf(ns, subs) /\ IsWorld(kept.w) /\ (w.beyond => kept.w.beyond)
        /\ Keeps(kept.p, kept.w, leak)
        /\ ~kept.w.beyond => kept.p.tmpPath = Nil /\ kept.p.subParser = NoParser
    <3>1. CASE p.state = "content"
      BY <3>1 DEF Good
    <3>2. CASE p.state # "content"
      BY <1>a, <3>2
    <3> QED
      BY <3>1, <3>2
  <2>5. r = IF StartsWith(tail, CRLF)
            THEN [p |-> [kept.p EXCEPT !.state = "headers", !.data = After(tail, 2)],
                  w |-> [kept.w EXCEPT !.success = TRUE], again |-> TRUE]
            ELSE IF StartsWith(tail, Dashes \o CRLF)
            THEN [p |-> [kept.p EXCEPT !.state = "end"], w |-> kept.w, again |-> FALSE]
            ELSE [p |-> p, w |-> w, again |-> FALSE]
    BY <1>3 DEF Turn
  <2>6. CASE StartsWith(tail, CRLF)
    <3> DEFINE d == After(tail, 2)
               q == kept.p
               v == kept.w
    <3>1. /\ r.p = [q EXCEPT !.state = "headers", !.data = d]
          /\ r.w = [v EXCEPT !.success = TRUE] /\ r.again = TRUE
      BY <2>5, <2>6
    <3>2. Len(tail) >= 2 /\ Len(tail) \in Nat
      BY <2>3, <2>6, LineEnds DEF StartsWith, Content
    <3> HIDE DEF tail, size, kept, r, q, v, d
    <3>3. d \in Content /\ Len(d) = Len(tail) - 2
      <4>1. 2 \in 0..Len(tail) /\ 2 >= 0 /\ 2 \in Int
        BY <3>2
      <4> QED
        BY <2>3, <4>1, Cuts DEF d
    <3>4. Len(d) < Len(p.data)
      BY <1>0, <2>2, <2>3, <3>2, <3>3
    <3>5. /\ r.p \in ParserOf(ns, subs) /\ r.p.data = d /\ Keeps(r.p, v, leak)
      <4> DEFINE h == [q EXCEPT !.state = "headers"]
      <4>1. r.p = [h EXCEPT !.data = d]
        BY <3>1
      <4>2. /\ h \in ParserOf(ns, subs)
            /\ h.tmpPath = q.tmpPath /\ h.tmpFile = q.tmpFile /\ h.subParser = q.subParser
        BY <2>4 DEF ParserOf, q
      <4> HIDE DEF h
      <4>3. /\ r.p \in ParserOf(ns, subs) /\ r.p.data = d
            /\ r.p.tmpPath = q.tmpPath /\ r.p.tmpFile = q.tmpFile
            /\ r.p.subParser = q.subParser
        BY <3>3, <4>1, <4>2 DEF ParserOf
      <4> QED
        BY <2>4, <4>3, AtBoundary DEF q, v
    <3>7. IsWorld(r.w) /\ Alike(r.w, v)
      <4> DEFINE x == r.w
      <4>1. IsWorld(v)
        BY <2>4 DEF v
      <4>2. x = [v EXCEPT !.success = TRUE]
        BY <3>1
      <4> HIDE DEF x
      <4>3. /\ IsWorld(x) /\ x.files = v.files /\ x.disk = v.disk /\ x.opened = v.opened
            /\ x.fault = v.fault /\ x.beyond = v.beyond
        BY <4>1, <4>2, Succeeds
      <4> QED
        BY <4>3 DEF Alike, x
    <3>8. Keeps(r.p, r.w, leak)
      BY <3>5, <3>7, AlikeHolds DEF Keeps, Alike
    <3>9. Good(r, ns, subs, w, leak)
      BY <2>4, <3>5, <3>7, <3>8 DEF Good, Alike, v
    <3> QED
      BY <3>1, <3>4, <3>5, <3>9 DEF r
  <2>7. CASE ~StartsWith(tail, CRLF) /\ StartsWith(tail, Dashes \o CRLF)
    <3> DEFINE q == kept.p
    <3>1. /\ r.p = [q EXCEPT !.state = "end"] /\ r.w = kept.w /\ r.again = FALSE
      BY <2>5, <2>7
    <3> HIDE DEF tail, size, kept, r
    <3>2. /\ r.p \in ParserOf(ns, subs)
          /\ r.p.tmpPath = q.tmpPath /\ r.p.tmpFile = q.tmpFile
          /\ r.p.subParser = q.subParser
      BY <2>4, <3>1 DEF ParserOf
    <3>3. Keeps(r.p, kept.w, leak) /\ (~kept.w.beyond => r.p.tmpPath = Nil)
      BY <2>4, <3>2, AtBoundary
    <3> QED
      BY <2>4, <3>1, <3>2, <3>3 DEF Good, Bounded, Few, Waits, r
  <2>8. CASE ~StartsWith(tail, CRLF) /\ ~StartsWith(tail, Dashes \o CRLF)
    <3>1. r.p = p /\ r.w = w /\ r.again = FALSE
      BY <2>5, <2>8
    <3>2. Bounded(p)
      BY <1>3, <2>8 DEF Bounded, Few, Waits
    <3> QED
      BY <3>1, <3>2 DEF Good
  <2> QED
    BY <2>6, <2>7, <2>8
<1> QED
  BY <1>0, <1>1, <1>2, <1>3

Step(nested, p, w) == IF nested THEN TurnNested(p, w) ELSE TurnOuter(p, w)

IsRun(f, nested, p, w, n) ==
    f = [i \in 0..n |->
            IF i = 0 THEN [p |-> p, w |-> w, again |-> TRUE]
            ELSE IF f[i - 1].again THEN Step(nested, f[i - 1].p, f[i - 1].w) ELSE f[i - 1]]

LEMMA RunExists ==
    ASSUME NEW nested, NEW p, NEW w, NEW n \in Nat
    PROVE  \E f : IsRun(f, nested, p, w, n)
<1> DEFINE T == {m \in Nat : \E f : IsRun(f, nested, p, w, m)}
           start == [p |-> p, w |-> w, again |-> TRUE]
           Onward(r) == IF r.again THEN Step(nested, r.p, r.w) ELSE r
<1>0. \A f, m : IsRun(f, nested, p, w, m) <=>
                   f = [i \in 0..m |-> IF i = 0 THEN start ELSE Onward(f[i - 1])]
  BY DEF IsRun
<1> HIDE DEF start, Onward
<1>1. 0 \in T
  <2> DEFINE f == [i \in 0..0 |-> start]
  <2>1. f = [i \in 0..0 |-> IF i = 0 THEN start ELSE Onward(f[i - 1])]
    OBVIOUS
  <2> HIDE DEF f
  <2> QED
    BY <1>0, <2>1
<1>2. ASSUME NEW m \in 1..n, m - 1 \in T PROVE m \in T
  <2>1. PICK g : IsRun(g, nested, p, w, m - 1)
    BY <1>2
  <2>2. g = [i \in 0..(m - 1) |-> IF i = 0 THEN start ELSE Onward(g[i - 1])]
    BY <1>0, <2>1
  <2> DEFINE f == [i \in 0..m |-> IF i = m THEN Onward(g[m - 1]) ELSE g[i]]
  <2>3. \A i \in 0..m : f[i] = IF i = 0 THEN start ELSE Onward(f[i - 1])
    <3> TAKE i \in 0..m
    <3>1. CASE i = m
      <4>1. i # 0 /\ i - 1 \in 0..m /\ i - 1 # m
        BY <3>1
      <4> QED
        BY <3>1, <4>1
    <3>2. CASE i # m
      <4>1. i \in 0..(m - 1) /\ (i # 0 => i - 1 \in 0..m /\ i - 1 # m)
        BY <3>2
      <4> QED
        BY <2>2, <3>2, <4>1
    <3> QED
      BY <3>1, <3>2
  <2>4. f = [i \in 0..m |-> f[i]]
    OBVIOUS
  <2> HIDE DEF f
  <2>5. f = [i \in 0..m |-> IF i = 0 THEN start ELSE Onward(f[i - 1])]
    BY <2>3, <2>4
  <2> QED
    BY <1>0, <2>5
<1> HIDE DEF T
<1>3. n \in T
  BY <1>1, <1>2, Everywhere
<1> QED
  BY <1>3 DEF T

StepsKeep(nested, ns, subs, leak) ==
    \A q \in ParserOf(ns, subs) : \A v :
        IsWorld(v) /\ Keeps(q, v, leak) =>
            LET r == Step(nested, q, v)
            IN  /\ Good(r, ns, subs, v, leak) /\ r.again \in BOOLEAN
                /\ r.again => Len(r.p.data) < Len(q.data)
                /\ ~r.again /\ r.w.success /\ ~r.w.beyond => Bounded(r.p)

\* Each call takes a boundary from the data, so that the last makes no other.
LEMMA RunKeeps ==
    ASSUME NEW ns, NEW subs, NEW p \in ParserOf(ns, subs), NEW w, IsWorld(w),
           NEW leak \in BOOLEAN, Keeps(p, w, leak), NEW nested \in BOOLEAN,
           StepsKeep(nested, ns, subs, leak),
           NEW n, n = Len(p.data) + 1, NEW f, IsRun(f, nested, p, w, n)
    PROVE  /\ Good(f[n], ns, subs, w, leak)
           /\ f[n].w.success /\ ~f[n].w.beyond => Bounded(f[n].p)
<1> DEFINE start == [p |-> p, w |-> w, again |-> TRUE]
           Fine(i) == /\ Good(f[i], ns, subs, w, leak) /\ f[i].again \in BOOLEAN
                      /\ f[i].again => Len(f[i].p.data) <= Len(p.data) - i
                      /\ ~f[i].again /\ f[i].w.success /\ ~f[i].w.beyond => Bounded(f[i].p)
           T == {i \in 0..n : Fine(i)}
<1>0. Len(p.data) \in Nat /\ n \in Nat
  BY DEF ParserOf, Content
<1>1. \A i \in 0..n : f[i] = IF i = 0 THEN start
                            ELSE IF f[i - 1].again THEN Step(nested, f[i - 1].p, f[i - 1].w)
                            ELSE f[i - 1]
  BY DEF IsRun
<1>2. 0 \in T
  <2>0. 0 \in 0..n
    BY <1>0
  <2>1. f[0] = start
    <3> HIDE DEF start
    <3> QED
      BY <1>1, <2>0
  <2>2. f[0].p = p /\ f[0].w = w /\ f[0].again = TRUE
    BY <2>1
  <2>3. Good(f[0], ns, subs, w, leak)
    BY <2>2 DEF Good
  <2>4. Len(f[0].p.data) <= Len(p.data) - 0
    BY <1>0, <2>2
  <2> QED
    BY <2>0, <2>2, <2>3, <2>4
<1>3. ASSUME NEW i \in 1..n, i - 1 \in T PROVE i \in T
  <2> DEFINE l == f[i - 1]
             q == l.p
             v == l.w
  <2>0. i \in 0..n /\ i # 0 /\ Fine(i - 1) /\ i \in Nat
    BY <1>0, <1>3
  <2>1. q \in ParserOf(ns, subs) /\ IsWorld(v) /\ Keeps(q, v, leak) /\ (w.beyond => v.beyond)
        /\ Len(q.data) \in Nat
    BY <2>0 DEF Good, ParserOf, Content
  <2>2. CASE l.again
    <3>1. f[i] = Step(nested, q, v)
      BY <1>1, <2>0, <2>2
    <3>2. /\ Good(f[i], ns, subs, v, leak) /\ f[i].again \in BOOLEAN
          /\ f[i].again => Len(f[i].p.data) < Len(q.data)
          /\ ~f[i].again /\ f[i].w.success /\ ~f[i].w.beyond => Bounded(f[i].p)
      <4> HIDE DEF q, v
      <4> QED
        BY <2>1, <3>1 DEF StepsKeep
    <3>3. Good(f[i], ns, subs, w, leak) /\ Len(f[i].p.data) \in Nat
      BY <2>1, <3>2 DEF Good, ParserOf, Content
    <3>4. Len(q.data) <= Len(p.data) - (i - 1)
      BY <2>0, <2>2
    <3>5. f[i].again => Len(f[i].p.data) <= Len(p.data) - i
      <4> DEFINE a == Len(f[i].p.data)
                 b == Len(q.data)
                 c == Len(p.data)
      <4>1. a \in Nat /\ b \in Nat /\ c \in Nat /\ i \in Nat /\ b <= c - (i - 1)
            /\ (f[i].again => a < b)
        BY <1>0, <2>0, <2>1, <3>2, <3>3, <3>4
      <4> HIDE DEF a, b, c
      <4>2. a < b => a <= c - i
        BY <4>1
      <4> QED
        BY <4>1, <4>2 DEF a, c
    <3> QED
      BY <2>0, <3>2, <3>3, <3>5
  <2>3. CASE ~l.again
    <3>1. f[i] = l
      BY <1>1, <2>0, <2>3
    <3>2. Fine(i)
      BY <2>0, <2>3, <3>1
    <3> QED
      BY <2>0, <3>2
  <2> QED
    BY <2>0, <2>2, <2>3
<1> HIDE DEF T
<1>4. n \in T
  <2>1. n \in Nat
    BY <1>0
  <2>2. \A i \in 1..n : i - 1 \in T => i \in T
    BY <1>3
  <2>3. \A i \in 0..n : i \in T
    BY <1>2, <2>1, <2>2, Everywhere, Zenon
  <2> QED
    BY <2>1, <2>3
<1>5. Fine(n)
  BY <1>4 DEF T
<1>6. ~f[n].again
  <2>1. Good(f[n], ns, subs, w, leak)
    BY <1>5
  <2>2. Len(f[n].p.data) \in Nat
    BY <2>1 DEF Good, ParserOf, Content
  <2>3. f[n].again => Len(f[n].p.data) <= -1
    BY <1>0, <1>5
  <2> QED
    BY <2>2, <2>3
<1> QED
  BY <1>5, <1>6

LEMMA TurnNestedKeeps ==
    ASSUME NEW p \in Inner, NEW w, IsWorld(w), NEW leak \in BOOLEAN, Keeps(p, w, leak)
    PROVE  LET r == TurnNested(p, w)
           IN  /\ Good(r, {TRUE}, {NoParser}, w, leak) /\ r.again \in BOOLEAN
               /\ r.again => Len(r.p.data) < Len(p.data)
               /\ ~r.again /\ r.w.success /\ ~r.w.beyond => Bounded(r.p)
<1> DEFINE h == ParseHeaders(p, w)
           place == RangeOf(h.p.boundary, h.p.data)
           ended == EndOwn(h.p, h.w, place)
           passed == PassOwn(h.p, h.w)
           r == Turn(h.p, h.w, ended, passed)
<1>0. TurnNested(p, w) = r
  BY DEF TurnNested
<1>1. Good(h, {TRUE}, {NoParser}, w, leak) /\ Len(h.p.data) <= Len(p.data)
  <2>1. p \in ParserOf({TRUE}, {NoParser}) /\ p.nested /\ NoParser \in {NoParser}
    BY DEF Inner, ParserOf
  <2> QED
    BY <2>1, HeadersKeep
<1> HIDE DEF h
<1>2. /\ h.p \in ParserOf({TRUE}, {NoParser}) /\ IsWorld(h.w) /\ (w.beyond => h.w.beyond)
      /\ Keeps(h.p, h.w, leak)
  BY <1>1 DEF Good
<1>3. h.p.subParser = NoParser /\ Holds(h.p, h.w, leak)
  BY <1>2 DEF ParserOf, Keeps
<1>4. place \in Int /\ place <= Len(h.p.data) /\ Len(h.p.data) \in Nat /\ Len(p.data) \in Nat
  <2>1. h.p.boundary \in Content /\ h.p.data \in Content /\ Len(h.p.data) \in Nat
        /\ Len(h.p.boundary) \in Nat /\ Len(p.data) \in Nat
    <3> DEFINE q == h.p
    <3>1. q \in ParserOf({TRUE}, {NoParser}) /\ p \in ParserOf({TRUE}, {NoParser})
      BY <1>2 DEF Inner
    <3> HIDE DEF q
    <3>2. /\ q.boundary \in Content /\ q.data \in Content /\ p.data \in Content
      BY <3>1 DEF ParserOf
    <3> QED
      BY <3>2 DEF q, Content
  <2>2. place \in Int /\ (place # -1 => place \in 0..(Len(h.p.data) - Len(h.p.boundary)))
    BY <2>1, Place
  <2> HIDE DEF place
  <2> QED
    BY <2>1, <2>2
<1> HIDE DEF place
<1>5. /\ Good(ended, {TRUE}, {NoParser}, h.w, leak)
      /\ ~ended.w.beyond => ended.p.tmpPath = Nil /\ ended.p.subParser = NoParser
  BY <1>2, <1>3, <1>4, EndOwnKeeps
<1>6. /\ Good(passed, {TRUE}, {NoParser}, h.w, leak)
      /\ RangeOf(h.p.boundary, h.p.data) = -1 /\ passed.w.success /\ ~passed.w.beyond =>
             Bounded(passed.p)
  BY <1>2, <1>3, PassOwnKeeps
<1> HIDE DEF ended, passed
<1>7. /\ Good(r, {TRUE}, {NoParser}, h.w, leak) /\ r.again \in BOOLEAN
      /\ r.again => Len(r.p.data) < Len(h.p.data)
      /\ ~r.again /\ r.w.success /\ ~r.w.beyond => Bounded(r.p)
  BY <1>2, <1>5, <1>6, TurnKeeps
<1> HIDE DEF r
<1>8. Len(r.p.data) \in Nat
  BY <1>7 DEF Good, ParserOf, Content
<1>9. r.again => Len(r.p.data) < Len(p.data)
  BY <1>1, <1>4, <1>7, <1>8
<1>10. Good(r, {TRUE}, {NoParser}, w, leak)
  BY <1>2, <1>7 DEF Good
<1> QED
  BY <1>0, <1>7, <1>9, <1>10

LEMMA ParseNestedKeeps ==
    ASSUME NEW p \in Inner, NEW w, IsWorld(w), NEW leak \in BOOLEAN, Keeps(p, w, leak)
    PROVE  LET r == ParseNested(p, w)
           IN  /\ Good(r, {TRUE}, {NoParser}, w, leak)
               /\ r.w.success /\ ~r.w.beyond => Bounded(r.p)
<1> DEFINE n == Len(p.data) + 1
           Is(f) == f = [i \in 0..n |->
                            IF i = 0 THEN [p |-> p, w |-> w, again |-> TRUE]
                            ELSE IF f[i - 1].again THEN TurnNested(f[i - 1].p, f[i - 1].w)
                            ELSE f[i - 1]]
           turns == CHOOSE f : Is(f)
<1>1. ParseNested(p, w) = turns[n]
  BY DEF ParseNested
<1>2. \A f : Is(f) <=> IsRun(f, TRUE, p, w, n)
  BY DEF IsRun, Step
<1>3. n \in Nat /\ p \in ParserOf({TRUE}, {NoParser}) /\ n = Len(p.data) + 1
  <2>1. p \in ParserOf({TRUE}, {NoParser})
    BY DEF Inner
  <2>2. p.data \in Content
    BY <2>1 DEF ParserOf
  <2> QED
    BY <2>1, <2>2 DEF Content
<1> HIDE DEF n
<1>4. \E f : IsRun(f, TRUE, p, w, n)
  BY <1>3, RunExists
<1> HIDE DEF Is
<1>5. IsRun(turns, TRUE, p, w, n)
  BY <1>2, <1>4
<1> HIDE DEF turns
<1>6. TRUE \in BOOLEAN
  OBVIOUS
<1>7. \A q, v : Step(TRUE, q, v) = TurnNested(q, v)
  BY DEF Step
<1>8. StepsKeep(TRUE, {TRUE}, {NoParser}, leak)
  BY <1>7, TurnNestedKeeps DEF Inner, StepsKeep
<1> DEFINE t == turns[n]
<1>9. Good(t, {TRUE}, {NoParser}, w, leak) /\ (t.w.success /\ ~t.w.beyond => Bounded(t.p))
  BY <1>3, <1>5, <1>6, <1>8, RunKeeps
<1> QED
  BY <1>1, <1>9

LEMMA AppendNestedKeeps ==
    ASSUME NEW p \in Inner, NEW w, IsWorld(w), NEW leak \in BOOLEAN, Holds(p, w, leak),
           NEW bytes \in Content
    PROVE  Good(AppendNested(p, w, bytes), {TRUE}, {NoParser}, w, leak)
<1> DEFINE q == Added(p, bytes)
           v == [w EXCEPT !.success = TRUE]
           d == p.data \o bytes
<1>1. AppendNested(p, w, bytes) = ParseNested(q, v)
  BY DEF AppendNested
<1>2. p \in ParserOf({TRUE}, {NoParser}) /\ p.data \in Content
  BY DEF Inner, ParserOf
<1>3. d \in Content
  BY <1>2, Joined DEF Content
<1>4. q = [p EXCEPT !.data = d]
  BY DEF Added
<1> HIDE DEF d, q
<1>5. /\ q \in Inner /\ q.state = p.state /\ q.tmpPath = p.tmpPath
      /\ q.tmpFile = p.tmpFile /\ q.subParser = NoParser
  BY <1>2, <1>3, <1>4 DEF Inner, ParserOf
<1>6. v = [w EXCEPT !.success = TRUE]
  OBVIOUS
<1> HIDE DEF v
<1>7. IsWorld(v) /\ Alike(v, w)
  BY <1>6, Succeeds DEF Alike
<1>8. Holds(q, w, leak)
  BY <1>5 DEF Holds
<1>9. Keeps(q, v, leak)
  BY <1>5, <1>7, <1>8, AlikeHolds DEF Keeps
<1>10. Good(ParseNested(q, v), {TRUE}, {NoParser}, v, leak)
  BY <1>5, <1>7, <1>9, ParseNestedKeeps
<1> QED
  BY <1>1, <1>7, <1>10 DEF Good, Alike

Subs == {NoParser} \cup {<<q>> : q \in Inner}

LEMMA SubParser ==
    ASSUME NEW p \in Outer, NEW w, NEW leak, Keeps(p, w, leak), p.subParser # NoParser
    PROVE  /\ p.subParser[1] \in Inner /\ Holds(p.subParser[1], w, leak)
           /\ ~w.beyond => p.state = "content" /\ p.tmpPath = Nil /\ (~leak => p.tmpFile = Nil)
<1>1. p.subParser \in {<<q>> : q \in Inner}
  BY DEF Outer, ParserOf
<1>2. p.subParser[1] \in Inner
  BY <1>1
<1> QED
  BY <1>2 DEF Keeps, Holds

LEMMA EndPartKeeps ==
    ASSUME NEW p \in Outer, NEW w, IsWorld(w), NEW leak \in BOOLEAN, Keeps(p, w, leak),
           NEW place \in Int, place <= Len(p.data)
    PROVE  LET r == EndPart(p, w, place)
           IN  /\ Good(r, {FALSE}, Subs, w, leak)
               /\ ~r.w.beyond => r.p.tmpPath = Nil /\ r.p.subParser = NoParser
<1> DEFINE r == EndPart(p, w, place)
           bytes == SubSeq(p.data, 1, place)
           h == AppendNested(p.subParser[1], w, bytes)
           v == IF IsAtEnd(h.p) THEN h.w ELSE Fails(h.w)
           d == Without(v.disk, UnlinksOne(h.p))
<1>0. p \in ParserOf({FALSE}, Subs) /\ p.data \in Content
  BY DEF Outer, Subs, ParserOf
<1>1. CASE p.subParser = NoParser
  <2>1. r = EndOwn(p, w, place)
    BY <1>1 DEF EndPart
  <2>2. Holds(p, w, leak)
    BY <1>1 DEF Keeps
  <2> QED
    BY <1>0, <1>1, <2>1, <2>2, EndOwnKeeps
<1>2. CASE p.subParser # NoParser
  <2>1. bytes \in Content
    BY <1>0, Cuts
  <2>2. /\ p.subParser[1] \in Inner /\ Holds(p.subParser[1], w, leak)
        /\ ~w.beyond => p.state = "content" /\ p.tmpPath = Nil /\ (~leak => p.tmpFile = Nil)
    BY <1>2, SubParser
  <2>3. Good(h, {TRUE}, {NoParser}, w, leak)
    <3> HIDE DEF bytes
    <3> QED
      BY <2>1, <2>2, AppendNestedKeeps
  <2>4. r.p = [p EXCEPT !.subParser = NoParser] /\ r.w = [v EXCEPT !.disk = d]
    BY <1>2 DEF EndPart
  <2> HIDE DEF r, h
  <2>5. /\ h.p \in ParserOf({TRUE}, {NoParser}) /\ IsWorld(h.w) /\ (w.beyond => h.w.beyond)
        /\ Keeps(h.p, h.w, leak)
    BY <2>3 DEF Good
  <2>6. Holds(h.p, h.w, leak)
    BY <2>5 DEF Keeps, ParserOf
  <2>7. IsWorld(v) /\ Alike(v, h.w)
    BY <2>5, Failing DEF Alike
  <2> HIDE DEF v
  <2>8. Holds(h.p, v, leak)
    BY <2>6, <2>7, AlikeHolds
  <2>9. /\ IsWorld(r.w) /\ r.w.disk = d /\ r.w.opened = v.opened /\ r.w.files = v.files
        /\ r.w.fault = v.fault /\ r.w.beyond = v.beyond
    <3> HIDE DEF d
    <3> QED
      BY <2>4, <2>7, SetDisk
  <2>10. /\ r.p \in ParserOf({FALSE}, Subs) /\ r.p.subParser = NoParser
         /\ r.p.state = p.state /\ r.p.tmpPath = p.tmpPath /\ r.p.tmpFile = p.tmpFile
    <3>1. NoParser \in Subs
      BY DEF Subs
    <3> HIDE DEF Subs
    <3> QED
      BY <1>0, <2>4, <3>1 DEF ParserOf
  <2>11. ASSUME ~v.beyond PROVE Holds(r.p, r.w, leak)
    <3>1. ~w.beyond
      BY <2>5, <2>7, <2>11 DEF Alike
    <3>2. /\ Stored(v) /\ (v.fault = "write" => leak)
          /\ ~leak => h.p.tmpFile = h.p.tmpPath
                      /\ DOMAIN v.disk \subseteq Tmps(v.files) \cup {h.p.tmpPath}
      BY <2>8, <2>11 DEF Holds
    <3>3. DOMAIN d = DOMAIN v.disk \ UnlinksOne(h.p) /\ d \in [DOMAIN d -> Content]
      BY <3>2 DEF Without, Stored
    <3>4. Stored(r.w)
      BY <2>9, <3>2, <3>3 DEF Stored
    <3>5. 0 \notin DOMAIN v.disk
      BY <3>2 DEF Stored
    <3>6. ~leak => DOMAIN d \subseteq Tmps(v.files)
      BY <3>2, <3>3, <3>5 DEF UnlinksOne, Nil
    <3> HIDE DEF d
    <3> QED
      BY <2>2, <2>9, <2>10, <3>1, <3>2, <3>4, <3>6 DEF Holds
  <2>12. Keeps(r.p, r.w, leak)
    BY <2>9, <2>10, <2>11 DEF Keeps, Holds
  <2>13. ~r.w.beyond => r.p.tmpPath = Nil
    BY <2>2, <2>5, <2>7, <2>9, <2>10 DEF Alike
  <2> QED
    BY <2>5, <2>7, <2>9, <2>10, <2>12, <2>13 DEF Good, Alike, r
<1> QED
  BY <1>1, <1>2

LEMMA PassOnKeeps ==
    ASSUME NEW p \in Outer, NEW w, IsWorld(w), NEW leak \in BOOLEAN, Keeps(p, w, leak)
    PROVE  LET r == PassOn(p, w)
           IN  /\ Good(r, {FALSE}, Subs, w, leak)
               /\ RangeOf(p.boundary, p.data) = -1 /\ r.w.success /\ ~r.w.beyond =>
                      Bounded(r.p)
<1> DEFINE r == PassOn(p, w)
           h == AppendNested(p.subParser[1], w, Sure(p))
           n == Len(p.data) - Margin(p)
           q == IF h.w.success THEN Rest(p) ELSE p
<1>0. /\ p \in ParserOf({FALSE}, Subs) /\ p.data \in Content /\ Len(p.data) \in Nat
      /\ Margin(p) \in Nat /\ n \in Int
  <2>1. p \in ParserOf({FALSE}, Subs)
    BY DEF Outer, Subs
  <2> HIDE DEF Subs
  <2>2. p.data \in Content /\ p.boundary \in Content
    BY <2>1 DEF ParserOf
  <2>3. Len(p.data) \in Nat /\ Len(p.boundary) \in Nat
    BY <2>2 DEF Content
  <2> QED
    BY <2>1, <2>2, <2>3 DEF Margin
<1>1. CASE p.subParser = NoParser
  <2>1. r = PassOwn(p, w)
    BY <1>1 DEF PassOn
  <2>2. Holds(p, w, leak)
    BY <1>1 DEF Keeps
  <2> QED
    BY <1>0, <1>1, <2>1, <2>2, PassOwnKeeps
<1>2. CASE p.subParser # NoParser /\ Len(p.data) <= Margin(p)
  <2>1. r.p = p /\ r.w = w
    BY <1>2 DEF PassOn
  <2>2. ~w.beyond => p.tmpPath = Nil
    BY <1>2, SubParser
  <2> QED
    BY <1>0, <2>1, <2>2 DEF Good, Bounded, Few, Waits
<1>3. CASE p.subParser # NoParser /\ Len(p.data) > Margin(p)
  <2>1. n \in 0..Len(p.data) /\ n >= 0 /\ n <= Len(p.data)
    BY <1>0, <1>3
  <2>2. Sure(p) \in Content /\ After(p.data, n) \in Content
    <3> HIDE DEF n
    <3> QED
      BY <1>0, <2>1, Cuts DEF Sure, n
  <2>3. /\ p.subParser[1] \in Inner /\ Holds(p.subParser[1], w, leak)
        /\ ~w.beyond => p.state = "content" /\ p.tmpPath = Nil /\ (~leak => p.tmpFile = Nil)
    BY <1>3, SubParser
  <2>4. Good(h, {TRUE}, {NoParser}, w, leak)
    BY <2>2, <2>3, AppendNestedKeeps
  <2>5. r.p = [q EXCEPT !.subParser = <<h.p>>] /\ r.w = h.w
    BY <1>0, <1>3 DEF PassOn
  <2> HIDE DEF r, h, n
  <2>6. /\ h.p \in Inner /\ h.p.subParser = NoParser /\ IsWorld(h.w)
        /\ (w.beyond => h.w.beyond) /\ Keeps(h.p, h.w, leak)
    BY <2>4 DEF Good, Inner, ParserOf
  <2>7. /\ q \in ParserOf({FALSE}, Subs)
        /\ q.state = p.state /\ q.tmpPath = p.tmpPath /\ q.tmpFile = p.tmpFile
    <3>1. Rest(p) = [p EXCEPT !.data = After(p.data, n)]
      BY DEF Rest, n
    <3> HIDE DEF Subs
    <3>2. /\ Rest(p) \in ParserOf({FALSE}, Subs)
          /\ Rest(p).state = p.state /\ Rest(p).tmpPath = p.tmpPath
          /\ Rest(p).tmpFile = p.tmpFile
      BY <1>0, <2>2, <3>1 DEF ParserOf
    <3> QED
      BY <1>0, <3>2
  <2> HIDE DEF q
  <2>8. <<h.p>> \in Subs /\ <<h.p>> # NoParser /\ <<h.p>>[1] = h.p
    BY <2>6 DEF Subs, NoParser
  <2>9. /\ r.p \in ParserOf({FALSE}, Subs) /\ r.p.subParser = <<h.p>>
        /\ r.p.state = p.state /\ r.p.tmpPath = p.tmpPath /\ r.p.tmpFile = p.tmpFile
    <3> HIDE DEF Subs
    <3> QED
      BY <2>5, <2>7, <2>8 DEF ParserOf
  <2>10. Holds(h.p, h.w, leak)
    BY <2>6 DEF Keeps
  <2>11. Keeps(r.p, r.w, leak)
    BY <2>3, <2>5, <2>6, <2>8, <2>9, <2>10 DEF Keeps
  <2>12. ~r.w.beyond => Bounded(r.p)
    BY <2>3, <2>5, <2>6, <2>9 DEF Bounded, Few, Waits
  <2> QED
    BY <2>5, <2>6, <2>9, <2>11, <2>12 DEF Good, r
<1> QED
  BY <1>0, <1>1, <1>2, <1>3

LEMMA TurnOuterKeeps ==
    ASSUME NEW p \in Outer, NEW w, IsWorld(w), NEW leak \in BOOLEAN, Keeps(p, w, leak)
    PROVE  LET r == TurnOuter(p, w)
           IN  /\ Good(r, {FALSE}, Subs, w, leak) /\ r.again \in BOOLEAN
               /\ r.again => Len(r.p.data) < Len(p.data)
               /\ ~r.again /\ r.w.success /\ ~r.w.beyond => Bounded(r.p)
<1> DEFINE h == ParseHeaders(p, w)
           place == RangeOf(h.p.boundary, h.p.data)
           ended == EndPart(h.p, h.w, place)
           passed == PassOn(h.p, h.w)
           r == Turn(h.p, h.w, ended, passed)
<1>0. TurnOuter(p, w) = r
  BY DEF TurnOuter
<1>a. Outer = ParserOf({FALSE}, Subs)
  BY DEF Outer, Subs
<1>1. Good(h, {FALSE}, Subs, w, leak) /\ Len(h.p.data) <= Len(p.data)
  <2>1. p \in ParserOf({FALSE}, Subs) /\ NoParser \in Subs /\ (\A q \in Inner : <<q>> \in Subs)
    BY <1>a DEF Subs
  <2> QED
    BY <2>1, HeadersKeep
<1> HIDE DEF h
<1>2. /\ h.p \in Outer /\ IsWorld(h.w) /\ (w.beyond => h.w.beyond)
      /\ Keeps(h.p, h.w, leak)
  BY <1>1, <1>a DEF Good
<1>4. place \in Int /\ place <= Len(h.p.data) /\ Len(h.p.data) \in Nat /\ Len(p.data) \in Nat
  <2>1. h.p.boundary \in Content /\ h.p.data \in Content /\ Len(h.p.data) \in Nat
        /\ Len(h.p.boundary) \in Nat /\ Len(p.data) \in Nat
    <3> DEFINE q == h.p
    <3>1. q \in ParserOf({FALSE}, Subs) /\ p \in ParserOf({FALSE}, Subs)
      BY <1>2, <1>a
    <3> HIDE DEF q, Subs
    <3>2. /\ q.boundary \in Content /\ q.data \in Content /\ p.data \in Content
      BY <3>1 DEF ParserOf
    <3> QED
      BY <3>2 DEF q, Content
  <2>2. place \in Int /\ (place # -1 => place \in 0..(Len(h.p.data) - Len(h.p.boundary)))
    BY <2>1, Place
  <2> HIDE DEF place
  <2> QED
    BY <2>1, <2>2
<1> HIDE DEF place
<1>5. /\ Good(ended, {FALSE}, Subs, h.w, leak)
      /\ ~ended.w.beyond => ended.p.tmpPath = Nil /\ ended.p.subParser = NoParser
  BY <1>2, <1>4, EndPartKeeps
<1>6. /\ Good(passed, {FALSE}, Subs, h.w, leak)
      /\ RangeOf(h.p.boundary, h.p.data) = -1 /\ passed.w.success /\ ~passed.w.beyond =>
             Bounded(passed.p)
  BY <1>2, PassOnKeeps
<1> HIDE DEF ended, passed
<1>7. /\ Good(r, {FALSE}, Subs, h.w, leak) /\ r.again \in BOOLEAN
      /\ r.again => Len(r.p.data) < Len(h.p.data)
      /\ ~r.again /\ r.w.success /\ ~r.w.beyond => Bounded(r.p)
  BY <1>2, <1>5, <1>6, <1>a, TurnKeeps
<1> HIDE DEF r
<1>8. Len(r.p.data) \in Nat
  <2> HIDE DEF Subs
  <2> QED
    BY <1>7 DEF Good, ParserOf, Content
<1>9. r.again => Len(r.p.data) < Len(p.data)
  BY <1>1, <1>4, <1>7, <1>8
<1>10. Good(r, {FALSE}, Subs, w, leak)
  BY <1>2, <1>7 DEF Good
<1> QED
  BY <1>0, <1>7, <1>9, <1>10

LEMMA ParseOuterKeeps ==
    ASSUME NEW p \in Outer, NEW w, IsWorld(w), NEW leak \in BOOLEAN, Keeps(p, w, leak)
    PROVE  LET r == ParseOuter(p, w)
           IN  /\ Good(r, {FALSE}, Subs, w, leak)
               /\ r.w.success /\ ~r.w.beyond => Bounded(r.p)
<1> DEFINE n == Len(p.data) + 1
           Is(f) == f = [i \in 0..n |->
                            IF i = 0 THEN [p |-> p, w |-> w, again |-> TRUE]
                            ELSE IF f[i - 1].again THEN TurnOuter(f[i - 1].p, f[i - 1].w)
                            ELSE f[i - 1]]
           turns == CHOOSE f : Is(f)
<1>1. ParseOuter(p, w) = turns[n]
  BY DEF ParseOuter
<1>2. \A f : Is(f) <=> IsRun(f, FALSE, p, w, n)
  BY DEF IsRun, Step
<1>3. n \in Nat /\ p \in ParserOf({FALSE}, Subs) /\ n = Len(p.data) + 1
  <2>1. p \in ParserOf({FALSE}, Subs)
    BY DEF Outer, Subs
  <2> HIDE DEF Subs
  <2>2. p.data \in Content
    BY <2>1 DEF ParserOf
  <2> QED
    BY <2>1, <2>2 DEF Content
<1> HIDE DEF n
<1>4. \E f : IsRun(f, FALSE, p, w, n)
  BY <1>3, RunExists
<1> HIDE DEF Is
<1>5. IsRun(turns, FALSE, p, w, n)
  BY <1>2, <1>4
<1> HIDE DEF turns
<1>6. FALSE \in BOOLEAN
  OBVIOUS
<1>7. \A q, v : Step(FALSE, q, v) = TurnOuter(q, v)
  BY DEF Step
<1>8. StepsKeep(FALSE, {FALSE}, Subs, leak)
  BY <1>7, TurnOuterKeeps DEF Outer, Subs, StepsKeep
<1> DEFINE t == turns[n]
<1>9. Good(t, {FALSE}, Subs, w, leak) /\ (t.w.success /\ ~t.w.beyond => Bounded(t.p))
  BY <1>3, <1>5, <1>6, <1>8, RunKeeps
<1> QED
  BY <1>1, <1>9

-----------------------------------------------------------------------------
(* A search within the bytes of a form.                                     *)

\* A search from one place on, seen from a later place and with less of the bytes.
LEMMA SearchFrom ==
    ASSUME NEW s \in Content, NEW from \in Nat, NEW at \in Nat, NEW a \in Nat, NEW b \in Nat,
           from <= a, a <= at, a <= b, b <= Len(s),
           NEW pat \in Content, pat # <<>>, from <= Len(s),
           RangeOf(pat, After(s, from)) = at - from
    PROVE  /\ RangeOf(pat, SubSeq(s, a + 1, b)) = IF at + Len(pat) <= b THEN at - a ELSE -1
           /\ OccursAt(pat, s, at) /\ at + Len(pat) <= Len(s)
<1> DEFINE m == Len(pat)
           l == Len(s)
           rest == After(s, from)
           d == SubSeq(s, a + 1, b)
<1>0. m \in Nat /\ m >= 1 /\ l \in Nat /\ from <= l /\ b <= l
  BY DEF Content
<1>1. rest \in Content /\ Len(rest) = l - from
  <2>1. rest = SubSeq(s, from + 1, l)
    BY DEF After
  <2> HIDE DEF l
  <2>2. SubSeq(s, from + 1, l) \in Content /\ Len(SubSeq(s, from + 1, l)) = l - from
    <3>1. l <= Len(s)
      BY DEF l, Content
    <3> QED
      BY <1>0, <3>1, Piece
  <2> QED
    BY <2>1, <2>2
<1>2. \A j \in Nat : j + m <= l - from =>
          (OccursAt(pat, rest, j) <=> OccursAt(pat, s, from + j))
  <2>1. rest = SubSeq(s, from + 1, l)
    BY DEF After
  <2>2. l <= Len(s)
    BY <1>0
  <2> HIDE DEF l, rest
  <2> QED
    BY <1>0, <2>1, <2>2, OccursInPiece DEF m
<1> HIDE DEF rest
<1>3. /\ at - from \in 0..(l - from - m) /\ OccursAt(pat, rest, at - from)
      /\ \A j \in 0..((at - from) - 1) : ~OccursAt(pat, rest, j)
  <2>1. RangeOf(pat, rest) # -1 /\ RangeOf(pat, rest) = at - from
    BY DEF rest
  <2>2. /\ RangeOf(pat, rest) \in 0..(Len(rest) - Len(pat))
        /\ OccursAt(pat, rest, RangeOf(pat, rest))
        /\ \A j \in 0..(RangeOf(pat, rest) - 1) : ~OccursAt(pat, rest, j)
    BY <1>1, <2>1, RangeIs
  <2> QED
    BY <1>1, <2>1, <2>2 DEF m
<1> HIDE DEF m, l
<1>4. at + m <= l /\ OccursAt(pat, s, at)
  <2>1. at - from \in Nat /\ (at - from) + m <= l - from /\ from + (at - from) = at
    BY <1>0, <1>3
  <2> QED
    BY <1>0, <1>2, <1>3, <2>1
<1>5. \A j \in Nat : from <= j /\ j < at => ~OccursAt(pat, s, j)
  <2> TAKE j \in Nat
  <2> HAVE from <= j /\ j < at
  <2>1. /\ j - from \in 0..((at - from) - 1) /\ j - from \in Nat
        /\ (j - from) + m <= l - from /\ from + (j - from) = j
    BY <1>0, <1>4
  <2> QED
    BY <1>2, <1>3, <2>1
<1>6. d \in Content /\ Len(d) = b - a
  BY Piece
<1>7. \A j \in Nat : j + m <= b - a => (OccursAt(pat, d, j) <=> OccursAt(pat, s, a + j))
  BY OccursInPiece DEF m
<1> HIDE DEF d
<1>8. \A j \in 0..((b - a) - m) : a + j < at => ~OccursAt(pat, d, j)
  <2> TAKE j \in 0..((b - a) - m)
  <2> HAVE a + j < at
  <2>1. j \in Nat /\ j + m <= b - a /\ a + j \in Nat /\ from <= a + j
    BY <1>0
  <2> QED
    BY <1>5, <1>7, <2>1
<1>9. CASE at + m <= b
  <2> DEFINE x == at - a
  <2>1. x \in 0..((b - a) - m) /\ x \in Nat /\ x + m <= b - a /\ a + x = at
    BY <1>0, <1>9
  <2>2. OccursAt(pat, d, x)
    BY <1>4, <1>7, <2>1
  <2>3. \A j \in 0..(x - 1) : ~OccursAt(pat, d, j)
    <3> TAKE j \in 0..(x - 1)
    <3>1. j \in 0..((b - a) - m) /\ a + j < at
      BY <1>0, <2>1
    <3> QED
      BY <1>8, <3>1
  <2> HIDE DEF x
  <2>4. x \in 0..(Len(d) - Len(pat))
    BY <1>6, <2>1 DEF m
  <2>5. RangeOf(pat, d) = x
    BY <1>6, <2>2, <2>3, <2>4, RangeThere
  <2> QED
    BY <1>4, <1>9, <2>5 DEF m, l, d, x
<1>10. CASE ~(at + m <= b)
  <2>1. \A j \in 0..(Len(d) - Len(pat)) : ~OccursAt(pat, d, j)
    <3> TAKE j \in 0..(Len(d) - Len(pat))
    <3>1. j \in 0..((b - a) - m)
      BY <1>6 DEF m
    <3>2. a + j < at
      BY <1>0, <1>10, <3>1
    <3> QED
      BY <1>8, <3>1, <3>2
  <2>2. RangeOf(pat, d) = -1
    BY <1>6, <2>1, RangeNone
  <2> QED
    BY <1>4, <1>10, <2>2 DEF m, l, d
<1> QED
  BY <1>9, <1>10

\* A piece starts with what the bytes have at its place, once all of it is there.
LEMMA StartOfPiece ==
    ASSUME NEW s \in Content, NEW a \in Nat, NEW b \in Nat, a <= b, b <= Len(s),
           NEW pat \in Content
    PROVE  /\ StartsWith(SubSeq(s, a + 1, b), pat) <=> a + Len(pat) <= b /\ OccursAt(pat, s, a)
           /\ StartsWith(After(s, a), pat) <=> a + Len(pat) <= Len(s) /\ OccursAt(pat, s, a)
<1> DEFINE m == Len(pat)
<1>0. m \in Nat /\ Len(s) \in Nat
  BY DEF Content
<1>1. \A c \in Nat : a <= c /\ c <= Len(s) =>
          (StartsWith(SubSeq(s, a + 1, c), pat) <=> a + m <= c /\ OccursAt(pat, s, a))
  <2> TAKE c \in Nat
  <2> HAVE a <= c /\ c <= Len(s)
  <2> DEFINE d == SubSeq(s, a + 1, c)
  <2>1. d \in Content /\ Len(d) = c - a
    BY Piece
  <2>2. StartsWith(d, pat) <=> m <= Len(d) /\ OccursAt(pat, d, 0)
    BY <2>1, StartsIs
  <2>3. 0 + m <= c - a => (OccursAt(pat, d, 0) <=> OccursAt(pat, s, a + 0))
    BY OccursInPiece
  <2> HIDE DEF d, m
  <2>4. a + 0 = a /\ 0 + m = m /\ (m <= c - a <=> a + m <= c)
    BY <1>0
  <2>5. StartsWith(d, pat) <=> a + m <= c /\ OccursAt(pat, s, a)
    BY <2>1, <2>2, <2>3, <2>4
  <2> QED
    BY <2>5 DEF d
<1>2. After(s, a) = SubSeq(s, a + 1, Len(s)) /\ a <= Len(s)
  BY <1>0 DEF After
<1> QED
  BY <1>0, <1>1, <1>2

-----------------------------------------------------------------------------
(* How a form is laid out.                                                  *)

\* How long bytes that are put together are.
LEMMA Join ==
    ASSUME NEW s \in Seq(Bytes), NEW t \in Seq(Bytes)
    PROVE  /\ s \o t \in Seq(Bytes) /\ Len(s \o t) = Len(s) + Len(t)
           /\ \A i \in 1..(Len(s) + Len(t)) :
                  (s \o t)[i] = IF i <= Len(s) THEN s[i] ELSE t[i - Len(s)]
BY ConcatProperties

\* The boundaries, the line ends and the marks of the last boundary.
LEMMA Marks ==
    /\ CRLF[1] = "cr" /\ CRLF[2] = "lf"
    /\ Dashes \o CRLF \in Content /\ Len(Dashes \o CRLF) = 4 /\ (Dashes \o CRLF)[1] = "-"
    /\ \A name \in {"b", "c"} :
           Boundary(name) \in Content /\ Len(Boundary(name)) = 3 /\ Boundary(name) # <<>>
    /\ \A k \in Bytes : /\ <<k>> \o CRLF \o CRLF \in Content /\ Len(<<k>> \o CRLF \o CRLF) = 5
                        /\ (<<k>> \o CRLF \o CRLF)[1] = k
                        /\ \A j \in 2..5 : (<<k>> \o CRLF \o CRLF)[j] = (CRLF \o CRLF)[j - 1]
    /\ (CRLF \o CRLF)[1] = "cr"
<1>1. CRLF \in Seq(Bytes) /\ Dashes \in Seq(Bytes) /\ Len(CRLF) = 2 /\ Len(Dashes) = 2
  BY LineEnds DEF Content
<1>2. CRLF[1] = "cr" /\ CRLF[2] = "lf" /\ Dashes[1] = "-"
  BY DEF CRLF, Dashes
<1> DEFINE k2 == CRLF
           d2 == Dashes
<1>3. k2 \in Seq(Bytes) /\ d2 \in Seq(Bytes) /\ Len(k2) = 2 /\ Len(d2) = 2 /\ d2[1] = "-" /\ k2[1] = "cr"
  BY <1>1, <1>2
<1> HIDE DEF k2, d2
<1>4. /\ d2 \o k2 \in Seq(Bytes) /\ Len(d2 \o k2) = 4 /\ (d2 \o k2)[1] = "-"
      /\ k2 \o k2 \in Seq(Bytes) /\ Len(k2 \o k2) = 4 /\ (k2 \o k2)[1] = "cr"
  <2>1. \A s, t \in Seq(Bytes) : Len(s) = 2 /\ Len(t) = 2 =>
            s \o t \in Seq(Bytes) /\ Len(s \o t) = 4 /\ (s \o t)[1] = s[1]
    <3> TAKE s, t \in Seq(Bytes)
    <3> HAVE Len(s) = 2 /\ Len(t) = 2
    <3>1. /\ s \o t \in Seq(Bytes) /\ Len(s \o t) = Len(s) + Len(t)
          /\ \A i \in 1 .. Len(s) + Len(t) :
                 (s \o t)[i] = IF i <= Len(s) THEN s[i] ELSE t[i - Len(s)]
      BY ConcatProperties
    <3> QED
      BY <3>1
  <2> QED
    BY <1>3, <2>1
<1>5. ASSUME NEW name \in {"b", "c"}
      PROVE  Boundary(name) \in Content /\ Len(Boundary(name)) = 3 /\ Boundary(name) # <<>>
  <2>1. name \in Bytes
    BY DEF Bytes
  <2> DEFINE n == <<name>>
  <2>2. n \in Seq(Bytes) /\ Len(n) = 1
    BY <2>1, Short
  <2> HIDE DEF n
  <2>3. d2 \o n \in Seq(Bytes) /\ Len(d2 \o n) = 3
    <3>1. d2 \o n \in Seq(Bytes) /\ Len(d2 \o n) = Len(d2) + Len(n)
      BY <1>3, <2>2, Join
    <3> QED
      BY <1>3, <2>2, <3>1
  <2>4. Boundary(name) = d2 \o n
    BY DEF Boundary, d2, n
  <2>5. Len(<<>>) = 0
    OBVIOUS
  <2> QED
    BY <2>3, <2>4, <2>5 DEF Content
<1>6. ASSUME NEW k \in Bytes
      PROVE  /\ <<k>> \o CRLF \o CRLF \in Content /\ Len(<<k>> \o CRLF \o CRLF) = 5
             /\ (<<k>> \o CRLF \o CRLF)[1] = k
             /\ \A j \in 2..5 : (<<k>> \o CRLF \o CRLF)[j] = (CRLF \o CRLF)[j - 1]
  <2> DEFINE n == <<k>>
             e == k2 \o k2
             h == n \o k2
  <2>1. n \in Seq(Bytes) /\ Len(n) = 1 /\ n[1] = k
    BY Short
  <2> HIDE DEF n
  <2>0. /\ \A s, t \in Seq(Bytes) : Len(s) = 1 /\ Len(t) = 2 =>
               /\ s \o t \in Seq(Bytes) /\ Len(s \o t) = 3
               /\ \A i \in 1..3 : (s \o t)[i] = IF i <= 1 THEN s[i] ELSE t[i - 1]
        /\ \A s, t \in Seq(Bytes) : Len(s) = 3 /\ Len(t) = 2 =>
               /\ s \o t \in Seq(Bytes) /\ Len(s \o t) = 5
               /\ \A i \in 1..5 : (s \o t)[i] = IF i <= 3 THEN s[i] ELSE t[i - 3]
        /\ \A s, t \in Seq(Bytes) : Len(s) = 2 /\ Len(t) = 2 =>
               \A i \in 1..4 : (s \o t)[i] = IF i <= 2 THEN s[i] ELSE t[i - 2]
    <3> SUFFICES ASSUME NEW s \in Seq(Bytes), NEW t \in Seq(Bytes), Len(t) = 2
                 PROVE  /\ Len(s) = 1 =>
                               /\ s \o t \in Seq(Bytes) /\ Len(s \o t) = 3
                               /\ \A i \in 1..3 : (s \o t)[i] = IF i <= 1 THEN s[i] ELSE t[i - 1]
                        /\ Len(s) = 3 =>
                               /\ s \o t \in Seq(Bytes) /\ Len(s \o t) = 5
                               /\ \A i \in 1..5 : (s \o t)[i] = IF i <= 3 THEN s[i] ELSE t[i - 3]
                        /\ Len(s) = 2 =>
                               \A i \in 1..4 : (s \o t)[i] = IF i <= 2 THEN s[i] ELSE t[i - 2]
      BY Zenon
    <3>1. /\ s \o t \in Seq(Bytes) /\ Len(s \o t) = Len(s) + Len(t)
          /\ \A i \in 1..(Len(s) + Len(t)) :
                 (s \o t)[i] = IF i <= Len(s) THEN s[i] ELSE t[i - Len(s)]
      BY Join
    <3> DEFINE st == s \o t
    <3> HIDE DEF st
    <3>2. /\ st \in Seq(Bytes) /\ Len(st) = Len(s) + 2
          /\ \A i \in 1..(Len(s) + 2) : st[i] = IF i <= Len(s) THEN s[i] ELSE t[i - Len(s)]
      BY <3>1 DEF st
    <3>3. Len(s) = 1 => Len(st) = 3 /\ \A i \in 1..3 : st[i] = IF i <= 1 THEN s[i] ELSE t[i - 1]
      BY <3>2
    <3>4. Len(s) = 3 => Len(st) = 5 /\ \A i \in 1..5 : st[i] = IF i <= 3 THEN s[i] ELSE t[i - 3]
      BY <3>2
    <3>5. Len(s) = 2 => \A i \in 1..4 : st[i] = IF i <= 2 THEN s[i] ELSE t[i - 2]
      BY <3>2
    <3> QED
      BY <3>2, <3>3, <3>4, <3>5 DEF st
  <2>2. /\ h \in Seq(Bytes) /\ Len(h) = 3
        /\ \A i \in 1..3 : h[i] = IF i <= 1 THEN n[i] ELSE k2[i - 1]
    BY <1>3, <2>0, <2>1
  <2> HIDE DEF h
  <2>3. /\ h \o k2 \in Seq(Bytes) /\ Len(h \o k2) = 5
        /\ \A i \in 1..5 : (h \o k2)[i] = IF i <= 3 THEN h[i] ELSE k2[i - 3]
    BY <1>3, <2>0, <2>2
  <2>4. \A i \in 1..4 : e[i] = IF i <= 2 THEN k2[i] ELSE k2[i - 2]
    BY <1>3, <2>0
  <2> HIDE DEF e
  <2>5. \A j \in 2..5 : (h \o k2)[j] = e[j - 1]
    <3> TAKE j \in 2..5
    <3>1. j = 2 \/ j = 3 \/ j = 4 \/ j = 5
      OBVIOUS
    <3> DEFINE hk == h \o k2
    <3>2. \A i \in 1..5 : hk[i] = IF i <= 3 THEN h[i] ELSE k2[i - 3]
      BY <2>3
    <3> HIDE DEF hk
    <3>3. hk[2] = k2[1] /\ hk[3] = k2[2] /\ hk[4] = k2[1] /\ hk[5] = k2[2]
      BY <2>2, <3>2
    <3>4. e[1] = k2[1] /\ e[2] = k2[2] /\ e[3] = k2[1] /\ e[4] = k2[2]
      BY <2>4
    <3>5. hk[j] = e[j - 1]
      BY <3>1, <3>3, <3>4
    <3> QED
      BY <3>5 DEF hk
  <2>6. (h \o k2)[1] = k
    BY <2>1, <2>2, <2>3
  <2> QED
    BY <2>3, <2>5, <2>6 DEF h, n, e, k2, Content
<1> QED
  BY <1>2, <1>4, <1>5, <1>6 DEF k2, d2, Content

\* A layout whose parts have kinds.
IsOutline(S, name, L) ==
    /\ S \in Content /\ name \in {"b", "c"} /\ LaidOut(S, name, L)
    /\ \A i \in 1..L.parts : L.kind[i] \in Kinds

\* The boundaries of a form come one behind the other.
LEMMA Places ==
    ASSUME NEW S, NEW name, NEW L, IsOutline(S, name, L)
    PROVE  /\ L.parts \in Nat /\ Len(S) \in Nat
           /\ \A i \in 0..L.parts : L.at[i] \in Nat
           /\ \A i \in 1..L.parts : /\ i - 1 \in 0..L.parts /\ i \in 0..L.parts
                                    /\ L.at[i - 1] \in Nat /\ PartStart(L, i) = L.at[i - 1] + 10
                                    /\ L.at[i - 1] + 12 <= L.at[i]
<1>1. L.parts \in Nat /\ L.at \in [0..L.parts -> Nat]
  BY DEF IsOutline, LaidOut
<1>2. ASSUME NEW i \in 1..L.parts
      PROVE  /\ i - 1 \in 0..L.parts /\ i \in 0..L.parts /\ L.at[i - 1] \in Nat
             /\ L.at[i - 1] + 12 <= L.at[i]
  <2>1. i \in 0..L.parts /\ i # 0 /\ i - 1 \in 0..L.parts
    BY <1>1
  <2>2. PartStart(L, i) + 2 <= L.at[i]
    BY <2>1 DEF IsOutline, LaidOut
  <2>3. L.at[i - 1] \in Nat /\ L.at[i] \in Nat
    BY <1>1, <2>1
  <2> QED
    BY <2>1, <2>2, <2>3 DEF PartStart
<1>3. Len(S) \in Nat
  BY DEF IsOutline, Content
<1> QED
  BY <1>1, <1>2, <1>3 DEF PartStart

\* The boundaries are behind one another.
LEMMA InOrder ==
    ASSUME NEW S, NEW name, NEW L, IsOutline(S, name, L), NEW i \in 0..L.parts
    PROVE  L.at[i] <= L.at[L.parts] /\ (i # L.parts => L.at[i] + 12 <= L.at[L.parts])
<1> DEFINE n == L.parts
           T == {j \in 0..n : L.at[n - j] <= L.at[n] /\ (j # 0 => L.at[n - j] + 12 <= L.at[n])}
<1>1. n \in Nat /\ \A k \in 0..n : L.at[k] \in Nat
  BY Places
<1>2. \A k \in 1..n : L.at[k - 1] + 12 <= L.at[k]
  BY Places
<1> HIDE DEF n
<1>3. 0 \in T
  <2>1. n - 0 = n /\ L.at[n] \in Nat /\ 0 \in 0..n
    BY <1>1
  <2> QED
    BY <2>1
<1>4. ASSUME NEW j \in 1..n, j - 1 \in T PROVE j \in T
  <2> DEFINE k == n - (j - 1)
  <2>1. k \in 1..n /\ k - 1 = n - j /\ k \in 0..n /\ k - 1 \in 0..n /\ j \in 0..n /\ n \in 0..n
    BY <1>1
  <2> HIDE DEF k
  <2>2. L.at[k] <= L.at[n]
    BY <1>4 DEF k
  <2>3. L.at[k - 1] + 12 <= L.at[k]
    BY <1>2, <2>1
  <2> DEFINE x == L.at[k - 1]
             y == L.at[k]
             z == L.at[n]
  <2>4. x \in Nat /\ y \in Nat /\ z \in Nat
    BY <1>1, <2>1
  <2>5. x <= z /\ x + 12 <= z
    <3>1. y <= z /\ x + 12 <= y
      BY <2>2, <2>3
    <3> HIDE DEF x, y, z
    <3> QED
      BY <2>4, <3>1
  <2> QED
    BY <2>1, <2>5
<1> HIDE DEF T
<1>5. n - i \in T
  <2>1. \A j \in 0..n : j \in T
    BY <1>1, <1>3, <1>4, Everywhere
  <2>2. n - i \in 0..n
    BY <1>1 DEF n
  <2> QED
    BY <2>1, <2>2
<1>6. n - (n - i) = i /\ (i # n => n - i # 0)
  BY <1>1 DEF n
<1> QED
  BY <1>5, <1>6 DEF T, n

\* What is behind a boundary.
LEMMA Behinds ==
    ASSUME NEW S, NEW name, NEW L, IsOutline(S, name, L), NEW i \in 0..L.parts
    PROVE  IF i = L.parts
           THEN /\ L.at[i] + 7 <= Len(S) /\ OccursAt(Dashes \o CRLF, S, L.at[i] + 3)
                /\ ~OccursAt(CRLF, S, L.at[i] + 3)
           ELSE /\ L.at[i] + 5 <= Len(S) /\ OccursAt(CRLF, S, L.at[i] + 3)
                /\ ~OccursAt(Dashes \o CRLF, S, L.at[i] + 3)
<1> DEFINE a == L.at[i] + 3
           tail == IF i = L.parts THEN Dashes \o CRLF ELSE CRLF
<1>1. StartsWith(After(S, a), tail)
  BY DEF IsOutline, LaidOut
<1>2. L.at[i] \in Nat /\ a \in Nat /\ Len(S) \in Nat /\ S \in Content
  BY Places DEF IsOutline
<1>3. /\ CRLF \in Content /\ Len(CRLF) = 2 /\ CRLF[1] = "cr"
      /\ Dashes \o CRLF \in Content /\ Len(Dashes \o CRLF) = 4 /\ (Dashes \o CRLF)[1] = "-"
  BY Marks, LineEnds
<1>4. tail \in Content /\ Len(tail) \in {2, 4}
  BY <1>3
<1>5. a <= Len(S)
  <2>1. CASE a > Len(S)
    <3>1. After(S, a) = <<>>
      BY <1>2, <2>1 DEF After, Content
    <3>2. Len(After(S, a)) = 0
      BY <3>1
    <3> HIDE DEF a, tail
    <3>3. Len(tail) <= Len(After(S, a))
      BY <1>1 DEF StartsWith
    <3> QED
      BY <1>4, <3>2, <3>3
  <2> QED
    BY <1>2, <2>1
<1>6. a + Len(tail) <= Len(S) /\ OccursAt(tail, S, a)
  <2> HIDE DEF a, tail
  <2> DEFINE l == Len(S)
  <2>1. l \in Nat /\ a <= l /\ l <= Len(S)
    BY <1>2, <1>5
  <2> HIDE DEF l
  <2>2. StartsWith(After(S, a), tail) <=> a + Len(tail) <= Len(S) /\ OccursAt(tail, S, a)
    BY <1>2, <1>4, <2>1, StartOfPiece
  <2> QED
    BY <1>1, <2>2
<1>7. ~(OccursAt(CRLF, S, a) /\ OccursAt(Dashes \o CRLF, S, a))
  <2> DEFINE dn == Dashes \o CRLF
  <2>1. OccursAt(CRLF, S, a) => S[a + 1] = "cr"
    BY <1>3 DEF OccursAt
  <2>2. dn[1] = "-" /\ Len(dn) = 4
    BY <1>3
  <2> HIDE DEF dn
  <2>3. OccursAt(dn, S, a) => S[a + 1] = "-"
    BY <2>2 DEF OccursAt
  <2> QED
    BY <2>1, <2>3 DEF dn
<1>8. CASE i = L.parts
  <2>1. tail = Dashes \o CRLF
    BY <1>8
  <2> HIDE DEF tail
  <2>2. L.at[i] + 7 <= Len(S)
    <3>1. a + 4 <= Len(S)
      BY <1>3, <1>6, <2>1
    <3> QED
      BY <1>2, <3>1
  <2> QED
    BY <1>6, <1>7, <1>8, <2>1, <2>2
<1>9. CASE i # L.parts
  <2>1. tail = CRLF
    BY <1>9
  <2> HIDE DEF tail
  <2>2. L.at[i] + 5 <= Len(S)
    <3>1. a + 2 <= Len(S)
      BY <1>3, <1>6, <2>1
    <3> QED
      BY <1>2, <3>1
  <2> QED
    BY <1>6, <1>7, <1>9, <2>1, <2>2
<1> QED
  BY <1>8, <1>9

\* The boundary behind a part is the first a parser finds that is in the part.
LEMMA Search ==
    ASSUME NEW S, NEW name, NEW L, IsOutline(S, name, L), NEW i \in 0..L.parts,
           NEW a \in Nat, NEW b \in Nat, a <= b, b <= Len(S), a <= L.at[i],
           i # 0 => PartStart(L, i) <= a
    PROVE  /\ RangeOf(Boundary(name), SubSeq(S, a + 1, b)) = IF L.at[i] + 3 <= b THEN L.at[i] - a ELSE -1
           /\ OccursAt(Boundary(name), S, L.at[i])
<1> DEFINE from == IF i = 0 THEN 0 ELSE PartStart(L, i)
           at == L.at[i]
           pat == Boundary(name)
<1>1. S \in Content /\ pat \in Content /\ Len(pat) = 3 /\ pat # <<>> /\ Len(S) \in Nat
  BY Marks, Places DEF IsOutline
<1>2. at \in Nat /\ from \in Nat /\ from <= a /\ a <= at
  BY Places
<1>3. RangeOf(pat, After(S, from)) = at - from
  BY DEF IsOutline, LaidOut
<1>4. from <= Len(S)
  <2> HIDE DEF from
  <2> QED
    BY <1>1, <1>2
<1> HIDE DEF from, at, pat
<1>5. /\ RangeOf(pat, SubSeq(S, a + 1, b)) = IF at + Len(pat) <= b THEN at - a ELSE -1
      /\ OccursAt(pat, S, at)
  BY <1>1, <1>2, <1>3, <1>4, SearchFrom
<1> QED
  BY <1>1, <1>5 DEF at, pat

\* The headers of a part: what they are, and when they are found.
LEMMA Headers ==
    ASSUME NEW S, NEW name, NEW L, IsOutline(S, name, L), NEW i \in 1..L.parts,
           NEW b \in Nat, L.at[i - 1] + 5 <= b, b <= Len(S)
    PROVE  LET a == L.at[i - 1] + 5
               d == SubSeq(S, a + 1, b)
           IN  IF a + 5 <= b THEN RangeOf(CRLF \o CRLF, d) = 1 /\ d[1] = L.kind[i]
               ELSE RangeOf(CRLF \o CRLF, d) = -1
<1> DEFINE a == L.at[i - 1] + 5
           d == SubSeq(S, a + 1, b)
           k == L.kind[i]
           pat == <<k>> \o CRLF \o CRLF
           e == CRLF \o CRLF
<1>1. /\ S \in Content /\ Len(S) \in Nat /\ L.at[i - 1] \in Nat /\ a \in Nat /\ a <= b
      /\ k \in Kinds
  <2>1. S \in Content /\ Len(S) \in Nat /\ L.at[i - 1] \in Nat
    BY Places DEF IsOutline
  <2>2. k \in Kinds
    BY DEF IsOutline
  <2> QED
    BY <2>1, <2>2
<1>2. k \in Bytes
  BY <1>1 DEF Bytes
<1>3. /\ pat \in Content /\ Len(pat) = 5 /\ pat[1] = k /\ (\A j \in 2..5 : pat[j] = e[j - 1])
      /\ e \in Content /\ Len(e) = 4 /\ e[1] = "cr"
  BY <1>2, Marks, LineEnds
<1>4. StartsWith(After(S, a), pat)
  BY DEF IsOutline, LaidOut
<1> HIDE DEF a, pat, k, e
<1>5. a + 5 <= Len(S) /\ OccursAt(pat, S, a)
  BY <1>1, <1>3, <1>4, StartOfPiece
<1>6. S[a + 1] = k /\ OccursAt(e, S, a + 1)
  <2>1. \A j \in 1..5 : S[a + j] = pat[j]
    BY <1>3, <1>5 DEF OccursAt
  <2>2. \A j \in 1..4 : S[(a + 1) + j] = e[j]
    <3> TAKE j \in 1..4
    <3>1. j + 1 \in 2..5 /\ j + 1 \in 1..5 /\ (j + 1) - 1 = j /\ a + (j + 1) = (a + 1) + j
      BY <1>1
    <3> QED
      BY <1>3, <2>1, <3>1
  <2> QED
    BY <1>3, <2>1, <2>2 DEF OccursAt
<1>7. ~OccursAt(e, S, a)
  <2>1. k # "cr"
    BY <1>1 DEF Kinds
  <2> QED
    BY <1>3, <1>6, <2>1 DEF OccursAt
<1>8. d \in Content /\ Len(d) = b - a /\ \A j \in 1..(b - a) : d[j] = S[a + j]
  BY <1>1, Piece
<1>9. \A j \in Nat : j + 4 <= b - a => (OccursAt(e, d, j) <=> OccursAt(e, S, a + j))
  BY <1>1, <1>3, OccursInPiece
<1> HIDE DEF d
<1>10. b - a >= 4 => ~OccursAt(e, d, 0)
  BY <1>1, <1>7, <1>9
<1>11. CASE a + 5 <= b
  <2>1. 1 \in 0..(Len(d) - Len(e)) /\ 1 + 4 <= b - a /\ b - a >= 4 /\ 1 \in 1..(b - a)
    BY <1>1, <1>3, <1>8, <1>11
  <2>2. OccursAt(e, d, 1) /\ \A j \in 0..(1 - 1) : ~OccursAt(e, d, j)
    BY <1>6, <1>9, <1>10, <2>1
  <2>3. RangeOf(e, d) = 1
    BY <1>3, <1>8, <2>1, <2>2, RangeThere
  <2>4. d[1] = k
    BY <1>6, <1>8, <2>1
  <2> QED
    BY <1>11, <2>3, <2>4 DEF a, d, e, k
<1>12. CASE ~(a + 5 <= b)
  <2>1. \A j \in 0..(Len(d) - Len(e)) : j = 0 /\ b - a >= 4
    BY <1>1, <1>3, <1>8, <1>12
  <2>2. \A j \in 0..(Len(d) - Len(e)) : ~OccursAt(e, d, j)
    BY <1>10, <2>1
  <2>3. RangeOf(e, d) = -1
    BY <1>3, <1>8, <2>2, RangeNone
  <2> QED
    BY <1>12, <2>3 DEF a, d, e
<1> QED
  BY <1>11, <1>12

-----------------------------------------------------------------------------
(* Where a parser is in the bytes of a form.                                *)

\* Where a parser is in the bytes of a form, of which it was given g: it has
\* taken c of them and awaits the boundary behind part i.
IsAt(S, name, L, p, i, c, g) ==
    /\ i \in 0..L.parts /\ g \in 0..Len(S) /\ c \in 0..g
    /\ p.boundary = Boundary(name)
    /\ p.state # "end" => p.data = SubSeq(S, c + 1, g)
    /\ p.state = "start" => i = 0 /\ c = 0
    /\ p.state = "headers" => i # 0 /\ c = L.at[i - 1] + 5
    /\ p.state = "content" => i # 0 /\ PartStart(L, i) <= c /\ c <= L.at[i] - 2
    /\ p.state = "end" => i = L.parts

\* What is found up to part k.
Found(L, w, k) == w.arguments = L.args[k] /\ Contents(w.files) = L.files[k]

Behind(p, i) == IF p.state \in {"start", "end"} THEN i ELSE i - 1

\* Of a file the temporary file has what was taken; of an argument nothing was.
HasOwn(S, L, p, w, i, c) ==
    /\ p.subParser = NoParser
    /\ Found(L, w, Behind(p, i))
    /\ p.state = "content" =>
           IF L.kind[i] = "field" THEN p.tmpPath = Nil /\ c = PartStart(L, i)
           ELSE p.tmpPath # Nil /\ w.disk[p.tmpPath] = SubSeq(S, PartStart(L, i) + 1, c)

FollowsNested(S, L, p, w, g) ==
    \E i \in 0..L.parts, c \in 0..g :
        IsAt(S, "c", L, p, i, c, g) /\ HasOwn(S, L, p, w, i, c)

InnerBytes(S, L, i) == SubSeq(S, PartStart(L, i) + 1, L.at[i])

HasPart(S, L, p, w, i, c) ==
    IF p.state = "content" /\ L.kind[i] = "nested"
    THEN /\ p.subParser # NoParser
         /\ FollowsNested(InnerBytes(S, L, i), L.nested[i], p.subParser[1], w, c - PartStart(L, i))
    ELSE HasOwn(S, L, p, w, i, c)

FollowsOuter(S, L, p, w, g) ==
    \E i \in 0..L.parts, c \in 0..g :
        IsAt(S, "b", L, p, i, c, g) /\ HasPart(S, L, p, w, i, c)

\* A parser that was given the whole form has come to its end.
Through(L, p, g) == p.state = "end" \/ g < L.at[L.parts] + 7

\* What the parser has not taken is the last of what it was given.
Suffixed(S, p, g) ==
    IF p.state = "end" THEN \E i \in 0..Len(S) : StartsWith(After(S, i), Boundary("b") \o Dashes \o CRLF)
    ELSE p.boundary = Boundary("b") /\ \E c \in 0..g : p.data = SubSeq(S, c + 1, g)

\* A parser of either sort, in a world in which nothing has failed.
Going(w) == IsWorld(w) /\ w.fault = "none" /\ w.success /\ ~w.beyond

SubsOf(nested) == IF nested THEN {NoParser} ELSE Subs

Proper(nested, p, w) ==
    p \in ParserOf({nested}, SubsOf(nested)) /\ Going(w) /\ Keeps(p, w, FALSE)

NameOf(nested) == IF nested THEN "c" ELSE "b"

FileKinds(nested) == IF nested THEN {"file", "nestedFile"} ELSE {"file"}

Well(nested, S, L) ==
    /\ IsOutline(S, NameOf(nested), L)
    /\ \A i \in 1..L.parts :
           IsOwn(S, L, i, FileKinds(nested)) \/ (~nested /\ IsNested(S, L, i))

Has(nested, S, L, p, w, i, c) ==
    IF nested THEN HasOwn(S, L, p, w, i, c) ELSE HasPart(S, L, p, w, i, c)

Traces(nested, S, L, p, w, g) ==
    \E i \in 0..L.parts, c \in 0..g :
        IsAt(S, NameOf(nested), L, p, i, c, g) /\ Has(nested, S, L, p, w, i, c)

\* The boundary behind part i has been given, and where it is in what has not
\* been taken.
There(L, i, g) == L.at[i] + 3 <= g

PlaceOf(L, i, c) == L.at[i] - c

\* What becomes of a parser p at the end of a part.
Ready(q, p) == q.subParser = NoParser /\ q.boundary = p.boundary

\* The two sorts of parsers.
LEMMA FollowsIs ==
    ASSUME NEW S, NEW L, NEW p, NEW w, NEW g
    PROVE  /\ Traces(TRUE, S, L, p, w, g) <=> FollowsNested(S, L, p, w, g)
           /\ Traces(FALSE, S, L, p, w, g) <=> FollowsOuter(S, L, p, w, g)
BY DEF Traces, FollowsNested, FollowsOuter, Has, NameOf

\* Where a parser is depends on what was found and what is on disk, not on what
\* fails next.
LEMMA SameWorld ==
    ASSUME NEW S, NEW L, NEW p, NEW v, NEW w, NEW g, v.arguments = w.arguments,
           v.files = w.files, v.disk = w.disk
    PROVE  /\ FollowsOuter(S, L, p, v, g) => FollowsOuter(S, L, p, w, g)
           /\ FollowsNested(S, L, p, v, g) => FollowsNested(S, L, p, w, g)
<1>1. \A M, k : Found(M, v, k) <=> Found(M, w, k)
  BY DEF Found
<1>2. \A T, M, q, i, c : HasOwn(T, M, q, v, i, c) => HasOwn(T, M, q, w, i, c)
  BY <1>1 DEF HasOwn
<1>3. \A T, M, q, h : FollowsNested(T, M, q, v, h) => FollowsNested(T, M, q, w, h)
  BY <1>2 DEF FollowsNested
<1>4. \A i, c : HasPart(S, L, p, v, i, c) => HasPart(S, L, p, w, i, c)
  BY <1>2, <1>3 DEF HasPart
<1> QED
  BY <1>3, <1>4 DEF FollowsOuter

\* Where a part is.
LEMMA Room ==
    ASSUME NEW S, NEW name, NEW L, IsOutline(S, name, L), NEW i \in 1..L.parts
    PROVE  /\ S \in Content /\ Len(S) \in Nat
           /\ L.at[i - 1] \in Nat /\ L.at[i] \in Nat /\ PartStart(L, i) \in Nat
           /\ PartStart(L, i) = L.at[i - 1] + 10 /\ PartStart(L, i) <= L.at[i] - 2
           /\ PartStart(L, i) <= L.at[i] /\ L.at[i] <= Len(S) /\ L.at[i] + 5 <= Len(S)
<1>2. /\ L.at[i - 1] \in Nat /\ PartStart(L, i) = L.at[i - 1] + 10
      /\ L.at[i - 1] + 12 <= L.at[i] /\ L.at[i] \in Nat /\ Len(S) \in Nat
      /\ i \in 0..L.parts
  BY Places
<1>3. L.at[i] + 5 <= Len(S)
  <2>1. CASE i = L.parts
    <3>1. L.at[i] + 7 <= Len(S)
      BY <1>2, <2>1, Behinds
    <3> QED
      BY <1>2, <3>1
  <2>2. CASE i # L.parts
    BY <1>2, <2>2, Behinds
  <2> QED
    BY <2>1, <2>2
<1>4. S \in Content
  BY DEF IsOutline
<1> DEFINE a == L.at[i - 1]
           b == L.at[i]
           c == PartStart(L, i)
           n == Len(S)
<1>5. a \in Nat /\ b \in Nat /\ n \in Nat /\ c = a + 10 /\ a + 12 <= b /\ b + 5 <= n
  BY <1>2, <1>3
<1> HIDE DEF a, b, c, n
<1>6. c \in Nat /\ c <= b - 2 /\ c <= b /\ b <= n
  BY <1>5
<1> QED
  BY <1>4, <1>5, <1>6 DEF a, b, c, n

\* The bytes of a nested form are well-formed.
LEMMA InnerIs ==
    ASSUME NEW S, NEW L, Well(FALSE, S, L), NEW i \in 1..L.parts, IsNested(S, L, i)
    PROVE  /\ InnerBytes(S, L, i) \in Content
           /\ Len(InnerBytes(S, L, i)) = L.at[i] - PartStart(L, i)
           /\ Well(TRUE, InnerBytes(S, L, i), L.nested[i])
<1> DEFINE sub == L.nested[i]
           inner == InnerBytes(S, L, i)
<1>1. IsOutline(S, "b", L)
  BY DEF Well, NameOf
<1>2. inner \in Content /\ Len(inner) = L.at[i] - PartStart(L, i)
  BY <1>1, Room, Piece DEF InnerBytes
<1>3. LaidOut(inner, "c", sub) /\ \A k \in 1..sub.parts : IsOwn(inner, sub, k, {"file", "nestedFile"})
  BY DEF IsNested, InnerBytes
<1> HIDE DEF inner, sub
<1>4. \A k \in 1..sub.parts : sub.kind[k] \in Kinds
  BY <1>3 DEF IsOwn, Kinds
<1>5. Well(TRUE, inner, sub)
  BY <1>2, <1>3, <1>4 DEF Well, IsOutline, NameOf, FileKinds
<1> QED
  BY <1>2, <1>5 DEF inner, sub

\* A piece of no bytes.
LEMMA EmptyPiece ==
    ASSUME NEW s \in Content, NEW a \in Nat, a <= Len(s)
    PROVE  SubSeq(s, a + 1, a) = <<>>
<1>1. SubSeq(s, a + 1, a) \in Content /\ Len(SubSeq(s, a + 1, a)) = a - a
  BY Piece
<1> DEFINE d == SubSeq(s, a + 1, a)
<1> HIDE DEF d
<1>2. d \in Content /\ Len(d) = 0
  BY <1>1 DEF d
<1>3. d = <<>>
  BY <1>2 DEF Content
<1> QED
  BY <1>3 DEF d

\* What a parser that was given more awaits.
LEMMA HasOrHasOwn ==
    ASSUME NEW nested \in BOOLEAN, NEW S, NEW L, NEW p, NEW w, NEW i, NEW c
    PROVE  /\ p.state # "content" \/ nested \/ L.kind[i] # "nested" =>
                  (Has(nested, S, L, p, w, i, c) <=> HasOwn(S, L, p, w, i, c))
BY DEF Has, HasPart

-----------------------------------------------------------------------------
(* The headers of a part.                                                   *)

\* A temporary file is opened.
LEMMA FileStarts ==
    ASSUME NEW ns, NEW subs, NEW p \in ParserOf(ns, subs), NEW w, Going(w), NEW kind,
           HasControlName(p, kind), kind \notin {"field", "nested"}
    PROVE  LET r == StartPart(p, w, kind)
           IN  /\ Going(r.w) /\ r.w.arguments = w.arguments /\ r.w.files = w.files
               /\ r.p.state = p.state /\ r.p.boundary = p.boundary /\ r.p.data = p.data
               /\ r.p.subParser = p.subParser
               /\ r.p.tmpPath # Nil /\ r.w.disk[r.p.tmpPath] = <<>>
<1> DEFINE r == StartPart(p, w, kind)
           t == w.opened + 1
           d == [u \in DOMAIN w.disk \cup {t} |-> IF u = t THEN <<>> ELSE w.disk[u]]
           q == [p EXCEPT !.tmpFile = t]
           v == [w EXCEPT !.opened = t]
<1>1. t \in Nat /\ t # Nil
  BY DEF Going, IsWorld, Nil
<1>2. /\ IsWorld(v) /\ v.opened = t /\ v.disk = w.disk /\ v.files = w.files
      /\ v.fault = w.fault /\ v.beyond = w.beyond /\ v.success = w.success
      /\ v.arguments = w.arguments
  <2>1. IsWorld(w)
    BY DEF Going
  <2> HIDE DEF t
  <2> QED
    BY <1>1, <2>1, SetOpened
<1>3. r.p = [q EXCEPT !.tmpPath = t] /\ r.w = [v EXCEPT !.disk = d]
  <2>1. w.fault # "open"
    BY DEF Going
  <2>2. /\ r.p = [p EXCEPT !.tmpFile = t, !.tmpPath = t]
        /\ r.w = [w EXCEPT !.opened = t,
                           !.disk = [u \in DOMAIN @ \cup {t} |-> IF u = t THEN <<>> ELSE @[u]]]
    BY <2>1 DEF StartPart
  <2> HIDE DEF r, t
  <2> QED
    BY <1>2, <2>2
<1>4. d[t] = <<>>
  OBVIOUS
<1> HIDE DEF r, d
<1>5. /\ IsWorld(r.w) /\ r.w.disk = d /\ r.w.files = w.files /\ r.w.arguments = w.arguments
      /\ r.w.fault = w.fault /\ r.w.beyond = w.beyond /\ r.w.success = w.success
  <2> HIDE DEF v
  <2> QED
    BY <1>2, <1>3, SetDisk
<1>6. /\ q \in ParserOf(ns, subs) /\ q.data = p.data /\ q.boundary = p.boundary
      /\ q.subParser = p.subParser /\ q.state = p.state
  <2> HIDE DEF t
  <2> QED
    BY <1>1 DEF ParserOf
<1>7. /\ r.p.tmpPath = t /\ r.p.data = p.data /\ r.p.boundary = p.boundary
      /\ r.p.subParser = p.subParser /\ r.p.state = p.state
  <2> HIDE DEF t, q
  <2> QED
    BY <1>1, <1>3, <1>6 DEF ParserOf
<1> QED
  BY <1>1, <1>4, <1>5, <1>7 DEF Going, r

\* The parser of a nested form starts.
LEMMA NestedStarts ==
    ASSUME NEW S, NEW L, Well(FALSE, S, L), NEW i \in 1..L.parts, IsNested(S, L, i),
           NEW w, Found(L, w, i - 1)
    PROVE  FollowsNested(InnerBytes(S, L, i), L.nested[i], NewParser("c", TRUE), w, 0)
<1> DEFINE p == NewParser("c", TRUE)
           sub == L.nested[i]
           inner == InnerBytes(S, L, i)
<1>1. inner \in Content
  BY InnerIs
<1>2. /\ p.subParser = NoParser /\ p.state = "start" /\ p.boundary = Boundary("c")
      /\ p.data = <<>>
  BY DEF NewParser
<1> HIDE DEF p
<1>3. sub.args[0] = L.args[i - 1] /\ sub.files[0] = L.files[i - 1] /\ sub.parts \in Nat
  BY DEF IsNested, LaidOut
<1>4. SubSeq(inner, 1, 0) = <<>>
  <2> HIDE DEF inner
  <2>1. 0 \in Nat /\ 0 <= Len(inner)
    BY <1>1 DEF Content
  <2>2. SubSeq(inner, 0 + 1, 0) = <<>>
    BY <1>1, <2>1, EmptyPiece
  <2> QED
    BY <2>2
<1>5. IsAt(inner, "c", sub, p, 0, 0, 0)
  <2>1. 0 \in 0..sub.parts /\ 0 \in 0..Len(inner) /\ 0 \in 0..0 /\ Len(inner) \in Nat
    BY <1>1, <1>3 DEF Content
  <2>2. 0 + 1 = 1
    OBVIOUS
  <2> HIDE DEF inner, sub
  <2> QED
    BY <1>2, <1>4, <2>1, <2>2 DEF IsAt
<1>6. HasOwn(inner, sub, p, w, 0, 0)
  BY <1>2, <1>3 DEF HasOwn, Found, Behind
<1>7. 0 \in 0..sub.parts /\ 0 \in 0..0
  BY <1>3
<1> QED
  BY <1>5, <1>6, <1>7 DEF FollowsNested, p

-----------------------------------------------------------------------------
(* The headers of a part.                                                   *)

\* The kind of a part is one that the parser knows.
LEMMA PartIs ==
    ASSUME NEW nested \in BOOLEAN, NEW S, NEW L, Well(nested, S, L), NEW i \in 1..L.parts
    PROVE  \/ IsOwn(S, L, i, FileKinds(nested)) /\ L.kind[i] = "field"
           \/ /\ IsOwn(S, L, i, FileKinds(nested)) /\ L.kind[i] \in FileKinds(nested)
              /\ L.kind[i] \notin {"field", "nested"}
           \/ ~nested /\ IsNested(S, L, i) /\ L.kind[i] = "nested"
<1>1. L.kind[i] \in FileKinds(nested) => L.kind[i] \notin {"field", "nested"}
  BY DEF FileKinds
<1>2. CASE IsOwn(S, L, i, FileKinds(nested))
  BY <1>1, <1>2 DEF IsOwn
<1>3. CASE ~nested /\ IsNested(S, L, i)
  BY <1>3 DEF IsNested
<1> QED
  BY <1>2, <1>3 DEF Well

\* The headers of a part start what its kind says.
LEMMA PartStarts ==
    ASSUME NEW nested \in BOOLEAN, NEW S, NEW L, Well(nested, S, L), NEW i \in 1..L.parts,
           NEW g \in 0..Len(S), PartStart(L, i) <= g,
           NEW p \in ParserOf({nested}, SubsOf(nested)), NEW w, Going(w),
           p.state = "content", p.boundary = Boundary(NameOf(nested)),
           p.tmpPath = Nil, p.subParser = NoParser,
           p.data = SubSeq(S, PartStart(L, i) + 1, g), Found(L, w, i - 1)
    PROVE  LET r == StartPart(p, w, L.kind[i])
           IN  /\ Going(r.w) /\ r.p.state = "content"
               /\ IsAt(S, NameOf(nested), L, r.p, i, PartStart(L, i), g)
               /\ Has(nested, S, L, r.p, r.w, i, PartStart(L, i))
<1> DEFINE kind == L.kind[i]
           c == PartStart(L, i)
           r == StartPart(p, w, kind)
<1>1. IsOutline(S, NameOf(nested), L)
  BY DEF Well
<1>2. /\ S \in Content /\ Len(S) \in Nat /\ c \in Nat /\ L.at[i] \in Nat /\ c <= L.at[i] - 2
      /\ c <= L.at[i] /\ L.at[i] <= Len(S)
  BY <1>1, Room
<1>3. p.nested = nested
  BY DEF ParserOf
<1>4. /\ i # 0 /\ i \in 0..L.parts /\ c \in 0..g /\ g \in Nat /\ c <= Len(S) /\ c <= c
  <2>1. L.parts \in Nat /\ i \in 0..L.parts /\ c <= g
    BY <1>1, Places
  <2> HIDE DEF c
  <2>2. c \in 0..g /\ g \in Nat /\ c <= Len(S) /\ c <= c
    BY <1>2, <2>1
  <2>3. i # 0
    BY <2>1
  <2> QED
    BY <2>1, <2>2, <2>3
<1> HIDE DEF c
<1>5. ASSUME NEW q, q.state = "content", q.boundary = p.boundary, q.data = p.data
      PROVE  IsAt(S, NameOf(nested), L, q, i, c, g)
  BY <1>2, <1>4, <1>5 DEF IsAt, c
<1>6. ASSUME NEW q, q.state = "content" PROVE Behind(q, i) = i - 1
  BY <1>6 DEF Behind
<1>7. CASE kind = "field"
  <2>1. HasControlName(p, kind)
    BY <1>7 DEF HasControlName
  <2>2. r.p = p /\ r.w = w
    BY <1>7, <2>1 DEF StartPart
  <2>3. HasOwn(S, L, p, w, i, c)
    BY <1>6, <1>7 DEF HasOwn, c
  <2> QED
    BY <1>5, <1>7, <2>2, <2>3, HasOrHasOwn DEF c
<1>8. CASE kind \in FileKinds(nested) /\ kind \notin {"field", "nested"}
  <2>1. HasControlName(p, kind)
    BY <1>3, <1>8 DEF HasControlName, FileKinds
  <2>2. /\ Going(r.w) /\ r.w.arguments = w.arguments /\ r.w.files = w.files
        /\ r.p.state = p.state /\ r.p.boundary = p.boundary /\ r.p.data = p.data
        /\ r.p.subParser = p.subParser
        /\ r.p.tmpPath # Nil /\ r.w.disk[r.p.tmpPath] = <<>>
    BY <1>8, <2>1, FileStarts
  <2> HIDE DEF r
  <2>3. SubSeq(S, c + 1, c) = <<>>
    BY <1>2, <1>4, EmptyPiece
  <2>4. HasOwn(S, L, r.p, r.w, i, c)
    BY <1>6, <1>8, <2>2, <2>3 DEF HasOwn, c, Found
  <2> QED
    BY <1>5, <1>8, <2>2, <2>4, HasOrHasOwn DEF r, c
<1>9. CASE ~nested /\ IsNested(S, L, i) /\ kind = "nested"
  <2>1. HasControlName(p, kind)
    BY <1>9 DEF HasControlName
  <2> DEFINE n == NewParser("c", TRUE)
  <2>2. r.p = [p EXCEPT !.subParser = <<n>>] /\ r.w = w
    BY <1>3, <1>9, <2>1 DEF StartPart
  <2>3. FollowsNested(InnerBytes(S, L, i), L.nested[i], n, w, 0)
    BY <1>9, NestedStarts
  <2> HIDE DEF r, n
  <2>4. /\ r.p.subParser = <<n>> /\ r.p.state = "content" /\ r.p.boundary = p.boundary
        /\ r.p.data = p.data
    BY <2>2 DEF ParserOf
  <2>5. <<n>> # NoParser /\ <<n>>[1] = n
    BY DEF NoParser
  <2>6. c - PartStart(L, i) = 0
    BY <1>2 DEF c
  <2>7. HasPart(S, L, r.p, r.w, i, c)
    BY <1>9, <2>2, <2>3, <2>4, <2>5, <2>6 DEF HasPart
  <2> QED
    BY <1>5, <1>9, <2>2, <2>4, <2>7 DEF r, c, Has
<1> QED
  BY <1>7, <1>8, <1>9, PartIs

\* The headers of a part, whether they are complete or not.
LEMMA HeadersFollow ==
    ASSUME NEW nested \in BOOLEAN, NEW S, NEW L, Well(nested, S, L),
           NEW p, NEW w, Proper(nested, p, w), NEW g, NEW i \in 0..L.parts, NEW c \in 0..g,
           IsAt(S, NameOf(nested), L, p, i, c, g), Has(nested, S, L, p, w, i, c)
    PROVE  LET r == ParseHeaders(p, w)
           IN  /\ Proper(nested, r.p, r.w)
               /\ \E x \in 0..g :
                      /\ IsAt(S, NameOf(nested), L, r.p, i, x, g)
                      /\ Has(nested, S, L, r.p, r.w, i, x)
               /\ r.p.state = "headers" => i # 0 /\ g < L.at[i - 1] + 10
<1> DEFINE r == ParseHeaders(p, w)
           end == RangeOf(CRLF \o CRLF, p.data)
           kind == IF end = 0 THEN "unnamed" ELSE p.data[end]
           d == After(p.data, end + 4)
           next == [p EXCEPT !.state = "content", !.tmpPath = Nil, !.subParser = NoParser,
                             !.data = d]
<1>1. /\ IsOutline(S, NameOf(nested), L) /\ p \in ParserOf({nested}, SubsOf(nested))
      /\ Going(w) /\ Keeps(p, w, FALSE)
  BY DEF Well, Proper
<1>2. g \in 0..Len(S) /\ i \in 0..L.parts /\ p.boundary = Boundary(NameOf(nested))
      /\ S \in Content /\ Len(S) \in Nat
  BY <1>1 DEF IsAt, IsOutline, Content
<1>3. CASE p.state # "headers"
  <2>1. r.p = p /\ r.w = w
    BY <1>3 DEF ParseHeaders
  <2> QED
    BY <1>3, <2>1
<1>4. CASE p.state = "headers"
  <2>1. i \in 1..L.parts /\ c = L.at[i - 1] + 5 /\ p.data = SubSeq(S, c + 1, g)
    <3>1. L.parts \in Nat
      BY <1>1, Places
    <3> QED
      BY <1>2, <1>4, <3>1 DEF IsAt
  <2>2. L.at[i - 1] \in Nat /\ c \in Nat /\ c <= g /\ g \in Nat /\ g <= Len(S)
        /\ PartStart(L, i) = L.at[i - 1] + 10 /\ PartStart(L, i) = c + 5
    BY <1>1, <1>2, <2>1, Room
  <2>3. IF c + 5 <= g THEN end = 1 /\ p.data[1] = L.kind[i] ELSE end = -1
    <3> DEFINE a == L.at[i - 1] + 5
               e == SubSeq(S, a + 1, g)
    <3>1. IF a + 5 <= g THEN RangeOf(CRLF \o CRLF, e) = 1 /\ e[1] = L.kind[i]
          ELSE RangeOf(CRLF \o CRLF, e) = -1
      <4>1. L.at[i - 1] + 5 <= g /\ g <= Len(S) /\ g \in Nat
        BY <2>1, <2>2
      <4> QED
        BY <1>1, <2>1, <4>1, Headers
    <3>2. c = a /\ p.data = e
      BY <2>1
    <3> HIDE DEF a, e
    <3> QED
      BY <3>1, <3>2
  <2>4. CASE c + 5 > g
    <3>1. r.p = p /\ r.w = w
      BY <2>2, <2>3, <2>4 DEF ParseHeaders
    <3>2. g < L.at[i - 1] + 10 /\ i # 0
      BY <2>1, <2>2, <2>4
    <3> QED
      BY <3>1, <3>2
  <2>5. CASE c + 5 <= g
    <3>1. end = 1 /\ kind = L.kind[i]
      BY <2>3, <2>5
    <3>2. r = StartPart(next, w, L.kind[i])
      <4>1. r = StartPart(next, w, kind)
        BY <1>4, <3>1 DEF ParseHeaders
      <4> HIDE DEF r, next, kind
      <4> QED
        BY <3>1, <4>1
    <3> HIDE DEF kind
    <3>3. d = SubSeq(S, PartStart(L, i) + 1, g)
      <4>1. d = After(p.data, 5)
        <5>1. end + 4 = 5
          BY <3>1
        <5> HIDE DEF end
        <5> QED
          BY <5>1
      <4>2. 5 \in 0..(g - c)
        BY <2>2, <2>5
      <4>3. After(SubSeq(S, c + 1, g), 5) = SubSeq(S, c + 5 + 1, g)
        BY <1>2, <2>2, <4>2, CutFront
      <4> HIDE DEF d
      <4> QED
        BY <2>1, <2>2, <4>1, <4>3
    <3> HIDE DEF end
    <3>4. d \in Content
      <4>1. PartStart(L, i) \in Nat /\ PartStart(L, i) <= g
        BY <2>2, <2>5
      <4> HIDE DEF d
      <4> QED
        BY <1>2, <2>2, <3>3, <4>1, Piece
    <3> HIDE DEF d
    <3>5. NoParser \in SubsOf(nested)
      BY DEF SubsOf, Subs
    <3>6. /\ next \in ParserOf({nested}, SubsOf(nested)) /\ next.state = "content"
          /\ next.boundary = p.boundary /\ next.data = d /\ next.tmpPath = Nil
          /\ next.subParser = NoParser
      <4> DEFINE subs == SubsOf(nested)
      <4> HIDE DEF subs
      <4>1. p \in ParserOf({nested}, subs) /\ NoParser \in subs
        BY <1>1, <3>5 DEF subs
      <4>2. /\ next \in ParserOf({nested}, subs) /\ next.state = "content"
            /\ next.boundary = p.boundary /\ next.data = d /\ next.tmpPath = Nil
            /\ next.subParser = NoParser
        BY <3>4, <4>1 DEF ParserOf, Nil
      <4> QED
        BY <4>2 DEF subs
    <3> HIDE DEF next
    <3>7. Found(L, w, i - 1)
      <4>1. HasOwn(S, L, p, w, i, c)
        BY <1>4, HasOrHasOwn
      <4>2. Behind(p, i) = i - 1
        BY <1>4 DEF Behind
      <4> QED
        BY <4>1, <4>2 DEF HasOwn
    <3>8. /\ Going(r.w) /\ r.p.state = "content"
          /\ IsAt(S, NameOf(nested), L, r.p, i, PartStart(L, i), g)
          /\ Has(nested, S, L, r.p, r.w, i, PartStart(L, i))
      <4>1. PartStart(L, i) <= g
        BY <2>2, <2>5
      <4> HIDE DEF r
      <4>2. /\ i \in 1..L.parts /\ g \in 0..Len(S)
            /\ next \in ParserOf({nested}, SubsOf(nested)) /\ Going(w)
            /\ next.state = "content" /\ next.boundary = Boundary(NameOf(nested))
            /\ next.tmpPath = Nil /\ next.subParser = NoParser
            /\ next.data = SubSeq(S, PartStart(L, i) + 1, g)
            /\ r = StartPart(next, w, L.kind[i])
        BY <1>1, <1>2, <2>1, <3>2, <3>3, <3>6
      <4> QED
        BY <3>7, <4>1, <4>2, PartStarts
    <3>9. Good(r, {nested}, SubsOf(nested), w, FALSE)
      <4>1. p.nested \/ \A q \in Inner : <<q>> \in SubsOf(nested)
        <5>1. p.nested = nested
          BY <1>1 DEF ParserOf
        <5> QED
          BY <5>1 DEF SubsOf, Subs
      <4>2. FALSE \in BOOLEAN /\ IsWorld(w)
        BY <1>1 DEF Going
      <4> QED
        BY <1>1, <3>5, <4>1, <4>2, HeadersKeep
    <3>10. Proper(nested, r.p, r.w)
      BY <3>8, <3>9 DEF Proper, Good
    <3>11. PartStart(L, i) \in 0..g
      BY <2>2, <2>5
    <3> HIDE DEF r
    <3> QED
      BY <3>8, <3>10, <3>11 DEF r
  <2> QED
    BY <2>2, <2>4, <2>5
<1> QED
  BY <1>3, <1>4

-----------------------------------------------------------------------------
(* The operations on the part of a parser, and what is found.               *)

\* A file more among those found.
LEMMA ContentsAppend ==
    ASSUME NEW fs \in Seq([tmp : Nat, content : Content]), NEW f
    PROVE  Contents(Append(fs, f)) = Append(Contents(fs), f.content)
<1> DEFINE n == Len(fs)
           a == Append(fs, f)
           cs == [i \in 1..n |-> fs[i].content]
           U == {fs[i].content : i \in 1..n}
<1>1. /\ n \in Nat /\ Len(a) = n + 1 /\ a[n + 1] = f /\ \A i \in 1..n : a[i] = fs[i]
  OBVIOUS
<1>2. Contents(fs) = cs /\ Contents(a) = [i \in 1..(n + 1) |-> a[i].content]
  BY <1>1 DEF Contents
<1>3. cs \in [1..n -> U] /\ \A i \in 1..n : cs[i] = fs[i].content
  OBVIOUS
<1>4. cs \in Seq(U) /\ Len(cs) = n
  <2> HIDE DEF cs, U, n
  <2> QED
    BY <1>1, <1>3
<1> HIDE DEF n, a
<1>5. Append(cs, f.content) = [i \in 1..(n + 1) |-> IF i = n + 1 THEN f.content ELSE cs[i]]
  <2> HIDE DEF cs, U
  <2> QED
    BY <1>1, <1>4
<1>6. \A i \in 1..(n + 1) : a[i].content = IF i = n + 1 THEN f.content ELSE cs[i]
  <2> TAKE i \in 1..(n + 1)
  <2>1. i = n + 1 \/ i \in 1..n
    BY <1>1
  <2> HIDE DEF cs, U
  <2> QED
    BY <1>1, <1>3, <2>1
<1> HIDE DEF cs, U
<1> QED
  BY <1>2, <1>5, <1>6 DEF a

\* What is written goes behind what the temporary file has.
LEMMA WrittenIs ==
    ASSUME NEW p, NEW w, IsWorld(w), NEW bytes
    PROVE  LET v == Written(p, w, bytes)
           IN  /\ IsWorld(v) /\ v.arguments = w.arguments /\ v.files = w.files
               /\ v.fault = w.fault /\ v.success = w.success /\ v.beyond = w.beyond
<1> DEFINE d == [w.disk EXCEPT ![p.tmpFile] = @ \o bytes]
           v == Written(p, w, bytes)
<1>1. v = [w EXCEPT !.disk = d]
  BY DEF Written
<1> HIDE DEF v, d
<1>2. /\ IsWorld(v) /\ v.arguments = w.arguments /\ v.files = w.files
      /\ v.fault = w.fault /\ v.success = w.success /\ v.beyond = w.beyond
  BY <1>1, SetDisk
<1> QED
  BY <1>2 DEF v

\* What is written follows what was written before.
LEMMA WritesOn ==
    ASSUME NEW p, NEW w, Going(w), Holds(p, w, FALSE), p.tmpPath # Nil, NEW bytes
    PROVE  Written(p, w, bytes).disk[p.tmpPath] = w.disk[p.tmpPath] \o bytes
<1> DEFINE d == [w.disk EXCEPT ![p.tmpFile] = @ \o bytes]
           v == Written(p, w, bytes)
<1>1. p.tmpFile = p.tmpPath /\ p.tmpPath \in DOMAIN w.disk
  BY DEF Holds, Going
<1>2. d[p.tmpPath] = w.disk[p.tmpPath] \o bytes
  BY <1>1
<1>3. IsWorld(w)
  BY DEF Going
<1>4. v = [w EXCEPT !.disk = d]
  BY DEF Written
<1> HIDE DEF v, d
<1>5. v.disk = d
  BY <1>3, <1>4, SetDisk
<1> QED
  BY <1>2, <1>5 DEF v

\* An argument or a file ends in front of its boundary.
LEMMA OwnEnds ==
    ASSUME NEW nested \in BOOLEAN, NEW S, NEW L, Well(nested, S, L),
           NEW p, NEW w, Proper(nested, p, w), NEW g, NEW i \in 1..L.parts, NEW c \in 0..g,
           IsAt(S, NameOf(nested), L, p, i, c, g), HasOwn(S, L, p, w, i, c),
           IsOwn(S, L, i, FileKinds(nested)), p.state = "content", There(L, i, g),
           NEW place, place = PlaceOf(L, i, c)
    PROVE  LET r == EndOwn(p, w, place)
           IN  /\ Found(L, r.w, i) /\ Going(r.w)
               /\ r.p.subParser = NoParser /\ r.p.boundary = p.boundary
<1> DEFINE at == L.at[i]
           from == PartStart(L, i)
           body == SubSeq(p.data, 1, place - 2)
           r == EndOwn(p, w, place)
           subs == SubsOf(nested)
<1>1. /\ IsOutline(S, NameOf(nested), L) /\ p \in ParserOf({nested}, subs)
      /\ Going(w) /\ Keeps(p, w, FALSE) /\ p.subParser = NoParser
  BY DEF Well, Proper, HasOwn
<1> HIDE DEF subs
<1>2. /\ S \in Content /\ Len(S) \in Nat /\ from \in Nat /\ at \in Nat /\ at <= Len(S)
  BY <1>1, Room
<1>3. /\ g \in 0..Len(S) /\ p.data = SubSeq(S, c + 1, g) /\ from <= c /\ c <= at - 2
      /\ at + 3 <= g
  BY DEF IsAt, There
<1>p. place = at - c
  BY DEF PlaceOf
<1> HIDE DEF at, from
<1>4. /\ c \in Nat /\ g \in Nat /\ c <= g /\ g <= Len(S) /\ place \in Int /\ place >= 2
      /\ place - 2 \in 0..(g - c) /\ c + (place - 2) = at - 2 /\ at - 2 \in Nat
      /\ at - 2 <= Len(S)
  <2>1. c \in Nat /\ g \in Nat /\ c <= g /\ g <= Len(S) /\ at - c \in Int
    BY <1>2, <1>3
  <2>2. place \in Int
    BY <1>p, <2>1
  <2> QED
    BY <1>2, <1>3, <1>p, <2>1, <2>2
<1>5. body = SubSeq(S, c + 1, at - 2)
  <2> DEFINE k == place - 2
  <2>1. k \in 0..(g - c) /\ c + k = at - 2
    BY <1>4
  <2> HIDE DEF k
  <2>2. SubSeq(SubSeq(S, c + 1, g), 1, k) = SubSeq(S, c + 1, c + k)
    BY <1>2, <1>4, <2>1, CutBack
  <2>3. SubSeq(p.data, 1, k) = SubSeq(S, c + 1, at - 2)
    BY <1>3, <2>1, <2>2
  <2> QED
    BY <2>3 DEF k
<1> HIDE DEF body
<1>6. Found(L, w, i - 1)
  BY DEF HasOwn, Behind
<1>7. CASE L.kind[i] = "field"
  <2>1. p.tmpPath = Nil /\ c = from
    BY <1>7 DEF HasOwn, from
  <2>2. /\ L.args[i] = Append(L.args[i - 1], SubSeq(S, from + 1, at - 2))
        /\ L.files[i] = L.files[i - 1]
    BY <1>7 DEF IsOwn, FileKinds, PartContent, from, at
  <2>3. r.p = p /\ r.w = [w EXCEPT !.arguments = Append(w.arguments, body)]
    BY <1>4, <2>1 DEF EndOwn, body
  <2> HIDE DEF r
  <2>4. /\ IsWorld(r.w) /\ r.w.arguments = Append(w.arguments, body) /\ r.w.files = w.files
        /\ r.w.fault = w.fault /\ r.w.success = w.success /\ r.w.beyond = w.beyond
    <3> DEFINE x == Append(w.arguments, body)
               v == r.w
    <3>1. IsWorld(w)
      BY <1>1 DEF Going
    <3>2. v = [w EXCEPT !.arguments = x]
      BY <2>3
    <3> HIDE DEF x, v
    <3>3. /\ IsWorld(v) /\ v.arguments = x /\ v.files = w.files
          /\ v.fault = w.fault /\ v.success = w.success /\ v.beyond = w.beyond
      BY <3>1, <3>2, SetArguments
    <3> QED
      BY <3>3 DEF x, v
  <2>5. Found(L, r.w, i)
    BY <1>5, <1>6, <2>1, <2>2, <2>4 DEF Found
  <2>6. Going(r.w)
    BY <1>1, <2>4 DEF Going
  <2> QED
    BY <1>1, <2>3, <2>5, <2>6 DEF r, at
<1>8. CASE L.kind[i] # "field"
  <2>1. p.tmpPath # Nil /\ w.disk[p.tmpPath] = SubSeq(S, from + 1, c)
    BY <1>8 DEF HasOwn, from
  <2>2. /\ L.args[i] = L.args[i - 1]
        /\ L.files[i] = Append(L.files[i - 1], SubSeq(S, from + 1, at - 2))
    BY <1>8 DEF IsOwn, PartContent, from, at
  <2> DEFINE v == Written(p, w, body)
             f == [tmp |-> p.tmpPath, content |-> v.disk[p.tmpPath]]
  <2>3. /\ Going(v) /\ v.arguments = w.arguments /\ v.files = w.files
        /\ v.disk[p.tmpPath] = SubSeq(S, from + 1, at - 2)
    <3>1. Going(w) /\ Holds(p, w, FALSE)
      BY <1>1 DEF Keeps
    <3>a. v.disk[p.tmpPath] = w.disk[p.tmpPath] \o body
      BY <2>1, <3>1, WritesOn
    <3>b. /\ IsWorld(v) /\ v.arguments = w.arguments /\ v.files = w.files
          /\ v.fault = w.fault /\ v.success = w.success /\ v.beyond = w.beyond
      <4>1. IsWorld(w)
        BY <3>1 DEF Going
      <4> QED
        BY <4>1, WrittenIs
    <3> HIDE DEF v
    <3>2. /\ Going(v) /\ v.arguments = w.arguments /\ v.files = w.files
          /\ v.disk[p.tmpPath] = w.disk[p.tmpPath] \o body
      BY <3>1, <3>a, <3>b DEF Going
    <3> DEFINE upTo == at - 2
    <3>3. upTo \in Nat /\ c <= upTo /\ upTo <= Len(S) /\ body = SubSeq(S, c + 1, upTo)
      BY <1>3, <1>4, <1>5
    <3> HIDE DEF upTo
    <3>4. SubSeq(S, from + 1, c) \o SubSeq(S, c + 1, upTo) = SubSeq(S, from + 1, upTo)
      <4>1. S \in Content /\ from \in Nat /\ c \in Nat /\ from <= c
        BY <1>2, <1>3, <1>4
      <4> QED
        BY <3>3, <4>1, JoinPieces
    <3>5. v.disk[p.tmpPath] = SubSeq(S, from + 1, upTo)
      BY <2>1, <3>2, <3>3, <3>4
    <3> QED
      BY <3>2, <3>5 DEF upTo
  <2>4. ~CannotWrite(w, body)
    BY <1>1 DEF CannotWrite, Going
  <2>5. /\ r.p = [p EXCEPT !.tmpFile = Nil, !.tmpPath = Nil]
        /\ r.w = [v EXCEPT !.files = Append(v.files, f)]
    BY <1>4, <2>1, <2>4 DEF EndOwn, body
  <2>6. f.content = SubSeq(S, from + 1, at - 2)
    BY <2>3
  <2> HIDE DEF r, v, f
  <2>7. r.p.subParser = NoParser /\ r.p.boundary = p.boundary
    BY <1>1, <2>5 DEF ParserOf
  <2>8. /\ IsWorld(r.w) /\ r.w.files = Append(v.files, f) /\ r.w.arguments = v.arguments
        /\ r.w.fault = v.fault /\ r.w.success = v.success /\ r.w.beyond = v.beyond
    <3> DEFINE x == Append(v.files, f)
               u == r.w
    <3>1. IsWorld(v)
      BY <2>3 DEF Going
    <3>2. u = [v EXCEPT !.files = x]
      BY <2>5
    <3> HIDE DEF x, u
    <3>3. /\ IsWorld(u) /\ u.files = x /\ u.arguments = v.arguments
          /\ u.fault = v.fault /\ u.success = v.success /\ u.beyond = v.beyond
      BY <3>1, <3>2, SetFiles
    <3> QED
      BY <3>3 DEF x, u
  <2>9. w.files \in Seq([tmp : Nat, content : Content])
    BY <1>1 DEF Keeps, Holds, Stored, Going
  <2>10. Contents(r.w.files) = Append(Contents(w.files), f.content)
    BY <2>3, <2>8, <2>9, ContentsAppend
  <2>11. Found(L, r.w, i)
    BY <1>6, <2>2, <2>3, <2>6, <2>8, <2>10 DEF Found
  <2>12. Going(r.w)
    BY <2>3, <2>8 DEF Going
  <2> QED
    BY <2>7, <2>11, <2>12 DEF r, at
<1> QED
  BY <1>7, <1>8

\* What is passed on of the data, and what is kept.
LEMMA SureIs ==
    ASSUME NEW nested \in BOOLEAN, NEW S, NEW L, Well(nested, S, L),
           NEW p \in ParserOf({nested}, SubsOf(nested)), NEW g, NEW i \in 0..L.parts, NEW c \in 0..g,
           IsAt(S, NameOf(nested), L, p, i, c, g), p.state = "content", g < L.at[i] + 3,
           Len(p.data) > Margin(p)
    PROVE  /\ Rest(p) \in ParserOf({nested}, SubsOf(nested))
           /\ Rest(p).boundary = p.boundary /\ Rest(p).subParser = p.subParser
           /\ Rest(p).tmpPath = p.tmpPath /\ Rest(p).state = "content"
           /\ \E x \in 0..g :
                  /\ x \in Nat /\ x <= Len(S) /\ c \in Nat /\ c <= x
                  /\ Sure(p) = SubSeq(S, c + 1, x)
                  /\ IsAt(S, NameOf(nested), L, Rest(p), i, x, g)
                  /\ PartStart(L, i) <= c /\ x <= L.at[i]
<1> DEFINE x == g - 6
           at == L.at[i]
           from == PartStart(L, i)
           k == Len(p.data) - Margin(p)
           subs == SubsOf(nested)
<1>1. IsOutline(S, NameOf(nested), L) /\ p \in ParserOf({nested}, subs)
  BY DEF Well
<1>2. /\ i \in 1..L.parts /\ g \in 0..Len(S) /\ p.data = SubSeq(S, c + 1, g)
      /\ from <= c /\ c <= at - 2 /\ p.boundary = Boundary(NameOf(nested)) /\ g < at + 3
  <2>1. i # 0 /\ L.parts \in Nat
    BY <1>1, Places DEF IsAt
  <2> QED
    BY <2>1 DEF IsAt
<1>3. /\ S \in Content /\ Len(S) \in Nat /\ from \in Nat /\ at \in Nat
  BY <1>1, <1>2, Room
<1> HIDE DEF at, from, subs
<1>4. c \in Nat /\ g \in Nat /\ c <= g /\ g <= Len(S)
  BY <1>2, <1>3
<1>5. Len(p.data) = g - c
  BY <1>2, <1>3, <1>4, Piece
<1>6. Margin(p) = 6
  <2>1. NameOf(nested) \in {"b", "c"}
    BY DEF NameOf
  <2>2. Len(p.boundary) = 3
    BY <1>2, <2>1, Marks
  <2> QED
    BY <2>2 DEF Margin
<1>7. k \in 0..(g - c) /\ c + k = x /\ k \in Nat
  BY <1>4, <1>5, <1>6
<1>8. x \in 0..g /\ x \in Nat /\ x <= Len(S) /\ c <= x /\ from <= x /\ x <= at - 2
  BY <1>2, <1>3, <1>4, <1>7
<1> HIDE DEF k, x
<1>9. SubSeq(SubSeq(S, c + 1, g), 1, k) = SubSeq(S, c + 1, c + k)
  BY <1>3, <1>4, <1>7, CutBack
<1>10. After(SubSeq(S, c + 1, g), k) = SubSeq(S, c + k + 1, g)
  BY <1>3, <1>4, <1>7, CutFront
<1>11. Sure(p) = SubSeq(S, c + 1, x)
  <2>1. Sure(p) = SubSeq(p.data, 1, k)
    BY DEF Sure, k
  <2> QED
    BY <1>2, <1>7, <1>9, <2>1
<1>12. After(p.data, k) = SubSeq(S, x + 1, g)
  BY <1>2, <1>7, <1>10
<1> DEFINE d == After(p.data, k)
           q == Rest(p)
<1>13. q = [p EXCEPT !.data = d]
  BY DEF Rest, k
<1>14. d \in Content
  <2> HIDE DEF d
  <2>1. x <= g
    BY <1>4, <1>8
  <2>2. SubSeq(S, x + 1, g) \in Content
    BY <1>3, <1>4, <1>8, <2>1, Piece
  <2> QED
    BY <1>12, <2>2 DEF d
<1> HIDE DEF d, q
<1>15. /\ q \in ParserOf({nested}, subs) /\ q.boundary = p.boundary
       /\ q.subParser = p.subParser /\ q.tmpPath = p.tmpPath /\ q.state = "content"
       /\ q.data = d
  BY <1>1, <1>13, <1>14 DEF ParserOf
<1>16. IsAt(S, NameOf(nested), L, q, i, x, g)
  <2>1. q.data = SubSeq(S, x + 1, g)
    BY <1>12, <1>15 DEF d
  <2>2. i # 0
    BY <1>2
  <2> QED
    BY <1>2, <1>8, <1>15, <2>1, <2>2 DEF IsAt, from, at
<1>17. x <= at
  BY <1>3, <1>8
<1> QED
  BY <1>2, <1>4, <1>8, <1>11, <1>15, <1>16, <1>17 DEF q, subs, from, at

\* What is certainly content is written.
LEMMA OwnPasses ==
    ASSUME NEW nested \in BOOLEAN, NEW S, NEW L, Well(nested, S, L),
           NEW p, NEW w, Proper(nested, p, w), NEW g, NEW i \in 0..L.parts, NEW c \in 0..g,
           IsAt(S, NameOf(nested), L, p, i, c, g), HasOwn(S, L, p, w, i, c),
           g < L.at[i] + 3
    PROVE  LET r == PassOwn(p, w)
           IN  /\ Going(r.w) /\ r.p.state = p.state
               /\ \E x \in 0..g : IsAt(S, NameOf(nested), L, r.p, i, x, g) /\ HasOwn(S, L, r.p, r.w, i, x)
<1> DEFINE r == PassOwn(p, w)
<1>1. p \in ParserOf({nested}, SubsOf(nested)) /\ Going(w) /\ Holds(p, w, FALSE)
      /\ p.subParser = NoParser /\ IsOutline(S, NameOf(nested), L)
  BY DEF Proper, HasOwn, Keeps, Well
<1>2. CASE Len(p.data) <= Margin(p) \/ p.tmpPath = Nil
  <2>1. r.p = p /\ r.w = w
    BY <1>2 DEF PassOwn
  <2> QED
    BY <1>1, <2>1
<1>3. CASE ~(Len(p.data) <= Margin(p)) /\ p.tmpPath # Nil
  <2>1. p.state = "content"
    BY <1>1, <1>3 DEF Holds, Going
  <2>2. Len(p.data) > Margin(p)
    <3>1. Len(p.data) \in Nat /\ Len(p.boundary) \in Nat
      BY <1>1 DEF ParserOf, Content
    <3> QED
      BY <1>3, <3>1 DEF Margin
  <2>a. PICK x \in 0..g :
               /\ x \in Nat /\ x <= Len(S) /\ c \in Nat /\ c <= x
               /\ Sure(p) = SubSeq(S, c + 1, x)
               /\ IsAt(S, NameOf(nested), L, Rest(p), i, x, g)
    BY <1>1, <2>1, <2>2, SureIs
  <2>3. /\ x \in 0..g /\ x \in Nat /\ x <= Len(S) /\ c \in Nat /\ c <= x
        /\ Sure(p) = SubSeq(S, c + 1, x)
        /\ Rest(p).boundary = p.boundary /\ Rest(p).subParser = p.subParser
        /\ Rest(p).tmpPath = p.tmpPath /\ Rest(p).state = "content"
        /\ IsAt(S, NameOf(nested), L, Rest(p), i, x, g)
    BY <1>1, <2>1, <2>2, <2>a, SureIs
  <2>4. ~CannotWrite(w, Sure(p))
    BY <1>1 DEF CannotWrite, Going
  <2> DEFINE v == Written(p, w, Sure(p))
             q == Rest(p)
  <2>5. r.p = q /\ r.w = v
    BY <1>3, <2>4 DEF PassOwn
  <2>6. v.disk[p.tmpPath] = w.disk[p.tmpPath] \o Sure(p)
    BY <1>1, <1>3, WritesOn
  <2>7. /\ IsWorld(v) /\ v.arguments = w.arguments /\ v.files = w.files
        /\ v.fault = w.fault /\ v.success = w.success /\ v.beyond = w.beyond
    <3>1. IsWorld(w)
      BY <1>1 DEF Going
    <3> QED
      BY <3>1, WrittenIs
  <2> HIDE DEF r, v, q
  <2>8. Going(v)
    BY <1>1, <2>7 DEF Going
  <2>9. /\ L.kind[i] # "field" /\ w.disk[p.tmpPath] = SubSeq(S, PartStart(L, i) + 1, c)
        /\ Found(L, w, i - 1)
    BY <1>3, <2>1 DEF HasOwn, Behind
  <2>10. /\ S \in Content /\ PartStart(L, i) \in Nat /\ PartStart(L, i) <= c
    <3>1. i \in 1..L.parts /\ PartStart(L, i) <= c
      <4>1. L.parts \in Nat
        BY <1>1, Places
      <4> QED
        BY <2>1, <4>1 DEF IsAt
    <3> QED
      BY <1>1, <3>1, Room
  <2>11. SubSeq(S, PartStart(L, i) + 1, c) \o SubSeq(S, c + 1, x) = SubSeq(S, PartStart(L, i) + 1, x)
    <3> DEFINE from == PartStart(L, i)
    <3>1. from \in Nat /\ from <= c
      BY <2>10
    <3> HIDE DEF from
    <3>2. SubSeq(S, from + 1, c) \o SubSeq(S, c + 1, x) = SubSeq(S, from + 1, x)
      BY <2>3, <2>10, <3>1, JoinPieces
    <3> QED
      BY <3>2 DEF from
  <2>12. v.disk[q.tmpPath] = SubSeq(S, PartStart(L, i) + 1, x)
    BY <2>3, <2>6, <2>9, <2>11 DEF q
  <2>13. HasOwn(S, L, q, v, i, x)
    <3>1. Behind(q, i) = i - 1
      BY <2>3 DEF Behind, q
    <3> QED
      BY <1>1, <1>3, <2>3, <2>7, <2>9, <2>12, <3>1 DEF HasOwn, Found, q
  <2>14. x \in 0..g /\ q.state = p.state /\ IsAt(S, NameOf(nested), L, q, i, x, g)
    BY <2>1, <2>3 DEF q
  <2> QED
    BY <2>5, <2>8, <2>13, <2>14 DEF r
<1> QED
  BY <1>2, <1>3

-----------------------------------------------------------------------------
(* One call of _parseData.                                                  *)

\* A parser that awaits more was not given all.
LEMMA NotThere ==
    ASSUME NEW S, NEW name, NEW L, IsOutline(S, name, L), NEW i \in 0..L.parts, NEW g \in Nat,
           \/ g < L.at[i] + 3
           \/ i # 0 /\ g < L.at[i - 1] + 10
           \/ i = L.parts /\ g < L.at[i] + 7
           \/ i # L.parts /\ g < L.at[i] + 5
    PROVE  g < L.at[L.parts] + 7
<1> DEFINE last == L.at[L.parts]
<1>1. L.parts \in Nat /\ last \in Nat /\ L.at[i] \in Nat
  BY Places
<1>2. L.at[i] <= last /\ (i # L.parts => L.at[i] + 12 <= last)
  BY InOrder
<1>3. CASE i # 0 /\ g < L.at[i - 1] + 10
  <2> DEFINE j == i - 1
  <2>1. j \in 0..L.parts /\ j # L.parts /\ L.at[j] \in Nat
    BY <1>1, <1>3, Places
  <2>2. g < L.at[j] + 10
    BY <1>3
  <2> HIDE DEF j, last
  <2>3. L.at[j] + 12 <= last
    BY <2>1, InOrder DEF last
  <2>4. g < last + 7
    BY <1>1, <2>1, <2>2, <2>3
  <2> QED
    BY <2>4 DEF last
<1>4. CASE g < L.at[i] + 3
  <2> DEFINE at == L.at[i]
  <2>1. at \in Nat /\ last \in Nat /\ at <= last /\ g < at + 3
    BY <1>1, <1>2, <1>4
  <2> HIDE DEF at, last
  <2>2. g < last + 7
    BY <2>1
  <2> QED
    BY <2>2 DEF last
<1>5. CASE i = L.parts /\ g < L.at[i] + 7
  BY <1>5
<1>6. CASE i # L.parts /\ g < L.at[i] + 5
  <2> DEFINE at == L.at[i]
  <2>1. at \in Nat /\ last \in Nat /\ at + 12 <= last /\ g < at + 5
    BY <1>1, <1>2, <1>6
  <2> HIDE DEF at, last
  <2>2. g < last + 7
    BY <2>1
  <2> QED
    BY <2>2 DEF last
<1> QED
  BY <1>3, <1>4, <1>5, <1>6

\* What is behind a boundary.
LEMMA TailIs ==
    ASSUME NEW S, NEW name, NEW L, IsOutline(S, name, L), NEW i \in 0..L.parts,
           NEW c \in Nat, NEW g \in Nat, c <= L.at[i], L.at[i] + 3 <= g, g <= Len(S),
           i # 0 => PartStart(L, i) <= c
    PROVE  LET d     == SubSeq(S, c + 1, g)
               place == RangeOf(Boundary(name), d)
               tail  == After(d, place + Len(Boundary(name)))
           IN  /\ place = L.at[i] - c /\ place # -1
               /\ StartsWith(tail, CRLF) <=> i # L.parts /\ L.at[i] + 5 <= g
               /\ StartsWith(tail, Dashes \o CRLF) <=> i = L.parts /\ L.at[i] + 7 <= g
               /\ L.at[i] + 5 <= g => After(tail, 2) = SubSeq(S, L.at[i] + 5 + 1, g)
<1> DEFINE at == L.at[i]
           d == SubSeq(S, c + 1, g)
           place == RangeOf(Boundary(name), d)
           tail == After(d, place + Len(Boundary(name)))
           b == at + 3
<1>1. S \in Content /\ Len(S) \in Nat /\ at \in Nat /\ name \in {"b", "c"}
  BY Places DEF IsOutline
<1>2. place = at - c
  <2>1. c <= g
    <3> HIDE DEF at
    <3>1. c <= at /\ at + 3 <= g
      BY DEF at
    <3> QED
      BY <1>1, <3>1
  <2> QED
    BY <2>1, Search
<1>3. c <= at /\ b <= g /\ b \in Nat
  BY <1>1
<1>4. Len(Boundary(name)) = 3
  BY <1>1, Marks
<1>5. tail = SubSeq(S, b + 1, g)
  <2> DEFINE k == place + Len(Boundary(name))
  <2> HIDE DEF place, at
  <2>1. k \in 0..(g - c) /\ c + k = b /\ c <= g
    BY <1>1, <1>2, <1>3, <1>4
  <2> HIDE DEF k, b
  <2>2. After(SubSeq(S, c + 1, g), k) = SubSeq(S, c + k + 1, g)
    BY <1>1, <2>1, CutFront
  <2> QED
    BY <2>1, <2>2 DEF k
<1>6. place # -1
  <2> HIDE DEF place, at
  <2> QED
    BY <1>1, <1>2, <1>3
<1> HIDE DEF tail, place
<1>7. \A pat \in Content : StartsWith(tail, pat) <=> b + Len(pat) <= g /\ OccursAt(pat, S, b)
  <2> HIDE DEF b
  <2> QED
    BY <1>1, <1>3, <1>5, StartOfPiece
<1>8. /\ CRLF \in Content /\ Len(CRLF) = 2
      /\ Dashes \o CRLF \in Content /\ Len(Dashes \o CRLF) = 4
  BY LineEnds, Marks
<1>9. IF i = L.parts THEN OccursAt(Dashes \o CRLF, S, b) /\ ~OccursAt(CRLF, S, b)
      ELSE OccursAt(CRLF, S, b) /\ ~OccursAt(Dashes \o CRLF, S, b)
  BY Behinds
<1>10. b + Len(CRLF) <= g <=> at + 5 <= g
  <2>1. b + Len(CRLF) = at + 5
    <3> HIDE DEF at
    <3> QED
      BY <1>1, <1>8
  <2> QED
    BY <2>1
<1>11. b + Len(Dashes \o CRLF) <= g <=> at + 7 <= g
  <2>1. b + Len(Dashes \o CRLF) = at + 7
    <3> HIDE DEF at
    <3> QED
      BY <1>1, <1>8
  <2> QED
    BY <2>1
<1>12. StartsWith(tail, CRLF) <=> i # L.parts /\ at + 5 <= g
  <2> HIDE DEF b, at
  <2> QED
    BY <1>7, <1>8, <1>9, <1>10
<1>13. StartsWith(tail, Dashes \o CRLF) <=> i = L.parts /\ at + 7 <= g
  <2> HIDE DEF b, at
  <2> QED
    BY <1>7, <1>8, <1>9, <1>11
<1>14. ASSUME at + 5 <= g PROVE After(tail, 2) = SubSeq(S, at + 5 + 1, g)
  <2> DEFINE e == at + 5
  <2>1. 2 \in 0..(g - b) /\ b + 2 = e
    <3> HIDE DEF at
    <3> QED
      BY <1>1, <1>3, <1>14
  <2> HIDE DEF b, e
  <2>2. After(SubSeq(S, b + 1, g), 2) = SubSeq(S, b + 2 + 1, g)
    BY <1>1, <1>3, <2>1, CutFront
  <2>3. After(tail, 2) = SubSeq(S, e + 1, g)
    BY <1>5, <2>1, <2>2
  <2> QED
    BY <2>3 DEF e
<1> QED
  BY <1>2, <1>6, <1>12, <1>13, <1>14 DEF tail, place

\* One call of a parser, given what becomes of it at a boundary and without one.
LEMMA TurnFollows ==
    ASSUME NEW nested \in BOOLEAN, NEW S, NEW L, Well(nested, S, L),
           NEW p, NEW w, Proper(nested, p, w), NEW g, NEW i \in 0..L.parts, NEW c \in 0..g,
           IsAt(S, NameOf(nested), L, p, i, c, g), Has(nested, S, L, p, w, i, c),
           p.state = "headers" => i # 0 /\ g < L.at[i - 1] + 10,
           NEW ended,
           p.state = "content" /\ L.at[i] + 3 <= g =>
               /\ Found(L, ended.w, i) /\ Going(ended.w)
               /\ ended.p \in ParserOf({nested}, SubsOf(nested))
               /\ ended.p.subParser = NoParser /\ ended.p.boundary = p.boundary,
           NEW passed,
           p.state \in {"start", "content"} /\ g < L.at[i] + 3 =>
               Going(passed.w) /\ Traces(nested, S, L, passed.p, passed.w, g)
    PROVE  LET r == Turn(p, w, ended, passed)
           IN  /\ Going(r.w) /\ Traces(nested, S, L, r.p, r.w, g)
               /\ r.again \/ Through(L, r.p, g)
<1> DEFINE r == Turn(p, w, ended, passed)
           at == L.at[i]
           place == RangeOf(p.boundary, p.data)
           tail == After(p.data, place + Len(p.boundary))
           subs == SubsOf(nested)
           name == NameOf(nested)
           kept == IF p.state = "content" THEN ended ELSE [p |-> p, w |-> w]
<1>1. /\ IsOutline(S, name, L) /\ p \in ParserOf({nested}, subs) /\ Going(w)
      /\ Keeps(p, w, FALSE)
  BY DEF Well, Proper
<1>2. /\ S \in Content /\ Len(S) \in Nat /\ L.parts \in Nat /\ at \in Nat
      /\ g \in 0..Len(S) /\ g \in Nat /\ c \in Nat /\ c <= g /\ g <= Len(S)
      /\ p.boundary = Boundary(name)
  <2>1. S \in Content /\ Len(S) \in Nat /\ L.parts \in Nat /\ at \in Nat
    BY <1>1, Places DEF IsOutline
  <2>2. g \in 0..Len(S) /\ p.boundary = Boundary(name)
    BY DEF IsAt
  <2> QED
    BY <2>1, <2>2
<1>3. p.state \in {"start", "headers", "content", "end"}
  BY <1>1 DEF ParserOf
<1>4. ASSUME p.state # "content" PROVE HasOwn(S, L, p, w, i, c)
  BY <1>4, HasOrHasOwn
<1>5. Traces(nested, S, L, p, w, g)
  BY DEF Traces
<1> HIDE DEF subs, name
<1>6. CASE p.state \in {"headers", "end"}
  <2>1. r.p = p /\ r.w = w
    BY <1>6 DEF Turn
  <2>2. CASE p.state = "end"
    BY <1>1, <1>5, <2>1, <2>2 DEF Through
  <2>3. CASE p.state = "headers"
    <3>1. g < L.at[L.parts] + 7
      BY <1>1, <1>2, <2>3, NotThere
    <3> QED
      BY <1>1, <1>5, <2>1, <3>1 DEF Through
  <2> QED
    BY <1>6, <2>2, <2>3
<1>7. CASE p.state \in {"start", "content"}
  <2>1. p.data = SubSeq(S, c + 1, g) /\ c <= at /\ (i # 0 => PartStart(L, i) <= c)
    <3>1. p.data = SubSeq(S, c + 1, g)
      BY <1>7 DEF IsAt
    <3>2. CASE p.state = "start"
      BY <1>2, <3>1, <3>2 DEF IsAt
    <3>3. CASE p.state = "content"
      <4>1. c <= at - 2 /\ PartStart(L, i) <= c
        BY <3>3 DEF IsAt
      <4> HIDE DEF at
      <4> QED
        BY <1>2, <3>1, <4>1
    <3> QED
      BY <1>7, <3>2, <3>3
  <2>2. CASE g < at + 3
    <3>1. place = -1
      <4>1. RangeOf(Boundary(name), SubSeq(S, c + 1, g)) = IF at + 3 <= g THEN at - c ELSE -1
        BY <1>1, <1>2, <2>1, Search
      <4>2. ~(at + 3 <= g)
        <5> HIDE DEF at
        <5> QED
          BY <1>2, <2>2
      <4> QED
        BY <1>2, <2>1, <4>1, <4>2
    <3>2. r.p = passed.p /\ r.w = passed.w
      BY <1>7, <3>1 DEF Turn
    <3>3. g < L.at[L.parts] + 7
      BY <1>1, <1>2, <2>2, NotThere
    <3> QED
      BY <1>7, <2>2, <3>2, <3>3 DEF Through
  <2>3. CASE at + 3 <= g
    <3>1. /\ place # -1
          /\ StartsWith(tail, CRLF) <=> i # L.parts /\ at + 5 <= g
          /\ StartsWith(tail, Dashes \o CRLF) <=> i = L.parts /\ at + 7 <= g
          /\ at + 5 <= g => After(tail, 2) = SubSeq(S, at + 5 + 1, g)
      <4> DEFINE d == SubSeq(S, c + 1, g)
                 pl == RangeOf(Boundary(name), d)
                 tl == After(d, pl + Len(Boundary(name)))
      <4>1. /\ pl = L.at[i] - c /\ pl # -1
            /\ StartsWith(tl, CRLF) <=> i # L.parts /\ L.at[i] + 5 <= g
            /\ StartsWith(tl, Dashes \o CRLF) <=> i = L.parts /\ L.at[i] + 7 <= g
            /\ L.at[i] + 5 <= g => After(tl, 2) = SubSeq(S, L.at[i] + 5 + 1, g)
        BY <1>1, <1>2, <2>1, <2>3, TailIs
      <4>2. place = pl /\ tail = tl
        BY <1>2, <2>1
      <4> HIDE DEF d, pl, tl, place, tail
      <4> QED
        BY <4>1, <4>2
    <3> HIDE DEF place, tail
    <3>2. /\ Found(L, kept.w, i) /\ Going(kept.w) /\ kept.p \in ParserOf({nested}, subs)
          /\ kept.p.subParser = NoParser /\ kept.p.boundary = p.boundary
      <4>1. CASE p.state = "content"
        BY <2>3, <4>1 DEF subs
      <4>2. CASE p.state = "start"
        <5>1. kept.p = p /\ kept.w = w
          BY <4>2
        <5>2. Behind(p, i) = i /\ HasOwn(S, L, p, w, i, c)
          BY <1>4, <4>2 DEF Behind
        <5> QED
          BY <1>1, <5>1, <5>2 DEF HasOwn
      <4> QED
        BY <1>7, <4>1, <4>2
    <3> DEFINE q == kept.p
               v == kept.w
    <3>3. r = IF StartsWith(tail, CRLF)
              THEN [p |-> [q EXCEPT !.state = "headers", !.data = After(tail, 2)],
                    w |-> [v EXCEPT !.success = TRUE], again |-> TRUE]
              ELSE IF StartsWith(tail, Dashes \o CRLF)
              THEN [p |-> [q EXCEPT !.state = "end"], w |-> v, again |-> FALSE]
              ELSE [p |-> p, w |-> w, again |-> FALSE]
      BY <1>7, <3>1 DEF Turn, place, tail
    <3> HIDE DEF kept, r, q, v
    <3>a. /\ Found(L, v, i) /\ Going(v) /\ q \in ParserOf({nested}, subs)
          /\ q.subParser = NoParser /\ q.boundary = Boundary(name)
      BY <1>2, <3>2 DEF q, v
    <3>4. CASE i # L.parts /\ at + 5 <= g
      <4> DEFINE d == After(tail, 2)
                 h == [q EXCEPT !.state = "headers"]
      <4>1. r.p = [h EXCEPT !.data = d] /\ r.w = [v EXCEPT !.success = TRUE] /\ r.again = TRUE
        BY <3>1, <3>3, <3>4
      <4>2. d = SubSeq(S, at + 5 + 1, g) /\ d \in Content
        <5> DEFINE e == at + 5
        <5>1. d = SubSeq(S, e + 1, g)
          <6> HIDE DEF d, at
          <6> QED
            BY <3>1, <3>4 DEF d
        <5>2. e \in Nat /\ e <= g
          <6> HIDE DEF d, at
          <6> QED
            BY <1>2, <3>4
        <5> HIDE DEF e, d
        <5>3. d \in Content
          BY <1>2, <5>1, <5>2, Piece
        <5> QED
          BY <5>1, <5>3 DEF e
      <4>3. /\ h \in ParserOf({nested}, subs) /\ h.boundary = q.boundary
            /\ h.subParser = NoParser /\ h.state = "headers"
        BY <3>a DEF ParserOf
      <4> HIDE DEF d, h
      <4>4. /\ r.p.boundary = Boundary(name) /\ r.p.subParser = NoParser
            /\ r.p.state = "headers" /\ r.p.data = d
        <5>1. r.p = [h EXCEPT !.data = d]
          BY <4>1
        <5> QED
          BY <3>a, <4>2, <4>3, <5>1 DEF ParserOf
      <4>5. /\ IsWorld(r.w) /\ r.w.success /\ r.w.arguments = v.arguments
            /\ r.w.files = v.files /\ r.w.fault = v.fault /\ r.w.beyond = v.beyond
        <5>1. IsWorld(v)
          BY <3>a DEF Going
        <5> DEFINE y == r.w
        <5>2. y = [v EXCEPT !.success = TRUE]
          BY <4>1
        <5> HIDE DEF y
        <5>3. /\ IsWorld(y) /\ y.success /\ y.arguments = v.arguments
              /\ y.files = v.files /\ y.fault = v.fault /\ y.beyond = v.beyond
          BY <5>1, <5>2, Succeeds
        <5> QED
          BY <5>3 DEF y
      <4>6. Going(r.w)
        BY <3>a, <4>5 DEF Going
      <4> DEFINE j == i + 1
                 x == at + 5
      <4>7. j \in 0..L.parts /\ j # 0 /\ j - 1 = i /\ x \in 0..g
        <5> HIDE DEF at
        <5> QED
          BY <1>2, <3>4
      <4> HIDE DEF j
      <4>8. r.p.data = SubSeq(S, x + 1, g) /\ x = L.at[j - 1] + 5
        BY <4>2, <4>4, <4>7
      <4> HIDE DEF x
      <4>9. IsAt(S, name, L, r.p, j, x, g)
        BY <1>2, <4>4, <4>7, <4>8 DEF IsAt
      <4>10. HasOwn(S, L, r.p, r.w, j, x)
        <5>1. Behind(r.p, j) = i
          BY <4>4, <4>7 DEF Behind
        <5>2. Found(L, r.w, i)
          BY <3>a, <4>5 DEF Found
        <5> QED
          BY <4>4, <5>1, <5>2 DEF HasOwn
      <4>11. Has(nested, S, L, r.p, r.w, j, x)
        BY <4>4, <4>10, HasOrHasOwn
      <4>12. Traces(nested, S, L, r.p, r.w, g)
        BY <4>7, <4>9, <4>11 DEF Traces, name
      <4> QED
        BY <4>1, <4>6, <4>12 DEF r
    <3>5. CASE i = L.parts /\ at + 7 <= g
      <4>1. r.p = [q EXCEPT !.state = "end"] /\ r.w = v /\ r.again = FALSE
        BY <3>1, <3>3, <3>5
      <4>2. r.p.boundary = Boundary(name) /\ r.p.subParser = NoParser /\ r.p.state = "end"
        <5>1. r.p = [q EXCEPT !.state = "end"]
          BY <4>1
        <5> QED
          BY <3>a, <5>1 DEF ParserOf
      <4>3. IsAt(S, name, L, r.p, i, c, g)
        BY <1>2, <3>5, <4>2 DEF IsAt
      <4>4. HasOwn(S, L, r.p, r.w, i, c)
        <5>1. Behind(r.p, i) = i
          BY <4>2 DEF Behind
        <5> QED
          BY <3>a, <4>1, <4>2, <5>1 DEF HasOwn
      <4>5. Has(nested, S, L, r.p, r.w, i, c)
        BY <4>2, <4>4, HasOrHasOwn
      <4>6. Traces(nested, S, L, r.p, r.w, g)
        BY <4>3, <4>5 DEF Traces, name
      <4> QED
        BY <3>a, <4>1, <4>2, <4>6 DEF Through, r
    <3>6. CASE ~(i # L.parts /\ at + 5 <= g) /\ ~(i = L.parts /\ at + 7 <= g)
      <4>1. r.p = p /\ r.w = w
        BY <3>1, <3>3, <3>6
      <4>2. (i = L.parts /\ g < at + 7) \/ (i # L.parts /\ g < at + 5)
        <5> HIDE DEF at
        <5> QED
          BY <1>2, <3>6
      <4>3. g < L.at[L.parts] + 7
        BY <1>1, <1>2, <4>2, NotThere
      <4> QED
        BY <1>1, <1>5, <4>1, <4>3 DEF Through, r
    <3> QED
      BY <3>4, <3>5, <3>6
  <2>4. g < at + 3 \/ at + 3 <= g
    <3> HIDE DEF at
    <3> QED
      BY <1>2
  <2> QED
    BY <2>2, <2>3, <2>4
<1> QED
  BY <1>3, <1>6, <1>7

\* Where the boundary is.
LEMMA PlaceIs ==
    ASSUME NEW S, NEW name, NEW L, IsOutline(S, name, L), NEW p, NEW g, NEW i \in 0..L.parts,
           NEW c \in 0..g, IsAt(S, name, L, p, i, c, g), p.state = "content", There(L, i, g)
    PROVE  /\ RangeOf(p.boundary, p.data) = PlaceOf(L, i, c)
           /\ i \in 1..L.parts /\ PlaceOf(L, i, c) <= Len(p.data) /\ PlaceOf(L, i, c) \in Int
<1>1. /\ S \in Content /\ Len(S) \in Nat /\ L.parts \in Nat /\ L.at[i] \in Nat
  BY Places DEF IsOutline
<1>2. /\ g \in 0..Len(S) /\ p.boundary = Boundary(name) /\ p.data = SubSeq(S, c + 1, g)
      /\ i # 0 /\ PartStart(L, i) <= c /\ c <= L.at[i] - 2
  BY DEF IsAt
<1> DEFINE at == L.at[i]
<1>3. at \in Nat /\ at + 3 <= g /\ c <= at - 2
  BY <1>1, <1>2 DEF There
<1> HIDE DEF at
<1>4. c \in Nat /\ g \in Nat /\ g <= Len(S) /\ c <= at /\ at <= g /\ c <= g
      /\ at - c <= g - c /\ at - c \in Int
  BY <1>1, <1>2, <1>3
<1>5. Len(p.data) = g - c
  BY <1>1, <1>2, <1>4, Piece
<1>6. RangeOf(Boundary(name), SubSeq(S, c + 1, g)) = IF at + 3 <= g THEN at - c ELSE -1
  BY <1>1, <1>2, <1>4, Search DEF at
<1>7. i \in 1..L.parts
  BY <1>1, <1>2
<1> QED
  BY <1>1, <1>2, <1>3, <1>4, <1>5, <1>6, <1>7 DEF at, PlaceOf

\* An argument or a file at its boundary.
LEMMA OwnEnded ==
    ASSUME NEW nested \in BOOLEAN, NEW S, NEW L, Well(nested, S, L),
           NEW p, NEW w, Proper(nested, p, w), NEW g, NEW i \in 0..L.parts, NEW c \in 0..g,
           IsAt(S, NameOf(nested), L, p, i, c, g), HasOwn(S, L, p, w, i, c),
           i \in 1..L.parts => IsOwn(S, L, i, FileKinds(nested)),
           p.state = "content", There(L, i, g)
    PROVE  LET r == EndOwn(p, w, RangeOf(p.boundary, p.data))
           IN  /\ Found(L, r.w, i) /\ Going(r.w)
               /\ r.p \in ParserOf({nested}, SubsOf(nested))
               /\ Ready(r.p, p)
<1> DEFINE place == RangeOf(p.boundary, p.data)
           ended == EndOwn(p, w, place)
<1>1. IsOutline(S, NameOf(nested), L)
  BY DEF Well
<1>2. /\ place = PlaceOf(L, i, c)
      /\ i \in 1..L.parts /\ PlaceOf(L, i, c) <= Len(p.data) /\ PlaceOf(L, i, c) \in Int
  BY <1>1, PlaceIs
<1> HIDE DEF place
<1>3. /\ Found(L, ended.w, i) /\ Going(ended.w)
      /\ ended.p.subParser = NoParser /\ ended.p.boundary = p.boundary
  BY <1>2, OwnEnds
<1>4. Good(ended, {nested}, SubsOf(nested), w, FALSE)
  <2>1. /\ p \in ParserOf({nested}, SubsOf(nested)) /\ IsWorld(w) /\ p.subParser = NoParser
        /\ Holds(p, w, FALSE) /\ FALSE \in BOOLEAN
    BY DEF Proper, Going, Keeps, HasOwn
  <2> QED
    BY <1>2, <2>1, EndOwnKeeps
<1> HIDE DEF ended
<1>5. /\ Found(L, ended.w, i) /\ Going(ended.w)
      /\ ended.p \in ParserOf({nested}, SubsOf(nested))
      /\ Ready(ended.p, p)
  BY <1>3, <1>4 DEF Good, Ready
<1> QED
  BY <1>5 DEF ended, place

\* What is kept of an argument or a file.
LEMMA OwnHas ==
    ASSUME NEW nested \in BOOLEAN, NEW S, NEW L, NEW p, NEW w, NEW g, NEW i \in 0..L.parts,
           NEW c, IsAt(S, NameOf(nested), L, p, i, c, g), L.parts \in Nat,
           i \in 1..L.parts => IsOwn(S, L, i, FileKinds(nested))
    PROVE  HasOwn(S, L, p, w, i, c) <=> Has(nested, S, L, p, w, i, c)
<1>1. CASE p.state = "content"
  <2>1. i \in 1..L.parts
    BY <1>1 DEF IsAt
  <2>2. IsOwn(S, L, i, FileKinds(nested))
    BY <2>1
  <2>3. nested \/ L.kind[i] # "nested"
    BY <2>2 DEF IsOwn, FileKinds
  <2> QED
    BY <2>3 DEF Has, HasPart
<1>2. CASE p.state # "content"
  BY <1>2 DEF Has, HasPart
<1> QED
  BY <1>1, <1>2

\* A call at an argument or a file.
LEMMA OwnTurns ==
    ASSUME NEW nested \in BOOLEAN, NEW S, NEW L, Well(nested, S, L),
           NEW p, NEW w, Proper(nested, p, w), NEW g, NEW i \in 0..L.parts, NEW c \in 0..g,
           IsAt(S, NameOf(nested), L, p, i, c, g), Has(nested, S, L, p, w, i, c),
           i \in 1..L.parts => IsOwn(S, L, i, FileKinds(nested)),
           p.state = "headers" => i # 0 /\ g < L.at[i - 1] + 10
    PROVE  LET r == Turn(p, w, EndOwn(p, w, RangeOf(p.boundary, p.data)), PassOwn(p, w))
           IN  /\ Going(r.w) /\ Traces(nested, S, L, r.p, r.w, g)
               /\ r.again \/ Through(L, r.p, g)
<1> DEFINE ended == EndOwn(p, w, RangeOf(p.boundary, p.data))
           passed == PassOwn(p, w)
<1>0. L.parts \in Nat
  BY DEF Well, IsOutline, LaidOut
<1>1. HasOwn(S, L, p, w, i, c)
  BY <1>0, OwnHas
<1>3. p.state = "content" /\ L.at[i] + 3 <= g =>
          /\ Found(L, ended.w, i) /\ Going(ended.w)
          /\ ended.p \in ParserOf({nested}, SubsOf(nested))
          /\ ended.p.subParser = NoParser /\ ended.p.boundary = p.boundary
  <2>1. p.state = "content" /\ There(L, i, g) =>
          /\ Found(L, ended.w, i) /\ Going(ended.w)
          /\ ended.p \in ParserOf({nested}, SubsOf(nested))
          /\ Ready(ended.p, p)
    BY <1>1, OwnEnded
  <2> HIDE DEF ended
  <2> QED
    BY <2>1 DEF There, Ready
<1>4. ASSUME p.state \in {"start", "content"}, g < L.at[i] + 3
      PROVE  Going(passed.w) /\ Traces(nested, S, L, passed.p, passed.w, g)
  <2>1. /\ Going(passed.w)
        /\ \E y \in 0..g : IsAt(S, NameOf(nested), L, passed.p, i, y, g)
                           /\ HasOwn(S, L, passed.p, passed.w, i, y)
    BY <1>1, <1>4, OwnPasses
  <2> HIDE DEF passed
  <2>2. PICK y \in 0..g : IsAt(S, NameOf(nested), L, passed.p, i, y, g)
                          /\ HasOwn(S, L, passed.p, passed.w, i, y)
    BY <2>1
  <2>3. Has(nested, S, L, passed.p, passed.w, i, y)
    BY <1>0, <2>2, OwnHas
  <2> QED
    BY <2>1, <2>2, <2>3 DEF Traces
<1> HIDE DEF ended, passed
<1>5. LET r == Turn(p, w, ended, passed)
      IN  /\ Going(r.w) /\ Traces(nested, S, L, r.p, r.w, g)
          /\ r.again \/ Through(L, r.p, g)
  BY <1>1, <1>3, <1>4, TurnFollows
<1> QED
  BY <1>5 DEF ended, passed

\* One call of the parser of a nested form.
LEMMA TurnNestedFollows ==
    ASSUME NEW S, NEW L, Well(TRUE, S, L), NEW p, NEW w, Proper(TRUE, p, w), NEW g,
           Traces(TRUE, S, L, p, w, g)
    PROVE  LET r == TurnNested(p, w)
           IN  /\ Proper(TRUE, r.p, r.w) /\ Traces(TRUE, S, L, r.p, r.w, g)
               /\ r.again \in BOOLEAN /\ (r.again => Len(r.p.data) < Len(p.data))
               /\ r.again \/ Through(L, r.p, g)
<1> DEFINE h == ParseHeaders(p, w)
           q == h.p
           v == h.w
           r == Turn(q, v, EndOwn(q, v, RangeOf(q.boundary, q.data)), PassOwn(q, v))
<1>0. TurnNested(p, w) = r /\ TRUE \in BOOLEAN
  BY DEF TurnNested
<1>1. PICK i \in 0..L.parts, c \in 0..g :
          IsAt(S, NameOf(TRUE), L, p, i, c, g) /\ Has(TRUE, S, L, p, w, i, c)
  BY DEF Traces
<1>2. /\ Proper(TRUE, q, v)
      /\ \E x \in 0..g : IsAt(S, NameOf(TRUE), L, q, i, x, g) /\ Has(TRUE, S, L, q, v, i, x)
      /\ q.state = "headers" => i # 0 /\ g < L.at[i - 1] + 10
  BY <1>0, <1>1, HeadersFollow
<1> HIDE DEF h, q, v
<1>3. PICK x \in 0..g : IsAt(S, NameOf(TRUE), L, q, i, x, g) /\ Has(TRUE, S, L, q, v, i, x)
  BY <1>2
<1>4. /\ Going(r.w) /\ Traces(TRUE, S, L, r.p, r.w, g)
      /\ r.again \/ Through(L, r.p, g)
  <2>1. TRUE \in BOOLEAN /\ (i \in 1..L.parts => IsOwn(S, L, i, FileKinds(TRUE)))
    BY DEF Well
  <2> QED
    BY <1>2, <1>3, <2>1, OwnTurns
<1> HIDE DEF r
<1> DEFINE t == TurnNested(p, w)
<1>5. /\ Good(t, {TRUE}, {NoParser}, w, FALSE) /\ t.again \in BOOLEAN
      /\ t.again => Len(t.p.data) < Len(p.data)
  <2>1. p \in Inner /\ IsWorld(w) /\ Keeps(p, w, FALSE) /\ FALSE \in BOOLEAN
    BY DEF Proper, Inner, SubsOf, Going
  <2> QED
    BY <2>1, TurnNestedKeeps
<1>6. t = r
  BY <1>0
<1> HIDE DEF t
<1>7. Proper(TRUE, t.p, t.w)
  BY <1>4, <1>5, <1>6 DEF Proper, Good, SubsOf
<1> QED
  BY <1>4, <1>5, <1>6, <1>7 DEF t

-----------------------------------------------------------------------------
(* All the calls.                                                           *)

StepsFollow(nested, S, L, g) ==
    \A q, v :
        Proper(nested, q, v) /\ Traces(nested, S, L, q, v, g) =>
            LET r == Step(nested, q, v)
            IN  /\ Proper(nested, r.p, r.w) /\ Traces(nested, S, L, r.p, r.w, g)
                /\ r.again \in BOOLEAN /\ (r.again => Len(r.p.data) < Len(q.data))
                /\ r.again \/ Through(L, r.p, g)

\* Calls that follow the form each, one behind the other.
LEMMA RunFollows ==
    ASSUME NEW nested \in BOOLEAN, NEW S, NEW L, NEW g, StepsFollow(nested, S, L, g),
           NEW p, NEW w, Proper(nested, p, w), Traces(nested, S, L, p, w, g),
           NEW n, n = Len(p.data) + 1, NEW f, IsRun(f, nested, p, w, n)
    PROVE  /\ Proper(nested, f[n].p, f[n].w) /\ Traces(nested, S, L, f[n].p, f[n].w, g)
           /\ Through(L, f[n].p, g)
<1> DEFINE start == [p |-> p, w |-> w, again |-> TRUE]
           Fine(i) == /\ Proper(nested, f[i].p, f[i].w) /\ Traces(nested, S, L, f[i].p, f[i].w, g)
                      /\ f[i].again \in BOOLEAN
                      /\ f[i].again => Len(f[i].p.data) <= Len(p.data) - i
                      /\ f[i].again \/ Through(L, f[i].p, g)
           T == {i \in 0..n : Fine(i)}
<1>a. \A q, v : Proper(nested, q, v) => Len(q.data) \in Nat
  BY DEF Proper, ParserOf, Content
<1>0. Len(p.data) \in Nat /\ n \in Nat
  BY <1>a
<1>1. \A i \in 0..n : f[i] = IF i = 0 THEN start
                            ELSE IF f[i - 1].again THEN Step(nested, f[i - 1].p, f[i - 1].w)
                            ELSE f[i - 1]
  BY DEF IsRun
<1>2. 0 \in T
  <2>0. 0 \in 0..n
    BY <1>0
  <2>1. f[0] = start
    <3> HIDE DEF start
    <3> QED
      BY <1>1, <2>0
  <2>2. f[0].p = p /\ f[0].w = w /\ f[0].again = TRUE
    BY <2>1
  <2>4. Len(f[0].p.data) <= Len(p.data) - 0
    BY <1>0, <2>2
  <2> QED
    BY <2>0, <2>2, <2>4
<1>3. ASSUME NEW i \in 1..n, i - 1 \in T PROVE i \in T
  <2> DEFINE l == f[i - 1]
             q == l.p
             v == l.w
  <2>0. i \in 0..n /\ i # 0 /\ Fine(i - 1) /\ i \in Nat
    BY <1>0, <1>3
  <2>1. Proper(nested, q, v) /\ Traces(nested, S, L, q, v, g) /\ Len(q.data) \in Nat
    BY <1>a, <2>0
  <2>2. CASE l.again
    <3>1. f[i] = Step(nested, q, v)
      BY <1>1, <2>0, <2>2
    <3>2. /\ Proper(nested, f[i].p, f[i].w) /\ Traces(nested, S, L, f[i].p, f[i].w, g)
          /\ f[i].again \in BOOLEAN /\ (f[i].again => Len(f[i].p.data) < Len(q.data))
          /\ f[i].again \/ Through(L, f[i].p, g)
      <4> HIDE DEF q, v
      <4> QED
        BY <2>1, <3>1 DEF StepsFollow
    <3>3. Len(f[i].p.data) \in Nat
      BY <1>a, <3>2
    <3>4. Len(q.data) <= Len(p.data) - (i - 1)
      BY <2>0, <2>2
    <3>5. f[i].again => Len(f[i].p.data) <= Len(p.data) - i
      <4> DEFINE a == Len(f[i].p.data)
                 b == Len(q.data)
                 c == Len(p.data)
      <4>1. a \in Nat /\ b \in Nat /\ c \in Nat /\ i \in Nat /\ b <= c - (i - 1)
            /\ (f[i].again => a < b)
        BY <1>0, <2>0, <2>1, <3>2, <3>3, <3>4
      <4> HIDE DEF a, b, c
      <4>2. a < b => a <= c - i
        BY <4>1
      <4> QED
        BY <4>1, <4>2 DEF a, c
    <3> QED
      BY <2>0, <3>2, <3>5
  <2>3. CASE ~l.again
    <3>1. f[i] = l
      BY <1>1, <2>0, <2>3
    <3>2. Fine(i)
      BY <2>0, <2>3, <3>1
    <3> QED
      BY <2>0, <3>2
  <2> QED
    BY <2>0, <2>2, <2>3
<1> HIDE DEF T
<1>4. n \in T
  <2>1. n \in Nat
    BY <1>0
  <2>2. \A i \in 1..n : i - 1 \in T => i \in T
    BY <1>3
  <2>3. \A i \in 0..n : i \in T
    BY <1>2, <2>1, <2>2, Everywhere, Zenon
  <2> QED
    BY <2>1, <2>3
<1>5. Fine(n)
  BY <1>4 DEF T
<1>6. ~f[n].again
  <2>1. Len(f[n].p.data) \in Nat
    BY <1>a, <1>5
  <2>2. f[n].again => Len(f[n].p.data) <= -1
    BY <1>0, <1>5
  <2> QED
    BY <2>1, <2>2
<1> QED
  BY <1>5, <1>6

\* All the calls of the parser of a nested form.
LEMMA ParseNestedFollows ==
    ASSUME NEW S, NEW L, Well(TRUE, S, L), NEW p, NEW w, Proper(TRUE, p, w), NEW g,
           Traces(TRUE, S, L, p, w, g)
    PROVE  LET r == ParseNested(p, w)
           IN  /\ Proper(TRUE, r.p, r.w) /\ Traces(TRUE, S, L, r.p, r.w, g)
               /\ Through(L, r.p, g)
<1> DEFINE n == Len(p.data) + 1
           Is(f) == f = [i \in 0..n |->
                            IF i = 0 THEN [p |-> p, w |-> w, again |-> TRUE]
                            ELSE IF f[i - 1].again THEN TurnNested(f[i - 1].p, f[i - 1].w)
                            ELSE f[i - 1]]
           turns == CHOOSE f : Is(f)
<1>1. ParseNested(p, w) = turns[n]
  BY DEF ParseNested
<1>2. \A f : Is(f) <=> IsRun(f, TRUE, p, w, n)
  BY DEF IsRun, Step
<1>3. n \in Nat /\ n = Len(p.data) + 1
  BY DEF Proper, ParserOf, Content
<1> HIDE DEF n
<1>4. \E f : IsRun(f, TRUE, p, w, n)
  BY <1>3, RunExists
<1> HIDE DEF Is
<1>5. IsRun(turns, TRUE, p, w, n)
  BY <1>2, <1>4
<1> HIDE DEF turns
<1>6. TRUE \in BOOLEAN
  OBVIOUS
<1>7. \A q, v : Step(TRUE, q, v) = TurnNested(q, v)
  BY DEF Step
<1>8. StepsFollow(TRUE, S, L, g)
  BY <1>7, TurnNestedFollows DEF StepsFollow
<1> DEFINE t == turns[n]
<1>9. Proper(TRUE, t.p, t.w) /\ Traces(TRUE, S, L, t.p, t.w, g) /\ Through(L, t.p, g)
  BY <1>3, <1>5, <1>6, <1>8, RunFollows
<1> QED
  BY <1>1, <1>9

\* What is added to what a parser was given.
LEMMA AddedIs ==
    ASSUME NEW ns, NEW subs, NEW p \in ParserOf(ns, subs), NEW bytes \in Content
    PROVE  LET q == Added(p, bytes)
           IN  /\ q \in ParserOf(ns, subs) /\ q.data = p.data \o bytes
               /\ q.boundary = p.boundary /\ q.state = p.state /\ q.tmpPath = p.tmpPath
               /\ q.tmpFile = p.tmpFile /\ q.subParser = p.subParser
<1> DEFINE q == Added(p, bytes)
           d == p.data \o bytes
<1>1. d \in Content
  BY Joined DEF Content, ParserOf
<1>2. q = [p EXCEPT !.data = d]
  BY DEF Added
<1> HIDE DEF d, q
<1>3. /\ q \in ParserOf(ns, subs) /\ q.data = d
      /\ q.boundary = p.boundary /\ q.state = p.state /\ q.tmpPath = p.tmpPath
      /\ q.tmpFile = p.tmpFile /\ q.subParser = p.subParser
  BY <1>1, <1>2 DEF ParserOf
<1> QED
  BY <1>3 DEF d, q

\* A parser that is handed the next bytes of the form.
LEMMA AddedFollows ==
    ASSUME NEW nested \in BOOLEAN, NEW S, S \in Content, NEW L,
           NEW p \in ParserOf({nested}, SubsOf(nested)), NEW w, NEW g,
           Traces(nested, S, L, p, w, g), NEW h \in Nat, g <= h, h <= Len(S)
    PROVE  Traces(nested, S, L, Added(p, SubSeq(S, g + 1, h)), w, h)
<1> DEFINE bytes == SubSeq(S, g + 1, h)
           q == Added(p, bytes)
           subs == SubsOf(nested)
<1>1. PICK i \in 0..L.parts, c \in 0..g :
          IsAt(S, NameOf(nested), L, p, i, c, g) /\ Has(nested, S, L, p, w, i, c)
  BY DEF Traces
<1>2. Len(S) \in Nat
  BY DEF Content
<1>3. g \in Nat /\ c \in Nat /\ c <= g
  BY <1>1, <1>2 DEF IsAt
<1>4. bytes \in Content
  BY <1>2, <1>3, Piece
<1> HIDE DEF subs, bytes
<1>5. /\ q.data = p.data \o bytes
      /\ q.boundary = p.boundary /\ q.state = p.state /\ q.tmpPath = p.tmpPath
      /\ q.subParser = p.subParser
  BY <1>4, AddedIs DEF subs
<1>6. p.state # "end" => q.data = SubSeq(S, c + 1, h)
  <2>1. p.state # "end" => p.data = SubSeq(S, c + 1, g)
    BY <1>1 DEF IsAt
  <2>2. SubSeq(S, c + 1, g) \o bytes = SubSeq(S, c + 1, h)
    BY <1>2, <1>3, JoinPieces DEF bytes
  <2> QED
    BY <1>5, <2>1, <2>2
<1> HIDE DEF q
<1>7. h \in 0..Len(S) /\ c \in 0..h
  BY <1>2, <1>3
<1>8. IsAt(S, NameOf(nested), L, q, i, c, h)
  BY <1>1, <1>5, <1>6, <1>7 DEF IsAt
<1>9. Has(nested, S, L, q, w, i, c)
  BY <1>1, <1>5 DEF Has, HasPart, HasOwn, Behind
<1> QED
  BY <1>7, <1>8, <1>9 DEF Traces, q, bytes

\* Further bytes of a nested form.
LEMMA AppendNestedFollows ==
    ASSUME NEW S, NEW L, Well(TRUE, S, L), NEW p, NEW w, Proper(TRUE, p, w), NEW g,
           Traces(TRUE, S, L, p, w, g), NEW h \in Nat, g <= h, h <= Len(S),
           NEW bytes, bytes = SubSeq(S, g + 1, h), bytes \in Content
    PROVE  LET r == AppendNested(p, w, bytes)
           IN  /\ Proper(TRUE, r.p, r.w) /\ Traces(TRUE, S, L, r.p, r.w, h)
               /\ Through(L, r.p, h)
<1> DEFINE q == Added(p, bytes)
           v == [w EXCEPT !.success = TRUE]
<1>1. AppendNested(p, w, bytes) = ParseNested(q, v)
  BY DEF AppendNested
<1>2. p \in ParserOf({TRUE}, SubsOf(TRUE)) /\ Going(w) /\ Keeps(p, w, FALSE) /\ TRUE \in BOOLEAN
  BY DEF Proper
<1>3. S \in Content
  BY DEF Well, IsOutline
<1>4. Traces(TRUE, S, L, q, w, h)
  BY <1>2, <1>3, AddedFollows
<1>5. /\ IsWorld(v) /\ v.success
      /\ v.arguments = w.arguments /\ v.files = w.files /\ v.disk = w.disk
      /\ v.opened = w.opened /\ v.fault = w.fault /\ v.beyond = w.beyond
  <2>1. IsWorld(w)
    BY <1>2 DEF Going
  <2> QED
    BY <2>1, Succeeds
<1>6. /\ q \in ParserOf({TRUE}, SubsOf(TRUE)) /\ q.subParser = p.subParser
      /\ q.state = p.state /\ q.tmpPath = p.tmpPath /\ q.tmpFile = p.tmpFile
  <2> DEFINE ns == {TRUE}
             subs == SubsOf(TRUE)
  <2>1. p \in ParserOf(ns, subs)
    BY <1>2
  <2> HIDE DEF ns, subs
  <2>2. /\ q \in ParserOf(ns, subs) /\ q.subParser = p.subParser
        /\ q.state = p.state /\ q.tmpPath = p.tmpPath /\ q.tmpFile = p.tmpFile
    BY <2>1, AddedIs
  <2> HIDE DEF q
  <2> QED
    BY <2>2 DEF ns, subs
<1> HIDE DEF q, v
<1>7. Going(v)
  BY <1>2, <1>5 DEF Going
<1>8. Traces(TRUE, S, L, q, v, h)
  BY <1>4, <1>5, FollowsIs, SameWorld
<1>9. Keeps(q, v, FALSE)
  <2>1. p.subParser = NoParser
    BY <1>2 DEF ParserOf, SubsOf
  <2>2. Holds(p, w, FALSE)
    BY <1>2, <2>1 DEF Keeps
  <2>3. Holds(q, w, FALSE)
    BY <1>6, <2>2 DEF Holds
  <2>4. Holds(q, v, FALSE)
    BY <1>5, <2>3, AlikeHolds DEF Alike
  <2> QED
    BY <1>6, <2>1, <2>4 DEF Keeps
<1>10. Proper(TRUE, q, v)
  BY <1>6, <1>7, <1>9 DEF Proper
<1>11. LET r == ParseNested(q, v)
       IN  /\ Proper(TRUE, r.p, r.w) /\ Traces(TRUE, S, L, r.p, r.w, h)
           /\ Through(L, r.p, h)
  BY <1>8, <1>10, ParseNestedFollows
<1> QED
  BY <1>1, <1>11

\* A parser that was given all of a form is at its end and has found all of it.
LEMMA AllOfIt ==
    ASSUME NEW nested \in BOOLEAN, NEW S, NEW L, Well(nested, S, L), NEW p, NEW w,
           Traces(nested, S, L, p, w, Len(S)), Through(L, p, Len(S))
    PROVE  p.state = "end" /\ Found(L, w, L.parts)
<1>1. IsOutline(S, NameOf(nested), L)
  BY DEF Well
<1>2. /\ L.parts \in 0..L.parts /\ L.parts \in Nat /\ Len(S) \in Nat
      /\ L.at[L.parts] \in Nat /\ L.at[L.parts] + 7 <= Len(S)
  <2>1. L.parts \in Nat /\ Len(S) \in Nat /\ \A i \in 0..L.parts : L.at[i] \in Nat
    BY <1>1, Places
  <2>2. L.parts \in 0..L.parts
    BY <2>1
  <2> QED
    BY <1>1, <2>1, <2>2, Behinds
<1>3. p.state = "end"
  BY <1>2 DEF Through
<1>4. PICK i \in 0..L.parts, c \in 0..Len(S) :
          IsAt(S, NameOf(nested), L, p, i, c, Len(S)) /\ Has(nested, S, L, p, w, i, c)
  BY DEF Traces
<1>5. i = L.parts /\ HasOwn(S, L, p, w, i, c)
  BY <1>3, <1>4 DEF IsAt, Has, HasPart
<1> QED
  BY <1>3, <1>5 DEF HasOwn, Behind

-----------------------------------------------------------------------------
(* The part that is a nested form.                                          *)

InPart(L, i, c) == c - PartStart(L, i)

Within(L, i, c, x) == c \in Nat /\ x \in Nat /\ PartStart(L, i) <= c /\ c <= x /\ x <= L.at[i]

IsAll(L, i, x) == x = L.at[i]

IsCut(bytes, s, a, b) == bytes = SubSeq(s, a + 1, b)

IsPiece(bytes, s, a, b) ==
    a \in Nat /\ b \in Nat /\ a <= b /\ b <= Len(s) /\ bytes \in Content /\ bytes = SubSeq(s, a + 1, b)

\* Bytes of the part are bytes of the nested form.
LEMMA InnerPiece ==
    ASSUME NEW S, NEW L, Well(FALSE, S, L), NEW i \in 1..L.parts, IsNested(S, L, i),
           NEW c, NEW x, Within(L, i, c, x), NEW bytes, IsCut(bytes, S, c, x),
           NEW inner, inner = InnerBytes(S, L, i)
    PROVE  IsPiece(bytes, inner, InPart(L, i, c), InPart(L, i, x))
<1> DEFINE a == PartStart(L, i)
           b == L.at[i]
           u == c - a
           v == x - a
<1>1. IsOutline(S, NameOf(FALSE), L)
  BY DEF Well
<1>2. S \in Content /\ Len(S) \in Nat /\ a \in Nat /\ b \in Nat /\ a <= b /\ b <= Len(S)
  BY <1>1, Room
<1>3. Len(inner) = b - a
  BY InnerIs
<1>4. c \in Nat /\ x \in Nat /\ c <= x /\ a <= c /\ x <= b
  BY DEF Within
<1> HIDE DEF a, b
<1>5. /\ u \in Nat /\ v \in Nat /\ u <= v /\ v <= b - a /\ a + u = c /\ a + v = x
  BY <1>2, <1>4
<1>6. x <= Len(S)
  BY <1>2, <1>4
<1>7. SubSeq(S, c + 1, x) \in Content
  BY <1>2, <1>4, <1>6, Piece
<1>8. SubSeq(S, c + 1, x) = SubSeq(inner, u + 1, v)
  <2> HIDE DEF u, v
  <2>1. SubSeq(SubSeq(S, a + 1, b), u + 1, v) = SubSeq(S, a + u + 1, a + v)
    BY <1>2, <1>5, PieceOfPiece
  <2>2. inner = SubSeq(S, a + 1, b)
    BY DEF InnerBytes, a, b
  <2>3. a + u + 1 = c + 1
    BY <1>5
  <2> QED
    BY <1>5, <2>1, <2>2, <2>3
<1>9. InPart(L, i, c) = u /\ InPart(L, i, x) = v
  BY DEF InPart, a
<1> HIDE DEF u, v
<1> QED
  BY <1>3, <1>5, <1>7, <1>8, <1>9 DEF IsPiece, IsCut

\* They are passed on to its parser.
LEMMA NestedAdds ==
    ASSUME NEW S, NEW L, Well(FALSE, S, L), NEW i \in 1..L.parts, IsNested(S, L, i),
           NEW q, NEW w, Proper(TRUE, q, w),
           NEW c, NEW x, Within(L, i, c, x),
           FollowsNested(InnerBytes(S, L, i), L.nested[i], q, w, InPart(L, i, c)),
           NEW bytes, IsCut(bytes, S, c, x)
    PROVE  LET r == AppendNested(q, w, bytes)
           IN  /\ Proper(TRUE, r.p, r.w)
               /\ FollowsNested(InnerBytes(S, L, i), L.nested[i], r.p, r.w, InPart(L, i, x))
               /\ IsAll(L, i, x) => r.p.state = "end" /\ Found(L, r.w, i)
<1> DEFINE inner == InnerBytes(S, L, i)
           sub == L.nested[i]
           u == InPart(L, i, c)
           v == InPart(L, i, x)
           r == AppendNested(q, w, bytes)
<1>1. Well(TRUE, inner, sub)
  BY InnerIs
<1>a. IsNested(S, L, i) /\ inner = InnerBytes(S, L, i)
  OBVIOUS
<1>b. sub.args[sub.parts] = L.args[i] /\ sub.files[sub.parts] = L.files[i]
  BY DEF IsNested
<1> HIDE DEF inner, sub
<1>2. /\ bytes \in Content /\ bytes = SubSeq(inner, u + 1, v)
      /\ u \in Nat /\ v \in Nat /\ u <= v /\ v <= Len(inner)
      /\ IsAll(L, i, x) => v = Len(inner)
  <2>1. IsPiece(bytes, inner, u, v)
    BY <1>a, InnerPiece
  <2>2. IsAll(L, i, x) => v = Len(inner)
    BY InnerIs DEF InPart, IsAll, inner
  <2> HIDE DEF u, v
  <2> QED
    BY <2>1, <2>2 DEF IsPiece, IsCut
<1>3. Traces(TRUE, inner, sub, q, w, u)
  BY FollowsIs DEF inner, sub
<1> HIDE DEF u, v
<1>4. /\ Proper(TRUE, r.p, r.w) /\ Traces(TRUE, inner, sub, r.p, r.w, v)
      /\ Through(sub, r.p, v)
  BY <1>1, <1>2, <1>3, AppendNestedFollows
<1> HIDE DEF r
<1>5. FollowsNested(inner, sub, r.p, r.w, v)
  BY <1>4, FollowsIs
<1>6. ASSUME IsAll(L, i, x) PROVE r.p.state = "end" /\ Found(L, r.w, i)
  <2>1. v = Len(inner)
    BY <1>2, <1>6
  <2>2. Traces(TRUE, inner, sub, r.p, r.w, Len(inner)) /\ Through(sub, r.p, Len(inner))
        /\ TRUE \in BOOLEAN
    BY <1>4, <2>1
  <2>3. r.p.state = "end" /\ Found(sub, r.w, sub.parts)
    BY <1>1, <2>2, AllOfIt
  <2> QED
    BY <1>b, <2>3 DEF Found
<1> QED
  BY <1>4, <1>5, <1>6 DEF r, inner, sub, v

\* The parser that the parser of a form has for it.
LEMMA NestedParser ==
    ASSUME NEW S, NEW L, NEW p, NEW w, Proper(FALSE, p, w), NEW i, NEW c,
           Has(FALSE, S, L, p, w, i, c), p.state = "content", L.kind[i] = "nested"
    PROVE  /\ p.subParser # NoParser /\ Proper(TRUE, p.subParser[1], w)
           /\ FollowsNested(InnerBytes(S, L, i), L.nested[i], p.subParser[1], w, InPart(L, i, c))
<1>1. /\ p.subParser # NoParser
      /\ FollowsNested(InnerBytes(S, L, i), L.nested[i], p.subParser[1], w, InPart(L, i, c))
  BY DEF Has, HasPart, InPart
<1>2. p \in Outer /\ Keeps(p, w, FALSE) /\ Going(w)
  BY DEF Proper, Outer, SubsOf, Subs
<1>3. p.subParser[1] \in Inner /\ Holds(p.subParser[1], w, FALSE)
  BY <1>1, <1>2, SubParser
<1> DEFINE q == p.subParser[1]
<1>4. q \in Inner /\ Holds(q, w, FALSE)
  BY <1>3
<1> HIDE DEF q
<1>5. q.subParser = NoParser
  BY <1>4 DEF Inner, ParserOf
<1>6. Keeps(q, w, FALSE)
  BY <1>4, <1>5 DEF Keeps
<1>7. Proper(TRUE, q, w)
  BY <1>2, <1>4, <1>6 DEF Proper, Inner, SubsOf
<1> QED
  BY <1>1, <1>7 DEF q

\* A nested form ends.
LEMMA NestedEnds ==
    ASSUME NEW S, NEW L, Well(FALSE, S, L), NEW i \in 1..L.parts, IsNested(S, L, i),
           NEW p, NEW w, Proper(FALSE, p, w), NEW g, NEW c \in 0..g,
           IsAt(S, NameOf(FALSE), L, p, i, c, g), Has(FALSE, S, L, p, w, i, c),
           p.state = "content", There(L, i, g), NEW place, place = PlaceOf(L, i, c)
    PROVE  LET r == EndPart(p, w, place)
           IN  /\ Found(L, r.w, i) /\ Going(r.w)
               /\ Ready(r.p, p)
<1> DEFINE at == L.at[i]
           q == p.subParser[1]
           bytes == SubSeq(p.data, 1, place)
           h == AppendNested(q, w, bytes)
           v == IF IsAtEnd(h.p) THEN h.w ELSE Fails(h.w)
           d == Without(v.disk, UnlinksOne(h.p))
           r == EndPart(p, w, place)
<1>1. IsOutline(S, NameOf(FALSE), L) /\ L.kind[i] = "nested"
  BY DEF Well, IsNested
<1>2. /\ p.subParser # NoParser /\ Proper(TRUE, q, w)
      /\ FollowsNested(InnerBytes(S, L, i), L.nested[i], q, w, InPart(L, i, c))
  BY <1>1, NestedParser
<1>3. S \in Content /\ Len(S) \in Nat /\ at \in Nat /\ at <= Len(S)
  BY <1>1, Room
<1>4. /\ g \in 0..Len(S) /\ p.data = SubSeq(S, c + 1, g) /\ PartStart(L, i) <= c
      /\ c <= at - 2 /\ at + 3 <= g /\ place = at - c
  BY DEF IsAt, There, PlaceOf
<1>p. r.p = [p EXCEPT !.subParser = NoParser] /\ r.w = [v EXCEPT !.disk = d]
  BY <1>2 DEF EndPart
<1> HIDE DEF at, q, r
<1>5. /\ c \in Nat /\ g \in Nat /\ c <= g /\ g <= Len(S) /\ place \in 0..(g - c)
      /\ c + place = at /\ c <= at
  <2>1. c \in Nat /\ g \in Nat /\ c <= g
    BY <1>3, <1>4
  <2> QED
    BY <1>3, <1>4, <2>1
<1>6. bytes = SubSeq(S, c + 1, at)
  <2>1. SubSeq(SubSeq(S, c + 1, g), 1, place) = SubSeq(S, c + 1, c + place)
    BY <1>3, <1>5, CutBack
  <2> QED
    BY <1>4, <1>5, <2>1
<1> HIDE DEF bytes
<1>7. Proper(TRUE, h.p, h.w) /\ h.p.state = "end" /\ Found(L, h.w, i)
  <2>1. IsAll(L, i, at) /\ Within(L, i, c, at) /\ IsCut(bytes, S, c, at)
    BY <1>3, <1>4, <1>5, <1>6 DEF at, Within, IsCut, IsAll
  <2> QED
    BY <1>2, <2>1, NestedAdds
<1> HIDE DEF h
<1>8. v = h.w
  BY <1>7 DEF IsAtEnd
<1>9. Going(v)
  BY <1>7, <1>8 DEF Proper
<1>b. Found(L, v, i)
  BY <1>7, <1>8
<1> HIDE DEF v, d
<1>10. /\ IsWorld(r.w) /\ r.w.arguments = v.arguments /\ r.w.files = v.files
       /\ r.w.fault = v.fault /\ r.w.success = v.success /\ r.w.beyond = v.beyond
  <2>1. IsWorld(v)
    BY <1>9 DEF Going
  <2> QED
    BY <1>p, <2>1, SetDisk
<1>11. r.p.subParser = NoParser /\ r.p.boundary = p.boundary
  <2>1. p \in ParserOf({FALSE}, SubsOf(FALSE))
    BY DEF Proper
  <2> QED
    BY <1>p, <2>1 DEF ParserOf
<1> QED
  BY <1>b, <1>9, <1>10, <1>11 DEF Found, Going, Ready, r

\* What is certainly content of a nested form is passed on.
LEMMA NestedPasses ==
    ASSUME NEW S, NEW L, Well(FALSE, S, L), NEW i \in 1..L.parts, IsNested(S, L, i),
           NEW p, NEW w, Proper(FALSE, p, w), NEW g, NEW c \in 0..g,
           IsAt(S, NameOf(FALSE), L, p, i, c, g), Has(FALSE, S, L, p, w, i, c),
           p.state = "content", g < L.at[i] + 3
    PROVE  LET r == PassOn(p, w)
           IN  Going(r.w) /\ Traces(FALSE, S, L, r.p, r.w, g)
<1> DEFINE q == p.subParser[1]
           h == AppendNested(q, w, Sure(p))
           r == PassOn(p, w)
<1>0. i \in 0..L.parts /\ L.kind[i] = "nested" /\ FALSE \in BOOLEAN
  <2>1. L.parts \in Nat
    BY DEF Well, IsOutline, LaidOut
  <2> QED
    BY <2>1 DEF IsNested
<1>1. /\ p.subParser # NoParser /\ Proper(TRUE, q, w)
      /\ FollowsNested(InnerBytes(S, L, i), L.nested[i], q, w, InPart(L, i, c))
  BY <1>0, NestedParser
<1>2. Going(w) /\ p \in ParserOf({FALSE}, SubsOf(FALSE))
  BY DEF Proper
<1>3. CASE Len(p.data) <= Margin(p)
  <2>1. r.p = p /\ r.w = w
    BY <1>1, <1>3 DEF PassOn
  <2> HIDE DEF r
  <2>2. Traces(FALSE, S, L, p, w, g)
    BY <1>0 DEF Traces
  <2> QED
    BY <1>2, <2>1, <2>2 DEF r
<1>4. CASE ~(Len(p.data) <= Margin(p))
  <2>0. Len(p.data) > Margin(p)
    <3>1. p.data \in Content /\ p.boundary \in Content
      BY <1>2 DEF ParserOf
    <3>2. Len(p.data) \in Nat /\ Margin(p) \in Nat
      BY <3>1 DEF Content, Margin
    <3> QED
      BY <1>4, <3>2
  <2>1. /\ Rest(p) \in ParserOf({FALSE}, SubsOf(FALSE))
        /\ Rest(p).boundary = p.boundary /\ Rest(p).subParser = p.subParser
        /\ Rest(p).tmpPath = p.tmpPath /\ Rest(p).state = "content"
        /\ \E x \in 0..g :
               /\ x \in Nat /\ x <= Len(S) /\ c \in Nat /\ c <= x
               /\ Sure(p) = SubSeq(S, c + 1, x)
               /\ IsAt(S, NameOf(FALSE), L, Rest(p), i, x, g)
               /\ PartStart(L, i) <= c /\ x <= L.at[i]
    BY <1>0, <1>2, <2>0, SureIs
  <2>2. PICK x \in 0..g :
               /\ x \in Nat /\ x <= Len(S) /\ c \in Nat /\ c <= x
               /\ Sure(p) = SubSeq(S, c + 1, x)
               /\ IsAt(S, NameOf(FALSE), L, Rest(p), i, x, g)
               /\ PartStart(L, i) <= c /\ x <= L.at[i]
    BY <2>1
  <2>3. Within(L, i, c, x) /\ IsCut(Sure(p), S, c, x)
    BY <2>2 DEF Within, IsCut
  <2> HIDE DEF q
  <2>4. /\ Proper(TRUE, h.p, h.w)
        /\ FollowsNested(InnerBytes(S, L, i), L.nested[i], h.p, h.w, InPart(L, i, x))
    BY <1>1, <2>3, NestedAdds
  <2>5. r.p = [(IF h.w.success THEN Rest(p) ELSE p) EXCEPT !.subParser = <<h.p>>] /\ r.w = h.w
    BY <1>1, <1>4 DEF PassOn, q
  <2> HIDE DEF h, r
  <2>6. Going(h.w) /\ h.w.success
    BY <2>4 DEF Proper, Going
  <2> DEFINE rest == Rest(p)
  <2>7. r.p = [rest EXCEPT !.subParser = <<h.p>>]
    BY <2>5, <2>6
  <2>8. rest \in ParserOf({FALSE}, SubsOf(FALSE)) /\ rest.state = "content"
        /\ IsAt(S, NameOf(FALSE), L, rest, i, x, g)
    BY <2>1, <2>2
  <2> HIDE DEF rest
  <2>9. /\ r.p.boundary = rest.boundary /\ r.p.state = rest.state /\ r.p.data = rest.data
        /\ r.p.subParser = <<h.p>>
    <3> DEFINE t == <<h.p>>
    <3>1. r.p = [rest EXCEPT !.subParser = t]
      BY <2>7
    <3> HIDE DEF t
    <3>2. /\ r.p.boundary = rest.boundary /\ r.p.state = rest.state /\ r.p.data = rest.data
          /\ r.p.subParser = t
      BY <2>8, <3>1 DEF ParserOf
    <3> QED
      BY <3>2 DEF t
  <2>10. IsAt(S, NameOf(FALSE), L, r.p, i, x, g)
    BY <2>8, <2>9 DEF IsAt
  <2>11. r.p.subParser # NoParser /\ r.p.subParser[1] = h.p
    BY <2>9 DEF NoParser
  <2>12. Has(FALSE, S, L, r.p, r.w, i, x)
    BY <1>0, <2>4, <2>5, <2>8, <2>9, <2>11 DEF Has, HasPart, InPart
  <2>13. Traces(FALSE, S, L, r.p, r.w, g)
    BY <1>0, <2>10, <2>12 DEF Traces
  <2> QED
    BY <2>5, <2>6, <2>13 DEF r
<1> QED
  BY <1>3, <1>4

\* A part at its boundary.
LEMMA PartEnded ==
    ASSUME NEW S, NEW L, Well(FALSE, S, L), NEW p, NEW w, Proper(FALSE, p, w), NEW g,
           NEW i \in 0..L.parts, NEW c \in 0..g,
           IsAt(S, NameOf(FALSE), L, p, i, c, g), Has(FALSE, S, L, p, w, i, c),
           p.state = "content", There(L, i, g)
    PROVE  LET r == EndPart(p, w, RangeOf(p.boundary, p.data))
           IN  /\ Found(L, r.w, i) /\ Going(r.w)
               /\ r.p \in ParserOf({FALSE}, SubsOf(FALSE))
               /\ Ready(r.p, p)
<1> DEFINE place == RangeOf(p.boundary, p.data)
           r == EndPart(p, w, place)
<1>1. IsOutline(S, NameOf(FALSE), L) /\ FALSE \in BOOLEAN
  BY DEF Well
<1>2. /\ place = PlaceOf(L, i, c)
      /\ i \in 1..L.parts /\ PlaceOf(L, i, c) <= Len(p.data) /\ PlaceOf(L, i, c) \in Int
  BY <1>1, PlaceIs
<1>3. IsOwn(S, L, i, FileKinds(FALSE)) \/ IsNested(S, L, i)
  BY <1>2 DEF Well
<1>4. CASE IsOwn(S, L, i, FileKinds(FALSE))
  <2> DEFINE own == EndOwn(p, w, place)
  <2>1. HasOwn(S, L, p, w, i, c)
    <3>1. L.parts \in Nat
      BY <1>1 DEF IsOutline, LaidOut
    <3> QED
      BY <1>1, <1>4, <3>1, OwnHas
  <2>2. r = own
    BY <2>1 DEF EndPart, HasOwn
  <2>3. /\ Found(L, own.w, i) /\ Going(own.w)
        /\ own.p \in ParserOf({FALSE}, SubsOf(FALSE))
        /\ Ready(own.p, p)
    BY <1>1, <1>4, <2>1, OwnEnded
  <2> HIDE DEF own, r
  <2> QED
    BY <2>2, <2>3 DEF r
<1>5. CASE IsNested(S, L, i)
  <2> HIDE DEF place
  <2>1. /\ Found(L, r.w, i) /\ Going(r.w)
        /\ Ready(r.p, p)
    BY <1>2, <1>5, NestedEnds
  <2>2. Good(r, {FALSE}, Subs, w, FALSE)
    <3>1. p \in Outer /\ IsWorld(w) /\ Keeps(p, w, FALSE)
      BY DEF Proper, Going, Outer, SubsOf, Subs
    <3> QED
      BY <1>1, <1>2, <3>1, EndPartKeeps
  <2> HIDE DEF r
  <2>3. r.p \in ParserOf({FALSE}, SubsOf(FALSE))
    BY <2>2 DEF Good, SubsOf
  <2> QED
    BY <2>1, <2>3 DEF r, place
<1> QED
  BY <1>3, <1>4, <1>5

\* A part whose boundary is still to come.
LEMMA PartPassed ==
    ASSUME NEW S, NEW L, Well(FALSE, S, L), NEW p, NEW w, Proper(FALSE, p, w), NEW g,
           NEW i \in 0..L.parts, NEW c \in 0..g,
           IsAt(S, NameOf(FALSE), L, p, i, c, g), Has(FALSE, S, L, p, w, i, c),
           p.state \in {"start", "content"}, g < L.at[i] + 3
    PROVE  LET r == PassOn(p, w)
           IN  Going(r.w) /\ Traces(FALSE, S, L, r.p, r.w, g)
<1> DEFINE r == PassOn(p, w)
           own == PassOwn(p, w)
<1>0. L.parts \in Nat /\ FALSE \in BOOLEAN
  BY DEF Well, IsOutline, LaidOut
<1>1. p.state = "content" => i \in 1..L.parts
  BY <1>0 DEF IsAt
<1>2. CASE p.state = "content" /\ IsNested(S, L, i)
  BY <1>1, <1>2, NestedPasses
<1>3. CASE ~(p.state = "content" /\ IsNested(S, L, i))
  <2>1. i \in 1..L.parts => IsOwn(S, L, i, FileKinds(FALSE))
    <3>1. p.state = "start" => i = 0
      BY DEF IsAt
    <3>2. p.state = "content" /\ i \in 1..L.parts => IsOwn(S, L, i, FileKinds(FALSE))
      BY <1>3 DEF Well
    <3>3. i \in 1..L.parts => i # 0
      BY <1>0
    <3>4. p.state = "start" \/ p.state = "content"
      OBVIOUS
    <3> HIDE DEF r, own
    <3> QED
      BY <3>1, <3>2, <3>3, <3>4, Zenon
  <2>2. HasOwn(S, L, p, w, i, c)
    BY <1>0, <2>1, OwnHas
  <2>3. r = own
    BY <2>2 DEF PassOn, HasOwn
  <2>4. /\ Going(own.w)
        /\ \E y \in 0..g : IsAt(S, NameOf(FALSE), L, own.p, i, y, g)
                           /\ HasOwn(S, L, own.p, own.w, i, y)
    BY <1>0, <2>2, OwnPasses
  <2> HIDE DEF own, r
  <2>5. PICK y \in 0..g : IsAt(S, NameOf(FALSE), L, own.p, i, y, g)
                          /\ HasOwn(S, L, own.p, own.w, i, y)
    BY <2>4
  <2>6. Has(FALSE, S, L, own.p, own.w, i, y)
    BY <1>0, <2>1, <2>5, OwnHas
  <2>7. Traces(FALSE, S, L, own.p, own.w, g)
    BY <2>5, <2>6 DEF Traces
  <2> QED
    BY <2>3, <2>4, <2>7 DEF r
<1> QED
  BY <1>2, <1>3

\* One call of the parser of a form behind the headers.
LEMMA PartTurns ==
    ASSUME NEW S, NEW L, Well(FALSE, S, L), NEW p, NEW w, Proper(FALSE, p, w), NEW g,
           NEW i \in 0..L.parts, NEW c \in 0..g,
           IsAt(S, NameOf(FALSE), L, p, i, c, g), Has(FALSE, S, L, p, w, i, c),
           p.state = "headers" => i # 0 /\ g < L.at[i - 1] + 10
    PROVE  LET r == Turn(p, w, EndPart(p, w, RangeOf(p.boundary, p.data)), PassOn(p, w))
           IN  /\ Going(r.w) /\ Traces(FALSE, S, L, r.p, r.w, g)
               /\ r.again \/ Through(L, r.p, g)
<1> DEFINE ended == EndPart(p, w, RangeOf(p.boundary, p.data))
           passed == PassOn(p, w)
<1>0. FALSE \in BOOLEAN
  OBVIOUS
<1>3. p.state = "content" /\ L.at[i] + 3 <= g =>
          /\ Found(L, ended.w, i) /\ Going(ended.w)
          /\ ended.p \in ParserOf({FALSE}, SubsOf(FALSE))
          /\ ended.p.subParser = NoParser /\ ended.p.boundary = p.boundary
  <2>1. p.state = "content" /\ There(L, i, g) =>
          /\ Found(L, ended.w, i) /\ Going(ended.w)
          /\ ended.p \in ParserOf({FALSE}, SubsOf(FALSE))
          /\ Ready(ended.p, p)
    BY PartEnded
  <2> HIDE DEF ended
  <2> QED
    BY <2>1 DEF There, Ready
<1>4. p.state \in {"start", "content"} /\ g < L.at[i] + 3 =>
          Going(passed.w) /\ Traces(FALSE, S, L, passed.p, passed.w, g)
  BY PartPassed
<1> HIDE DEF ended, passed
<1>5. LET r == Turn(p, w, ended, passed)
      IN  /\ Going(r.w) /\ Traces(FALSE, S, L, r.p, r.w, g)
          /\ r.again \/ Through(L, r.p, g)
  BY <1>0, <1>3, <1>4, TurnFollows
<1> QED
  BY <1>5 DEF ended, passed

\* One call of the parser of a form.
LEMMA TurnOuterFollows ==
    ASSUME NEW S, NEW L, Well(FALSE, S, L), NEW p, NEW w, Proper(FALSE, p, w), NEW g,
           Traces(FALSE, S, L, p, w, g)
    PROVE  LET r == TurnOuter(p, w)
           IN  /\ Proper(FALSE, r.p, r.w) /\ Traces(FALSE, S, L, r.p, r.w, g)
               /\ r.again \in BOOLEAN /\ (r.again => Len(r.p.data) < Len(p.data))
               /\ r.again \/ Through(L, r.p, g)
<1> DEFINE h == ParseHeaders(p, w)
           q == h.p
           v == h.w
           r == Turn(q, v, EndPart(q, v, RangeOf(q.boundary, q.data)), PassOn(q, v))
<1>0. TurnOuter(p, w) = r /\ FALSE \in BOOLEAN
  BY DEF TurnOuter
<1>1. PICK i \in 0..L.parts, c \in 0..g :
          IsAt(S, NameOf(FALSE), L, p, i, c, g) /\ Has(FALSE, S, L, p, w, i, c)
  BY DEF Traces
<1>2. /\ Proper(FALSE, q, v)
      /\ \E x \in 0..g : IsAt(S, NameOf(FALSE), L, q, i, x, g) /\ Has(FALSE, S, L, q, v, i, x)
      /\ q.state = "headers" => i # 0 /\ g < L.at[i - 1] + 10
  BY <1>0, <1>1, HeadersFollow
<1> HIDE DEF h, q, v
<1>3. PICK x \in 0..g : IsAt(S, NameOf(FALSE), L, q, i, x, g) /\ Has(FALSE, S, L, q, v, i, x)
  BY <1>2
<1>4. /\ Going(r.w) /\ Traces(FALSE, S, L, r.p, r.w, g)
      /\ r.again \/ Through(L, r.p, g)
  BY <1>2, <1>3, PartTurns
<1> HIDE DEF r
<1> DEFINE t == TurnOuter(p, w)
<1>5. /\ Good(t, {FALSE}, Subs, w, FALSE) /\ t.again \in BOOLEAN
      /\ t.again => Len(t.p.data) < Len(p.data)
  <2>1. p \in Outer /\ IsWorld(w) /\ Keeps(p, w, FALSE)
    BY DEF Proper, Outer, SubsOf, Subs, Going
  <2> QED
    BY <1>0, <2>1, TurnOuterKeeps
<1>6. t = r
  BY <1>0
<1> HIDE DEF t
<1>7. Proper(FALSE, t.p, t.w)
  BY <1>4, <1>5, <1>6 DEF Proper, Good, SubsOf
<1> QED
  BY <1>4, <1>5, <1>6, <1>7 DEF t

\* All the calls of the parser of a form.
LEMMA ParseOuterFollows ==
    ASSUME NEW S, NEW L, Well(FALSE, S, L), NEW p, NEW w, Proper(FALSE, p, w), NEW g,
           Traces(FALSE, S, L, p, w, g)
    PROVE  LET r == ParseOuter(p, w)
           IN  /\ Proper(FALSE, r.p, r.w) /\ Traces(FALSE, S, L, r.p, r.w, g)
               /\ Through(L, r.p, g)
<1> DEFINE n == Len(p.data) + 1
           Is(f) == f = [i \in 0..n |->
                            IF i = 0 THEN [p |-> p, w |-> w, again |-> TRUE]
                            ELSE IF f[i - 1].again THEN TurnOuter(f[i - 1].p, f[i - 1].w)
                            ELSE f[i - 1]]
           turns == CHOOSE f : Is(f)
<1>1. ParseOuter(p, w) = turns[n]
  BY DEF ParseOuter
<1>2. \A f : Is(f) <=> IsRun(f, FALSE, p, w, n)
  BY DEF IsRun, Step
<1>3. n \in Nat /\ n = Len(p.data) + 1
  <2>1. p \in ParserOf({FALSE}, SubsOf(FALSE))
    BY DEF Proper
  <2>2. p.data \in Content
    BY <2>1 DEF ParserOf
  <2> QED
    BY <2>2 DEF Content
<1> HIDE DEF n
<1>4. \E f : IsRun(f, FALSE, p, w, n)
  BY <1>3, RunExists
<1> HIDE DEF Is
<1>5. IsRun(turns, FALSE, p, w, n)
  BY <1>2, <1>4
<1> HIDE DEF turns
<1>6. FALSE \in BOOLEAN
  OBVIOUS
<1>7. \A q, v : Step(FALSE, q, v) = TurnOuter(q, v)
  BY DEF Step
<1>8. StepsFollow(FALSE, S, L, g)
  BY <1>7, TurnOuterFollows DEF StepsFollow
<1> DEFINE t == turns[n]
<1>9. Proper(FALSE, t.p, t.w) /\ Traces(FALSE, S, L, t.p, t.w, g) /\ Through(L, t.p, g)
  BY <1>3, <1>5, <1>6, <1>8, RunFollows
<1> QED
  BY <1>1, <1>9

-----------------------------------------------------------------------------
(* Whatever a form is: what a parser has not taken is the last of what it   *)
(* was given, and it comes to its end at an end of the form.                *)

IsLast(S, d, g) == \E c \in 0..g : d = SubSeq(S, c + 1, g)

Ends(S) == \E i \in 0..Len(S) : StartsWith(After(S, i), Boundary("b") \o Dashes \o CRLF)

LEMMA LastIsContent ==
    ASSUME NEW S \in Content, NEW g \in 0..Len(S), NEW d, IsLast(S, d, g)
    PROVE  d \in Content
<1>1. PICK c \in 0..g : d = SubSeq(S, c + 1, g)
  BY DEF IsLast
<1>2. Len(S) \in Nat
  BY DEF Content
<1>3. c \in Nat /\ g \in Nat /\ c <= g /\ g <= Len(S)
  BY <1>2
<1> QED
  BY <1>1, <1>3, Piece

\* The last bytes without the first of them.
LEMMA LastChopped ==
    ASSUME NEW S \in Content, NEW g \in 0..Len(S), NEW d, IsLast(S, d, g), NEW n \in 0..Len(d)
    PROVE  IsLast(S, After(d, n), g)
<1>1. PICK c \in 0..g : d = SubSeq(S, c + 1, g)
  BY DEF IsLast
<1>2. Len(S) \in Nat
  BY DEF Content
<1>3. c \in Nat /\ g \in Nat /\ c <= g /\ g <= Len(S)
  BY <1>2
<1>4. Len(d) = g - c
  BY <1>1, <1>3, Piece
<1>5. n \in 0..(g - c)
  BY <1>4
<1>6. After(d, n) = SubSeq(S, c + n + 1, g)
  BY <1>1, <1>3, <1>5, CutFront
<1>7. c + n \in 0..g
  BY <1>3, <1>5
<1> DEFINE x == c + n
<1>8. After(d, n) = SubSeq(S, x + 1, g) /\ x \in 0..g
  BY <1>6, <1>7
<1> HIDE DEF x
<1> QED
  BY <1>8 DEF IsLast

\* The last bytes with those that come next.
LEMMA LastGrows ==
    ASSUME NEW S \in Content, NEW g \in 0..Len(S), NEW d, IsLast(S, d, g),
           NEW h \in Nat, g <= h, h <= Len(S)
    PROVE  IsLast(S, d \o SubSeq(S, g + 1, h), h)
<1>1. PICK c \in 0..g : d = SubSeq(S, c + 1, g)
  BY DEF IsLast
<1>2. Len(S) \in Nat
  BY DEF Content
<1>3. c \in Nat /\ g \in Nat /\ c <= g /\ g <= Len(S) /\ c \in 0..h
  BY <1>2
<1>4. d \o SubSeq(S, g + 1, h) = SubSeq(S, c + 1, h)
  BY <1>1, <1>3, JoinPieces
<1> QED
  BY <1>3, <1>4 DEF IsLast

\* It makes no difference which of three pieces are put together first.
LEMMA PutTogether ==
    ASSUME NEW s \in Seq(Bytes), NEW t \in Seq(Bytes), NEW u \in Seq(Bytes)
    PROVE  s \o t \o u = s \o (t \o u)
<1> DEFINE l == s \o t
           r == t \o u
           left == l \o u
           right == s \o r
<1>1. l \in Seq(Bytes) /\ r \in Seq(Bytes) /\ left \in Seq(Bytes) /\ right \in Seq(Bytes)
  BY Joined
<1>2. Len(left) = Len(right) /\ \A k \in 1..Len(left) : left[k] = right[k]
  OBVIOUS
<1> HIDE DEF left, right
<1> QED
  BY <1>1, <1>2, SamePieces DEF Content, left, right

\* A final boundary is one in the form.
LEMMA EndFound ==
    ASSUME NEW S \in Content, NEW g \in 0..Len(S), NEW d, IsLast(S, d, g), NEW place,
           place = RangeOf(Boundary("b"), d), place # -1,
           StartsWith(After(d, place + Len(Boundary("b"))), Dashes \o CRLF)
    PROVE  Ends(S)
<1> DEFINE b == Boundary("b")
           t == Dashes \o CRLF
<1>1. PICK c \in 0..g : d = SubSeq(S, c + 1, g)
  BY DEF IsLast
<1>2. Len(S) \in Nat
  BY DEF Content
<1>3. c \in Nat /\ g \in Nat /\ c <= g /\ g <= Len(S)
  BY <1>2
<1>4. d \in Content /\ Len(d) = g - c
  BY <1>1, <1>3, Piece
<1>5. b \in Content /\ Len(b) = 3 /\ t \in Content /\ Len(t) = 4
  BY Marks
<1>a. b \o Dashes \o CRLF = b \o t
  <2>1. Dashes \in Content /\ CRLF \in Content
    BY DEF Dashes, CRLF, Content, Bytes
  <2> HIDE DEF b
  <2> QED
    BY <1>5, <2>1, PutTogether DEF Content
<1> HIDE DEF b, t
<1>6. place \in 0..(Len(d) - Len(b)) /\ OccursAt(b, d, place)
  BY <1>4, <1>5, RangeIs DEF b
<1> DEFINE a == c + place
           k == place + 3
<1>7. /\ place \in Nat /\ place + 3 <= g - c /\ a \in Nat /\ a + 3 <= g /\ k \in 0..(g - c)
      /\ c + k = a + 3
  BY <1>3, <1>4, <1>5, <1>6
<1>8. After(d, k) = SubSeq(S, c + k + 1, g)
  <2>1. S \in Content /\ c \in Nat /\ g \in Nat /\ c <= g /\ g <= Len(S) /\ k \in 0..(g - c)
    BY <1>3, <1>7
  <2> HIDE DEF k
  <2>2. After(SubSeq(S, c + 1, g), k) = SubSeq(S, c + k + 1, g)
    BY <2>1, CutFront
  <2> QED
    BY <1>1, <2>2
<1>9. StartsWith(SubSeq(S, c + k + 1, g), t)
  BY <1>5, <1>8 DEF t, b
<1> HIDE DEF a, k
<1>10. c + k + 1 = a + 3 + 1
  BY <1>7
<1> DEFINE e == a + 3
<1>11. e \in Nat /\ e <= g /\ StartsWith(SubSeq(S, e + 1, g), t)
  BY <1>7, <1>9, <1>10
<1>e. e = a + 3
  OBVIOUS
<1> HIDE DEF e
<1>12. e + 4 <= g /\ OccursAt(t, S, e)
  BY <1>3, <1>5, <1>11, StartOfPiece
<1>13. OccursAt(b, S, a)
  <2>1. place + Len(b) <= g - c
    BY <1>5, <1>7
  <2>2. OccursAt(b, SubSeq(S, c + 1, g), place) <=> OccursAt(b, S, c + place)
    BY <1>3, <1>5, <1>7, <2>1, OccursInPiece
  <2> QED
    BY <1>1, <1>6, <2>2 DEF a
<1>14. SubSeq(S, a + 1, e) = b
  <2>1. a + Len(b) <= Len(S) /\ a + Len(b) = e
    BY <1>2, <1>3, <1>5, <1>7, <1>e
  <2> QED
    BY <1>5, <1>7, <1>13, <2>1, OccursIs
<1> DEFINE f == e + 4
<1>15. SubSeq(S, e + 1, f) = t
  <2>1. e + Len(t) <= Len(S) /\ e + Len(t) = f
    BY <1>2, <1>3, <1>5, <1>11, <1>12
  <2> HIDE DEF f
  <2> QED
    BY <1>5, <1>11, <1>12, <2>1, OccursIs
<1>16. f \in Nat /\ a <= e /\ e <= f /\ f <= Len(S) /\ f = a + 7
  BY <1>2, <1>3, <1>7, <1>11, <1>12, <1>e
<1> HIDE DEF f
<1>17. SubSeq(S, a + 1, f) = b \o t
  <2>1. SubSeq(S, a + 1, e) \o SubSeq(S, e + 1, f) = SubSeq(S, a + 1, f)
    <3>1. a \in Nat /\ e \in Nat /\ f \in Nat /\ a <= e /\ e <= f /\ f <= Len(S)
      BY <1>7, <1>11, <1>16
    <3> QED
      BY <3>1, JoinPieces
  <2> QED
    BY <1>14, <1>15, <2>1
<1>18. b \o t \in Content /\ Len(b \o t) = 7
  <2>1. SubSeq(S, a + 1, f) \in Content /\ Len(SubSeq(S, a + 1, f)) = f - a
    BY <1>7, <1>11, <1>16, Piece
  <2>2. f - a = 7
    BY <1>7, <1>16
  <2> QED
    BY <1>17, <2>1, <2>2
<1> DEFINE x == b \o t
<1>19. x \in Content /\ Len(x) = 7 /\ SubSeq(S, a + 1, f) = x
  BY <1>17, <1>18
<1> HIDE DEF x
<1>20. OccursAt(x, S, a) /\ a + Len(x) <= Len(S)
  <2>1. a + Len(x) <= Len(S) /\ a + Len(x) = f
    BY <1>2, <1>16, <1>19
  <2> QED
    BY <1>7, <1>19, <2>1, OccursIs
<1>21. a <= Len(S) /\ a \in 0..Len(S)
  BY <1>2, <1>3, <1>7
<1>22. StartsWith(After(S, a), x)
  <2>1. Len(S) <= Len(S)
    BY <1>2
  <2> QED
    BY <1>2, <1>7, <1>19, <1>20, <1>21, <2>1, StartOfPiece
<1>23. StartsWith(After(S, a), b \o Dashes \o CRLF)
  BY <1>a, <1>22 DEF x
<1> QED
  BY <1>21, <1>23 DEF Ends, b

\* What is left of a parser's data.
Left(q, p) == q.data = p.data \/ \E n \in 0..Len(p.data) : q.data = After(p.data, n)

LEMMA LeftLast ==
    ASSUME NEW S \in Content, NEW g \in 0..Len(S), NEW p, NEW q, IsLast(S, p.data, g), Left(q, p)
    PROVE  IsLast(S, q.data, g)
BY LastChopped DEF Left

\* What the operations of a parser leave of its data.
LEMMA HeadersLeave ==
    ASSUME NEW p \in Outer, NEW w
    PROVE  LET q == ParseHeaders(p, w).p
           IN  /\ q.boundary = p.boundary /\ Left(q, p)
               /\ q.state = IF q = p THEN p.state ELSE "content"
<1> DEFINE end  == RangeOf(CRLF \o CRLF, p.data)
           next == [p EXCEPT !.state = "content", !.tmpPath = Nil,
                             !.subParser = NoParser, !.data = After(@, end + 4)]
           kind == IF end = 0 THEN "unnamed" ELSE p.data[end]
           q == ParseHeaders(p, w).p
<1>0. p \in ParserOf({FALSE}, Subs) /\ p.data \in Content /\ Len(p.data) \in Nat
  <2>1. p \in ParserOf({FALSE}, Subs)
    BY DEF Outer, Subs
  <2> HIDE DEF Subs
  <2>2. p.data \in Content
    BY <2>1 DEF ParserOf
  <2> QED
    BY <2>1, <2>2 DEF Content
<1>1. CASE p.state # "headers" \/ end = -1
  <2>1. q = p
    BY <1>1 DEF ParseHeaders
  <2> HIDE DEF q
  <2> QED
    BY <2>1 DEF Left, q
<1>2. CASE ~(p.state # "headers" \/ end = -1)
  <2>1. q = StartPart(next, w, kind).p
    BY <1>2 DEF ParseHeaders
  <2>2. end + 4 \in 0..Len(p.data)
    <3>1. CRLF \o CRLF \in Content /\ Len(CRLF \o CRLF) = 4
      BY LineEnds
    <3>2. end \in 0..(Len(p.data) - 4)
      BY <1>0, <1>2, <3>1, Place
    <3> HIDE DEF end
    <3> QED
      BY <1>0, <3>2
  <2> HIDE DEF q, kind
  <2> DEFINE n == end + 4
             d == After(p.data, n)
  <2>3. next = [p EXCEPT !.state = "content", !.tmpPath = Nil, !.subParser = NoParser, !.data = d]
    OBVIOUS
  <2>4. n \in 0..Len(p.data)
    BY <2>2
  <2> HIDE DEF next, n, end
  <2>5. d \in Content
    <3>1. n \in Int /\ n >= 0
      BY <1>0, <2>4
    <3> QED
      BY <1>0, <3>1, Cuts
  <2>6. Left([data |-> d], p)
    BY <2>4 DEF Left
  <2> HIDE DEF d
  <2>7. /\ next \in ParserOf({FALSE}, Subs) /\ next.data = d /\ next.state = "content"
        /\ next.boundary = p.boundary
    <3>1. NoParser \in Subs
      BY DEF Subs
    <3> HIDE DEF Subs
    <3> QED
      BY <1>0, <2>3, <2>5, <3>1 DEF ParserOf, Nil
  <2>8. q.data = next.data /\ q.state = next.state /\ q.boundary = next.boundary
    <3> DEFINE t == w.opened + 1
               sub == <<NewParser("c", TRUE)>>
    <3>1. \/ q = next
          \/ q = [next EXCEPT !.subParser = sub]
          \/ q = [next EXCEPT !.tmpFile = Nil]
          \/ q = [next EXCEPT !.tmpFile = t, !.tmpPath = t]
      BY <2>1 DEF StartPart
    <3> HIDE DEF t, sub, Subs
    <3> QED
      BY <2>7, <3>1 DEF ParserOf
  <2>9. q # p
    BY <1>2, <2>7, <2>8
  <2>10. Left(q, p)
    BY <2>6, <2>7, <2>8 DEF Left
  <2> QED
    BY <2>7, <2>8, <2>9, <2>10 DEF q
<1> QED
  BY <1>1, <1>2

LEMMA EndLeaves ==
    ASSUME NEW p \in Outer, NEW w, NEW place
    PROVE  EndPart(p, w, place).p.boundary = p.boundary
<1> DEFINE q == EndPart(p, w, place).p
<1>1. p \in ParserOf({FALSE}, Subs)
  BY DEF Outer, Subs
<1>2. \/ q = p
      \/ q = [p EXCEPT !.tmpPath = Nil]
      \/ q = [p EXCEPT !.tmpFile = Nil, !.tmpPath = Nil]
      \/ q = [p EXCEPT !.subParser = NoParser]
  BY DEF EndPart, EndOwn
<1> HIDE DEF q, Subs
<1>3. q.boundary = p.boundary
  BY <1>1, <1>2 DEF ParserOf
<1> QED
  BY <1>3 DEF q

LEMMA PassLeaves ==
    ASSUME NEW p \in Outer, NEW w
    PROVE  LET q == PassOn(p, w).p
           IN  q.boundary = p.boundary /\ q.state = p.state /\ Left(q, p)
<1> DEFINE q == PassOn(p, w).p
           n == Len(p.data) - Margin(p)
           d == After(p.data, n)
           rest == Rest(p)
           h == AppendNested(p.subParser[1], w, Sure(p))
           sub == <<h.p>>
<1>1. /\ p \in ParserOf({FALSE}, Subs) /\ p.data \in Content /\ Len(p.data) \in Nat
      /\ Margin(p) \in Nat
  <2>1. p \in ParserOf({FALSE}, Subs)
    BY DEF Outer, Subs
  <2> HIDE DEF Subs
  <2>2. p.data \in Content /\ p.boundary \in Content
    BY <2>1 DEF ParserOf
  <2>3. Len(p.data) \in Nat /\ Len(p.boundary) \in Nat
    BY <2>2 DEF Content
  <2> QED
    BY <2>1, <2>2, <2>3 DEF Margin
<1>2. CASE Len(p.data) <= Margin(p)
  <2>1. q = p
    BY <1>2 DEF PassOn, PassOwn
  <2> HIDE DEF q
  <2> QED
    BY <2>1 DEF Left, q
<1>3. CASE ~(Len(p.data) <= Margin(p))
  <2>1. n \in 0..Len(p.data)
    BY <1>1, <1>3
  <2>2. rest = [p EXCEPT !.data = d]
    BY DEF Rest
  <2>3. \/ q = p \/ q = rest
        \/ q = [p EXCEPT !.subParser = sub] \/ q = [rest EXCEPT !.subParser = sub]
    BY <1>3 DEF PassOn, PassOwn
  <2>4. d \in Content
    <3>1. n \in Int /\ n >= 0
      BY <1>1, <2>1
    <3> HIDE DEF n
    <3> QED
      BY <1>1, <3>1, Cuts
  <2>5. \E k \in 0..Len(p.data) : d = After(p.data, k)
    <3> HIDE DEF n
    <3> QED
      BY <2>1
  <2> HIDE DEF q, rest, d, h, sub, Subs
  <2>6. /\ rest \in ParserOf({FALSE}, Subs) /\ rest.data = d
        /\ rest.boundary = p.boundary /\ rest.state = p.state
    BY <1>1, <2>2, <2>4 DEF ParserOf
  <2>7. /\ q.boundary = p.boundary /\ q.state = p.state
        /\ q.data = p.data \/ q.data = d
    BY <1>1, <2>3, <2>6 DEF ParserOf
  <2> QED
    BY <2>5, <2>7 DEF Left, q
<1> QED
  BY <1>2, <1>3

LEMMA SuffixedIs ==
    ASSUME NEW S, NEW p, NEW g
    PROVE  Suffixed(S, p, g) <=> IF p.state = "end" THEN Ends(S)
                                 ELSE p.boundary = Boundary("b") /\ IsLast(S, p.data, g)
BY DEF Suffixed, Ends, IsLast

\* One call of a parser takes from the front of its data.
LEMMA TurnLeaves ==
    ASSUME NEW S \in Content, NEW g \in 0..Len(S), NEW p \in Outer, NEW w, Suffixed(S, p, g),
           NEW ended, ended.p \in ParserOf({FALSE}, Subs), ended.p.boundary = p.boundary,
           NEW passed, passed.p.boundary = p.boundary, passed.p.state = p.state, Left(passed.p, p)
    PROVE  Suffixed(S, Turn(p, w, ended, passed).p, g)
<1> DEFINE r == Turn(p, w, ended, passed)
           q == r.p
           place == RangeOf(p.boundary, p.data)
           tail  == After(p.data, place + Len(p.boundary))
           kept  == IF p.state = "content" THEN ended ELSE [p |-> p, w |-> w]
           k == kept.p
           d == After(tail, 2)
<1>0. p \in ParserOf({FALSE}, Subs)
  BY DEF Outer, Subs
<1>a. k \in ParserOf({FALSE}, Subs) /\ k.boundary = p.boundary
  BY <1>0
<1>b. \/ p.state \notin {"start", "content"} /\ q = p
      \/ p.state \in {"start", "content"} /\ place = -1 /\ q = passed.p
      \/ /\ p.state \in {"start", "content"} /\ place # -1 /\ StartsWith(tail, CRLF)
         /\ q = [k EXCEPT !.state = "headers", !.data = d]
      \/ /\ p.state \in {"start", "content"} /\ place # -1 /\ StartsWith(tail, Dashes \o CRLF)
         /\ q = [k EXCEPT !.state = "end"]
      \/ q = p
  BY DEF Turn
<1> HIDE DEF kept, r, q, Subs
<1>1. CASE q = p
  BY <1>1 DEF q, r
<1>2. CASE p.state \in {"start", "content"}
  <2>1. p.boundary = Boundary("b") /\ IsLast(S, p.data, g)
    BY <1>2, SuffixedIs
  <2>2. p.data \in Content
    BY <2>1, LastIsContent
  <2>3. CASE place = -1 /\ q = passed.p
    <3>1. IsLast(S, q.data, g)
      BY <2>1, <2>3, LeftLast
    <3>2. q.state # "end" /\ q.boundary = Boundary("b")
      BY <1>2, <2>1, <2>3
    <3> QED
      BY <3>1, <3>2, SuffixedIs DEF q, r
  <2>4. CASE /\ place # -1 /\ StartsWith(tail, CRLF)
             /\ q = [k EXCEPT !.state = "headers", !.data = d]
    <3>1. Len(p.boundary) = 3 /\ p.boundary \in Content /\ CRLF \in Content /\ Len(CRLF) = 2
      BY <2>1, Marks, LineEnds
    <3>2. place \in 0..(Len(p.data) - 3)
      BY <2>2, <2>4, <3>1, Place
    <3>3. Len(p.data) \in Nat
      BY <2>2 DEF Content
    <3>4. place + Len(p.boundary) \in 0..Len(p.data)
      <4> HIDE DEF place
      <4> QED
        BY <3>1, <3>2, <3>3
    <3>5. IsLast(S, tail, g)
      <4> DEFINE n == place + Len(p.boundary)
      <4>1. n \in 0..Len(p.data)
        BY <3>4
      <4> HIDE DEF n
      <4>2. IsLast(S, After(p.data, n), g)
        BY <2>1, <4>1, LastChopped
      <4> QED
        BY <4>2 DEF n
    <3> HIDE DEF place, tail
    <3>6. tail \in Content /\ Len(tail) \in Nat
      BY <3>5, LastIsContent DEF Content
    <3>7. 2 \in 0..Len(tail)
      BY <2>4, <3>1, <3>6 DEF StartsWith
    <3>8. IsLast(S, d, g)
      BY <3>5, <3>7, LastChopped
    <3> HIDE DEF d, k
    <3>9. q.state = "headers" /\ q.data = d /\ q.boundary = k.boundary
      BY <1>a, <2>4 DEF ParserOf
    <3>10. q.state # "end" /\ q.boundary = Boundary("b") /\ IsLast(S, q.data, g)
      BY <1>a, <2>1, <3>8, <3>9
    <3> QED
      BY <3>10, SuffixedIs DEF q, r
  <2>5. CASE /\ place # -1 /\ StartsWith(tail, Dashes \o CRLF)
             /\ q = [k EXCEPT !.state = "end"]
    <3>1. Ends(S)
      BY <2>1, <2>5, EndFound
    <3> HIDE DEF place, tail, k
    <3>2. q.state = "end"
      BY <1>a, <2>5 DEF ParserOf
    <3> QED
      BY <3>1, <3>2, SuffixedIs DEF q, r
  <2> HIDE DEF place, tail, k, d
  <2> QED
    BY <1>b, <1>1, <1>2, <2>3, <2>4, <2>5
<1> HIDE DEF place, tail, k, d
<1> QED
  BY <1>b, <1>1, <1>2

LEMMA TurnOuterLeaves ==
    ASSUME NEW S \in Content, NEW g \in 0..Len(S), NEW p \in Outer, NEW w, IsWorld(w),
           NEW leak \in BOOLEAN, Keeps(p, w, leak), Suffixed(S, p, g)
    PROVE  Suffixed(S, TurnOuter(p, w).p, g)
<1> DEFINE h == ParseHeaders(p, w)
           q == h.p
           v == h.w
           ended == EndPart(q, v, RangeOf(q.boundary, q.data))
           passed == PassOn(q, v)
<1>0. TurnOuter(p, w) = Turn(q, v, ended, passed)
  BY DEF TurnOuter
<1>a. Outer = ParserOf({FALSE}, Subs)
  BY DEF Outer, Subs
<1>1. Good(h, {FALSE}, Subs, w, leak)
  <2>1. p \in ParserOf({FALSE}, Subs) /\ NoParser \in Subs /\ (\A x \in Inner : <<x>> \in Subs)
    BY <1>a DEF Subs
  <2> QED
    BY <2>1, HeadersKeep
<1>2. q.boundary = p.boundary /\ Left(q, p) /\ q.state = IF q = p THEN p.state ELSE "content"
  BY HeadersLeave
<1>3. p.state = "end" => q = p
  BY DEF ParseHeaders
<1> HIDE DEF h
<1>4. q \in Outer /\ IsWorld(v) /\ Keeps(q, v, leak)
  BY <1>1, <1>a DEF Good
<1> HIDE DEF q, v
<1>5. Suffixed(S, q, g)
  <2>1. CASE p.state = "end"
    BY <1>3, <2>1
  <2>2. CASE p.state # "end"
    <3>1. p.boundary = Boundary("b") /\ IsLast(S, p.data, g)
      BY <2>2, SuffixedIs
    <3>2. IsLast(S, q.data, g)
      BY <1>2, <3>1, LeftLast
    <3>3. q.state # "end"
      BY <1>2, <2>2
    <3> QED
      BY <1>2, <3>1, <3>2, <3>3, SuffixedIs
  <2> QED
    BY <2>1, <2>2
<1>6. ended.p \in ParserOf({FALSE}, Subs) /\ ended.p.boundary = q.boundary
  <2> DEFINE place == RangeOf(q.boundary, q.data)
  <2>1. place \in Int /\ place <= Len(q.data)
    <3>1. q \in ParserOf({FALSE}, Subs)
      BY <1>4, <1>a
    <3> HIDE DEF Subs, place
    <3>2. q.boundary \in Content /\ q.data \in Content
      BY <3>1 DEF ParserOf
    <3>3. Len(q.data) \in Nat /\ Len(q.boundary) \in Nat
      BY <3>2 DEF Content
    <3>4. place \in Int /\ (place # -1 => place \in 0..(Len(q.data) - Len(q.boundary)))
      BY <3>2, Place DEF place
    <3> QED
      BY <3>3, <3>4
  <2> HIDE DEF place
  <2>2. Good(EndPart(q, v, place), {FALSE}, Subs, v, leak)
    BY <1>4, <2>1, EndPartKeeps
  <2>3. EndPart(q, v, place).p.boundary = q.boundary
    BY <1>4, EndLeaves
  <2> QED
    BY <2>2, <2>3 DEF Good, place
<1>7. passed.p.boundary = q.boundary /\ passed.p.state = q.state /\ Left(passed.p, q)
  BY <1>4, PassLeaves
<1> HIDE DEF ended, passed
<1> QED
  BY <1>0, <1>4, <1>5, <1>6, <1>7, TurnLeaves

\* All the calls, of any form and whatever fails.
LEMMA ParseOuterLeaves ==
    ASSUME NEW S \in Content, NEW g \in 0..Len(S), NEW p \in Outer, NEW w, IsWorld(w),
           NEW leak \in BOOLEAN, Keeps(p, w, leak), Suffixed(S, p, g)
    PROVE  Suffixed(S, ParseOuter(p, w).p, g)
<1> DEFINE n == Len(p.data) + 1
           Is(f) == f = [i \in 0..n |->
                            IF i = 0 THEN [p |-> p, w |-> w, again |-> TRUE]
                            ELSE IF f[i - 1].again THEN TurnOuter(f[i - 1].p, f[i - 1].w)
                            ELSE f[i - 1]]
           turns == CHOOSE f : Is(f)
<1>1. ParseOuter(p, w) = turns[n]
  BY DEF ParseOuter
<1>2. \A f : Is(f) <=> IsRun(f, FALSE, p, w, n)
  BY DEF IsRun, Step
<1>3. n \in Nat
  <2>1. p \in ParserOf({FALSE}, Subs)
    BY DEF Outer, Subs
  <2> HIDE DEF Subs
  <2>2. p.data \in Content
    BY <2>1 DEF ParserOf
  <2> QED
    BY <2>2 DEF Content
<1> HIDE DEF n
<1>4. \E f : IsRun(f, FALSE, p, w, n)
  BY <1>3, RunExists
<1> HIDE DEF Is
<1>5. IsRun(turns, FALSE, p, w, n)
  BY <1>2, <1>4
<1> HIDE DEF turns
<1> DEFINE f == turns
           start == [p |-> p, w |-> w, again |-> TRUE]
           Fine(r) == r.p \in Outer /\ IsWorld(r.w) /\ Keeps(r.p, r.w, leak) /\ Suffixed(S, r.p, g)
           T == {i \in 0..n : Fine(f[i])}
<1>6. \A i \in 0..n : f[i] = IF i = 0 THEN start
                            ELSE IF f[i - 1].again THEN TurnOuter(f[i - 1].p, f[i - 1].w)
                            ELSE f[i - 1]
  BY <1>5 DEF IsRun, Step
<1>7. \A q, v : Fine([p |-> q, w |-> v, again |-> TRUE]) => Fine(TurnOuter(q, v))
  <2> TAKE q, v
  <2> HAVE Fine([p |-> q, w |-> v, again |-> TRUE])
  <2>1. q \in Outer /\ IsWorld(v) /\ Keeps(q, v, leak) /\ Suffixed(S, q, g)
    OBVIOUS
  <2> DEFINE r == TurnOuter(q, v)
  <2>2. Good(r, {FALSE}, Subs, v, leak)
    BY <2>1, TurnOuterKeeps
  <2>3. Suffixed(S, r.p, g)
    BY <2>1, TurnOuterLeaves
  <2> HIDE DEF r
  <2>4. r.p \in Outer
    BY <2>2 DEF Good, Outer, Subs
  <2> QED
    BY <2>2, <2>3, <2>4 DEF Good, r
<1>8. \A r : Fine(r) => Fine([p |-> r.p, w |-> r.w, again |-> TRUE])
  OBVIOUS
<1>9. Fine(start)
  OBVIOUS
<1> HIDE DEF Fine, start, f
<1>10. 0 \in T
  <2>1. 0 \in 0..n
    BY <1>3
  <2>2. f[0] = start
    BY <1>6, <2>1
  <2> QED
    BY <1>9, <2>1, <2>2
<1>11. \A i \in 1..n : i - 1 \in T => i \in T
  <2> TAKE i \in 1..n
  <2> HAVE i - 1 \in T
  <2>1. i \in 0..n /\ i # 0 /\ Fine(f[i - 1])
    BY <1>3
  <2> DEFINE l == f[i - 1]
  <2>2. f[i] = IF l.again THEN TurnOuter(l.p, l.w) ELSE l
    BY <1>6, <2>1
  <2>3. Fine(l)
    BY <2>1
  <2> HIDE DEF l
  <2>4. Fine(TurnOuter(l.p, l.w))
    BY <1>7, <1>8, <2>3
  <2> QED
    BY <2>1, <2>2, <2>3, <2>4
<1> HIDE DEF T
<1>12. \A i \in 0..n : i \in T
  BY <1>3, <1>10, <1>11, Everywhere, Zenon
<1>13. n \in T
  BY <1>3, <1>12
<1>14. Fine(f[n])
  BY <1>13 DEF T
<1> QED
  BY <1>1, <1>14 DEF Fine, f

\* A parser that is handed the next bytes.
LEMMA AddedLeaves ==
    ASSUME NEW S \in Content, NEW g \in 0..Len(S), NEW p \in Outer, Suffixed(S, p, g),
           NEW h \in Nat, g <= h, h <= Len(S)
    PROVE  Suffixed(S, Added(p, SubSeq(S, g + 1, h)), h)
<1> DEFINE bytes == SubSeq(S, g + 1, h)
           q == Added(p, bytes)
<1>0. p \in ParserOf({FALSE}, Subs) /\ bytes \in Content
  <2>1. g \in Nat
    BY DEF Content
  <2> QED
    BY <2>1, Piece DEF Outer, Subs
<1> HIDE DEF Subs, bytes
<1>1. q.data = p.data \o bytes /\ q.boundary = p.boundary /\ q.state = p.state
  BY <1>0, AddedIs
<1> HIDE DEF q
<1>2. CASE p.state = "end"
  BY <1>1, <1>2, SuffixedIs DEF q, bytes
<1>3. CASE p.state # "end"
  <2>1. p.boundary = Boundary("b") /\ IsLast(S, p.data, g)
    BY <1>3, SuffixedIs
  <2>2. IsLast(S, p.data \o bytes, h)
    BY <2>1, LastGrows DEF bytes
  <2> QED
    BY <1>1, <1>3, <2>1, <2>2, SuffixedIs DEF q, bytes
<1> QED
  BY <1>2, <1>3

-----------------------------------------------------------------------------
(* What is found only grows.                                                *)

Lists == Seq(Content)

\* A list is a beginning of another one.
LEMMA PrefixIs ==
    ASSUME NEW s \in Lists, NEW t \in Lists
    PROVE  Prefix(s, t) <=> Len(s) <= Len(t) /\ \A k \in 1..Len(s) : s[k] = t[k]
<1>1. Len(s) \in Nat /\ Len(t) \in Nat
  BY DEF Lists
<1>2. ASSUME Len(s) <= Len(t)
      PROVE  SubSeq(t, 1, Len(s)) = s <=> \A k \in 1..Len(s) : s[k] = t[k]
  <2> DEFINE u == SubSeq(t, 1, Len(s))
  <2>1. u \in Seq(Content) /\ Len(u) = Len(s) /\ \A k \in 1..Len(s) : u[k] = t[k]
    BY <1>1, <1>2 DEF Lists
  <2> HIDE DEF u
  <2>2. s = [k \in 1..Len(s) |-> s[k]] /\ u = [k \in 1..Len(u) |-> u[k]]
    BY <2>1 DEF Lists
  <2>3. (\A k \in 1..Len(s) : s[k] = u[k]) => u = s
    BY <2>1, <2>2
  <2>4. u = s => \A k \in 1..Len(s) : s[k] = u[k]
    OBVIOUS
  <2>5. u = s <=> \A k \in 1..Len(s) : s[k] = t[k]
    BY <2>1, <2>3, <2>4
  <2> QED
    BY <2>5 DEF u
<1> QED
  BY <1>2 DEF Prefix, StartsWith

LEMMA PrefixSelf ==
    ASSUME NEW s \in Lists
    PROVE  Prefix(s, s)
<1>1. Len(s) \in Nat
  BY DEF Lists
<1>2. Len(s) <= Len(s)
  BY <1>1
<1> QED
  BY <1>2, PrefixIs

LEMMA PrefixAppend ==
    ASSUME NEW s \in Lists, NEW x \in Content
    PROVE  Append(s, x) \in Lists /\ Prefix(s, Append(s, x))
<1> DEFINE t == Append(s, x)
<1>1. /\ t \in Lists /\ Len(t) = Len(s) + 1 /\ Len(s) \in Nat
      /\ \A k \in 1..Len(s) : t[k] = s[k]
  BY DEF Lists
<1> HIDE DEF t
<1>2. Len(s) <= Len(t)
  BY <1>1
<1>3. \A k \in 1..Len(s) : s[k] = t[k]
  BY <1>1
<1>4. Prefix(s, t)
  BY <1>1, <1>2, <1>3, PrefixIs
<1> QED
  BY <1>1, <1>4 DEF t

LEMMA PrefixOfPrefix ==
    ASSUME NEW s \in Lists, NEW t \in Lists, NEW u \in Lists, Prefix(s, t), Prefix(t, u)
    PROVE  Prefix(s, u)
<1>1. /\ Len(s) <= Len(t) /\ (\A k \in 1..Len(s) : s[k] = t[k])
      /\ Len(t) <= Len(u) /\ (\A k \in 1..Len(t) : t[k] = u[k])
  BY PrefixIs
<1>2. Len(s) \in Nat /\ Len(t) \in Nat /\ Len(u) \in Nat
  BY DEF Lists
<1> DEFINE a == Len(s)
           b == Len(t)
           c == Len(u)
<1>3. a \in Nat /\ b \in Nat /\ c \in Nat /\ a <= b /\ b <= c
  BY <1>1, <1>2
<1> HIDE DEF a, b, c
<1>4. a <= c /\ \A k \in 1..a : k \in 1..b
  BY <1>3
<1>5. Len(s) <= Len(u) /\ \A k \in 1..Len(s) : k \in 1..Len(t)
  BY <1>4 DEF a, b, c
<1>6. \A k \in 1..Len(s) : s[k] = u[k]
  BY <1>1, <1>5
<1> QED
  BY <1>5, <1>6, PrefixIs

Grows(s, t) == t \in Lists /\ Prefix(s, t)

\* Lists that grow step by step.
LEMMA Growing ==
    ASSUME NEW n \in Nat, NEW A, A[0] \in Lists,
           \A k \in 1..n : A[k - 1] \in Lists => Grows(A[k - 1], A[k])
    PROVE  \A k \in 0..n : A[k] \in Lists /\ Grows(A[k], A[n])
<1> DEFINE T == {k \in 0..n : A[k] \in Lists /\ \A j \in 0..k : A[j] \in Lists /\ Prefix(A[j], A[k])}
<1>1. 0 \in T
  <2>1. 0 \in 0..n /\ \A j \in 0..0 : j = 0
    OBVIOUS
  <2>2. Prefix(A[0], A[0])
    BY PrefixSelf
  <2> QED
    BY <2>1, <2>2
<1>2. \A k \in 1..n : k - 1 \in T => k \in T
  <2> TAKE k \in 1..n
  <2> HAVE k - 1 \in T
  <2> DEFINE l == k - 1
  <2>1. /\ k \in 0..n /\ A[l] \in Lists /\ \A j \in 0..l : A[j] \in Lists /\ Prefix(A[j], A[l])
    OBVIOUS
  <2>2. Grows(A[l], A[k])
    BY <2>1
  <2>3. \A j \in 0..k : j = k \/ j \in 0..l
    OBVIOUS
  <2> HIDE DEF l
  <2>4. A[k] \in Lists /\ Prefix(A[l], A[k]) /\ Prefix(A[k], A[k])
    BY <2>2, PrefixSelf DEF Grows
  <2>5. \A j \in 0..l : A[j] \in Lists /\ Prefix(A[j], A[k])
    BY <2>1, <2>4, PrefixOfPrefix
  <2>6. \A j \in 0..k : A[j] \in Lists /\ Prefix(A[j], A[k])
    BY <2>3, <2>4, <2>5
  <2> QED
    BY <2>1, <2>4, <2>6
<1> HIDE DEF T
<1>3. \A k \in 0..n : k \in T
  BY <1>1, <1>2, Everywhere, Zenon
<1>4. n \in T /\ n \in 0..n
  BY <1>3
<1> QED
  BY <1>4 DEF T, Grows

\* What is found up to a part is a beginning of what is found in all.
LayGrows(L) ==
    \A k \in 0..L.parts : /\ L.args[k] \in Lists /\ Grows(L.args[k], L.args[L.parts])
                          /\ L.files[k] \in Lists /\ Grows(L.files[k], L.files[L.parts])

\* An argument or a file more.
LEMMA OwnGrows ==
    ASSUME NEW S, NEW name, NEW L, IsOutline(S, name, L), NEW k \in 1..L.parts, NEW kinds,
           IsOwn(S, L, k, kinds), L.args[k - 1] \in Lists, L.files[k - 1] \in Lists
    PROVE  Grows(L.args[k - 1], L.args[k]) /\ Grows(L.files[k - 1], L.files[k])
<1> DEFINE x == PartContent(S, L, k)
           from == PartStart(L, k)
           upTo == L.at[k] - 2
<1>1. x \in Content
  <2>1. /\ S \in Content /\ from \in Nat /\ L.at[k] \in Nat /\ from <= upTo
        /\ L.at[k] <= Len(S) /\ Len(S) \in Nat
    BY Room
  <2>2. upTo \in Nat /\ upTo <= Len(S)
    BY <2>1
  <2> HIDE DEF from, upTo
  <2>3. SubSeq(S, from + 1, upTo) \in Content
    BY <2>1, <2>2, Piece
  <2> QED
    BY <2>3 DEF PartContent, from, upTo
<1>2. \/ /\ L.args[k] = Append(L.args[k - 1], x) /\ L.files[k] = L.files[k - 1]
      \/ /\ L.args[k] = L.args[k - 1] /\ L.files[k] = Append(L.files[k - 1], x)
  BY DEF IsOwn
<1> HIDE DEF x
<1> DEFINE a == L.args[k - 1]
           f == L.files[k - 1]
           b == L.args[k]
           g == L.files[k]
<1>3. a \in Lists /\ f \in Lists
  OBVIOUS
<1>4. (b = Append(a, x) /\ g = f) \/ (b = a /\ g = Append(f, x))
  BY <1>2
<1> HIDE DEF a, b, f, g
<1>5. Grows(a, a) /\ Grows(f, f) /\ Grows(a, Append(a, x)) /\ Grows(f, Append(f, x))
  BY <1>1, <1>3, PrefixSelf, PrefixAppend DEF Grows
<1>6. Grows(a, b) /\ Grows(f, g)
  BY <1>4, <1>5
<1> QED
  BY <1>6 DEF a, b, f, g

LEMMA AllGrow ==
    ASSUME NEW L, L.parts \in Nat, L.args[0] \in Lists, L.files[0] \in Lists,
           \A k \in 1..L.parts : L.args[k - 1] \in Lists /\ L.files[k - 1] \in Lists =>
               Grows(L.args[k - 1], L.args[k]) /\ Grows(L.files[k - 1], L.files[k])
    PROVE  LayGrows(L)
<1> DEFINE n == L.parts
           A == L.args
           F == L.files
           T == {k \in 0..n : A[k] \in Lists /\ F[k] \in Lists}
<1>0. /\ n \in Nat /\ A[0] \in Lists /\ F[0] \in Lists
      /\ \A k \in 1..n : A[k - 1] \in Lists /\ F[k - 1] \in Lists =>
               Grows(A[k - 1], A[k]) /\ Grows(F[k - 1], F[k])
  OBVIOUS
<1> HIDE DEF n, A, F
<1>1. 0 \in T
  BY <1>0
<1>2. \A k \in 1..n : k - 1 \in T => k \in T
  <2> TAKE k \in 1..n
  <2> HAVE k - 1 \in T
  <2>1. k \in 0..n
    BY <1>0
  <2>2. A[k] \in Lists /\ F[k] \in Lists
    BY <1>0 DEF Grows
  <2> QED
    BY <2>1, <2>2
<1> HIDE DEF T
<1>3. \A k \in 0..n : k \in T
  BY <1>0, <1>1, <1>2, Everywhere, Zenon
<1>4. \A k \in 0..n : A[k] \in Lists /\ F[k] \in Lists
  BY <1>3 DEF T
<1>5. \A k \in 1..n : k - 1 \in 0..n
  BY <1>0
<1>6. /\ \A k \in 1..n : A[k - 1] \in Lists => Grows(A[k - 1], A[k])
      /\ \A k \in 1..n : F[k - 1] \in Lists => Grows(F[k - 1], F[k])
  BY <1>0, <1>4, <1>5
<1>7. \A k \in 0..n : A[k] \in Lists /\ Grows(A[k], A[n])
  BY <1>0, <1>6, Growing
<1>8. \A k \in 0..n : F[k] \in Lists /\ Grows(F[k], F[n])
  BY <1>0, <1>6, Growing
<1> QED
  BY <1>7, <1>8 DEF LayGrows, n, A, F

\* What is found in a nested form.
LEMMA NestedGrows ==
    ASSUME NEW S, NEW L, Well(TRUE, S, L), L.args[0] \in Lists, L.files[0] \in Lists
    PROVE  LayGrows(L)
<1>1. IsOutline(S, NameOf(TRUE), L) /\ L.parts \in Nat
      /\ \A k \in 1..L.parts : IsOwn(S, L, k, FileKinds(TRUE))
  BY DEF Well, IsOutline, LaidOut
<1>2. \A k \in 1..L.parts : L.args[k - 1] \in Lists /\ L.files[k - 1] \in Lists =>
               Grows(L.args[k - 1], L.args[k]) /\ Grows(L.files[k - 1], L.files[k])
  BY <1>1, OwnGrows
<1> QED
  BY <1>1, <1>2, AllGrow

\* What is found in a nested form is behind what was found before, and in front
\* of what is found behind it.
LEMMA PartGrows ==
    ASSUME NEW S, NEW L, Well(FALSE, S, L), NEW k \in 1..L.parts, IsNested(S, L, k),
           L.args[k - 1] \in Lists, L.files[k - 1] \in Lists
    PROVE  /\ LayGrows(L.nested[k])
           /\ Grows(L.args[k - 1], L.args[k]) /\ Grows(L.files[k - 1], L.files[k])
<1> DEFINE sub == L.nested[k]
<1>1. Well(TRUE, InnerBytes(S, L, k), sub)
  BY InnerIs
<1>2. /\ sub.args[0] = L.args[k - 1] /\ sub.files[0] = L.files[k - 1]
      /\ sub.args[sub.parts] = L.args[k] /\ sub.files[sub.parts] = L.files[k]
      /\ sub.parts \in Nat
  BY DEF IsNested, LaidOut
<1> HIDE DEF sub
<1>3. LayGrows(sub)
  BY <1>1, <1>2, NestedGrows
<1>4. 0 \in 0..sub.parts
  BY <1>2
<1>5. Grows(sub.args[0], sub.args[sub.parts]) /\ Grows(sub.files[0], sub.files[sub.parts])
  BY <1>3, <1>4 DEF LayGrows
<1> QED
  BY <1>2, <1>3, <1>5 DEF sub

\* What is found in a form.
LEMMA FormGrows ==
    ASSUME NEW S, NEW L, Well(FALSE, S, L), L.args[0] = <<>>, L.files[0] = <<>>
    PROVE  /\ LayGrows(L)
           /\ \A k \in 1..L.parts : IsNested(S, L, k) => LayGrows(L.nested[k])
<1>1. IsOutline(S, NameOf(FALSE), L) /\ L.parts \in Nat
      /\ \A k \in 1..L.parts : IsOwn(S, L, k, FileKinds(FALSE)) \/ IsNested(S, L, k)
  BY DEF Well, IsOutline, LaidOut
<1>2. \A k \in 1..L.parts : L.args[k - 1] \in Lists /\ L.files[k - 1] \in Lists =>
               Grows(L.args[k - 1], L.args[k]) /\ Grows(L.files[k - 1], L.files[k])
  BY <1>1, OwnGrows, PartGrows
<1>3. L.args[0] \in Lists /\ L.files[0] \in Lists
  BY DEF Lists
<1>4. LayGrows(L)
  BY <1>1, <1>2, <1>3, AllGrow
<1>5. \A k \in 1..L.parts : k - 1 \in 0..L.parts
  BY <1>1
<1>6. \A k \in 1..L.parts : L.args[k - 1] \in Lists /\ L.files[k - 1] \in Lists
  BY <1>4, <1>5 DEF LayGrows
<1> QED
  BY <1>4, <1>6, PartGrows

-----------------------------------------------------------------------------
(* The form follows what was sent.                                          *)

\* The forms that PartsAsSent is about.
LEMMA WellIs ==
    ASSUME NEW f, f.bytes \in Content, WellFormed(f)
    PROVE  /\ Well(FALSE, f.bytes, f.lay)
           /\ f.lay.args[0] = <<>> /\ f.lay.files[0] = <<>> /\ f.named
<1> DEFINE S == f.bytes
           L == f.lay
<1>1. /\ S \in Content /\ LaidOut(S, "b", L)
      /\ \A i \in 1..L.parts : IsOwn(S, L, i, {"file"}) \/ IsNested(S, L, i)
      /\ L.args[0] = <<>> /\ L.files[0] = <<>> /\ f.named
  BY DEF WellFormed
<1> HIDE DEF S, L
<1>2. NameOf(FALSE) = "b" /\ FileKinds(FALSE) = {"file"}
  BY DEF NameOf, FileKinds
<1>3. \A i \in 1..L.parts : L.kind[i] \in Kinds
  BY <1>1 DEF IsOwn, IsNested, Kinds
<1>4. IsOutline(S, NameOf(FALSE), L)
  BY <1>1, <1>2, <1>3 DEF IsOutline
<1>5. Well(FALSE, S, L)
  BY <1>1, <1>2, <1>4 DEF Well
<1> QED
  BY <1>1, <1>5 DEF S, L

\* What is found is a beginning of what is found in all.
FoundPart(L, w) ==
    /\ w.arguments \in Lists /\ Grows(w.arguments, L.args[L.parts])
    /\ Contents(w.files) \in Lists /\ Grows(Contents(w.files), L.files[L.parts])

LEMMA OwnFound ==
    ASSUME NEW S, NEW name, NEW L, L.parts \in Nat, LayGrows(L), NEW p, NEW w,
           p.state \in {"start", "headers", "content", "end"},
           NEW i, NEW c, NEW g, IsAt(S, name, L, p, i, c, g), HasOwn(S, L, p, w, i, c)
    PROVE  FoundPart(L, w)
<1> DEFINE k == Behind(p, i)
<1>1. k \in 0..L.parts
  BY DEF IsAt, Behind
<1>2. w.arguments = L.args[k] /\ Contents(w.files) = L.files[k]
  BY DEF HasOwn, Found
<1> HIDE DEF k
<1> QED
  BY <1>1, <1>2 DEF LayGrows, FoundPart

\* What a parser has found wherever it is.
LEMMA FoundGrows ==
    ASSUME NEW S, NEW L, Well(FALSE, S, L), L.args[0] = <<>>, L.files[0] = <<>>,
           NEW p, NEW w, Proper(FALSE, p, w), NEW g, Traces(FALSE, S, L, p, w, g)
    PROVE  FoundPart(L, w)
<1>1. /\ LayGrows(L) /\ \A k \in 1..L.parts : IsNested(S, L, k) => LayGrows(L.nested[k])
  BY FormGrows
<1>2. PICK i \in 0..L.parts, c \in 0..g :
          IsAt(S, "b", L, p, i, c, g) /\ HasPart(S, L, p, w, i, c)
  BY FollowsIs DEF FollowsOuter
<1>3. IsOutline(S, "b", L) /\ L.parts \in Nat
  BY DEF Well, NameOf, IsOutline, LaidOut
<1>4. p \in ParserOf({FALSE}, Subs) /\ Keeps(p, w, FALSE)
  BY DEF Proper, SubsOf
<1>5. p \in Outer /\ p.state \in {"start", "headers", "content", "end"}
  BY <1>4 DEF Outer, Subs, ParserOf
<1>6. CASE ~(p.state = "content" /\ L.kind[i] = "nested")
  <2>1. HasOwn(S, L, p, w, i, c)
    BY <1>2, <1>6 DEF HasPart
  <2> QED
    BY <1>1, <1>2, <1>3, <1>5, <2>1, OwnFound
<1>7. CASE p.state = "content" /\ L.kind[i] = "nested"
  <2> DEFINE q == p.subParser[1]
             sub == L.nested[i]
             inner == InnerBytes(S, L, i)
             h == c - PartStart(L, i)
  <2>1. i \in 1..L.parts
    BY <1>2, <1>3, <1>7 DEF IsAt
  <2>2. IsNested(S, L, i)
    BY <1>7, <2>1 DEF Well, IsOwn, FileKinds
  <2>3. q \in Inner
    BY <1>2, <1>4, <1>5, <1>7, SubParser DEF HasPart
  <2>4. q.state \in {"start", "headers", "content", "end"}
    BY <2>3 DEF Inner, ParserOf
  <2>5. FollowsNested(inner, sub, q, w, h)
    BY <1>2, <1>7 DEF HasPart
  <2>6. LayGrows(sub) /\ sub.parts \in Nat
    BY <1>1, <2>1, <2>2 DEF IsNested, LaidOut
  <2>7. sub.args[sub.parts] = L.args[i] /\ sub.files[sub.parts] = L.files[i]
    BY <2>2 DEF IsNested
  <2> HIDE DEF q, sub, inner, h
  <2>8. PICK k \in 0..sub.parts, d \in 0..h :
            IsAt(inner, "c", sub, q, k, d, h) /\ HasOwn(inner, sub, q, w, k, d)
    BY <2>5 DEF FollowsNested
  <2>9. FoundPart(sub, w)
    BY <2>4, <2>6, <2>8, OwnFound
  <2>10. /\ w.arguments \in Lists /\ Grows(w.arguments, L.args[i])
         /\ Contents(w.files) \in Lists /\ Grows(Contents(w.files), L.files[i])
    BY <2>7, <2>9 DEF FoundPart
  <2>11. Grows(L.args[i], L.args[L.parts]) /\ Grows(L.files[i], L.files[L.parts])
    BY <1>1 DEF LayGrows
  <2> QED
    BY <2>10, <2>11, PrefixOfPrefix DEF Grows, FoundPart
<1> QED
  BY <1>6, <1>7

\* A parser that was given nothing.
LEMMA NewParserFollows ==
    ASSUME NEW S, S \in Content, NEW L, Well(FALSE, S, L), NEW w, Found(L, w, 0)
    PROVE  FollowsOuter(S, L, NewParser("b", FALSE), w, 0) /\ Through(L, NewParser("b", FALSE), 0)
<1> DEFINE p == NewParser("b", FALSE)
<1>2. /\ p.subParser = NoParser /\ p.state = "start" /\ p.boundary = Boundary("b")
      /\ p.data = <<>>
  BY DEF NewParser
<1> HIDE DEF p
<1>3. L.parts \in Nat /\ L.at[L.parts] \in Nat
  <2>1. IsOutline(S, "b", L)
    BY DEF Well, NameOf
  <2>2. L.parts \in Nat /\ \A i \in 0..L.parts : L.at[i] \in Nat
    BY <2>1, Places
  <2> QED
    BY <2>2
<1>4. SubSeq(S, 1, 0) = <<>>
  <2>1. 0 \in Nat /\ 0 <= Len(S)
    BY DEF Content
  <2>2. SubSeq(S, 0 + 1, 0) = <<>>
    BY <2>1, EmptyPiece
  <2> QED
    BY <2>2
<1>5. 0 \in 0..L.parts /\ 0 \in 0..0 /\ 0 \in 0..Len(S)
  BY <1>3 DEF Content
<1>6. IsAt(S, "b", L, p, 0, 0, 0)
  BY <1>2, <1>4, <1>5 DEF IsAt
<1>7. HasPart(S, L, p, w, 0, 0)
  BY <1>2 DEF HasPart, HasOwn, Behind
<1>8. FollowsOuter(S, L, p, w, 0)
  BY <1>5, <1>6, <1>7 DEF FollowsOuter
<1>9. Through(L, p, 0)
  BY <1>3 DEF Through
<1> QED
  BY <1>8, <1>9 DEF p

LEMMA NewParserSuffixed ==
    ASSUME NEW S \in Content, NEW g \in 0..Len(S)
    PROVE  Suffixed(S, NewParser("b", FALSE), g)
<1> DEFINE p == NewParser("b", FALSE)
<1>1. p.state = "start" /\ p.boundary = Boundary("b") /\ p.data = <<>>
  BY DEF NewParser
<1> HIDE DEF p
<1>2. g \in Nat /\ g <= Len(S)
  BY DEF Content
<1>3. p.data = SubSeq(S, g + 1, g)
  BY <1>1, <1>2, EmptyPiece
<1>4. g \in 0..g
  BY <1>2
<1>5. Suffixed(S, p, g)
  BY <1>1, <1>3, <1>4 DEF Suffixed
<1> QED
  BY <1>5 DEF p

-----------------------------------------------------------------------------
(* The request.                                                             *)

Leaky == \E i \in 1..Len(faults) : faults[i] = "write"

FormInv ==
    /\ form \in Forms /\ sent \in 0..Len(form.bytes)
    /\ opened \in Nat /\ faults \in Seq({"open", "write"})
    /\ parser = NoParser \/ \E p \in Outer : parser = <<p>>
    /\ status = "open" => parser # NoParser /\ Bounded(parser[1])
    /\ status = "new" => parser = NoParser
    /\ Stored(World("none"))
    /\ parser # NoParser => Keeps(parser[1], World("none"), Leaky)
    /\ parser = NoParser /\ ~Leaky => DOMAIN disk \subseteq Tmps(files)
    /\ status = "gone" => parser = NoParser /\ (~Leaky => DOMAIN disk = {})

LEMMA WorldIs ==
    ASSUME NEW a, NEW f, NEW d, NEW o \in Nat, NEW x, NEW w,
           w = [arguments |-> a, files |-> f, disk |-> d, opened |-> o, fault |-> x,
                success |-> TRUE, beyond |-> FALSE]
    PROVE  /\ IsWorld(w) /\ w.files = f /\ w.disk = d /\ w.opened = o /\ w.fault = x
           /\ ~w.beyond
BY DEF IsWorld

\* What a parser keeps does not depend on what fails next.
LEMMA Relabel ==
    ASSUME NEW p, NEW v, NEW w, NEW leak \in BOOLEAN, NEW later \in BOOLEAN,
           v.files = w.files, v.disk = w.disk, v.opened = w.opened,
           ~v.beyond, ~w.beyond, leak => later, v.fault = "write" => later,
           Keeps(p, w, leak)
    PROVE  Keeps(p, v, later)
<1>1. \A q : Holds(q, w, leak) => Holds(q, v, later)
  BY DEF Holds, Stored
<1> QED
  BY <1>1 DEF Keeps

\* What is left on disk when the parser has gone.
LEMMA LeftBehind ==
    ASSUME NEW p \in Outer, NEW w, ~w.beyond, Keeps(p, w, FALSE)
    PROVE  DOMAIN w.disk \ Unlinks(p) \subseteq Tmps(w.files)
<1>1. CASE p.subParser = NoParser
  <2>1. Holds(p, w, FALSE)
    BY <1>1 DEF Keeps
  <2> QED
    BY <1>1, <2>1 DEF Holds, Stored, Unlinks, UnlinksOne, Nil
<1>2. CASE p.subParser # NoParser
  <2>1. Holds(p.subParser[1], w, FALSE)
    BY <1>2 DEF Keeps
  <2> DEFINE q == p.subParser[1]
  <2> HIDE DEF q
  <2>2. UnlinksOne(q) \subseteq Unlinks(p)
    BY <1>2 DEF Unlinks, q
  <2> QED
    BY <2>1, <2>2 DEF Holds, Stored, UnlinksOne, Nil, q
<1> QED
  BY <1>1, <1>2

LEMMA FormStart == FormInit => FormInv
<1> SUFFICES ASSUME FormInit PROVE FormInv
  OBVIOUS
<1>1. 0 \in 0..Len(form.bytes) /\ opened \in Nat
  BY FormsAssumption DEF FormInit
<1>2. DOMAIN disk = {} /\ disk \in [DOMAIN disk -> Content]
  BY DEF FormInit
<1>3. files \in Seq([tmp : Nat, content : Content])
  BY DEF FormInit
<1> DEFINE w == World("none")
<1>4. w.files = files /\ w.disk = disk /\ w.opened = opened
  BY <1>1, WorldIs DEF World
<1> HIDE DEF w
<1>5. Stored(w)
  BY <1>2, <1>3, <1>4 DEF Stored
<1>6. <<>> \in Seq({"open", "write"})
  OBVIOUS
<1> QED
  BY <1>1, <1>2, <1>5, <1>6 DEF FormInit, FormInv, w

LEMMA OpenStep == FormInv /\ Open => FormInv'
<1> SUFFICES ASSUME FormInv, Open PROVE FormInv'
  OBVIOUS
<1> DEFINE w == World("none")
<1>1. /\ w' = w /\ Leaky' = Leaky
      /\ UNCHANGED <<form, sent, arguments, files, disk, opened, faults>>
  BY DEF World, Leaky, Open
<1>2. w.files = files /\ w.disk = disk /\ w.opened = opened /\ w.fault = "none"
      /\ Stored(w) /\ parser = NoParser
  BY WorldIs DEF World, FormInv, Open
<1> HIDE DEF w
<1>3. Stored(w') /\ (~Leaky => DOMAIN disk \subseteq Tmps(files))
  BY <1>1, <1>2 DEF FormInv
<1>4. CASE form.named
  <2> DEFINE p == NewParser("b", FALSE)
  <2>1. status' = "open" /\ parser' = <<p>>
    BY <1>4 DEF Open
  <2>2. /\ p \in ParserOf({FALSE}, {NoParser}) /\ p.subParser = NoParser
        /\ p.state = "start" /\ p.tmpPath = Nil /\ p.tmpFile = Nil
    <3>1. "b" \in Bytes /\ FALSE \in BOOLEAN
      BY DEF Bytes
    <3> QED
      BY <3>1, NewParserKeeps, Zenon
  <2> HIDE DEF p
  <2>3. p \in Outer
    BY <2>2 DEF Outer, ParserOf
  <2>4. Bounded(p)
    BY <2>2 DEF Bounded, Few, Waits
  <2>5. Keeps(p, w, Leaky)
    BY <1>2, <1>3, <2>2 DEF Keeps, Holds
  <2>6. parser' # NoParser /\ parser'[1] = p
    BY <2>1 DEF NoParser
  <2> QED
    BY <1>1, <1>3, <2>1, <2>3, <2>4, <2>5, <2>6 DEF FormInv, w
<1>5. CASE ~form.named
  BY <1>1, <1>2, <1>3, <1>5 DEF FormInv, Open, w
<1> QED
  BY <1>4, <1>5

LEMMA BytesAre == FormInv => form.bytes \in Content /\ sent \in 0..Len(form.bytes) /\ sent \in Nat
BY FormsAssumption DEF FormInv, Content

\* What a call of writeData: hands to _parseData.
LEMMA Handed ==
    ASSUME FormInv, NEW n \in 1..(Len(form.bytes) - sent),
           NEW fault \in {"none", "open", "write"}, WriteData(n, fault)
    PROVE  LET p == parser[1]
               q == Added(p, SubSeq(form.bytes, sent + 1, sent + n))
               v == World(fault)
               r == ParseOuter(q, v)
           IN  /\ p \in Outer /\ q \in Outer /\ IsWorld(v) /\ Keeps(q, v, Leaky')
               /\ Leaky' \in BOOLEAN /\ faults' \in Seq({"open", "write"})
               /\ Good(r, {FALSE}, Subs, v, Leaky')
               /\ r.w.success /\ ~r.w.beyond => Bounded(r.p)
<1> DEFINE p == parser[1]
           bytes == SubSeq(form.bytes, sent + 1, sent + n)
           q == Added(p, bytes)
           w == World("none")
           v == World(fault)
<1>1. /\ form \in Forms /\ sent \in 0..Len(form.bytes) /\ opened \in Nat
      /\ faults \in Seq({"open", "write"}) /\ parser # NoParser
      /\ Keeps(p, w, Leaky)
  BY DEF FormInv, WriteData
<1>2. p \in Outer /\ p \in ParserOf({FALSE}, Subs)
  BY <1>1 DEF FormInv, Outer, Subs
<1>4. IF fault = "none" THEN faults' = faults ELSE faults' = Append(faults, fault)
  BY DEF WriteData
<1>5. Leaky \in BOOLEAN /\ Leaky' \in BOOLEAN
  BY DEF Leaky
<1>6. /\ faults' \in Seq({"open", "write"}) /\ (Leaky => Leaky')
      /\ fault = "write" => Leaky'
  <2>1. CASE fault = "none"
    BY <1>1, <1>4, <2>1 DEF Leaky
  <2>2. CASE fault # "none"
    <3>1. /\ faults' = Append(faults, fault) /\ Len(faults) \in Nat
          /\ fault \in {"open", "write"}
      BY <1>1, <1>4, <2>2
    <3>2. /\ faults' \in Seq({"open", "write"}) /\ Len(faults') = Len(faults) + 1
          /\ faults'[Len(faults) + 1] = fault
          /\ \A i \in 1..Len(faults) : faults'[i] = faults[i]
      BY <1>1, <3>1
    <3>3. Len(faults) + 1 \in 1..Len(faults') /\ 1..Len(faults) \subseteq 1..Len(faults')
      BY <3>1, <3>2
    <3> QED
      BY <3>2, <3>3 DEF Leaky
  <2> QED
    BY <2>1, <2>2
<1>7. bytes \in Content
  <2>1. form.bytes \in Content /\ sent \in Nat /\ Len(form.bytes) \in Nat
    BY BytesAre DEF Content
  <2> DEFINE h == sent + n
  <2>2. h \in Nat /\ sent <= h /\ h <= Len(form.bytes)
    BY <2>1
  <2> HIDE DEF h
  <2>3. SubSeq(form.bytes, sent + 1, h) \in Content
    BY <2>1, <2>2, Piece
  <2> QED
    BY <2>3 DEF h
<1> HIDE DEF bytes
<1>8. /\ q \in Outer /\ q.state = p.state /\ q.tmpPath = p.tmpPath
      /\ q.tmpFile = p.tmpFile /\ q.subParser = p.subParser
  <2> HIDE DEF p, Subs
  <2>1. /\ q \in ParserOf({FALSE}, Subs) /\ q.state = p.state /\ q.tmpPath = p.tmpPath
        /\ q.tmpFile = p.tmpFile /\ q.subParser = p.subParser
    BY <1>2, <1>7, AddedIs
  <2> QED
    BY <2>1 DEF Outer, Subs
<1>9. /\ w.files = files /\ w.disk = disk /\ w.opened = opened /\ ~w.beyond
  BY <1>1, WorldIs DEF World
<1>10. /\ IsWorld(v) /\ v.files = files /\ v.disk = disk /\ v.opened = opened
       /\ v.fault = fault /\ ~v.beyond
  BY <1>1, WorldIs DEF World
<1> HIDE DEF p, q, w, v
<1>11. Keeps(p, v, Leaky')
  BY <1>1, <1>5, <1>6, <1>9, <1>10, Relabel
<1>12. Keeps(q, v, Leaky')
  BY <1>8, <1>10, <1>11 DEF Keeps, Holds
<1> DEFINE r == ParseOuter(q, v)
<1>13. /\ Good(r, {FALSE}, Subs, v, Leaky')
       /\ r.w.success /\ ~r.w.beyond => Bounded(r.p)
  BY <1>5, <1>8, <1>10, <1>12, ParseOuterKeeps
<1> HIDE DEF r
<1> QED
  BY <1>2, <1>5, <1>6, <1>8, <1>10, <1>12, <1>13 DEF p, q, v, r, bytes

LEMMA WriteStep ==
    ASSUME FormInv, NEW n \in 1..(Len(form.bytes) - sent),
           NEW fault \in {"none", "open", "write"}, WriteData(n, fault)
    PROVE  FormInv'
<1> DEFINE p == parser[1]
           bytes == SubSeq(form.bytes, sent + 1, sent + n)
           q == Added(p, bytes)
           v == World(fault)
           r == ParseOuter(q, v)
           u == World("none")'
<1>1. /\ form \in Forms /\ sent \in 0..Len(form.bytes) /\ form.bytes \in Content
  BY BytesAre DEF FormInv
<1>3. /\ ~r.w.beyond /\ parser' = <<r.p>> /\ arguments' = r.w.arguments
      /\ files' = r.w.files /\ disk' = r.w.disk /\ opened' = r.w.opened
      /\ status' = (IF r.w.success THEN "open" ELSE "failed")
      /\ sent' = sent + n /\ form' = form
  BY DEF WriteData
<1>7. sent' \in 0..Len(form'.bytes)
  BY <1>1, <1>3 DEF Content
<1>13. /\ Leaky' \in BOOLEAN /\ faults' \in Seq({"open", "write"})
       /\ Good(r, {FALSE}, Subs, v, Leaky')
       /\ r.w.success /\ ~r.w.beyond => Bounded(r.p)
  BY Handed
<1> HIDE DEF v, r
<1>14. r.p \in Outer /\ IsWorld(r.w) /\ Keeps(r.p, r.w, Leaky')
  BY <1>13 DEF Good, Outer, Subs
<1>15. Stored(r.w)
  <2>1. CASE r.p.subParser = NoParser
    BY <1>3, <1>14, <2>1 DEF Keeps, Holds
  <2>2. CASE r.p.subParser # NoParser
    BY <1>3, <1>14, <2>2 DEF Keeps, Holds
  <2> QED
    BY <2>1, <2>2
<1>16. /\ u.files = r.w.files /\ u.disk = r.w.disk /\ u.opened = r.w.opened
       /\ u.fault = "none" /\ ~u.beyond /\ opened' \in Nat
  <2>1. opened' \in Nat
    BY <1>3, <1>14 DEF IsWorld
  <2>2. u = [arguments |-> arguments', files |-> files', disk |-> disk', opened |-> opened',
             fault |-> "none", success |-> TRUE, beyond |-> FALSE]
    BY DEF World
  <2> HIDE DEF u
  <2> QED
    BY <1>3, <2>1, <2>2, WorldIs
<1>17. Stored(u) /\ Keeps(r.p, u, Leaky')
  <2> HIDE DEF u
  <2>1. Stored(u)
    BY <1>15, <1>16 DEF Stored
  <2>2. Keeps(r.p, u, Leaky')
    BY <1>3, <1>13, <1>14, <1>16, Relabel
  <2> QED
    BY <2>1, <2>2
<1>18. parser' # NoParser /\ parser'[1] = r.p
  BY <1>3 DEF NoParser
<1>19. status' = "open" => Bounded(parser'[1])
  BY <1>3, <1>13, <1>18
<1> QED
  BY <1>1, <1>3, <1>7, <1>13, <1>14, <1>16, <1>17, <1>18, <1>19 DEF FormInv

LEMMA CloseStep == FormInv /\ Close => FormInv'
<1> SUFFICES ASSUME FormInv, Close PROVE FormInv'
  OBVIOUS
<1> DEFINE p == parser[1]
           w == World("none")
           u == World("none")'
<1>1. /\ opened \in Nat /\ parser # NoParser /\ Stored(w) /\ Keeps(p, w, Leaky)
      /\ Leaky \in BOOLEAN /\ Leaky' = Leaky
  BY DEF FormInv, Close, Leaky
<1>2. p \in Outer
  BY <1>1 DEF FormInv
<1>3. /\ w.files = files /\ w.disk = disk /\ w.opened = opened /\ ~w.beyond
  BY <1>1, WorldIs DEF World
<1>4. /\ disk' = Without(disk, Unlinks(p)) /\ parser' = NoParser
      /\ status' \in {"accepted", "failed"}
      /\ UNCHANGED <<form, sent, arguments, files, opened, faults>>
  BY DEF Close
<1>5. /\ u.files = files /\ u.disk = disk' /\ u.opened = opened
  <2>1. u = [arguments |-> arguments, files |-> files, disk |-> disk', opened |-> opened,
             fault |-> "none", success |-> TRUE, beyond |-> FALSE]
    BY <1>4 DEF World
  <2> HIDE DEF u
  <2> QED
    BY <1>1, <2>1, WorldIs
<1> HIDE DEF p, w, u
<1>6. DOMAIN disk' = DOMAIN disk \ Unlinks(p) /\ disk' \in [DOMAIN disk' -> Content]
  BY <1>1, <1>3, <1>4 DEF Without, Stored
<1>7. Stored(u)
  BY <1>1, <1>3, <1>5, <1>6 DEF Stored
<1>8. ~Leaky => DOMAIN disk' \subseteq Tmps(files)
  BY <1>1, <1>2, <1>3, <1>6, LeftBehind
<1> QED
  BY <1>1, <1>4, <1>7, <1>8 DEF FormInv, u

LEMMA DeallocStep == FormInv /\ Dealloc => FormInv'
<1> SUFFICES ASSUME FormInv, Dealloc PROVE FormInv'
  OBVIOUS
<1> DEFINE w == World("none")
           u == World("none")'
           out == (IF parser = NoParser THEN {} ELSE Unlinks(parser[1])) \cup Tmps(files)
<1>1. /\ opened \in Nat /\ Stored(w) /\ Leaky \in BOOLEAN /\ Leaky' = Leaky
  BY DEF FormInv, Dealloc, Leaky
<1>2. /\ w.files = files /\ w.disk = disk /\ w.opened = opened /\ ~w.beyond
  BY <1>1, WorldIs DEF World
<1>3. /\ disk' = Without(disk, out) /\ parser' = NoParser /\ status' = "gone"
      /\ UNCHANGED <<form, sent, arguments, files, opened, faults>>
  BY DEF Dealloc, Tmps
<1>4. /\ u.files = files /\ u.disk = disk' /\ u.opened = opened
  <2>1. u = [arguments |-> arguments, files |-> files, disk |-> disk', opened |-> opened,
             fault |-> "none", success |-> TRUE, beyond |-> FALSE]
    BY <1>3 DEF World
  <2> HIDE DEF u
  <2> QED
    BY <1>1, <2>1, WorldIs
<1> HIDE DEF u
<1>5. ~Leaky => DOMAIN disk \subseteq out
  <2>1. CASE parser = NoParser
    BY <2>1 DEF FormInv
  <2>2. CASE parser # NoParser
    <3>1. parser[1] \in Outer /\ Keeps(parser[1], w, Leaky)
      BY <2>2 DEF FormInv
    <3> HIDE DEF w
    <3> QED
      BY <1>1, <1>2, <2>2, <3>1, LeftBehind
  <2> QED
    BY <2>1, <2>2
<1> HIDE DEF w, out
<1>6. DOMAIN disk' = DOMAIN disk \ out /\ disk' \in [DOMAIN disk' -> Content]
  BY <1>1, <1>2, <1>3 DEF Without, Stored
<1>7. Stored(u)
  BY <1>1, <1>2, <1>4, <1>6 DEF Stored
<1>8. ~Leaky => DOMAIN disk' = {}
  BY <1>5, <1>6
<1> QED
  BY <1>1, <1>3, <1>7, <1>8 DEF FormInv, u

LEMMA FormStep == FormInv /\ [FormNext]_formVars => FormInv'
<1> SUFFICES ASSUME FormInv, [FormNext]_formVars PROVE FormInv'
  OBVIOUS
<1>1. CASE Open
  BY <1>1, OpenStep
<1>2. CASE \E n \in 1..(Len(form.bytes) - sent), fault \in {"none", "open", "write"} :
               WriteData(n, fault)
  BY <1>2, WriteStep
<1>3. CASE Close
  BY <1>3, CloseStep
<1>4. CASE Dealloc
  BY <1>4, DeallocStep
<1>5. CASE UNCHANGED formVars
  <2>1. World("none")' = World("none") /\ Leaky' = Leaky
    BY <1>5 DEF formVars, World, Leaky
  <2> QED
    BY <1>5, <2>1 DEF FormInv, formVars
<1> QED
  BY <1>1, <1>2, <1>3, <1>4, <1>5 DEF FormNext, Gone

\* The inductive invariant of the form: what a parser has open is what it has
\* written to, and the temporary files are those of the form and this one.
THEOREM FormInvariance == FormSpec => []FormInv
BY FormStart, FormStep, PTL DEF FormSpec

\* A request that is released leaves nothing on disk.
THEOREM FormLeavesNothing == FormSpec => []NothingLeft
<1>1. FormInv => NothingLeft
  BY DEF FormInv, NothingLeft, Leaky
<1> QED
  BY <1>1, FormInvariance, PTL

-----------------------------------------------------------------------------
(* What the request has found.                                              *)

\* While no operation has failed, the parser of a well-formed form follows it
\* and what was found is a beginning of what was sent; of every form, what the
\* parser keeps is the last of what was handed over.
FormTrack ==
    /\ status = "open" => Suffixed(form.bytes, parser[1], sent)
    /\ status = "accepted" => Complete(form)
    /\ faults = <<>> /\ WellFormed(form) =>
           LET L == form.lay
           IN  /\ Prefix(arguments, L.args[L.parts]) /\ Prefix(Contents(files), L.files[L.parts])
               /\ status # "failed"
               /\ status = "new" => arguments = <<>> /\ files = <<>> /\ sent = 0
               /\ status = "open" => /\ FollowsOuter(form.bytes, L, parser[1], World("none"), sent)
                                     /\ Through(L, parser[1], sent)
               /\ status = "accepted" => Found(L, World("none"), L.parts)

LEMMA TrackStart == FormInit => FormTrack
<1> SUFFICES ASSUME FormInit PROVE FormTrack
  OBVIOUS
<1> DEFINE S == form.bytes
           L == form.lay
<1>1. /\ arguments = <<>> /\ files = <<>> /\ sent = 0 /\ status = "new"
      /\ S \in Content
  BY FormsAssumption DEF FormInit, Content
<1>2. Contents(files) = <<>>
  BY <1>1 DEF Contents
<1>3. ASSUME WellFormed(form)
      PROVE  Prefix(arguments, L.args[L.parts]) /\ Prefix(Contents(files), L.files[L.parts])
  <2>1. Well(FALSE, S, L) /\ L.args[0] = <<>> /\ L.files[0] = <<>>
    BY <1>1, <1>3, WellIs
  <2>2. L.parts \in Nat
    BY <2>1 DEF Well, IsOutline, LaidOut
  <2> HIDE DEF S, L
  <2>3. LayGrows(L)
    BY <2>1, FormGrows
  <2>4. 0 \in 0..L.parts
    BY <2>2
  <2> QED
    BY <1>1, <1>2, <2>1, <2>3, <2>4 DEF LayGrows, Grows
<1> QED
  BY <1>1, <1>3 DEF FormTrack

\* A parser starts.
LEMMA OpenTracks == FormInv /\ FormTrack /\ Open => FormTrack'
<1> SUFFICES ASSUME FormInv, FormTrack, Open PROVE FormTrack'
  OBVIOUS
<1> DEFINE S == form.bytes
           L == form.lay
           p == NewParser("b", FALSE)
           w == World("none")
<1>1. /\ w' = w
      /\ UNCHANGED <<form, sent, arguments, files, disk, opened, faults>>
      /\ status = "new"
  BY DEF World, Open
<1>2. IF form.named THEN status' = "open" /\ parser' = <<p>> ELSE status' = "failed"
  BY DEF Open
<1>3. S \in Content /\ sent \in 0..Len(S)
  BY BytesAre
<1>4. Suffixed(S, p, sent)
  BY <1>3, NewParserSuffixed
<1>5. ASSUME faults = <<>>, WellFormed(form)
      PROVE  /\ Prefix(arguments, L.args[L.parts]) /\ Prefix(Contents(files), L.files[L.parts])
             /\ form.named /\ FollowsOuter(S, L, p, w, sent) /\ Through(L, p, sent)
  <2>1. Well(FALSE, S, L) /\ L.args[0] = <<>> /\ L.files[0] = <<>> /\ form.named
    BY <1>3, <1>5, WellIs
  <2>2. /\ Prefix(arguments, L.args[L.parts]) /\ Prefix(Contents(files), L.files[L.parts])
        /\ arguments = <<>> /\ files = <<>> /\ sent = 0
    BY <1>1, <1>5 DEF FormTrack
  <2>3. w.arguments = <<>> /\ w.files = <<>>
    BY <2>2 DEF World
  <2> HIDE DEF S, L, p, w
  <2>4. Contents(w.files) = <<>>
    BY <2>3 DEF Contents
  <2>5. Found(L, w, 0)
    BY <2>1, <2>3, <2>4 DEF Found
  <2>6. FollowsOuter(S, L, p, w, 0) /\ Through(L, p, 0)
    BY <1>3, <2>1, <2>5, NewParserFollows DEF p
  <2> QED
    BY <2>1, <2>2, <2>6
<1> HIDE DEF p, w
<1>6. status' = "open" => parser'[1] = p
  BY <1>2
<1> QED
  BY <1>1, <1>2, <1>4, <1>5, <1>6 DEF FormTrack, w

\* The end of a form that was handed over.
LEMMA CloseTracks == FormInv /\ FormTrack /\ Close => FormTrack'
<1> SUFFICES ASSUME FormInv, FormTrack, Close PROVE FormTrack'
  OBVIOUS
<1> DEFINE S == form.bytes
           L == form.lay
           p == parser[1]
           w == World("none")
           u == World("none")'
<1>1. /\ UNCHANGED <<form, sent, arguments, files, opened, faults>>
      /\ status = "open" /\ sent = Len(S)
      /\ status' = IF p.state = "end" THEN "accepted" ELSE "failed"
  BY DEF Close, IsAtEnd
<1>2. S \in Content
  BY BytesAre
<1>3. /\ w.arguments = arguments /\ w.files = files
      /\ u.arguments = arguments /\ u.files = files
  BY <1>1 DEF World
<1>4. status' = "accepted" => Complete(form)
  BY <1>1 DEF FormTrack, Suffixed, Complete
<1>5. ASSUME faults = <<>>, WellFormed(form)
      PROVE  /\ Prefix(arguments, L.args[L.parts]) /\ Prefix(Contents(files), L.files[L.parts])
             /\ status' = "accepted" /\ Found(L, u, L.parts)
  <2>1. Well(FALSE, S, L)
    BY <1>2, <1>5, WellIs
  <2>2. /\ Prefix(arguments, L.args[L.parts]) /\ Prefix(Contents(files), L.files[L.parts])
        /\ FollowsOuter(S, L, p, w, sent) /\ Through(L, p, sent)
    BY <1>1, <1>5 DEF FormTrack
  <2> HIDE DEF S, L, p, w, u
  <2>3. Traces(FALSE, S, L, p, w, Len(S)) /\ Through(L, p, Len(S)) /\ FALSE \in BOOLEAN
    BY <1>1, <2>2, FollowsIs
  <2>4. p.state = "end" /\ Found(L, w, L.parts)
    BY <2>1, <2>3, AllOfIt
  <2> QED
    BY <1>1, <1>3, <2>2, <2>4 DEF Found
<1> HIDE DEF u
<1> QED
  BY <1>1, <1>4, <1>5 DEF FormTrack, u

\* Nothing is found, and the form is released or stays as it is.
LEMMA RestTracks ==
    ASSUME FormTrack, UNCHANGED <<form, arguments, files, faults>>,
           status' = "gone" \/ UNCHANGED formVars
    PROVE  FormTrack'
<1>1. CASE status' = "gone"
  BY <1>1 DEF FormTrack
<1>2. CASE UNCHANGED formVars
  <2>1. World("none")' = World("none")
    BY <1>2 DEF formVars, World
  <2> QED
    BY <1>2, <2>1 DEF FormTrack, formVars
<1> QED
  BY <1>1, <1>2

\* More of the form is handed over.
LEMMA WriteTracks ==
    ASSUME FormInv, FormTrack, NEW n \in 1..(Len(form.bytes) - sent),
           NEW fault \in {"none", "open", "write"}, WriteData(n, fault)
    PROVE  FormTrack'
<1> DEFINE S == form.bytes
           L == form.lay
           p == parser[1]
           h == sent + n
           q == Added(p, SubSeq(S, sent + 1, h))
           v == World(fault)
           r == ParseOuter(q, v)
           w == World("none")
           u == World("none")'
<1>1. /\ r.p = parser'[1] /\ arguments' = r.w.arguments
      /\ files' = r.w.files /\ disk' = r.w.disk
      /\ status' = (IF r.w.success THEN "open" ELSE "failed")
      /\ sent' = h /\ form' = form /\ status = "open"
  BY DEF WriteData
<1>2. S \in Content /\ Len(S) \in Nat /\ sent \in 0..Len(S) /\ sent \in Nat
  BY BytesAre DEF Content
<1>3. h \in Nat /\ sent <= h /\ h <= Len(S) /\ h \in 0..Len(S)
  BY <1>2
<1>4. /\ p \in Outer /\ q \in Outer /\ IsWorld(v) /\ Keeps(q, v, Leaky')
      /\ Leaky' \in BOOLEAN /\ faults' \in Seq({"open", "write"})
  BY Handed
<1>5. IF fault = "none" THEN faults' = faults ELSE faults' = Append(faults, fault)
  BY DEF WriteData
<1>6. Suffixed(S, p, sent)
  BY <1>1 DEF FormTrack
<1>7. u.arguments = arguments' /\ u.files = files' /\ u.disk = disk'
  BY DEF World
<1>8. v.success /\ v.fault = fault /\ ~v.beyond
  BY DEF World
<1>9. fault = "none" => v = w
  OBVIOUS
<1>10. faults' = <<>> => fault = "none" /\ faults = <<>> /\ Leaky' = FALSE
  <2>1. faults \in Seq({"open", "write"})
    BY DEF FormInv
  <2>2. faults' = <<>> => fault = "none"
    <3> SUFFICES ASSUME fault # "none" PROVE faults' # <<>>
      OBVIOUS
    <3>1. faults' = Append(faults, fault) /\ fault \in {"open", "write"} /\ Len(faults) \in Nat
      BY <1>5, <2>1
    <3>2. Len(faults') = Len(faults) + 1
      BY <2>1, <3>1
    <3> QED
      BY <3>1, <3>2
  <2>3. faults' = <<>> => Leaky' = FALSE
    BY DEF Leaky
  <2> QED
    BY <1>5, <2>2, <2>3
<1>11. faults = <<>> /\ WellFormed(form) =>
           FollowsOuter(S, L, p, w, sent) /\ Through(L, p, sent)
  BY <1>1 DEF FormTrack
<1> HIDE DEF h, v, w, u, p
<1>12. Suffixed(S, r.p, h)
  <2> HIDE DEF S
  <2>1. Suffixed(S, q, h)
    BY <1>2, <1>3, <1>4, <1>6, AddedLeaves
  <2> HIDE DEF q
  <2> QED
    BY <1>2, <1>3, <1>4, <2>1, ParseOuterLeaves
<1>13. ASSUME faults' = <<>>, WellFormed(form)
       PROVE  /\ Prefix(arguments', L.args[L.parts]) /\ Prefix(Contents(files'), L.files[L.parts])
              /\ status' = "open" /\ FollowsOuter(S, L, r.p, u, h) /\ Through(L, r.p, h)
  <2>1. Well(FALSE, S, L) /\ L.args[0] = <<>> /\ L.files[0] = <<>>
    BY <1>2, <1>13, WellIs
  <2>2. fault = "none" /\ faults = <<>> /\ Leaky' = FALSE /\ v = w
    BY <1>9, <1>10, <1>13
  <2>3. FollowsOuter(S, L, p, v, sent)
    BY <1>11, <1>13, <2>2
  <2> HIDE DEF S, L
  <2>4. Traces(FALSE, S, L, p, v, sent)
    BY <2>3, FollowsIs
  <2>5. p \in ParserOf({FALSE}, SubsOf(FALSE)) /\ q \in ParserOf({FALSE}, SubsOf(FALSE))
        /\ FALSE \in BOOLEAN
    BY <1>4 DEF Outer, Subs, SubsOf
  <2>6. Traces(FALSE, S, L, q, v, h)
    BY <1>2, <1>3, <2>4, <2>5, AddedFollows
  <2>7. Proper(FALSE, q, v)
    <3>1. Keeps(q, v, FALSE)
      BY <1>4, <2>2
    <3>2. Going(v)
      BY <1>4, <1>8, <2>2 DEF Going
    <3> HIDE DEF q
    <3> QED
      BY <2>5, <3>1, <3>2 DEF Proper
  <2> HIDE DEF q
  <2>8. Proper(FALSE, r.p, r.w) /\ Traces(FALSE, S, L, r.p, r.w, h) /\ Through(L, r.p, h)
    BY <2>1, <2>6, <2>7, ParseOuterFollows
  <2> HIDE DEF r
  <2>9. FoundPart(L, r.w)
    BY <2>1, <2>8, FoundGrows
  <2>10. FollowsOuter(S, L, r.p, r.w, h)
    BY <2>8, FollowsIs
  <2>11. FollowsOuter(S, L, r.p, u, h)
    BY <1>1, <1>7, <2>10, SameWorld
  <2>12. r.w.success
    BY <2>8 DEF Proper, Going
  <2> QED
    BY <1>1, <2>8, <2>9, <2>11, <2>12 DEF FoundPart, Grows
<1> HIDE DEF r, q
<1>14. status' \in {"open", "failed"}
  BY <1>1
<1> QED
  BY <1>1, <1>12, <1>13, <1>14 DEF FormTrack, u

LEMMA TrackStep == FormInv /\ FormTrack /\ [FormNext]_formVars => FormTrack'
<1> SUFFICES ASSUME FormInv, FormTrack, [FormNext]_formVars PROVE FormTrack'
  OBVIOUS
<1>1. CASE Open
  BY <1>1, OpenTracks
<1>2. CASE \E n \in 1..(Len(form.bytes) - sent), fault \in {"none", "open", "write"} :
               WriteData(n, fault)
  BY <1>2, WriteTracks
<1>3. CASE Close
  BY <1>3, CloseTracks
<1>4. CASE Dealloc
  BY <1>4, RestTracks DEF Dealloc
<1>5. CASE UNCHANGED formVars
  BY <1>5, RestTracks DEF formVars
<1> QED
  BY <1>1, <1>2, <1>3, <1>4, <1>5 DEF FormNext, Gone

\* The inductive invariant of what is found: while nothing fails, the parser of
\* a well-formed form is at a place in its bytes, and what was found is what was
\* sent up to there; of any form, what the parser keeps is the last of what was
\* handed over.
THEOREM FormFollowed == FormSpec => []FormTrack
BY FormStart, FormStep, TrackStart, TrackStep, PTL DEF FormSpec

\* A parser that has the boundary behind a file awaits the rest of its line.
LEMMA LineAwaited ==
    ASSUME NEW S, NEW name, NEW L, IsOutline(S, name, L), NEW p, NEW g, NEW i \in 0..L.parts,
           NEW c \in 0..g, IsAt(S, name, L, p, i, c, g), p.state = "content",
           p.tmpPath # Nil, Waits(p), RangeOf(p.boundary, p.data) # -1
    PROVE  Len(p.data) <= RangeOf(p.boundary, p.data) + Len(p.boundary) + 3
<1> DEFINE at == L.at[i]
           place == RangeOf(p.boundary, p.data)
           b == Boundary(name)
           tail == After(p.data, place + Len(b))
<1>1. /\ S \in Content /\ Len(S) \in Nat /\ at \in Nat /\ name \in {"b", "c"}
  BY Places DEF IsOutline
<1>2. /\ g \in 0..Len(S) /\ p.boundary = b /\ p.data = SubSeq(S, c + 1, g)
      /\ i # 0 /\ PartStart(L, i) <= c /\ c <= at - 2
  BY DEF IsAt
<1>3. Len(b) = 3
  BY <1>1, Marks
<1>4. ~StartsWith(tail, CRLF) /\ ~StartsWith(tail, Dashes \o CRLF)
  BY <1>2 DEF Waits
<1>5. /\ g \in Nat /\ c \in Nat /\ c <= g /\ g <= Len(S) /\ c <= at
  <2> HIDE DEF at
  <2> QED
    BY <1>1, <1>2
<1>6. at + 3 <= g /\ place = at - c
  <2>1. RangeOf(b, SubSeq(S, c + 1, g)) = IF at + 3 <= g THEN at - c ELSE -1
    BY <1>2, <1>5, Search
  <2>2. place = RangeOf(b, SubSeq(S, c + 1, g)) /\ place # -1
    BY <1>2
  <2> HIDE DEF place, at, b
  <2> QED
    BY <2>1, <2>2
<1>7. /\ StartsWith(tail, CRLF) <=> i # L.parts /\ at + 5 <= g
      /\ StartsWith(tail, Dashes \o CRLF) <=> i = L.parts /\ at + 7 <= g
  BY <1>2, <1>5, <1>6, TailIs
<1>8. Len(p.data) = g - c
  BY <1>1, <1>2, <1>5, Piece
<1> HIDE DEF tail, at
<1>9. g < at + 7
  BY <1>1, <1>4, <1>5, <1>7
<1> HIDE DEF place, b
<1>10. Len(p.data) <= place + 3 + 3
  BY <1>1, <1>5, <1>6, <1>8, <1>9
<1> QED
  BY <1>2, <1>3, <1>10 DEF place

\* What the parser of a form keeps of a file: no more than may be the start of
\* the boundary, nor, behind the boundary, than may be the start of what tells
\* whether it is the last one.
THEOREM FilesAreWritten == FormSpec => []BufferBounded
<1>1. FormInv /\ FormTrack => BufferBounded
  <2> SUFFICES ASSUME FormInv, FormTrack PROVE BufferBounded
    OBVIOUS
  <2> DEFINE S == form.bytes
             L == form.lay
             p == parser[1]
             w == World("none")
  <2> SUFFICES ASSUME status = "open", p.tmpPath # Nil
               PROVE  /\ RangeOf(p.boundary, p.data) = -1 =>
                             Len(p.data) <= 2 * Len(p.boundary)
                      /\ RangeOf(p.boundary, p.data) # -1 /\ faults = <<>> /\ WellFormed(form) =>
                             Len(p.data) <= RangeOf(p.boundary, p.data) + Len(p.boundary) + 3
    BY DEF BufferBounded
  <2>1. parser # NoParser /\ Few(p) /\ Waits(p) /\ Keeps(p, w, Leaky)
    BY DEF FormInv, Bounded
  <2>2. RangeOf(p.boundary, p.data) = -1 => Len(p.data) <= 2 * Len(p.boundary)
    BY <2>1 DEF Few
  <2>3. ~w.beyond
    BY DEF World
  <2> HIDE DEF w
  <2>4. p.state = "content"
    BY <2>1, <2>3 DEF Keeps, Holds
  <2>5. ASSUME RangeOf(p.boundary, p.data) # -1, faults = <<>>, WellFormed(form)
        PROVE  Len(p.data) <= RangeOf(p.boundary, p.data) + Len(p.boundary) + 3
    <3>1. FollowsOuter(S, L, p, w, sent)
      BY <2>5 DEF FormTrack, w
    <3>2. S \in Content
      BY BytesAre
    <3>3. IsOutline(S, "b", L)
      BY <2>5, <3>2, WellIs DEF Well, NameOf
    <3>4. PICK i \in 0..L.parts, c \in 0..sent : IsAt(S, "b", L, p, i, c, sent)
      BY <3>1 DEF FollowsOuter
    <3> HIDE DEF S, L, p
    <3> QED
      BY <2>1, <2>4, <2>5, <3>3, <3>4, LineAwaited
  <2> QED
    BY <2>2, <2>5
<1> QED
  BY <1>1, FormInvariance, FormFollowed, PTL

\* However a form is cut, its parts are found as they were sent, in order, and it
\* is accepted when it is whole and only then.
THEOREM PartsFound == FormSpec => []PartsAsSent
<1>1. FormTrack => PartsAsSent
  BY DEF FormTrack, PartsAsSent, Found, World
<1> QED
  BY <1>1, FormFollowed, PTL
=============================================================================
