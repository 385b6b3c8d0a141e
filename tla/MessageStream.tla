----------------------------- MODULE MessageStream -----------------------------
(***************************************************************************)
(* What a subclass of HSDGWebSocket may rely on: didReceiveMessage: is     *)
(* called with text frames of the client, in the order they were sent and  *)
(* none twice, until didClose, which only a frame that is no text brings   *)
(* about.  Nothing is said of frames that are never delivered.             *)
(***************************************************************************)
EXTENDS Integers, Sequences

CONSTANTS
    Frames,   \* the frames a client may send
    Text      \* the text frame among them

VARIABLES
    sent,     \* the frames the client has sent
    received, \* the places in sent of the messages delivered
    open      \* didClose was not called yet

vars == <<sent, received, open>>

\* The place of the last message delivered.
Latest == IF received = <<>> THEN 0 ELSE received[Len(received)]

Init == sent = <<>> /\ received = <<>> /\ open = TRUE

Send ==
    /\ \E f \in Frames : sent' = Append(sent, f)
    /\ UNCHANGED <<received, open>>

Receive ==
    /\ open
    /\ \E i \in (Latest + 1)..Len(sent) :
          sent[i] = Text /\ received' = Append(received, i)
    /\ UNCHANGED <<sent, open>>

Close ==
    /\ open
    /\ \E i \in (Latest + 1)..Len(sent) : sent[i] # Text
    /\ open' = FALSE
    /\ UNCHANGED <<sent, received>>

Next == Send \/ Receive \/ Close

Spec == Init /\ [][Next]_vars
================================================================================
