------------------------------ MODULE AsyncLog ------------------------------
(***************************************************************************)
(* What background loggers promise: a message sent to one before it is     *)
(* closed is passed on once, after those sent to it before, and closing    *)
(* ends when all of them have been.  What is sent later is lost.           *)
(***************************************************************************)
EXTENDS Sequences

CONSTANTS Msg, Log

VARIABLES pending,   \* per log: accepted, not yet passed on
          emitted,   \* per log: passed on, in order
          phase      \* per log: "open", "closing", "closed"

vars == <<pending, emitted, phase>>

Init == /\ pending = [b \in Log |-> <<>>] /\ emitted = [b \in Log |-> <<>>]
        /\ phase = [b \in Log |-> "open"]

Send(b) ==
    /\ phase[b] = "open"
    /\ \E m \in Msg : pending' = [pending EXCEPT ![b] = Append(@, m)]
    /\ UNCHANGED <<emitted, phase>>

Emit(b) ==
    /\ phase[b] # "closed" /\ pending[b] # <<>>
    /\ emitted' = [emitted EXCEPT ![b] = Append(@, Head(pending[b]))]
    /\ pending' = [pending EXCEPT ![b] = Tail(@)]
    /\ UNCHANGED phase

Close(b) ==
    /\ phase[b] = "open" /\ phase' = [phase EXCEPT ![b] = "closing"]
    /\ UNCHANGED <<pending, emitted>>

Finish(b) ==
    /\ phase[b] = "closing" /\ pending[b] = <<>>
    /\ phase' = [phase EXCEPT ![b] = "closed"]
    /\ UNCHANGED <<pending, emitted>>

Next == \E b \in Log : Send(b) \/ Emit(b) \/ Close(b) \/ Finish(b)

Spec == /\ Init /\ [][Next]_vars
        /\ \A b \in Log : WF_vars(Emit(b)) /\ WF_vars(Finish(b))
=============================================================================
