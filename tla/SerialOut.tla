----------------------------- MODULE SerialOut -----------------------------
(***************************************************************************)
(* What cdc0_write and cdc1_write promise their callers, without the       *)
(* semaphores, the endpoints and the two ports: messages go to the host    *)
(* one at a time, whichever port they are for, a call returns only when    *)
(* its message has been sent, and a message that the host's bus reset      *)
(* discards is never reported as sent.                                     *)
(***************************************************************************)
CONSTANT Writers

VARIABLE stage          \* what became of the message of each writer

Stages == {"idle", "waiting", "sending", "sent", "lost"}

Init == stage = [w \in Writers |-> "idle"]

\* Nobody else has a message between the start of its transfer and its return.
ChannelFree == \A w \in Writers : stage[w] \in {"idle", "waiting"}

Move(w, from, to) == /\ stage[w] = from
                     /\ stage' = [stage EXCEPT ![w] = to]

Call(w)    == Move(w, "idle", "waiting")
Begin(w)   == ChannelFree /\ Move(w, "waiting", "sending")
Refuse(w)  == ChannelFree /\ Move(w, "waiting", "lost")
Deliver(w) == Move(w, "sending", "sent")
Discard(w) == Move(w, "sending", "lost")
Return(w)  == Move(w, "sent", "idle")

Next == \E w \in Writers : \/ Call(w)
                           \/ Begin(w)
                           \/ Refuse(w)
                           \/ Deliver(w)
                           \/ Discard(w)
                           \/ Return(w)

Spec == Init /\ [][Next]_stage
=============================================================================
