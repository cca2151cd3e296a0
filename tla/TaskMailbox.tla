----------------------------- MODULE TaskMailbox -----------------------------
(***************************************************************************)
(* What rooms_pending promises, without rooms, keys, runs and exceptions:  *)
(* a task that was put in is taken out once, to be sent, or is discarded,  *)
(* together with others when the process ends; and that is the end of it.  *)
(***************************************************************************)
CONSTANT Tasks

VARIABLE state   \* what became of each task

Init == state = [t \in Tasks |-> "new"]

Put(t) ==
  /\ state[t] = "new"
  /\ state' = [state EXCEPT ![t] = "waiting"]

Send(t) ==
  /\ state[t] = "waiting"
  /\ state' = [state EXCEPT ![t] = "sent"]

\* Refused, expired, or lost with the process.
Discard(several) ==
  /\ \A t \in several : state[t] = "waiting"
  /\ state' = [t \in Tasks |-> IF t \in several THEN "discarded" ELSE state[t]]

Next ==
  \/ \E t \in Tasks : Put(t) \/ Send(t)
  \/ \E several \in SUBSET Tasks : Discard(several)

Spec == Init /\ [][Next]_state
=============================================================================
