---------------------------- MODULE RelayContract ----------------------------
(***************************************************************************)
(* What the relay promises the support team, without queues, requests,     *)
(* saved events or rooms the client does not know: a user's message is     *)
(* shown in the management room, in a chat room, or in the room of a       *)
(* ticket of that user, and at any time replies, edits and redactions of   *)
(* it apply to one place at most.  When a message is shown elsewhere, the  *)
(* link to where it was shown before is cut first.                         *)
(***************************************************************************)
CONSTANTS
  Users,
  NoUser,
  Messages,
  Tickets,
  Elsewhere,   \* the management room and the chat rooms
  Nowhere

VARIABLES
  writer,      \* who wrote each message, or NoUser
  owner,       \* whom each ticket was raised for, or NoUser
  shown,       \* <<message, place>>: where staff have seen what
  link         \* the place to which replies and edits of a message apply

contract == <<writer, owner, shown, link>>

Init ==
  /\ writer = [m \in Messages |-> NoUser]
  /\ owner = [t \in Tickets |-> NoUser]
  /\ shown = {}
  /\ link = [m \in Messages |-> Nowhere]

Write(m, u) ==
  /\ writer[m] = NoUser
  /\ writer' = [writer EXCEPT ![m] = u]
  /\ UNCHANGED <<owner, shown, link>>

Raise(u, t) ==
  /\ owner[t] = NoUser
  /\ owner' = [owner EXCEPT ![t] = u]
  /\ UNCHANGED <<writer, shown, link>>

\* The link may be lost, but it is never a second one.
Show(m, p) ==
  /\ writer[m] # NoUser /\ link[m] = Nowhere
  /\ p \in Tickets => owner[p] = writer[m]
  /\ shown' = shown \cup {<<m, p>>}
  /\ link' = [link EXCEPT ![m] = p] \/ UNCHANGED link
  /\ UNCHANGED <<writer, owner>>

Unlink(m) ==
  /\ link' = [link EXCEPT ![m] = Nowhere]
  /\ UNCHANGED <<writer, owner, shown>>

Next ==
  \/ \E m \in Messages, u \in Users : Write(m, u)
  \/ \E u \in Users, t \in Tickets : Raise(u, t)
  \/ \E m \in Messages, p \in Tickets \cup Elsewhere : Show(m, p)
  \/ \E m \in Messages : Unlink(m)

Spec == Init /\ [][Next]_contract
=============================================================================
