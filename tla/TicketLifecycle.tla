--------------------------- MODULE TicketLifecycle ---------------------------
(***************************************************************************)
(* What the desk promises of tickets, without cache or coroutines: every   *)
(* operation decides on the rows of the database and changes them in one   *)
(* step.  A user's messages go to the user's current ticket.               *)
(***************************************************************************)
EXTENDS Integers

CONSTANTS
  Users, NoUser,
  MaxTickets,     \* bound: rows the Tickets table may hold
  LateDelete      \* may a deletion land on a ticket reopened meanwhile?

Tickets == 1..MaxTickets
NoTicket == 0

VARIABLES
  status, owner, current,
  cut       \* may an operation be cut off after its first row? never changes

lifecycle == <<status, owner, current, cut>>

Init ==
  /\ cut \in BOOLEAN
  /\ status = [t \in Tickets |-> "none"]
  /\ owner = [t \in Tickets |-> NoUser]
  /\ current = [u \in Users |-> NoTicket]

\* The second row an operation writes, which a crash may keep from being
\* written.
Assign(u, t) ==
  \/ current' = [current EXCEPT ![u] = t]
  \/ cut /\ UNCHANGED current

\* A new ticket becomes the user's current one.
Raise(u, t) ==
  /\ status[t] = "none"
  /\ status' = [status EXCEPT ![t] = "open"]
  /\ owner' = [owner EXCEPT ![t] = u]
  /\ Assign(u, t)

\* A closed ticket is nobody's current ticket.
Close(u, t) ==
  /\ status[t] = "open" /\ owner[t] = u
  /\ status' = [status EXCEPT ![t] = "closed"]
  /\ Assign(u, IF current[u] = t THEN NoTicket ELSE current[u])
  /\ UNCHANGED owner

\* Only a user without a current ticket gets a closed one back.
Reopen(u, t) ==
  /\ status[t] = "closed" /\ owner[t] = u /\ current[u] = NoTicket
  /\ status' = [status EXCEPT ![t] = "open"]
  /\ Assign(u, t)
  /\ UNCHANGED owner

\* Deleting the room ends the ticket.
Delete(t) ==
  /\ status[t] \in IF LateDelete THEN {"open", "closed"} ELSE {"closed"}
  /\ status' = [status EXCEPT ![t] = "deleted"]
  /\ UNCHANGED <<owner, current>>

Step ==
  \/ \E u \in Users, t \in Tickets : Raise(u, t) \/ Close(u, t) \/ Reopen(u, t)
  \/ \E t \in Tickets : Delete(t)

Next == Step /\ UNCHANGED cut

Spec == Init /\ [][Next]_lifecycle
=============================================================================
