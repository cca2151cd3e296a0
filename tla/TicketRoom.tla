----------------------------- MODULE TicketRoom -----------------------------
(***************************************************************************)
(* Who is in the room of a ticket.  The handlers that claim, unassign,     *)
(* close and reopen a ticket change its rows first and then invite or kick *)
(* one person after another, awaiting the homeserver each time.  This      *)
(* module follows one ticket with a room through these awaits; whether a   *)
(* ticket may be closed or reopened at all is in TicketDesk.  Chat rooms   *)
(* are claimed, unassigned and closed alike.                               *)
(*                                                                         *)
(* A gRPC call runs on the loop of its server: it hands the coroutine of   *)
(* the command to the loop of the bot, and looks for ten seconds whether   *)
(* it is done.                                                             *)
(***************************************************************************)
EXTENDS Naturals

CONSTANTS
  Staff,    \* rows of Staff
  Support,  \* rows of Support
  Callers,  \* coroutines that may overlap
  GrpcCalls,  \* those of them that gRPC calls wait for; the others are staff's
  Removable,  \* whom calls remove from the ticket: it should be staff
  MayFail   \* may the homeserver refuse a request, or the process crash?

ASSUME TicketRoomAssumption ==
  /\ Staff \cap Support = {} /\ GrpcCalls \subseteq Callers
  /\ Removable \subseteq Staff \cup Support
  /\ MayFail \in BOOLEAN

People == Staff \cup Support

\* The await of a coroutine: the notices of a close or a reopening, or the
\* next request for the people in todo.  A claim invites one person.
Stage == {"idle", "closing", "reopening", "claiming", "inviting", "unassigning",
          "kicking support", "kicking staff"}
Task == [at : Stage, todo : SUBSET People]
Idle == [at |-> "idle", todo |-> {}]

VARIABLES
  open,      \* is Tickets.status open (or closed)?
  assigned,  \* TicketsStaffRelation and TicketsSupportRelation
  inside,    \* who is invited to the room or has joined it
  excused,   \* who left, or whose last request failed: a history variable
  task,      \* what each coroutine awaits
  reply      \* what each gRPC caller was told; "failed" if its command has ended
             \* with an error and wait_for has not seen it yet

vars == <<open, assigned, inside, excused, task, reply>>

TypeOK ==
  /\ open \in BOOLEAN
  /\ assigned \subseteq People /\ inside \subseteq People /\ excused \subseteq People
  /\ task \in [Callers -> Task]
  /\ reply \in [GrpcCalls -> {"none", "waiting", "failed", "success", "error"}]

\* _raise_ticket creates the room with an invitation for the member of staff
\* who raises the ticket, and claims it.
Init ==
  /\ open = TRUE
  /\ \E s \in Staff : assigned = {s} /\ inside = {s}
  /\ excused = {}
  /\ task = [c \in Callers |-> Idle]
  /\ reply = [c \in GrpcCalls |-> "none"]

Free(c) == task[c] = Idle
Waiting(c) == c \in GrpcCalls /\ reply[c] \in {"waiting", "failed"}

\* A handler starts; run_coroutine_threadsafe, if for a gRPC call.
Starts(c, at, todo) ==
  /\ Free(c) /\ ~Waiting(c)
  /\ task' = [task EXCEPT ![c] = [at |-> at, todo |-> todo]]
  /\ reply' = [g \in GrpcCalls |-> IF g = c THEN "waiting" ELSE reply[g]]

-----------------------------------------------------------------------------
(* Handlers, up to their first await.                                      *)

\* A row, and then the invitation, whatever the status of the ticket.
Assign(c, p) ==
  /\ assigned' = assigned \cup {p}
  /\ Starts(c, "claiming", {p})
  /\ UNCHANGED <<open, inside, excused>>

Claim(c, p) == p \in Staff /\ Assign(c, p)

\* Whoever has no row of Support yet gets one.
Claimfor(c, p) == p \in Support /\ Assign(c, p)

\* Mutant: without the kick.
UnassignOnly(c, p) ==
  /\ p \in Removable
  /\ assigned' = assigned \ ({p} \cap Staff)
  /\ UNCHANGED <<open, inside, excused, task, reply>>

\* unassign_staff_from_ticket, for anyone a call names: nothing removes the row
\* of a support user.
Unassign(c, p) ==
  /\ p \in Removable
  /\ assigned' = assigned \ ({p} \cap Staff)
  /\ Starts(c, "unassigning", {p})
  /\ UNCHANGED <<open, inside, excused>>

Close(c) ==
  /\ open
  /\ open' = FALSE
  /\ Starts(c, "closing", {})
  /\ UNCHANGED <<assigned, inside, excused>>

Reopen(c) ==
  /\ ~open
  /\ open' = TRUE
  /\ Starts(c, "reopening", {})
  /\ UNCHANGED <<assigned, inside, excused>>

-----------------------------------------------------------------------------
(* From one await to the next.                                             *)

\* Mutant: the staff are not kicked.
OnwardWithoutStaff(at, todo) == IF todo # {} THEN [at |-> at, todo |-> todo] ELSE Idle

\* What a coroutine awaits after a request: the next one of the same kind; the
\* staff, who are read when all support is kicked; or nothing.
Onward(at, todo) ==
  CASE todo # {} -> [at |-> at, todo |-> todo]
    [] at = "kicking support" /\ todo = {} /\ assigned \cap Staff # {} ->
         [at |-> "kicking staff", todo |-> assigned \cap Staff]
    [] OTHER -> Idle

\* Mutant: a reopening invites staff only.
NoticedStaff(c) ==
  /\ task[c].at \in {"closing", "reopening"}
  /\ task' = [task EXCEPT ![c] =
                IF @.at = "closing"
                THEN Onward("kicking support", assigned \cap Support)
                ELSE Onward("inviting", assigned \cap Staff)]
  /\ UNCHANGED <<open, assigned, inside, excused, reply>>

\* The notices are sent, and the assigned people are read.
Noticed(c) ==
  /\ task[c].at \in {"closing", "reopening"}
  /\ task' = [task EXCEPT ![c] =
                IF @.at = "closing"
                THEN Onward("kicking support", assigned \cap Support)
                ELSE Onward("inviting", assigned)]
  /\ UNCHANGED <<open, assigned, inside, excused, reply>>

Requested(c, p) ==
  /\ p \in task[c].todo
  /\ task' = [task EXCEPT ![c] = Onward(@.at, @.todo \ {p})]
  /\ UNCHANGED <<open, assigned>>

\* claim and claimfor end with an ErrorResponse; other commands only log what
\* goes wrong with a request.
Fails(c) ==
  reply' = [g \in GrpcCalls |->
              IF g = c /\ task[c].at = "claiming" THEN "failed" ELSE reply[g]]

\* A claim also fails if the person is invited but the keys cannot be shared.
Invite(c, p) ==
  /\ task[c].at \in {"claiming", "inviting"}
  /\ Requested(c, p)
  /\ UNCHANGED reply \/ (MayFail /\ Fails(c))
  /\ inside' = inside \cup {p}
  /\ excused' = excused \ {p}

Kick(c, p) ==
  /\ task[c].at \in {"unassigning", "kicking support", "kicking staff"}
  /\ Requested(c, p)
  /\ UNCHANGED reply
  /\ inside' = inside \ {p}
  /\ excused' = excused \ {p}

\* Nobody tries again after a refused request.
Refused(c, p) ==
  /\ MayFail
  /\ Requested(c, p)
  /\ Fails(c)
  /\ excused' = excused \cup {p}
  /\ UNCHANGED inside

Leave(p) ==
  /\ p \in inside
  /\ inside' = inside \ {p}
  /\ excused' = excused \cup {p}
  /\ UNCHANGED <<open, assigned, task, reply>>

\* Whom the handler has still to invite or kick.
Due(c) ==
  CASE task[c].at = "closing" -> assigned
    [] task[c].at = "reopening" -> assigned
    [] task[c].at = "kicking support" -> task[c].todo \cup (assigned \cap Staff)
    [] OTHER -> task[c].todo

\* The connection is lost in a request, and nothing catches the exception before
\* the sync loop, which logs in again, or the gRPC server.
Disconnect(c) ==
  /\ MayFail
  /\ ~Free(c)
  /\ excused' = excused \cup Due(c)
  /\ task' = [task EXCEPT ![c] = Idle]
  /\ reply' = [g \in GrpcCalls |-> IF g = c /\ Waiting(g) THEN "error" ELSE reply[g]]
  /\ UNCHANGED <<open, assigned, inside>>

\* The requests that were still to come are never made.
Crash ==
  /\ MayFail
  /\ excused' = excused \cup UNION {Due(c) : c \in Callers}
  /\ task' = [c \in Callers |-> Idle]
  /\ reply' = [c \in GrpcCalls |-> "none"]
  /\ UNCHANGED <<open, assigned, inside>>

-----------------------------------------------------------------------------
(* The gRPC server.                                                        *)

\* wait_for finds the coroutine done, and the call is told how it has ended.
Return(c) ==
  /\ Waiting(c) /\ Free(c)
  /\ reply' = [reply EXCEPT ![c] = IF @ = "failed" THEN "error" ELSE "success"]
  /\ UNCHANGED <<open, assigned, inside, excused, task>>

\* wait_for runs out of time and returns None, as a command does that is done;
\* the coroutine goes on.
TimeOut(c) ==
  /\ Waiting(c) /\ ~Free(c)
  /\ reply' = [reply EXCEPT ![c] = "success"]
  /\ UNCHANGED <<open, assigned, inside, excused, task>>

-----------------------------------------------------------------------------
Handling(c, p) ==
  \/ Claim(c, p) \/ Claimfor(c, p) \/ Unassign(c, p)
  \/ Invite(c, p) \/ Kick(c, p) \/ Refused(c, p)

Next ==
  \/ \E c \in Callers, p \in People : Handling(c, p)
  \/ \E c \in Callers : Close(c) \/ Reopen(c) \/ Noticed(c) \/ Disconnect(c)
  \/ \E c \in GrpcCalls : Return(c) \/ TimeOut(c)
  \/ \E p \in People : Leave(p)
  \/ Crash

Spec == Init /\ [][Next]_vars

-----------------------------------------------------------------------------
(* Properties.                                                             *)

Quiet == \A c \in Callers : Free(c)

\* When no handler is at work, everybody assigned to an open ticket is in its
\* room, but for those who left or could not be invited: reopen_ticket invites
\* again whom close_ticket kicked.  A support user whom a call may remove is
\* kicked and stays assigned.
AssignedAreInside ==
  Quiet /\ open => assigned \ (Support \cap Removable) \subseteq inside \cup excused

\* The same of everybody.
AllAssignedAreInside ==
  Quiet /\ open => assigned \subseteq inside \cup excused

\* When no handler is at work, nobody is in the room who is not assigned, but
\* for those who could not be kicked.
OnlyAssignedInside ==
  Quiet => inside \subseteq assigned \cup excused

Closing(c) == task[c].at \in {"closing", "kicking support", "kicking staff"}

\* A close that has run to its end leaves nobody assigned in the room, but for
\* those who could not be kicked.
CloseEmptiesRoom ==
  [][\A c \in Callers : Closing(c) /\ task'[c] = Idle =>
       inside' \cap assigned' \subseteq excused']_vars

\* A call that closes a ticket is told of success when those assigned are out of
\* the room: one that takes too long is told "Timed out while closing ticket"
\* (ThreadManager.close_ticket).
SuccessIsReal ==
  \A c \in GrpcCalls :
    reply[c] = "success" /\ Closing(c) => assigned \cap inside = {}
=============================================================================
