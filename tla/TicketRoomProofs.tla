-------------------------- MODULE TicketRoomProofs --------------------------
(***************************************************************************)
(* Who is in a ticket's room, for every number of people: with one         *)
(* coroutine at work at a time, which is how staff's commands run.         *)
(***************************************************************************)
EXTENDS TicketRoom, TLAPS

-----------------------------------------------------------------------------
(* Types, for any number of coroutines.                                    *)

\* What is awaited next is a task of its kind.
LEMMA OnwardType ==
  ASSUME TypeOK, NEW at \in Stage, NEW todo \in SUBSET People
  PROVE  Onward(at, todo) \in Task
BY DEF Onward, Task, Idle, Stage, TypeOK, People

LEMMA TypeStep == TypeOK /\ [Next]_vars => TypeOK'
<1> SUFFICES ASSUME TypeOK, [Next]_vars PROVE TypeOK'
  OBVIOUS
<1> USE TicketRoomAssumption DEF TypeOK
<1>0. Idle \in Task
  BY DEF Idle, Task, Stage
<1>1. ASSUME NEW c \in Callers, NEW at \in Stage, NEW todo \in SUBSET People,
             Starts(c, at, todo)
      PROVE  /\ task' \in [Callers -> Task]
             /\ reply' \in [GrpcCalls -> {"none", "waiting", "failed", "success", "error"}]
  BY <1>1 DEF Starts, Task
<1>2. ASSUME NEW c \in Callers, NEW p \in People, Requested(c, p)
      PROVE  /\ task' \in [Callers -> Task]
             /\ UNCHANGED <<open, assigned>>
  <2>1. task[c].at \in Stage /\ task[c].todo \ {p} \in SUBSET People
    BY DEF Task
  <2>2. Onward(task[c].at, task[c].todo \ {p}) \in Task
    BY <2>1, OnwardType
  <2> QED BY <1>2, <2>2 DEF Requested
<1>3. ASSUME NEW c \in Callers, NEW p \in People, Claim(c, p) \/ Claimfor(c, p) PROVE TypeOK'
  <2>1. Starts(c, "claiming", {p}) /\ "claiming" \in Stage /\ {p} \in SUBSET People
    BY <1>3 DEF Claim, Claimfor, Assign, Stage
  <2> QED BY <1>3, <1>1, <2>1 DEF Claim, Claimfor, Assign
<1>4. ASSUME NEW c \in Callers, NEW p \in People, Unassign(c, p) PROVE TypeOK'
  <2>1. Starts(c, "unassigning", {p}) /\ "unassigning" \in Stage /\ {p} \in SUBSET People
    BY <1>4 DEF Unassign, Stage
  <2> QED BY <1>4, <1>1, <2>1 DEF Unassign
<1>5. ASSUME NEW c \in Callers, NEW p \in People,
             Invite(c, p) \/ Kick(c, p) \/ Refused(c, p)
      PROVE  TypeOK'
  <2>1. reply' \in [GrpcCalls -> {"none", "waiting", "failed", "success", "error"}]
    BY <1>5 DEF Invite, Kick, Refused, Fails
  <2> QED BY <1>5, <1>2, <2>1 DEF Invite, Kick, Refused
<1>6. ASSUME NEW c \in Callers, Close(c) PROVE TypeOK'
  BY <1>6, <1>1 DEF Close, Stage
<1>7. ASSUME NEW c \in Callers, Reopen(c) PROVE TypeOK'
  BY <1>7, <1>1 DEF Reopen, Stage
<1>8. ASSUME NEW c \in Callers, Noticed(c) PROVE TypeOK'
  <2>1. /\ Onward("kicking support", assigned \cap Support) \in Task
        /\ Onward("inviting", assigned) \in Task
    BY OnwardType DEF Stage
  <2> QED BY <1>8, <2>1 DEF Noticed
<1>9. ASSUME NEW c \in Callers PROVE Due(c) \subseteq People
  BY DEF Due, Task, People
<1>10. ASSUME NEW c \in Callers, Disconnect(c) PROVE TypeOK'
  BY <1>10, <1>9, <1>0 DEF Disconnect
<1>11. ASSUME Crash PROVE TypeOK'
  BY <1>11, <1>9, <1>0 DEF Crash
<1>12. ASSUME NEW c \in GrpcCalls, Return(c) \/ TimeOut(c) PROVE TypeOK'
  BY <1>12 DEF Return, TimeOut
<1>13. ASSUME NEW p \in People, Leave(p) PROVE TypeOK'
  BY <1>13 DEF Leave
<1>14. ASSUME UNCHANGED vars PROVE TypeOK'
  BY <1>14 DEF vars
<1> QED
  BY <1>3, <1>4, <1>5, <1>6, <1>7, <1>8, <1>10, <1>11, <1>12, <1>13, <1>14
     DEF Next, Handling

LEMMA InitTypes == Init => TypeOK
BY TicketRoomAssumption DEF Init, TypeOK, Task, Idle, Stage, People

\* Rows, the room and the coroutines keep their types, however many coroutines
\* overlap.
THEOREM TypeCorrect == Spec => []TypeOK
BY InitTypes, TypeStep, PTL DEF Spec

-----------------------------------------------------------------------------
(* One coroutine at a time.                                                *)

\* Whom the handler at work is about to invite, or to kick as unassigned.
Coming(c) ==
  CASE task[c].at = "reopening" -> assigned
    [] task[c].at \in {"claiming", "inviting"} -> task[c].todo
    [] OTHER -> {}

Going(c) == IF task[c].at = "unassigning" THEN task[c].todo ELSE {}

Exempt == Support \cap Removable

\* Where a coroutine stands says how the rows and the room differ: those who
\* are still to be invited, or to be kicked, and nobody else.
HandlerAtWork(c) ==
  /\ task[c].at \in {"idle", "closing", "reopening"} => task[c].todo = {}
  /\ task[c].at \in {"claiming", "inviting"} => task[c].todo \subseteq assigned
  /\ task[c].at = "unassigning" => task[c].todo \cap assigned \subseteq Exempt
  /\ Closing(c) => ~open

RowsAndRoom(c) ==
  /\ open => assigned \ Exempt \subseteq inside \cup excused \cup Coming(c)
  /\ inside \subseteq assigned \cup excused \cup Going(c)
  /\ Closing(c) => inside \cap assigned \subseteq excused \cup Due(c)

RoomInv == TypeOK /\ \A c \in Callers : HandlerAtWork(c) /\ RowsAndRoom(c)

LEMMA IdleFields == Idle.at = "idle" /\ Idle.todo = {}
BY DEF Idle

LEMMA OnlyDue ==
  ASSUME NEW c, Callers = {c} PROVE UNION {Due(d) : d \in Callers} = Due(c)
OBVIOUS

\* After the notices of a close.
LEMMA AfterClosingNotices ==
  ASSUME NEW next, next = Onward("kicking support", assigned \cap Support),
         assigned \subseteq Staff \cup Support
  PROVE  \/ next.at = "kicking support" /\ next.todo = assigned \cap Support
         \/ /\ assigned \cap Support = {}
            /\ next.at = "kicking staff" /\ next.todo = assigned \cap Staff
         \/ assigned = {} /\ next.at = "idle" /\ next.todo = {}
<1>1. CASE assigned \cap Support # {}
  BY <1>1 DEF Onward
<1>2. CASE assigned \cap Support = {} /\ assigned \cap Staff # {}
  BY <1>2 DEF Onward
<1>3. CASE assigned \cap Support = {} /\ assigned \cap Staff = {}
  <2>1. next = Idle
    BY <1>3 DEF Onward
  <2> QED BY <1>3, <2>1, IdleFields
<1> QED BY <1>1, <1>2, <1>3

\* After the notices of a reopening.
LEMMA AfterReopeningNotices ==
  ASSUME NEW next, next = Onward("inviting", assigned)
  PROVE  /\ next.at \in {"inviting", "idle"} /\ next.todo = assigned
         /\ next.at = "inviting" \/ assigned = {}
<1>1. CASE assigned = {}
  BY <1>1 DEF Onward, Idle
<1>2. CASE assigned # {}
  BY <1>2 DEF Onward
<1> QED BY <1>1, <1>2

\* The invariant of the only coroutine, from what it awaits next.
LEMMA RoomInvStep ==
  ASSUME NEW c, Callers = {c}, RoomInv, [Next]_vars PROVE RoomInv'
<1> DEFINE Goal == HandlerAtWork(c)' /\ RowsAndRoom(c)'
<1>0. TypeOK'
  BY TypeStep DEF RoomInv
<1>c. c \in Callers /\ \A d \in Callers : d = c
  OBVIOUS
<1>h. HandlerAtWork(c) /\ RowsAndRoom(c)
  BY <1>c DEF RoomInv
<1>t. task[c] \in Task /\ task[c].at \in Stage /\ DOMAIN task = Callers
  BY <1>c DEF RoomInv, TypeOK, Task
<1>n. task'[c] \in Task
  BY <1>c, <1>0 DEF TypeOK
<1>p. /\ assigned \subseteq Staff \cup Support /\ assigned \in SUBSET People
      /\ task[c].todo \subseteq People
  BY <1>t DEF RoomInv, TypeOK, People, Task
<1> USE <1>c, <1>h DEF HandlerAtWork, RowsAndRoom, Coming, Going, Closing, Due, Exempt
<1>1. ASSUME NEW p \in People, Claim(c, p) \/ Claimfor(c, p) PROVE Goal
  <2>1. task'[c] = [at |-> "claiming", todo |-> {p}] /\ task[c].at = "idle"
    <3>1. Assign(c, p)
      BY <1>1 DEF Claim, Claimfor
    <3> QED BY <3>1, <1>t DEF Assign, Starts, Free, Idle
  <2> QED BY <1>1, <2>1 DEF Claim, Claimfor, Assign
<1>2. ASSUME NEW p \in People, Unassign(c, p) PROVE Goal
  <2>1. task'[c] = [at |-> "unassigning", todo |-> {p}] /\ task[c].at = "idle"
    BY <1>2, <1>t DEF Unassign, Starts, Free, Idle
  <2>2. p \in Staff \/ p \in Exempt
    BY <1>2, TicketRoomAssumption DEF Unassign, People
  <2> QED BY <1>2, <2>1, <2>2 DEF Unassign
<1>3. ASSUME Close(c) PROVE Goal
  <2>1. task'[c] = [at |-> "closing", todo |-> {}] /\ task[c].at = "idle"
    BY <1>3, <1>t DEF Close, Starts, Free, Idle
  <2> QED BY <1>3, <2>1 DEF Close
<1>4. ASSUME Reopen(c) PROVE Goal
  <2>1. task'[c] = [at |-> "reopening", todo |-> {}] /\ task[c].at = "idle"
    BY <1>4, <1>t DEF Reopen, Starts, Free, Idle
  <2> QED BY <1>4, <2>1 DEF Reopen
<1>5. ASSUME Noticed(c) PROVE Goal
  <2>0. UNCHANGED <<open, assigned, inside, excused>>
    BY <1>5 DEF Noticed
  <2>1. CASE task[c].at = "closing"
    <3>1. task'[c] = Onward("kicking support", assigned \cap Support)
      BY <1>5, <2>1, <1>t DEF Noticed
    <3>2. \/ task'[c].at = "kicking support" /\ task'[c].todo = assigned \cap Support
          \/ /\ assigned \cap Support = {}
             /\ task'[c].at = "kicking staff" /\ task'[c].todo = assigned \cap Staff
          \/ assigned = {} /\ task'[c].at = "idle" /\ task'[c].todo = {}
      BY <3>1, <1>p, AfterClosingNotices, Zenon
    <3> QED BY <2>0, <2>1, <3>2, <1>p
  <2>2. CASE task[c].at = "reopening"
    <3>1. task'[c] = Onward("inviting", assigned)
      BY <1>5, <2>2, <1>t DEF Noticed
    <3>2. /\ task'[c].at \in {"inviting", "idle"} /\ task'[c].todo = assigned
          /\ task'[c].at = "inviting" \/ assigned = {}
      BY <3>1, <1>p, AfterReopeningNotices, Zenon
    <3> QED BY <2>0, <2>2, <3>2
  <2> QED BY <1>5, <2>1, <2>2 DEF Noticed
<1>6. ASSUME NEW p \in People, Requested(c, p)
      PROVE  /\ p \in task[c].todo
             /\ UNCHANGED <<open, assigned>>
             /\ \/ task'[c].at = task[c].at /\ task'[c].todo = task[c].todo \ {p}
                \/ /\ task[c].todo \ {p} = {} /\ task[c].at = "kicking support"
                   /\ task'[c].at = "kicking staff"
                   /\ task'[c].todo = assigned \cap Staff
                \/ /\ task[c].todo \ {p} = {}
                   /\ task[c].at = "kicking support" => assigned \cap Staff = {}
                   /\ task'[c].at = "idle" /\ task'[c].todo = {}
  <2>1. task'[c] = Onward(task[c].at, task[c].todo \ {p})
    BY <1>6, <1>t DEF Requested
  <2>2. p \in task[c].todo /\ UNCHANGED <<open, assigned>>
    BY <1>6 DEF Requested
  <2>3. CASE task[c].todo \ {p} # {}
    <3> DEFINE next == task'[c]
               at == task[c].at
               rest == task[c].todo \ {p}
    <3>1. next = [at |-> at, todo |-> rest]
      BY <2>1, <2>3 DEF Onward
    <3>2. next.at = at /\ next.todo = rest
      <4> HIDE DEF next, at, rest
      <4> QED BY <3>1
    <3> QED BY <2>2, <3>2
  <2>4. CASE /\ task[c].todo \ {p} = {} /\ task[c].at = "kicking support"
             /\ assigned \cap Staff # {}
    <3> DEFINE next == task'[c]
               rest == assigned \cap Staff
    <3>1. next = [at |-> "kicking staff", todo |-> rest]
      BY <2>1, <2>4 DEF Onward
    <3>2. next.at = "kicking staff" /\ next.todo = rest
      <4> HIDE DEF next, rest
      <4> QED BY <3>1
    <3> QED BY <2>2, <2>4, <3>2
  <2>5. CASE /\ task[c].todo \ {p} = {}
             /\ ~(task[c].at = "kicking support" /\ assigned \cap Staff # {})
    <3>1. task'[c] = Idle
      BY <2>1, <2>5 DEF Onward
    <3>2. task'[c].at = "idle" /\ task'[c].todo = {}
      BY <3>1, IdleFields
    <3> QED BY <2>2, <2>5, <3>2
  <2> QED BY <2>3, <2>4, <2>5
<1>7. ASSUME NEW p \in People, Invite(c, p) PROVE Goal
  <2>1. Requested(c, p) /\ task[c].at \in {"claiming", "inviting"}
    BY <1>7 DEF Invite
  <2>2. inside' = inside \cup {p} /\ excused' = excused \ {p}
    BY <1>7 DEF Invite
  <2>3. p \in task[c].todo /\ p \in assigned /\ UNCHANGED <<open, assigned>>
    BY <1>6, <2>1
  <2>4. \/ task'[c].at \in {"claiming", "inviting"} /\ task'[c].todo = task[c].todo \ {p}
        \/ task'[c].at = "idle" /\ task'[c].todo = {} /\ task[c].todo \ {p} = {}
    BY <1>6, <2>1
  <2> QED BY <2>1, <2>2, <2>3, <2>4
<1>8. ASSUME NEW p \in People, Kick(c, p) PROVE Goal
  <2>1. Requested(c, p) /\ inside' = inside \ {p} /\ excused' = excused \ {p}
    BY <1>8 DEF Kick
  <2>2. CASE task[c].at = "unassigning"
    BY <1>6, <2>1, <2>2, Zenon
  <2>3. CASE task[c].at = "kicking support"
    BY <1>6, <2>1, <2>3, Zenon
  <2>4. CASE task[c].at = "kicking staff"
    BY <1>6, <2>1, <2>4
  <2> QED BY <1>8, <2>2, <2>3, <2>4 DEF Kick
<1>9. ASSUME NEW p \in People, Refused(c, p) PROVE Goal
  <2>1. Requested(c, p) /\ excused' = excused \cup {p} /\ UNCHANGED inside
    BY <1>9 DEF Refused
  <2>2. CASE task[c].at \in {"claiming", "inviting"}
    BY <1>6, <2>1, <2>2
  <2>3. CASE task[c].at = "unassigning"
    BY <1>6, <2>1, <2>3
  <2>4. CASE task[c].at = "kicking support"
    BY <1>6, <2>1, <2>4
  <2>5. CASE task[c].at = "kicking staff"
    BY <1>6, <2>1, <2>5
  <2>6. CASE task[c].at \in {"idle", "closing", "reopening"}
    BY <1>6, <2>1, <2>6
  <2> QED BY <1>t, <2>2, <2>3, <2>4, <2>5, <2>6 DEF Stage
<1>10. ASSUME Disconnect(c) PROVE Goal
  <2>1. task'[c] = Idle /\ UNCHANGED <<open, assigned, inside>> /\ excused' = excused \cup Due(c)
    BY <1>10, <1>t DEF Disconnect
  <2>2. task'[c].at = "idle" /\ task'[c].todo = {}
    BY <2>1, IdleFields
  <2> QED BY <1>t, <2>1, <2>2 DEF Stage
<1>11. ASSUME Crash PROVE Goal
  <2>1. task'[c] = Idle /\ UNCHANGED <<open, assigned, inside>> /\ excused' = excused \cup Due(c)
    BY <1>11, OnlyDue DEF Crash
  <2>2. task'[c].at = "idle" /\ task'[c].todo = {}
    BY <2>1, IdleFields
  <2> QED BY <1>t, <2>1, <2>2 DEF Stage
<1>12. ASSUME NEW g \in GrpcCalls, Return(g) \/ TimeOut(g) PROVE Goal
  <2>1. UNCHANGED <<open, assigned, inside, excused, task>>
    BY <1>12 DEF Return, TimeOut
  <2> QED BY <2>1
<1>13. ASSUME NEW p \in People, Leave(p) PROVE Goal
  BY <1>13 DEF Leave
<1>14. ASSUME UNCHANGED vars PROVE Goal
  BY <1>14 DEF vars
<1>15. Goal
  BY <1>1, <1>2, <1>3, <1>4, <1>5, <1>7, <1>8, <1>9, <1>10, <1>11, <1>12, <1>13, <1>14
     DEF Next, Handling
<1>16. \A d \in Callers : HandlerAtWork(d)' /\ RowsAndRoom(d)'
  BY <1>15, <1>c, Zenon
<1> QED BY <1>0, <1>16 DEF RoomInv

LEMMA RoomInvAlways ==
  ASSUME NEW c, Callers = {c} PROVE Spec => []RoomInv
<1>1. Init => RoomInv
  <2> SUFFICES ASSUME Init PROVE RoomInv
    OBVIOUS
  <2>1. TypeOK
    BY InitTypes
  <2>2. task[c].at = "idle" /\ task[c].todo = {}
    BY IdleFields DEF Init
  <2>3. HandlerAtWork(c) /\ RowsAndRoom(c)
    BY <2>2 DEF Init, HandlerAtWork, RowsAndRoom, Closing, Going, Coming
  <2> QED BY <2>1, <2>3 DEF RoomInv
<1>2. RoomInv /\ [Next]_vars => RoomInv'
  BY RoomInvStep
<1> QED BY <1>1, <1>2, PTL DEF Spec

\* When the handler is done, everybody assigned to an open ticket is in its
\* room, has left, or could not be invited; a support user whom a call removed
\* is the exception.
THEOREM AssignedInside ==
  ASSUME NEW c, Callers = {c} PROVE Spec => []AssignedAreInside
<1>1. RoomInv => AssignedAreInside
  BY DEF RoomInv, RowsAndRoom, Coming, Exempt, AssignedAreInside, Quiet, Free, Idle
<1> QED BY <1>1, RoomInvAlways, PTL

\* When the handler is done, nobody unassigned is in the room who could be
\* kicked.
THEOREM InsideAssigned ==
  ASSUME NEW c, Callers = {c} PROVE Spec => []OnlyAssignedInside
<1>1. RoomInv => OnlyAssignedInside
  BY DEF RoomInv, RowsAndRoom, Going, OnlyAssignedInside, Quiet, Free, Idle
<1> QED BY <1>1, RoomInvAlways, PTL

\* A close ends with nobody assigned in the room, but for those who could not
\* be kicked: the support is kicked first, and the staff, who are read then,
\* after it.
THEOREM ClosingEmpties ==
  ASSUME NEW x, Callers = {x} PROVE Spec => CloseEmptiesRoom
<1>1. RoomInv /\ [Next]_vars
        => \A c \in Callers : Closing(c) /\ task'[c] = Idle =>
             inside' \cap assigned' \subseteq excused'
  <2> SUFFICES ASSUME RoomInv, [Next]_vars, NEW c \in Callers, Closing(c), task'[c] = Idle
               PROVE  inside' \cap assigned' \subseteq excused'
    OBVIOUS
  <2>c. c \in Callers /\ (\A d \in Callers : d = c) /\ Callers = {c}
    OBVIOUS
  <2>h. RowsAndRoom(c)
    BY <2>c DEF RoomInv
  <2>t. task[c] \in Task /\ DOMAIN task = Callers /\ task[c] # Idle
    BY <2>c, IdleFields DEF RoomInv, TypeOK, Task, Closing
  <2>p. assigned \subseteq Staff \cup Support /\ assigned \subseteq People
    BY DEF RoomInv, TypeOK, People
  <2>d. inside \cap assigned \subseteq excused \cup Due(c)
    BY <2>h DEF RowsAndRoom
  <2> USE <2>c
  <2>1. task[c].at # "idle"
    BY DEF Closing
  <2>2. ASSUME NEW p \in People, Requested(c, p)
        PROVE  /\ inside \cap assigned \subseteq excused \cup {p}
               /\ UNCHANGED assigned
    <3>1. Onward(task[c].at, task[c].todo \ {p}) = Idle /\ UNCHANGED assigned
      BY <2>2, <2>t DEF Requested
    <3>2. task[c].todo \ {p} = {}
      <4>1. SUFFICES ASSUME task[c].todo \ {p} # {} PROVE FALSE
        OBVIOUS
      <4>2. [at |-> task[c].at, todo |-> task[c].todo \ {p}] = Idle
        BY <3>1, <4>1 DEF Onward
      <4>3. task[c].at = Idle.at
        BY <4>2
      <4> QED BY <2>1, <4>3, IdleFields
    <3>3. task[c].at = "kicking support" => assigned \cap Staff = {}
      <4>1. SUFFICES ASSUME task[c].at = "kicking support", assigned \cap Staff # {}
                     PROVE  FALSE
        OBVIOUS
      <4>2. [at |-> "kicking staff", todo |-> assigned \cap Staff] = Idle
        BY <3>1, <3>2, <4>1 DEF Onward
      <4> QED BY <4>2 DEF Idle
    <3>4. p \in task[c].todo /\ task[c].at # "closing" /\ task[c].at # "reopening"
      BY <2>2, <2>c DEF Requested, RoomInv, HandlerAtWork
    <3> QED BY <2>d, <3>1, <3>2, <3>3, <3>4 DEF Due
  <2>3. ASSUME NEW p \in People, Handling(c, p)
        PROVE  inside' \cap assigned' \subseteq excused'
    BY <2>3, <2>2, <2>t DEF Handling, Claim, Claimfor, Assign, Unassign, Starts, Free, Invite, Kick, Refused, Closing
  <2>4. ASSUME Noticed(c) PROVE inside' \cap assigned' \subseteq excused'
    <3>1. task[c].at = "closing"
      BY <2>4 DEF Noticed, Closing
    <3>2. Onward("kicking support", assigned \cap Support) = Idle
      BY <2>4, <3>1, <2>t DEF Noticed
    <3>3. /\ [at |-> "kicking support", todo |-> assigned \cap Support] # Idle
          /\ [at |-> "kicking staff", todo |-> assigned \cap Staff] # Idle
      BY DEF Idle
    <3>4. assigned = {}
      BY <2>p, <3>2, <3>3 DEF Onward
    <3> QED BY <2>4, <3>4 DEF Noticed
  <2>5. ASSUME Disconnect(c) PROVE inside' \cap assigned' \subseteq excused'
    BY <2>5, <2>d DEF Disconnect
  <2>6. ASSUME Crash PROVE inside' \cap assigned' \subseteq excused'
    BY <2>6, <2>d, OnlyDue DEF Crash
  <2>7. ASSUME \/ Close(c) \/ Reopen(c)
               \/ \E g \in GrpcCalls : Return(g) \/ TimeOut(g)
               \/ \E p \in People : Leave(p)
               \/ UNCHANGED vars
        PROVE  FALSE
    BY <2>7, <2>t, IdleFields DEF Close, Reopen, Starts, Free, Return, TimeOut, Leave, vars
  <2> QED BY <2>3, <2>4, <2>5, <2>6, <2>7 DEF Next
<1>2. RoomInv /\ [Next]_vars
        => [\A c \in Callers : Closing(c) /\ task'[c] = Idle =>
             inside' \cap assigned' \subseteq excused']_vars
  BY <1>1
<1>3. Spec => []RoomInv
  BY RoomInvAlways
<1> QED BY <1>2, <1>3, PTL DEF Spec, CloseEmptiesRoom
=============================================================================
