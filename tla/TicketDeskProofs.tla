-------------------------- MODULE TicketDeskProofs --------------------------
(***************************************************************************)
(* What holds of the ticket desk for every set of users, every number of   *)
(* tickets and every number of concurrent coroutines.                      *)
(***************************************************************************)
EXTENDS TicketDesk, TLAPS

\* Every stored ticket has a user, and a coroutine that awaits the homeserver
\* works on a stored ticket.
RowsOwned ==
  /\ \A t \in Tickets : Exists(t) => owner[t] \in Users
  /\ \A c \in Callers : pending[c].at = "leaving" =>
       pending[c].ticket \in Tickets /\ Exists(pending[c].ticket)

Coherent == TypeOK /\ RowsOwned /\ CacheTellsStatus

\* get_existing returns an object of the right type that tells the status of
\* the row, from the cache or not.
LEMMA FoundTellsStatus ==
  ASSUME Coherent, NEW t \in Tickets
  PROVE  Found(t) \in Entry /\ Found(t).status = status[t]
<1>1. cache[t] \in Entry /\ status[t] \in Status /\ room[t] \in BOOLEAN
  BY DEF Coherent, TypeOK
<1>2. CASE Cached(t)
  BY <1>1, <1>2 DEF Coherent, CacheTellsStatus, Found
<1>3. CASE ~Cached(t)
  BY <1>1, <1>3 DEF Found, Entry
<1> QED BY <1>2, <1>3

LEMMA CallersAssumption == Main \in Callers /\ GrpcCalls \subseteq Callers
BY DEF Callers

LEMMA InitCoherent == Init => Coherent
<1> SUFFICES ASSUME Init PROVE Coherent
  OBVIOUS
<1> USE TicketDeskAssumption
<1>1. TypeOK
  BY DEF Init, TypeOK, Status, Entry, NoEntry, Await, Idle
<1>2. RowsOwned
  BY DEF Init, RowsOwned, Exists, Idle
<1>3. CacheTellsStatus
  BY DEF Init, CacheTellsStatus, Cached, NoEntry
<1> QED BY <1>1, <1>2, <1>3 DEF Coherent

-----------------------------------------------------------------------------
(* Coherence is inductive: type, owners, and the cached statuses.          *)

LEMMA CoherentStep == Coherent /\ [Next]_vars => Coherent'
<1> SUFFICES ASSUME Coherent, [Next]_vars PROVE Coherent'
  OBVIOUS
<1>0. UNCHANGED world
  BY DEF Next, vars
<1> USE <1>0
<1> USE TicketDeskAssumption, CallersAssumption
<1> USE DEF Coherent, TypeOK, RowsOwned, CacheTellsStatus, Exists, Cached, Status, Entry,
            NoEntry, Await, Idle, Free
<1>1. ASSUME NEW u \in Users, NEW t \in Tickets, Raise(u, t) PROVE Coherent'
  BY <1>1 DEF Raise, Insert, Unused
<1>2. ASSUME NEW u \in Users, NEW t \in Tickets, CrashInRaise(u, t) PROVE Coherent'
  BY <1>2 DEF CrashInRaise, Insert, Unused, Restarted
<1>3. ASSUME NEW t \in Tickets, RoomCreated(t) PROVE Coherent'
  <2> DEFINE e == cache[t]
  <2>0. LET made == IF e.raised THEN [e EXCEPT !.room = TRUE, !.raised = FALSE] ELSE e
        IN  made \in Entry /\ made.status = e.status
    <3>1. e \in Entry
      OBVIOUS
    <3> HIDE DEF e
    <3> QED BY <3>1
  <2>1. cache'[t] \in Entry /\ cache'[t].status = cache[t].status
    BY <1>3, <2>0 DEF RoomCreated
  <2>3. \A s \in Tickets : s # t => cache'[s] = cache[s]
    BY <1>3 DEF RoomCreated
  <2>4. cache' \in [Tickets -> Entry]
    BY <1>3, <2>1, <2>3 DEF RoomCreated
  <2>5. CacheTellsStatus'
    BY <1>3, <2>1, <2>3 DEF RoomCreated
  <2> QED BY <1>3, <2>4, <2>5 DEF RoomCreated
<1>4. ASSUME NEW t \in Tickets, RoomRefused(t) PROVE Coherent'
  <2> DEFINE e == cache[t]
  <2>0. [e EXCEPT !.raised = FALSE] \in Entry /\ [e EXCEPT !.raised = FALSE].status = e.status
    <3>1. e \in Entry
      OBVIOUS
    <3> HIDE DEF e
    <3> QED BY <3>1
  <2>1. cache'[t] \in Entry /\ cache'[t].status = cache[t].status
    BY <1>4, <2>0 DEF RoomRefused
  <2>3. \A s \in Tickets : s # t => cache'[s] = cache[s]
    BY <1>4 DEF RoomRefused
  <2>4. cache' \in [Tickets -> Entry]
    BY <1>4, <2>1, <2>3 DEF RoomRefused
  <2>5. CacheTellsStatus'
    BY <1>4, <2>1, <2>3 DEF RoomRefused, db
  <2> QED BY <1>4, <2>4, <2>5 DEF RoomRefused, db
<1>5. ASSUME NEW c \in Callers, NEW t \in Tickets, Close(c, t) PROVE Coherent'
  BY <1>5 DEF Close, SetStatus, Closable
<1>6. ASSUME NEW c \in Callers, NEW t \in Tickets, CrashInClose(c, t) PROVE Coherent'
  BY <1>6 DEF CrashInClose, Restarted, Closable
<1>7. ASSUME NEW c \in Callers, NEW t \in Tickets, Reopen(c, t) PROVE Coherent'
  BY <1>7 DEF Reopen, SetStatus, Reopenable
<1>8. ASSUME NEW c \in Callers, NEW t \in Tickets, CrashInReopen(c, t) PROVE Coherent'
  BY <1>8 DEF CrashInReopen, Restarted, Reopenable
<1>9. ASSUME NEW c \in Callers, NEW t \in Tickets, StartDelete(c, t) PROVE Coherent'
  BY <1>9, FoundTellsStatus DEF StartDelete, Deletable, Remember, db
<1>10. ASSUME NEW c \in Callers, NEW t \in Tickets, FinishDelete(c, t) PROVE Coherent'
  BY <1>10 DEF FinishDelete, SetStatus
<1>11. ASSUME NEW c \in Callers, NEW t \in Tickets, LeaveFailed(c, t) PROVE Coherent'
  BY <1>11 DEF LeaveFailed, db
<1>12. ASSUME NEW c \in Callers, NEW t \in Tickets, LookUp(c, t) PROVE Coherent'
  BY <1>12, FoundTellsStatus DEF LookUp, Remember
<1>13. ASSUME Crash PROVE Coherent'
  BY <1>13 DEF Crash, Restarted, db
<1>14. ASSUME UNCHANGED vars PROVE Coherent'
  BY <1>14 DEF vars
<1> QED
  BY <1>1, <1>2, <1>3, <1>4, <1>5, <1>6, <1>7, <1>8, <1>9, <1>10, <1>11, <1>12,
     <1>13, <1>14 DEF Next, Step, Raising, Command

\* The ticket desk keeps its types, owners and cached statuses coherent.
THEOREM CoherentAlways == Spec => []Coherent
BY InitCoherent, CoherentStep, PTL DEF Spec

\* Every variable keeps its type.
THEOREM TypeCorrect == Spec => []TypeOK
<1>1. Coherent => TypeOK
  BY DEF Coherent
<1> QED BY <1>1, CoherentAlways, PTL

\* A cache hit tells the status of the row, whatever coroutines run and
\* wherever a crash falls: handlers may decide on the cached object.
THEOREM CacheCoherent == Spec => []CacheTellsStatus
<1>1. Coherent => CacheTellsStatus
  BY DEF Coherent
<1> QED BY <1>1, CoherentAlways, PTL

-----------------------------------------------------------------------------
(* What a step may do to a status.                                         *)

Moves == {<<"none", "open">>, <<"open", "closed">>, <<"closed", "open">>}

\* Only the five handlers that write a status change one, and each decides on
\* the status of the row.
LEMMA StatusMoves ==
  ASSUME Coherent, [Next]_vars, NEW t \in Tickets, status'[t] # status[t]
  PROVE  \/ <<status[t], status'[t]>> \in Moves
         \/ /\ status'[t] = "deleted"
            /\ \E c \in Callers : FinishDelete(c, t)
<1> USE DEF Coherent, TypeOK
<1> DEFINE Goal == \/ <<status[t], status'[t]>> \in Moves
                  \/ /\ status'[t] = "deleted"
                     /\ \E c \in Callers : FinishDelete(c, t)
<1>1. ASSUME NEW u \in Users, NEW s \in Tickets, Raising(u, s) PROVE Goal
  BY <1>1 DEF Raising, Raise, CrashInRaise, Insert, Unused, Exists, Moves
<1>2. ASSUME NEW s \in Tickets, RoomCreated(s) \/ RoomRefused(s) PROVE Goal
  BY <1>2 DEF RoomCreated, RoomRefused, db
<1>3. ASSUME NEW c \in Callers, NEW s \in Tickets, Command(c, s) PROVE Goal
  <2>1. CASE Close(c, s) \/ CrashInClose(c, s)
    BY <2>1, FoundTellsStatus DEF Close, CrashInClose, Closable, SetStatus, Moves
  <2>2. CASE Reopen(c, s) \/ CrashInReopen(c, s)
    BY <2>2, FoundTellsStatus DEF Reopen, CrashInReopen, Reopenable, SetStatus, Moves
  <2>3. CASE FinishDelete(c, s)
    <3>1. status' = [status EXCEPT ![s] = "deleted"]
      BY <2>3 DEF FinishDelete, SetStatus
    <3>2. s = t /\ status'[t] = "deleted"
      BY <3>1
    <3> QED BY <2>3, <3>2
  <2>4. CASE StartDelete(c, s) \/ LeaveFailed(c, s) \/ LookUp(c, s)
    BY <2>4 DEF StartDelete, LeaveFailed, LookUp, db
  <2> QED BY <1>3, <2>1, <2>2, <2>3, <2>4 DEF Command
<1>4. ASSUME Crash PROVE Goal
  BY <1>4 DEF Crash, db
<1> QED BY <1>1, <1>2, <1>3, <1>4 DEF Next, Step, vars

\* A ticket that was deleted stays deleted: the status decided on is the
\* row's, and no handler acts on a deleted one.
THEOREM DeletedStays == Spec => DeletedForGood
<1> DEFINE A == \A t \in Tickets : status[t] = "deleted" => status'[t] = "deleted"
<1>1. Coherent /\ [Next]_vars => A
  BY StatusMoves DEF Moves
<1>2. Coherent /\ [Next]_vars => [A]_vars
  BY <1>1
<1> QED BY <1>2, CoherentAlways, PTL DEF Spec, DeletedForGood

\* A user's messages stop going to a ticket only when that ticket is closed or
\* another one is raised for the user: a close decides on the row of its own
\* ticket, and a reopening on a user without a current one.
THEOREM RoutedTillClosed == Spec => RoutedUntilClosed
<1> DEFINE A == \A u \in Users : LET t == current[u] IN t # NoTicket /\ current'[u] # t =>
                  \/ status[t] = "open" /\ status'[t] = "closed"
                  \/ \E s \in Tickets : ~Exists(s) /\ owner'[s] = u /\ current'[u] = s
<1>1. Coherent /\ [Next]_vars => A
  <2> SUFFICES ASSUME Coherent, [Next]_vars, NEW u \in Users,
                      current[u] # NoTicket, current'[u] # current[u]
               PROVE  \/ status[current[u]] = "open" /\ status'[current[u]] = "closed"
                      \/ \E s \in Tickets : ~Exists(s) /\ owner'[s] = u /\ current'[u] = s
    BY Zenon
  <2> USE DEF Coherent, TypeOK, RowsOwned
  <2>1. ASSUME NEW v \in Users, NEW s \in Tickets, Raise(v, s)
        PROVE  ~Exists(s) /\ owner'[s] = u /\ current'[u] = s
    BY <2>1 DEF Raise, Insert, Unused
  <2>2. ASSUME NEW c \in Callers, NEW s \in Tickets, Close(c, s)
        PROVE  status[current[u]] = "open" /\ status'[current[u]] = "closed"
    <3>1. current[u] = s
      BY <2>2 DEF Close
    <3>2. status[s] = "open"
      BY <2>2, FoundTellsStatus DEF Close, Closable
    <3> QED BY <2>2, <3>1, <3>2 DEF Close, SetStatus
  <2>3. ASSUME NEW c \in Callers, NEW s \in Tickets, Reopen(c, s) PROVE FALSE
    BY <2>3 DEF Reopen, Reopenable
  <2>4. \/ \E v \in Users, s \in Tickets : Raise(v, s)
        \/ \E c \in Callers, s \in Tickets : Close(c, s) \/ Reopen(c, s)
    BY DEF Next, Step, Raising, Command, vars, CrashInRaise, RoomCreated, RoomRefused,
           CrashInClose, CrashInReopen, StartDelete, FinishDelete, LeaveFailed, LookUp,
           Crash, db
  <2> QED BY <2>1, <2>2, <2>3, <2>4
<1>2. Coherent /\ [Next]_vars => [A]_vars
  BY <1>1
<1> QED BY <1>2, CoherentAlways, PTL DEF Spec, RoutedUntilClosed

-----------------------------------------------------------------------------
(* The user's current ticket.                                              *)

\* The ids in use have no gap, so that the next ticket is later than all others;
\* what is not in use has no owner.
NoGap ==
  /\ \A s, t \in Tickets : s < t /\ Exists(t) => Exists(s)
  /\ \A t \in Tickets : ~Exists(t) => owner[t] = NoUser

\* Only a raise adds a ticket.
LEMMA OnlyRaiseInserts ==
  ASSUME Coherent, [Next]_vars, NEW t \in Tickets, ~Exists(t), status'[t] # "none"
  PROVE  Unused(t)
<1> USE DEF Coherent, TypeOK, RowsOwned, Exists
<1>1. ASSUME NEW u \in Users, NEW s \in Tickets, Raising(u, s) PROVE Unused(t)
  <2>1. Unused(s) /\ status' = [status EXCEPT ![s] = "open"]
    BY <1>1 DEF Raising, Raise, CrashInRaise, Insert
  <2> QED BY <2>1
<1>2. ASSUME NEW s \in Tickets, RoomCreated(s) \/ RoomRefused(s) PROVE FALSE
  BY <1>2 DEF RoomCreated, RoomRefused, db
<1>3. ASSUME NEW c \in Callers, NEW s \in Tickets, Command(c, s) PROVE FALSE
  <2>1. CASE Close(c, s) \/ CrashInClose(c, s)
    BY <2>1 DEF Close, CrashInClose, Closable, SetStatus
  <2>2. CASE Reopen(c, s) \/ CrashInReopen(c, s)
    BY <2>2 DEF Reopen, CrashInReopen, Reopenable, SetStatus
  <2>3. CASE FinishDelete(c, s)
    BY <2>3 DEF FinishDelete, SetStatus
  <2>4. CASE StartDelete(c, s) \/ LeaveFailed(c, s) \/ LookUp(c, s)
    BY <2>4 DEF StartDelete, LeaveFailed, LookUp, db
  <2> QED BY <1>3, <2>1, <2>2, <2>3, <2>4 DEF Command
<1>4. ASSUME Crash \/ UNCHANGED vars PROVE FALSE
  BY <1>4 DEF Crash, db, vars
<1> QED BY <1>1, <1>2, <1>3, <1>4 DEF Next, Step

\* Only a raise writes an owner, that of the ticket it adds.
LEMMA OwnerStays ==
  ASSUME Coherent, [Next]_vars, NEW t \in Tickets, owner'[t] # owner[t]
  PROVE  status'[t] = "open"
<1> USE DEF Coherent, TypeOK
<1>1. ASSUME NEW u \in Users, NEW s \in Tickets, Raising(u, s) PROVE status'[t] = "open"
  BY <1>1 DEF Raising, Raise, CrashInRaise, Insert
<1>2. ASSUME NEW s \in Tickets, RoomCreated(s) \/ RoomRefused(s) PROVE FALSE
  BY <1>2 DEF RoomCreated, RoomRefused, db
<1>3. ASSUME NEW c \in Callers, NEW s \in Tickets, Command(c, s) PROVE FALSE
  BY <1>3 DEF Command, Close, CrashInClose, Reopen, CrashInReopen, FinishDelete, StartDelete,
              LeaveFailed, LookUp, db
<1>4. ASSUME Crash \/ UNCHANGED vars PROVE FALSE
  BY <1>4 DEF Crash, db, vars
<1> QED BY <1>1, <1>2, <1>3, <1>4 DEF Next, Step

LEMMA NoGapStep == Coherent /\ NoGap /\ [Next]_vars => NoGap'
<1> SUFFICES ASSUME Coherent, NoGap, [Next]_vars PROVE NoGap'
  OBVIOUS
<1>1. \A t \in Tickets : Exists(t) => status'[t] # "none"
  BY StatusMoves DEF Moves, Exists
<1>2. \A t \in Tickets : status'[t] # "none" => Exists(t) \/ Unused(t)
  BY OnlyRaiseInserts
<1>3. \A s, t \in Tickets : s < t /\ status'[t] # "none" => status'[s] # "none"
  BY <1>1, <1>2 DEF NoGap, Unused
<1>4. \A t \in Tickets : status'[t] = "none" => owner'[t] = NoUser
  <2> SUFFICES ASSUME NEW t \in Tickets, status'[t] = "none" PROVE owner'[t] = NoUser
    OBVIOUS
  <2>1. ~Exists(t)
    BY <1>1
  <2>2. owner'[t] = owner[t]
    BY OwnerStays
  <2> QED BY <2>1, <2>2 DEF NoGap
<1> QED BY <1>3, <1>4 DEF NoGap, Exists

LEMMA LatestOpenStep ==
  Coherent /\ NoGap /\ LatestOpenIsCurrent /\ [Next]_vars => LatestOpenIsCurrent'
<1> SUFFICES ASSUME Coherent, NoGap, LatestOpenIsCurrent, [Next]_vars, ~MidCrash,
                    NEW t \in Tickets, status'[t] = "open",
                    \A s \in Tickets : s > t => owner'[s] # owner'[t]
             PROVE  current'[owner'[t]] = t
  BY DEF Next, vars, MidCrash, LatestOpenIsCurrent
<1> USE DEF Coherent, TypeOK, RowsOwned, Exists
<1>0. ASSUME UNCHANGED <<owner, current>>, status'[t] = status[t]
      PROVE  current'[owner'[t]] = t
  BY <1>0 DEF LatestOpenIsCurrent
<1>1. ASSUME NEW u \in Users, NEW s \in Tickets, Raise(u, s) PROVE current'[owner'[t]] = t
  <2>1. /\ status' = [status EXCEPT ![s] = "open"]
        /\ owner' = [owner EXCEPT ![s] = u]
        /\ current' = [current EXCEPT ![u] = s]
        /\ status[s] = "none"
    BY <1>1 DEF Raise, Insert, Unused
  <2>2. CASE t = s
    BY <2>1, <2>2
  <2>3. CASE t # s
    <3>1. status[t] = "open" /\ owner'[t] = owner[t] /\ owner[t] \in Users
      BY <2>1, <2>3
    <3>2. s > t
      BY <2>1, <2>3, <3>1 DEF NoGap, Tickets
    <3>3. owner[t] # u
      BY <2>1, <3>1, <3>2
    <3>4. \A r \in Tickets : r > t => owner[r] # owner[t]
      BY <2>1, <3>1, <3>3, TicketDeskAssumption DEF NoGap
    <3> QED BY <2>1, <3>1, <3>3, <3>4 DEF LatestOpenIsCurrent
  <2> QED BY <2>2, <2>3
<1>2. ASSUME NEW s \in Tickets, RoomCreated(s) \/ RoomRefused(s) PROVE current'[owner'[t]] = t
  BY <1>0, <1>2 DEF RoomCreated, RoomRefused, db
<1>3. ASSUME NEW c \in Callers, NEW s \in Tickets, Command(c, s) PROVE current'[owner'[t]] = t
  <2>1. CASE Close(c, s)
    <3>1. /\ t # s /\ status[t] = "open" /\ owner' = owner
          /\ current' = [current EXCEPT ![owner[s]] = IF @ = s THEN NoTicket ELSE @]
      BY <2>1 DEF Close, SetStatus
    <3>2. current[owner[t]] = t /\ owner[t] \in Users
      BY <3>1 DEF LatestOpenIsCurrent
    <3> QED BY <3>1, <3>2
  <2>2. CASE Reopen(c, s)
    <3>1. /\ status' = [status EXCEPT ![s] = "open"] /\ owner' = owner
          /\ current' = [current EXCEPT ![owner[s]] = s]
          /\ current[owner[s]] = NoTicket /\ owner[s] \in Users
      BY <2>2 DEF Reopen, Reopenable, SetStatus
    <3>2. CASE t = s
      BY <3>1, <3>2
    <3>3. CASE t # s
      <4>1. current[owner[t]] = t /\ owner[t] \in Users
        BY <3>1, <3>3 DEF LatestOpenIsCurrent
      <4>2. owner[t] # owner[s]
        BY <3>1, <4>1 DEF Tickets, NoTicket
      <4> QED BY <3>1, <4>1, <4>2
    <3> QED BY <3>2, <3>3
  <2>3. CASE FinishDelete(c, s)
    BY <1>0, <2>3 DEF FinishDelete, SetStatus
  <2>4. CASE StartDelete(c, s) \/ LeaveFailed(c, s) \/ LookUp(c, s)
    BY <1>0, <2>4 DEF StartDelete, LeaveFailed, LookUp, db
  <2> QED BY <1>3, <2>1, <2>2, <2>3, <2>4 DEF Command, CrashInClose, CrashInReopen
<1>4. ASSUME Crash \/ UNCHANGED vars PROVE current'[owner'[t]] = t
  BY <1>0, <1>4 DEF Crash, db, vars
<1> QED BY <1>1, <1>2, <1>3, <1>4 DEF Next, Step, Raising, CrashInRaise

\* Whatever coroutines interleave: a user's messages go to the last ticket
\* raised for the user while that one is open, as long as no crash cuts a
\* segment in two.
THEOREM LatestOpenCurrent == Spec => []LatestOpenIsCurrent
<1>1. Init => NoGap /\ LatestOpenIsCurrent
  BY DEF Init, NoGap, Exists, LatestOpenIsCurrent
<1> QED BY <1>1, NoGapStep, LatestOpenStep, CoherentAlways, PTL DEF Spec

\* Without crashes inside a segment the current ticket is never closed.
LEMMA CurrentIsLiveStep == Coherent /\ CurrentIsLive /\ [Next]_vars => CurrentIsLive'
<1> SUFFICES ASSUME Coherent, CurrentIsLive, [Next]_vars, ~MidCrash PROVE CurrentIsLive'
  BY DEF Next, vars, MidCrash, CurrentIsLive
<1> USE DEF Coherent, TypeOK, RowsOwned, CurrentIsLive, Exists, Tickets, NoTicket
<1>1. ASSUME NEW u \in Users, NEW s \in Tickets, Raising(u, s) PROVE CurrentIsLive'
  <2> SUFFICES ASSUME NEW v \in Users, current'[v] # NoTicket
               PROVE  owner'[current'[v]] = v /\ status'[current'[v]] \in {"open", "deleted"}
    OBVIOUS
  <2>1. /\ status' = [status EXCEPT ![s] = "open"]
        /\ owner' = [owner EXCEPT ![s] = u]
        /\ status[s] = "none"
        /\ current' = [current EXCEPT ![u] = s] \/ current' = current
    BY <1>1 DEF Raising, Raise, CrashInRaise, Insert, Unused
  <2>2. CASE current'[v] = current[v]
    <3>1. current[v] \in Tickets /\ current[v] # s
      BY <2>1, <2>2
    <3> QED BY <2>1, <2>2, <3>1
  <2>3. CASE current'[v] # current[v]
    <3>1. v = u /\ current'[v] = s
      BY <2>1, <2>3
    <3> QED BY <2>1, <3>1
  <2> QED BY <2>2, <2>3
<1>2. ASSUME NEW s \in Tickets, RoomCreated(s) \/ RoomRefused(s) PROVE CurrentIsLive'
  BY <1>2 DEF RoomCreated, RoomRefused, db
<1>3. ASSUME NEW c \in Callers, NEW s \in Tickets, Command(c, s) PROVE CurrentIsLive'
  <2>1. CASE Close(c, s)
    BY <2>1 DEF Close, Closable, SetStatus
  <2>2. CASE Reopen(c, s)
    BY <2>2 DEF Reopen, Reopenable, SetStatus
  <2>3. CASE FinishDelete(c, s)
    BY <2>3 DEF FinishDelete, SetStatus
  <2>4. CASE StartDelete(c, s) \/ LeaveFailed(c, s) \/ LookUp(c, s)
    BY <2>4 DEF StartDelete, LeaveFailed, LookUp, db
  <2> QED BY <1>3, <2>1, <2>2, <2>3, <2>4 DEF Command, CrashInClose, CrashInReopen
<1>4. ASSUME Crash PROVE CurrentIsLive'
  BY <1>4 DEF Crash, db
<1>5. ASSUME UNCHANGED vars PROVE CurrentIsLive'
  BY <1>5 DEF vars
<1> QED BY <1>1, <1>2, <1>3, <1>4, <1>5 DEF Next, Step

\* A user's messages never go to a closed ticket, whatever coroutines
\* interleave, as long as no crash cuts a segment in two.
THEOREM CurrentLive == Spec => []CurrentIsLive
<1>1. Init => CurrentIsLive
  BY DEF Init, CurrentIsLive
<1> QED BY <1>1, CurrentIsLiveStep, CoherentAlways, PTL DEF Spec

-----------------------------------------------------------------------------
(* Staff commands alone.                                                   *)

\* While the bot leaves the room of a ticket, the ticket stays closed.
LeavesClosedOnly ==
  \A c \in Callers : pending[c].at = "leaving" => status[pending[c].ticket] = "closed"

LEMMA LeavesClosedStep ==
  ASSUME GrpcCalls = {}
  PROVE  Coherent /\ LeavesClosedOnly /\ [Next]_vars => LeavesClosedOnly'
<1> SUFFICES ASSUME Coherent, LeavesClosedOnly, [Next]_vars PROVE LeavesClosedOnly'
  OBVIOUS
<1>0. Callers = {Main}
  BY DEF Callers
<1> USE <1>0 DEF Coherent, TypeOK, RowsOwned, LeavesClosedOnly, Await, Idle, Free
<1>1. ASSUME NEW u \in Users, NEW s \in Tickets, Raising(u, s) PROVE LeavesClosedOnly'
  BY <1>1 DEF Raising, Raise, CrashInRaise, Restarted
<1>2. ASSUME NEW s \in Tickets, RoomCreated(s) \/ RoomRefused(s)
      PROVE  LeavesClosedOnly'
  BY <1>2 DEF RoomCreated, RoomRefused
<1>3. ASSUME NEW c \in Callers, NEW s \in Tickets, Command(c, s)
      PROVE  LeavesClosedOnly'
  <2>1. CASE Close(c, s) \/ Reopen(c, s) \/ LookUp(c, s)
    BY <2>1 DEF Close, Reopen, LookUp
  <2>2. CASE CrashInClose(c, s) \/ CrashInReopen(c, s)
    BY <2>2 DEF CrashInClose, CrashInReopen, Restarted
  <2>3. CASE StartDelete(c, s)
    BY <2>3, FoundTellsStatus DEF StartDelete, Deletable, db
  <2>4. CASE FinishDelete(c, s) \/ LeaveFailed(c, s)
    BY <2>4 DEF FinishDelete, LeaveFailed
  <2> QED BY <1>3, <2>1, <2>2, <2>3, <2>4 DEF Command
<1>4. ASSUME Crash PROVE LeavesClosedOnly'
  BY <1>4 DEF Crash, Restarted
<1>5. ASSUME UNCHANGED vars PROVE LeavesClosedOnly'
  BY <1>5 DEF vars
<1> QED BY <1>1, <1>2, <1>3, <1>4, <1>5 DEF Next, Step

\* Without the gRPC server, commands run one after another and only a closed
\* ticket's room is deleted, as delete_ticket_room demands.
THEOREM CommandsDeleteClosed ==
  ASSUME GrpcCalls = {} PROVE Spec => DeletesClosedOnly
<1> DEFINE A == \A t \in Tickets :
                  status[t] # "deleted" /\ status'[t] = "deleted" => status[t] = "closed"
<1>1. Init => LeavesClosedOnly
  BY DEF Init, LeavesClosedOnly, Idle
<1>2. Coherent /\ LeavesClosedOnly /\ [Next]_vars => A
  <2> SUFFICES ASSUME Coherent, LeavesClosedOnly, [Next]_vars, NEW t \in Tickets,
                      status[t] # "deleted", status'[t] = "deleted"
               PROVE  status[t] = "closed"
    OBVIOUS
  <2>1. PICK c \in Callers : FinishDelete(c, t)
    BY StatusMoves DEF Moves
  <2> QED BY <2>1 DEF FinishDelete, LeavesClosedOnly
<1>3. Coherent /\ LeavesClosedOnly /\ [Next]_vars => [A]_vars
  BY <1>2
<1> QED BY <1>1, <1>3, LeavesClosedStep, CoherentAlways, PTL DEF Spec, DeletesClosedOnly

-----------------------------------------------------------------------------
(* The desk implements the lifecycle.                                      *)

LEMMA StepImplements ==
  Coherent /\ (GrpcCalls = {} => LeavesClosedOnly) /\ [Next]_vars
    => [Lifecycle!Next]_(Lifecycle!lifecycle)
<1> SUFFICES ASSUME Coherent, GrpcCalls = {} => LeavesClosedOnly, [Next]_vars
             PROVE  Lifecycle!Step \/ UNCHANGED <<status, owner, current>>
  BY DEF Lifecycle!lifecycle, Lifecycle!Next, Next, vars, MidCrash
<1> DEFINE Goal == Lifecycle!Step \/ UNCHANGED <<status, owner, current>>
<1> USE DEF Coherent, TypeOK, RowsOwned, Exists
<1>0. Lifecycle!Tickets = Tickets /\ Lifecycle!NoTicket = NoTicket
  BY DEF Lifecycle!Tickets, Tickets, Lifecycle!NoTicket, NoTicket
<1>1. ASSUME NEW u \in Users, NEW s \in Tickets, Raising(u, s) PROVE Goal
  <2>1. Lifecycle!Raise(u, s)
    BY <1>1 DEF Raising, Raise, CrashInRaise, Insert, Unused, Lifecycle!Raise, Lifecycle!Assign
  <2> QED BY <2>1, <1>0 DEF Lifecycle!Step
<1>2. ASSUME NEW s \in Tickets, RoomCreated(s) \/ RoomRefused(s) PROVE Goal
  BY <1>2 DEF RoomCreated, RoomRefused, db
<1>3. ASSUME NEW c \in Callers, NEW s \in Tickets, Command(c, s) PROVE Goal
  <2>1. CASE Close(c, s) \/ CrashInClose(c, s)
    <3>1. owner[s] \in Users /\ Lifecycle!Close(owner[s], s)
      BY <2>1, <1>0, FoundTellsStatus
         DEF Close, CrashInClose, Closable, SetStatus, Lifecycle!Close, Lifecycle!Assign
    <3> QED BY <3>1, <1>0 DEF Lifecycle!Step
  <2>2. CASE Reopen(c, s) \/ CrashInReopen(c, s)
    <3>1. owner[s] \in Users /\ Lifecycle!Reopen(owner[s], s)
      BY <2>2, <1>0, FoundTellsStatus
         DEF Reopen, CrashInReopen, Reopenable, SetStatus, Lifecycle!Reopen, Lifecycle!Assign
    <3> QED BY <3>1, <1>0 DEF Lifecycle!Step
  <2>3. CASE FinishDelete(c, s)
    <3>1. /\ status' = [status EXCEPT ![s] = "deleted"]
          /\ UNCHANGED <<owner, current>>
          /\ pending[c].at = "leaving" /\ pending[c].ticket = s
      BY <2>3 DEF FinishDelete, SetStatus
    <3>2. CASE status[s] = "deleted"
      BY <3>1, <3>2
    <3>3. CASE status[s] # "deleted"
      <4>1. status[s] \in {"open", "closed"}
        BY <3>1, <3>3 DEF Status
      <4>2. GrpcCalls = {} => status[s] = "closed"
        BY <3>1 DEF LeavesClosedOnly
      <4>3. Lifecycle!Delete(s)
        BY <3>1, <4>1, <4>2 DEF Lifecycle!Delete, LateDelete
      <4> QED BY <4>3, <1>0 DEF Lifecycle!Step
    <3> QED BY <3>2, <3>3
  <2>4. CASE StartDelete(c, s) \/ LeaveFailed(c, s) \/ LookUp(c, s)
    BY <2>4 DEF StartDelete, LeaveFailed, LookUp, db
  <2> QED BY <1>3, <2>1, <2>2, <2>3, <2>4 DEF Command
<1>4. ASSUME Crash PROVE Goal
  BY <1>4 DEF Crash, db
<1>5. ASSUME UNCHANGED vars PROVE Goal
  BY <1>5 DEF vars
<1> QED BY <1>1, <1>2, <1>3, <1>4, <1>5 DEF Next, Step

\* The coroutines, each deciding on cached objects, behave as operations that
\* read and write the rows at once; with the gRPC server a deletion may land
\* late, and a crash within a segment may keep the second row unwritten.
THEOREM DeskImplementsLifecycle == Spec => ImplementsLifecycle
<1> DEFINE LateInv == GrpcCalls = {} => LeavesClosedOnly
<1>1. Init => Lifecycle!Init /\ LateInv
  BY DEF Init, Lifecycle!Init, Lifecycle!Tickets, Tickets, Lifecycle!NoTicket, NoTicket,
         LeavesClosedOnly, Idle, MidCrash
<1>2. Coherent /\ LateInv /\ [Next]_vars => LateInv'
  BY LeavesClosedStep
<1>3. Coherent /\ LateInv /\ [Next]_vars => [Lifecycle!Next]_(Lifecycle!lifecycle)
  BY StepImplements
<1> HIDE DEF LateInv
<1> QED
  BY <1>1, <1>2, <1>3, CoherentAlways, PTL DEF Spec, ImplementsLifecycle, Lifecycle!Spec
=============================================================================
