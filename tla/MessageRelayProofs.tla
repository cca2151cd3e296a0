-------------------------- MODULE MessageRelayProofs --------------------------
(***************************************************************************)
(* What holds of the relay for every set of users and messages, and every  *)
(* number of tickets, whatever overlaps, fails, is lost or crashes.  And   *)
(* what holds of rooms_pending, of which MessageRelay has the number of a  *)
(* message's tasks for each place, and RelayQueue the lists.               *)
(***************************************************************************)
EXTENDS MessageRelay, Sequences, WellFoundedInduction, TLAPS

\* RelayQueue, with names that differ from those of MessageRelay.
CONSTANTS Rooms, NoRoom, Tidings, Welcomes, Bodiless, Depth, QueueWorlds
VARIABLES queueWorld, known, forgotten, encrypted, queue, fate, sends, old, runs
Queue == INSTANCE RelayQueue WITH
  Messages <- Tidings, Worlds <- QueueWorlds, world <- queueWorld

Written(m) == writer[m] # NoUser
Waits(m) == \E p \in Places : waiting[m][p] > 0
Unpaired(m) == \A n \in Nat : <<m, n>> \notin pairs

\* Main copies what is saved.
Copies ==
  \/ main.at \in {"copying", "fetching"}
  \/ main.at = "relaying" /\ main.ticket # NoTicket

\* A ticket gets its owner when it is raised, and is current for the owner only.
Owned ==
  /\ \A t \in Tickets : status[t] = "none" => owner[t] = NoUser
  /\ \A u \in Users : current[u] # NoTicket => owner[current[u]] = u

\* What is saved, waits, is sent or is in Main's hands has been written.
WrittenFirst ==
  /\ \A m \in Messages :
       saved[m] > 0 \/ Waits(m) \/ sent[m] # <<>> \/ main.todo[m] > 0 => Written(m)
  /\ main.at \in {"fetching", "relaying"} => main.msg \in Messages /\ Written(main.msg)

\* What Main copies for a ticket was written by its owner, for whom the ticket is
\* current as long as only commands close tickets.
OfTicket ==
  /\ Copies \/ main.at = "creating" =>
       /\ main.ticket \in Tickets /\ owner[main.ticket] \in Users
       /\ ~GrpcActs => current[owner[main.ticket]] = main.ticket
  /\ \A m \in Messages :
       main.todo[m] > 0 => Copies /\ writer[m] = owner[main.ticket]
  /\ Copies /\ main.at # "copying" => writer[main.msg] = owner[main.ticket]
  /\ IsIdle => main = Idle

\* A message on its way to a ticket room was written by the ticket's owner.
Addressed ==
  main.at = "relaying" =>
    /\ main.to \in Places
    /\ main.to \in Tickets => owner[main.to] = writer[main.msg]

\* A pair leads to a clone.
Cloned == \A m \in Messages, n \in Nat : <<m, n>> \in pairs => n \in DOMAIN sent[m]

Inv ==
  /\ TypeOK /\ Owned /\ WrittenFirst /\ OfTicket /\ Addressed /\ Cloned
  /\ OwnTicketOnly

-----------------------------------------------------------------------------
(* Facts about places, routes and work.                                    *)

LEMMA PlaceFacts ==
  /\ Management \notin Tickets /\ ChatRoom \notin Tickets
  /\ NoTicket \notin Tickets /\ Nowhere \notin Places
  /\ Management \in Places /\ ChatRoom \in Places /\ Tickets \subseteq Places
BY MessageRelayAssumption DEF Tickets, NoTicket, Places

\* The route of a user's message is a place, and a ticket is the user's own.
LEMMA RouteOwn ==
  ASSUME TypeOK, Owned, NEW u \in Users
  PROVE  Route(u) \in Places /\ (Route(u) \in Tickets => owner[Route(u)] = u)
BY PlaceFacts DEF TypeOK, Owned, Route, Places

LEMMA IdleFacts ==
  /\ Idle \in Work /\ Idle.at = "idle" /\ Idle.ticket = NoTicket
  /\ \A m \in Messages : Idle.todo[m] = 0
BY DEF Idle, Work

\* Work with which Main goes on after a message.
Fits(work) ==
  /\ work \in Work
  /\ work.at \in {"idle", "copying"} /\ (work.at = "copying" <=> work.ticket # NoTicket)
  /\ work.at = "idle" => work = Idle
  /\ work.at = "copying" =>
       /\ work.ticket \in Tickets /\ owner[work.ticket] \in Users
       /\ ~GrpcActs => current[owner[work.ticket]] = work.ticket
  /\ \A m \in Messages :
       work.todo[m] > 0 => work.at = "copying" /\ writer[m] = owner[work.ticket]

LEMMA IdleFits == Fits(Idle)
BY IdleFacts DEF Fits

LEMMA ResumedFits ==
  ASSUME Inv, main.at \in {"fetching", "relaying"}
  PROVE  /\ Fits(Resumed) /\ Resumed.ticket = main.ticket
         /\ \A m \in Messages : Resumed.todo[m] = main.todo[m]
         /\ Copies <=> Resumed.at = "copying"
<1>1. main \in Work
  BY DEF Inv, TypeOK
<1>2. CASE main.ticket = NoTicket
  <2>1. Resumed = Idle /\ ~Copies
    <3>1. Resumed = Idle
      BY <1>2 DEF Resumed
    <3>2. ~Copies
      BY <1>2, PlaceFacts DEF Inv, OfTicket, Copies
    <3> QED BY <3>1, <3>2
  <2>2. \A m \in Messages : main.todo[m] = 0
    BY <1>1, <2>1 DEF Inv, OfTicket, Work
  <2> QED BY <1>2, <2>1, <2>2, IdleFits, IdleFacts
<1>3. CASE main.ticket # NoTicket
  <2>1. Resumed = [main EXCEPT !.at = "copying", !.msg = NoMessage, !.to = Nowhere]
    BY <1>3 DEF Resumed
  <2>2. /\ Resumed \in Work /\ Resumed.at = "copying" /\ Resumed.ticket = main.ticket
        /\ Resumed.todo = main.todo
    BY <1>1, <2>1 DEF Work
  <2>3. Copies
    BY <1>3 DEF Copies
  <2> HIDE DEF Resumed
  <2> QED BY <1>3, <2>2, <2>3 DEF Fits, Inv, OfTicket
<1> QED BY <1>2, <1>3

\* relay_from_user, as what it does to each message.
Relays(m, u, p, tasks, work) ==
  /\ p \in Places /\ p = Route(u) /\ (p \in Tickets => owner[p] = u)
  /\ saved' \in [Messages -> Nat] /\ waiting' \in [Messages -> [Places -> Nat]]
  /\ main' \in Work /\ main'.ticket = work.ticket /\ main'.todo = work.todo
  /\ \A k \in Messages :
       saved'[k] = IF k = m /\ p = Management THEN saved[k] + 1 ELSE saved[k]
  /\ \/ /\ main'.at = "relaying" /\ main'.msg = m /\ main'.to = p
        /\ waiting' = tasks
     \/ /\ main' = work /\ p # Management
        /\ \A k \in Messages, q \in Places :
             waiting'[k][q] = IF k = m /\ q = p THEN tasks[k][q] + 1 ELSE tasks[k][q]

LEMMA RelayEffect ==
  ASSUME TypeOK, Owned, NEW m \in Messages, NEW u \in Users,
         NEW tasks \in [Messages -> [Places -> Nat]], NEW work \in Work,
         RelayFromUser(m, u, tasks, work)
  PROVE  Relays(m, u, Route(u), tasks, work)
<1>1. PICK p \in Places : p = Route(u)
  BY RouteOwn
<1>2. p \in Tickets => owner[p] = u
  BY <1>1, RouteOwn
<1>3. /\ saved' = [saved EXCEPT ![m] = IF p = Management THEN @ + 1 ELSE @]
      /\ \/ /\ main' = [work EXCEPT !.at = "relaying", !.msg = m, !.to = p]
            /\ waiting' = tasks
         \/ /\ main' = work /\ p # Management
            /\ waiting' = [tasks EXCEPT ![m][p] = @ + 1]
  <2>1. Reachable(u, Management)
    BY PlaceFacts, MessageRelayAssumption DEF Reachable
  <2> QED BY <1>1, <2>1 DEF RelayFromUser
<1>4. /\ saved' \in [Messages -> Nat]
      /\ \A k \in Messages :
           saved'[k] = IF k = m /\ p = Management THEN saved[k] + 1 ELSE saved[k]
  BY <1>3 DEF TypeOK
<1>5. CASE main' = [work EXCEPT !.at = "relaying", !.msg = m, !.to = p] /\ waiting' = tasks
  <2>1. /\ main' \in Work /\ main'.ticket = work.ticket /\ main'.todo = work.todo
        /\ main'.at = "relaying" /\ main'.msg = m /\ main'.to = p
    BY <1>5 DEF Work
  <2> QED BY <1>1, <1>2, <1>4, <1>5, <2>1 DEF Relays
<1>6. CASE main' = work /\ p # Management /\ waiting' = [tasks EXCEPT ![m][p] = @ + 1]
  <2>1. /\ waiting' \in [Messages -> [Places -> Nat]]
        /\ \A k \in Messages, q \in Places :
             waiting'[k][q] = IF k = m /\ q = p THEN tasks[k][q] + 1 ELSE tasks[k][q]
    BY <1>6
  <2> QED BY <1>1, <1>2, <1>4, <1>6, <2>1 DEF Relays
<1> QED BY <1>3, <1>5, <1>6

LEMMA InitInv == Init => Inv
<1> SUFFICES ASSUME Init PROVE Inv
  OBVIOUS
<1> USE MessageRelayAssumption
<1>1. TypeOK
  BY IdleFacts DEF Init, TypeOK, Room
<1> QED
  BY <1>1, IdleFacts DEF Init, Inv, Owned, WrittenFirst, OfTicket, Addressed, Cloned, Waits,
     Copies, OwnTicketOnly, Written, IsIdle

-----------------------------------------------------------------------------
(* The invariant is inductive; one lemma per group of actions.             *)

\* A message is handled, for the first time or again.
LEMMA RelayStep ==
  ASSUME Inv, UNCHANGED world, NEW m \in Messages, NEW u \in Users,
         NEW tasks \in [Messages -> [Places -> Nat]], NEW work, Fits(work),
         \A k \in Messages, q \in Places : tasks[k][q] <= waiting[k][q],
         RelayFromUser(m, u, tasks, work), UNCHANGED <<desk, pairs, sent>>,
         writer' = [writer EXCEPT ![m] = u],
         \/ writer[m] = u /\ (work.at = "copying" => owner[work.ticket] = u)
         \/ writer[m] = NoUser /\ work = Idle
  PROVE  Inv'
<1>1. PICK p : p = Route(u)
  OBVIOUS
<1>2. Relays(m, u, p, tasks, work)
  BY <1>1, RelayEffect DEF Inv, Fits
<1>3. \A k \in Messages : writer'[k] = IF k = m THEN u ELSE writer[k]
  BY DEF Inv, TypeOK
<1>4. u # NoUser
  BY MessageRelayAssumption
<1>5. TypeOK'
  BY <1>2 DEF Inv, TypeOK, Relays, desk
<1>6. Owned'
  BY DEF Inv, Owned, desk
<1>7. WrittenFirst'
  <2>1. \A k \in Messages : Waits(k)' => Waits(k) \/ k = m
    <3> SUFFICES ASSUME NEW k \in Messages, k # m, NEW q \in Places, waiting'[k][q] > 0
                 PROVE  waiting[k][q] > 0
      BY DEF Waits
    <3>1. waiting'[k][q] = tasks[k][q]
      BY <1>2 DEF Relays
    <3> QED BY <3>1 DEF Inv, TypeOK
  <2>2. \A k \in Messages : k # m /\ main'.todo[k] > 0 => Written(k)
    <3>1. \A k \in Messages : work.todo[k] > 0 =>
            writer[k] = owner[work.ticket] /\ owner[work.ticket] \in Users
      BY DEF Fits
    <3> QED BY <1>2, <3>1, MessageRelayAssumption DEF Relays, Written
  <2>3. main'.at \in {"fetching", "relaying"} => main'.msg = m
    BY <1>2 DEF Relays, Fits
  <2>4. \A k \in Messages : k # m => (Written(k)' <=> Written(k)) /\ saved'[k] = saved[k]
    BY <1>2, <1>3 DEF Relays, Written
  <2>5. Written(m)'
    BY <1>3, <1>4 DEF Written
  <2> QED BY <2>1, <2>2, <2>3, <2>4, <2>5 DEF Inv, WrittenFirst
<1>8. OfTicket'
  <2>1. /\ main'.ticket = work.ticket /\ main'.todo = work.todo
        /\ \/ main'.at = "relaying" /\ main'.msg = m
           \/ main' = work
    BY <1>2 DEF Relays
  <2>2. Copies' <=> work.at = "copying"
    BY <2>1 DEF Copies, Fits
  <2>3. main'.at # "creating"
    BY <2>1 DEF Fits
  <2>4. UNCHANGED <<owner, current>> /\ (GrpcActs' <=> GrpcActs)
    BY DEF desk, GrpcActs
  <2>5. \A k \in Messages : work.todo[k] > 0 => writer'[k] = writer[k]
    BY <1>3, IdleFacts
  <2>6. work.at = "copying" => writer'[m] = owner[work.ticket]
    BY <1>3, IdleFacts
  <2>7. Copies' \/ main'.at = "creating" =>
          /\ main'.ticket \in Tickets /\ owner'[main'.ticket] \in Users
          /\ ~GrpcActs' => current'[owner'[main'.ticket]] = main'.ticket
    BY <2>1, <2>2, <2>3, <2>4 DEF Fits
  <2>8. \A k \in Messages :
          main'.todo[k] > 0 => Copies' /\ writer'[k] = owner'[main'.ticket]
    BY <2>1, <2>2, <2>4, <2>5 DEF Fits
  <2>9. Copies' /\ main'.at # "copying" => writer'[main'.msg] = owner'[main'.ticket]
    BY <2>1, <2>2, <2>4, <2>6
  <2>10. IsIdle' => main' = Idle
    <3>1. work.at = "idle" => work = Idle
      BY DEF Fits
    <3> QED BY <2>1, <3>1 DEF IsIdle
  <2> QED BY <2>7, <2>8, <2>9, <2>10 DEF OfTicket
<1>9. Addressed'
  <2>1. main'.at = "relaying" => main'.msg = m /\ main'.to = p
    BY <1>2 DEF Relays, Fits
  <2> QED BY <1>2, <1>3, <2>1 DEF Addressed, Relays, desk
<1>10. Cloned' /\ OwnTicketOnly'
  BY <1>3 DEF Inv, WrittenFirst, Cloned, OwnTicketOnly, Written, desk
<1> QED BY <1>5, <1>6, <1>7, <1>8, <1>9, <1>10 DEF Inv

LEMMA WriteStep ==
  ASSUME Inv, UNCHANGED world, NEW m \in Messages, NEW u \in Users, Write(m, u) PROVE Inv'
<1>1. waiting \in [Messages -> [Places -> Nat]]
  BY DEF Inv, TypeOK
<1>2. \A k \in Messages, q \in Places : waiting[k][q] <= waiting[k][q]
  BY <1>1
<1> QED BY <1>1, <1>2, IdleFits, RelayStep DEF Write

\* A message that was written has a user for its writer.
LEMMA WrittenBy ==
  ASSUME Inv, NEW m \in Messages, Written(m)
  PROVE  /\ writer[m] \in Users
         /\ writer = [writer EXCEPT ![m] = writer[m]]
BY DEF Inv, TypeOK, Written

\* One task less.
LEMMA WithoutOne ==
  ASSUME TypeOK, NEW m \in Messages, NEW p \in Places, waiting[m][p] > 0
  PROVE  /\ Without(m, p) \in [Messages -> [Places -> Nat]]
         /\ \A k \in Messages, q \in Places :
              Without(m, p)[k][q] =
                IF k = m /\ q = p THEN waiting[k][q] - 1 ELSE waiting[k][q]
BY DEF TypeOK, Without

LEMMA ReplayStep ==
  ASSUME Inv, UNCHANGED world, NEW m \in Messages, NEW p \in Places, Replay(m, p) PROVE Inv'
<1>1. /\ waiting[m][p] > 0
      /\ RelayFromUser(m, writer[m], Without(m, p), Idle)
      /\ UNCHANGED <<desk, writer, pairs, sent>>
  BY DEF Replay
<1>2. Written(m)
  BY <1>1 DEF Inv, WrittenFirst, Waits
<1>3. writer[m] \in Users /\ writer' = [writer EXCEPT ![m] = writer[m]]
  BY <1>1, <1>2, WrittenBy
<1>4. /\ Without(m, p) \in [Messages -> [Places -> Nat]]
      /\ \A k \in Messages, q \in Places : Without(m, p)[k][q] <= waiting[k][q]
  <2>1. waiting \in [Messages -> [Places -> Nat]]
    BY DEF Inv, TypeOK
  <2>2. \A k \in Messages, q \in Places :
          Without(m, p)[k][q] = IF k = m /\ q = p THEN waiting[k][q] - 1 ELSE waiting[k][q]
    BY <1>1, WithoutOne DEF Inv
  <2>3. \A k \in Messages, q \in Places : Without(m, p)[k][q] <= waiting[k][q]
    BY <2>1, <2>2
  <2> QED BY <1>1, <2>3, WithoutOne DEF Inv
<1> QED BY <1>1, <1>3, <1>4, IdleFits, IdleFacts, RelayStep

\* Steps that send nothing.
LEMMA FrameStep ==
  ASSUME Inv, UNCHANGED <<world, writer, sent, pairs>>, TypeOK', Owned', OfTicket',
         \A t \in Tickets : owner[t] = NoUser \/ owner'[t] = owner[t],
         \A m \in Messages : saved'[m] <= saved[m],
         \A m \in Messages, p \in Places : waiting'[m][p] <= waiting[m][p],
         \A m \in Messages : main'.todo[m] > 0 => Written(m),
         main'.at \in {"fetching", "relaying"} => main' = main
  PROVE  Inv'
<1>1. \A m \in Messages : saved'[m] > 0 => saved[m] > 0
  BY DEF Inv, TypeOK
<1>2. \A m \in Messages : Waits(m)' => Waits(m)
  BY DEF Inv, TypeOK, Waits
<1>3. WrittenFirst'
  BY <1>1, <1>2 DEF Inv, WrittenFirst, Written
<1>4. \A m \in Messages, t \in Tickets : Written(m) /\ owner[t] = writer[m] => owner'[t] = writer[m]
  BY DEF Written
<1>5. Addressed'
  BY <1>4 DEF Inv, Addressed, WrittenFirst
<1>6. OwnTicketOnly'
  <2>1. \A m \in Messages : \A n \in DOMAIN sent[m] : Written(m)
    BY DEF Inv, TypeOK, WrittenFirst
  <2> QED BY <1>4, <2>1 DEF Inv, OwnTicketOnly
<1> QED BY <1>3, <1>5, <1>6 DEF Inv, Cloned

\* Main goes on, or becomes idle; tickets stay as they are.
LEMMA MainStep ==
  ASSUME Inv, UNCHANGED <<world, writer, sent, pairs, owner, current>>,
         TypeOK', Owned', main' = Idle \/ Fits(main'),
         \A m \in Messages : saved'[m] <= saved[m],
         \A m \in Messages, p \in Places : waiting'[m][p] <= waiting[m][p]
  PROVE  Inv'
<1>1. Fits(main')
  BY IdleFits
<1>2. Fits(main)'
  BY <1>1 DEF Fits, GrpcActs
<1>3. OfTicket'
  BY <1>2 DEF Fits, OfTicket, Copies, IsIdle
<1>4. /\ \A m \in Messages : main'.todo[m] > 0 => Written(m)
      /\ main'.at \notin {"fetching", "relaying"}
  BY <1>1, MessageRelayAssumption DEF Fits, Written
<1> QED BY <1>3, <1>4, FrameStep

\* Numbers that stay are no greater.
LEMMA Same ==
  ASSUME TypeOK
  PROVE  /\ \A m \in Messages : saved[m] <= saved[m]
         /\ \A m \in Messages, p \in Places : waiting[m][p] <= waiting[m][p]
BY DEF TypeOK

LEMMA FetchedStep ==
  ASSUME Inv, UNCHANGED world, Fetched PROVE Inv'
<1>1. PICK m \in Messages, t \in Tickets :
         /\ main.at = "fetching" /\ m = main.msg /\ t = main.ticket
         /\ Written(m) /\ owner[t] = writer[m]
  <2>1. main.at = "fetching" /\ Copies
    BY DEF Fetched, Copies
  <2> QED BY <2>1 DEF Inv, WrittenFirst, OfTicket
<1>2. writer[m] \in Users /\ writer = [writer EXCEPT ![m] = writer[m]]
  BY <1>1, WrittenBy
<1>3. Fits(Resumed) /\ Resumed.ticket = t
  BY <1>1, ResumedFits
<1>4. waiting \in [Messages -> [Places -> Nat]]
  BY DEF Inv, TypeOK
<1>5. CASE main' = Resumed /\ UNCHANGED <<events, desk>>
  <2>1. TypeOK' /\ Owned'
    BY <1>3, <1>5 DEF Inv, TypeOK, Owned, events, desk, Fits
  <2> QED BY <1>3, <1>5, <2>1, Same, MainStep DEF events, desk, Inv
<1>6. CASE /\ RelayFromUser(m, writer[m], waiting, Resumed)
           /\ UNCHANGED <<writer, pairs, sent, desk>>
  <2>1. \A k \in Messages, q \in Places : waiting[k][q] <= waiting[k][q]
    BY <1>4
  <2> QED BY <1>1, <1>2, <1>3, <1>4, <1>6, <2>1, RelayStep
<1>7. CASE /\ waiting' = [waiting EXCEPT ![m][t] = @ + 1] /\ main' = Resumed
           /\ UNCHANGED <<writer, saved, pairs, sent, desk>>
  <2>1. t \in Places
    BY PlaceFacts
  <2>2. TypeOK' /\ Owned'
    BY <1>3, <1>7, <2>1 DEF Inv, TypeOK, Owned, desk, Fits
  <2>3. Fits(main)'
    BY <1>3, <1>7 DEF Fits, GrpcActs, desk
  <2>4. OfTicket'
    BY <2>3 DEF Fits, OfTicket, Copies, IsIdle
  <2>5. \A k \in Messages : Waits(k)' => Waits(k) \/ k = m
    BY <1>4, <1>7 DEF Waits
  <2>6. \A k \in Messages : main'.todo[k] > 0 => Written(k)
    BY <1>3, <1>7, MessageRelayAssumption DEF Fits, Written
  <2>7. main'.at \notin {"fetching", "relaying"}
    BY <1>3, <1>7 DEF Fits
  <2>8. WrittenFirst' /\ Addressed'
    BY <1>1, <1>7, <2>5, <2>6, <2>7 DEF Inv, WrittenFirst, Addressed, Written
  <2> QED BY <1>7, <2>2, <2>4, <2>8 DEF Inv, Cloned, OwnTicketOnly, desk
<1> QED BY <1>1, <1>5, <1>6, <1>7 DEF Fetched

\* The homeserver has taken the message.
LEMMA RelayedStep ==
  ASSUME Inv, UNCHANGED world, Relayed PROVE Inv'
<1>1. PICK m \in Messages, p \in Places :
         /\ main.at = "relaying" /\ m = main.msg /\ p = main.to
         /\ Written(m) /\ (p \in Tickets => owner[p] = writer[m])
  BY DEF Relayed, Inv, WrittenFirst, Addressed
<1>2. /\ sent' = [sent EXCEPT ![m] = Append(@, p)]
      /\ pairs' = pairs \/ pairs' = pairs \cup {<<m, Len(sent[m]) + 1>>}
      /\ main' = Resumed /\ UNCHANGED <<desk, writer, saved, waiting>>
  BY <1>1 DEF Relayed
<1>3. Fits(Resumed)
  BY <1>1, ResumedFits
<1>4. Fits(main)'
  BY <1>2, <1>3 DEF Fits, GrpcActs, desk
<1>5. OfTicket'
  BY <1>4 DEF Fits, OfTicket, Copies, IsIdle
<1>6. sent \in [Messages -> Seq(Places)]
  BY DEF Inv, TypeOK
<1>7. /\ \A k \in Messages : k # m => sent'[k] = sent[k]
      /\ sent'[m] = Append(sent[m], p) /\ sent' \in [Messages -> Seq(Places)]
      /\ DOMAIN sent'[m] = 1..(Len(sent[m]) + 1) /\ DOMAIN sent[m] = 1..Len(sent[m])
      /\ Len(sent[m]) \in Nat
  BY <1>2, <1>6
<1>8. TypeOK'
  BY <1>2, <1>3, <1>7 DEF Inv, TypeOK, desk, Fits
<1>9. Owned'
  BY <1>2 DEF Inv, Owned, desk
<1>10. WrittenFirst' /\ Addressed'
  <2>1. \A k \in Messages : main'.todo[k] > 0 => Written(k)
    BY <1>2, <1>3, MessageRelayAssumption DEF Fits, Written
  <2>2. main'.at \notin {"fetching", "relaying"}
    BY <1>2, <1>3 DEF Fits
  <2> QED BY <1>1, <1>2, <1>7, <2>1, <2>2
          DEF Inv, WrittenFirst, Addressed, Waits, Written
<1>11. Cloned'
  <2> SUFFICES ASSUME NEW k \in Messages, NEW n \in Nat, <<k, n>> \in pairs'
               PROVE  n \in DOMAIN sent'[k]
    BY DEF Cloned
  <2>1. CASE <<k, n>> \in pairs
    <3>1. n \in DOMAIN sent[k]
      BY <2>1 DEF Inv, Cloned
    <3>2. DOMAIN sent[k] \subseteq DOMAIN sent'[k]
      <4>1. CASE k = m
        BY <1>7, <4>1
      <4>2. CASE k # m
        BY <1>7, <4>2
      <4> QED BY <4>1, <4>2
    <3> QED BY <3>1, <3>2
  <2>2. CASE k = m /\ n = Len(sent[m]) + 1
    BY <1>7, <2>2
  <2> QED BY <1>2, <2>1, <2>2
<1>12. OwnTicketOnly'
  <2> SUFFICES ASSUME NEW k \in Messages, NEW n \in DOMAIN sent'[k], sent'[k][n] \in Tickets
               PROVE  owner[sent'[k][n]] = writer[k]
    BY <1>2 DEF OwnTicketOnly, desk
  <2>1. CASE k # m
    BY <1>7, <2>1 DEF Inv, OwnTicketOnly
  <2>2. CASE k = m
    <3>1. CASE n = Len(sent[m]) + 1
      BY <1>1, <1>7, <2>2, <3>1
    <3>2. CASE n # Len(sent[m]) + 1
      <4>1. n \in DOMAIN sent[m] /\ sent'[m][n] = sent[m][n]
        BY <1>6, <1>7, <2>2, <3>2
      <4> QED BY <2>2, <4>1 DEF Inv, OwnTicketOnly
    <3> QED BY <3>1, <3>2
  <2> QED BY <2>1, <2>2
<1> QED BY <1>5, <1>8, <1>9, <1>10, <1>11, <1>12 DEF Inv

\* CopyNext deletes the pairs of the message before it is fetched.
LEMMA CopyNextStep ==
  ASSUME Inv, UNCHANGED world, NEW m \in Messages, CopyNext(m) PROVE Inv'
<1>1. /\ main.at = "copying" /\ main.todo[m] > 0
      /\ pairs' = {x \in pairs : x[1] # m}
      /\ main' = [main EXCEPT !.at = "fetching", !.msg = m, !.todo[m] = @ - 1]
      /\ UNCHANGED <<desk, writer, saved, waiting, sent>>
  BY DEF CopyNext
<1>2. /\ main' \in Work /\ main'.at = "fetching" /\ main'.msg = m
      /\ main'.ticket = main.ticket
      /\ \A k \in Messages :
           main'.todo[k] = IF k = m THEN main.todo[k] - 1 ELSE main.todo[k]
  <2>1. main \in Work /\ main.todo \in [Messages -> Nat] /\ main.todo[m] - 1 \in Nat
    BY <1>1 DEF Inv, TypeOK, Work
  <2>2. PICK todo \in [Messages -> Nat] : todo = [main.todo EXCEPT ![m] = @ - 1]
    BY <2>1
  <2>3. main' = [main EXCEPT !.at = "fetching", !.msg = m, !.todo = todo]
    BY <1>1, <2>1, <2>2 DEF Work
  <2> QED BY <2>1, <2>2, <2>3 DEF Work
<1>3. TypeOK' /\ Owned'
  BY <1>1, <1>2 DEF Inv, TypeOK, Owned, desk
<1>4. \A k \in Messages : main'.todo[k] > 0 => main.todo[k] > 0
  BY <1>1, <1>2 DEF Inv, TypeOK, Work
<1>5. Copies /\ Copies' /\ (GrpcActs' <=> GrpcActs)
  BY <1>1, <1>2 DEF Copies, GrpcActs
<1>6. WrittenFirst' /\ Addressed'
  BY <1>1, <1>2, <1>4 DEF Inv, WrittenFirst, Addressed, Written, Waits
<1>7. OfTicket'
  BY <1>1, <1>2, <1>4, <1>5 DEF Inv, OfTicket, desk, IsIdle
<1> QED BY <1>1, <1>3, <1>6, <1>7 DEF Inv, Cloned, OwnTicketOnly, desk

LEMMA CopyingStep ==
  ASSUME Inv, UNCHANGED world, Copying PROVE Inv'
<1>0. main \in Work /\ Idle \in Work
  BY IdleFacts DEF Inv, TypeOK
<1>1. CASE RoomCreated
  <2>1. PICK todo \in [Messages -> Nat] :
          todo = [m \in Messages |-> IF writer[m] = owner[main.ticket] THEN saved[m] ELSE 0]
    BY DEF Inv, TypeOK
  <2>2. /\ main' = [main EXCEPT !.at = "copying", !.todo = todo] /\ main.at = "creating"
        /\ UNCHANGED <<status, owner, current, chat, events>>
    BY <1>1, <2>1 DEF RoomCreated
  <2>3. /\ main' \in Work /\ main'.at = "copying" /\ main'.ticket = main.ticket
        /\ main'.todo = todo
    BY <1>0, <2>1, <2>2 DEF Work
  <2>4. room' \in [Tickets -> Room]
    BY <1>1 DEF RoomCreated, Inv, TypeOK, Room
  <2>5. TypeOK' /\ Owned'
    BY <2>2, <2>3, <2>4 DEF Inv, TypeOK, Owned, events
  <2>6. \A m \in Messages : todo[m] > 0 => saved[m] > 0 /\ writer[m] = owner[main.ticket]
    BY <2>1 DEF Inv, TypeOK
  <2>7. OfTicket'
    BY <2>2, <2>3, <2>6 DEF Inv, OfTicket, Copies, GrpcActs, IsIdle, events
  <2>8. \A m \in Messages : main'.todo[m] > 0 => Written(m)
    BY <2>3, <2>6 DEF Inv, WrittenFirst
  <2> QED BY <2>2, <2>3, <2>5, <2>7, <2>8, Same, FrameStep DEF Inv, events
<1>2. CASE RoomRefused
  <2>1. main' = Idle /\ UNCHANGED <<desk, events>>
    BY <1>2 DEF RoomRefused
  <2>2. TypeOK' /\ Owned'
    BY <1>0, <2>1 DEF Inv, TypeOK, Owned, desk, events
  <2> QED BY <2>1, <2>2, Same, MainStep DEF Inv, desk, events
<1>3. ASSUME NEW m \in Messages, CopyNext(m) PROVE Inv'
  BY <1>3, CopyNextStep
<1>4. CASE Fetched
  BY <1>4, FetchedStep
<1>5. CASE FetchFailed
  <2>1. main' = Resumed /\ UNCHANGED <<desk, events>> /\ Fits(Resumed)
    BY <1>5, ResumedFits DEF FetchFailed
  <2>2. TypeOK' /\ Owned'
    BY <2>1 DEF Inv, TypeOK, Owned, desk, events, Fits
  <2> QED BY <2>1, <2>2, Same, MainStep DEF Inv, desk, events
<1>6. CASE CopyDone
  <2>1. /\ main' = Idle /\ UNCHANGED <<desk, writer, waiting, pairs, sent>>
        /\ saved' = [m \in Messages |->
                       IF writer[m] = owner[main.ticket] THEN 0 ELSE saved[m]]
    BY <1>6 DEF CopyDone
  <2>2. /\ saved' \in [Messages -> Nat] /\ \A m \in Messages : saved'[m] <= saved[m]
    BY <2>1 DEF Inv, TypeOK
  <2>3. TypeOK' /\ Owned'
    BY <1>0, <2>1, <2>2 DEF Inv, TypeOK, Owned, desk
  <2>4. \A m \in Messages, p \in Places : waiting'[m][p] <= waiting[m][p]
    BY <2>1, Same DEF Inv
  <2> QED BY <2>1, <2>2, <2>3, <2>4, MainStep DEF desk
<1> QED BY <1>1, <1>2, <1>3, <1>4, <1>5, <1>6 DEF Copying

\* A restart leaves the rows.
LEMMA RestartTypes ==
  ASSUME Inv, Restarted
  PROVE  /\ main' = Idle /\ Idle \in Work
         /\ waiting' \in [Messages -> [Places -> Nat]]
         /\ \A m \in Messages, p \in Places : waiting'[m][p] <= waiting[m][p]
         /\ room' \in [Tickets -> Room] /\ chat' \in [Users -> Room]
BY IdleFacts DEF Inv, TypeOK, Restarted, Room

\* A ticket is raised.
LEMMA RaiseStep ==
  ASSUME Inv, UNCHANGED world, NEW u \in Users, NEW t \in Tickets,
         Raise(u, t) \/ CrashInRaise(u, t)
  PROVE  Inv'
<1>1. /\ IsIdle /\ status[t] = "none" /\ status' = [status EXCEPT ![t] = "open"]
      /\ owner' = [owner EXCEPT ![t] = u]
      /\ UNCHANGED <<writer, saved, pairs, sent>>
  BY DEF Raise, CrashInRaise, Unused, events
<1>2. owner[t] = NoUser
  BY <1>1 DEF Inv, Owned
<1>3. \A s \in Tickets : owner'[s] = IF s = t THEN u ELSE owner[s]
  BY <1>1 DEF Inv, TypeOK
<1>4. \A v \in Users : current[v] # NoTicket => current[v] # t
  BY <1>2, MessageRelayAssumption DEF Inv, Owned
<1>5. /\ \A m \in Messages : saved'[m] <= saved[m]
      /\ \A s \in Tickets : owner[s] = NoUser \/ owner'[s] = owner[s]
  BY <1>1, <1>2, <1>3, Same DEF Inv
<1>6. t # NoTicket
  BY PlaceFacts
<1>7. CASE Raise(u, t)
  <2>1. /\ current' = [current EXCEPT ![u] = t]
        /\ main' = [Idle EXCEPT !.at = "creating", !.ticket = t]
        /\ UNCHANGED <<room, chat, waiting>>
    BY <1>7 DEF Raise, events
  <2>2. /\ main' \in Work /\ main'.at = "creating" /\ main'.ticket = t
        /\ \A m \in Messages : main'.todo[m] = 0
    BY <2>1 DEF Idle, Work
  <2>3. TypeOK'
    BY <1>1, <2>1, <2>2 DEF Inv, TypeOK
  <2>4. \A v \in Users : current'[v] = IF v = u THEN t ELSE current[v]
    BY <2>1 DEF Inv, TypeOK
  <2>5. Owned'
    <3>1. \A s \in Tickets : status'[s] = "none" => status[s] = "none" /\ s # t
      BY <1>1 DEF Inv, TypeOK
    <3>2. \A v \in Users : current[v] # NoTicket => current[v] \in Tickets
      BY DEF Inv, TypeOK
    <3> QED BY <1>3, <1>4, <2>4, <3>1, <3>2 DEF Inv, Owned
  <2>6. OfTicket'
    BY <1>3, <2>2, <2>4 DEF OfTicket, Copies, IsIdle
  <2>7. \A m \in Messages, p \in Places : waiting'[m][p] <= waiting[m][p]
    BY <2>1, Same DEF Inv
  <2> QED BY <1>1, <1>5, <2>2, <2>3, <2>5, <2>6, <2>7, FrameStep
<1>8. CASE CrashInRaise(u, t)
  <2>1. Restarted /\ UNCHANGED current
    BY <1>8 DEF CrashInRaise
  <2>2. /\ main' = Idle /\ Idle \in Work
        /\ waiting' \in [Messages -> [Places -> Nat]]
        /\ \A m \in Messages, p \in Places : waiting'[m][p] <= waiting[m][p]
        /\ room' \in [Tickets -> Room] /\ chat' \in [Users -> Room]
    BY <2>1, RestartTypes
  <2>3. TypeOK'
    BY <1>1, <2>1, <2>2 DEF Inv, TypeOK
  <2>4. Owned'
    <3>1. \A s \in Tickets : status'[s] = "none" => status[s] = "none" /\ s # t
      BY <1>1 DEF Inv, TypeOK
    <3>2. \A v \in Users : current[v] # NoTicket => current[v] \in Tickets
      BY DEF Inv, TypeOK
    <3> QED BY <1>3, <1>4, <2>1, <3>1, <3>2 DEF Inv, Owned
  <2>5. OfTicket' /\ \A m \in Messages : main'.todo[m] = 0
    BY <2>2, IdleFacts DEF OfTicket, Copies, IsIdle
  <2> QED BY <1>1, <1>5, <2>2, <2>3, <2>4, <2>5, IdleFacts, FrameStep
<1> QED BY <1>7, <1>8

\* A ticket is closed or reopened.
LEMMA TicketStep ==
  ASSUME Inv, UNCHANGED world, NEW t \in Tickets,
         Close(t) \/ Reopen(t) \/ CrashInCommand(t)
  PROVE  Inv'
<1>1. /\ status[t] \in {"open", "closed"} /\ (IsIdle \/ GrpcActs)
      /\ status' \in {[status EXCEPT ![t] = "closed"], [status EXCEPT ![t] = "open"]}
      /\ UNCHANGED <<owner, writer, saved, pairs, sent>>
  BY DEF Close, Reopen, CrashInCommand, Closable, Reopenable, events
<1>2. status' \in [Tickets -> {"none", "open", "closed"}]
  BY <1>1 DEF Inv, TypeOK
<1>3. \A s \in Tickets : status'[s] = "none" => owner[s] = NoUser
  BY <1>1 DEF Inv, TypeOK, Owned
<1>4. /\ \A m \in Messages : saved'[m] <= saved[m]
      /\ \A s \in Tickets : owner[s] = NoUser \/ owner'[s] = owner[s]
  BY <1>1, Same DEF Inv
<1>5. CASE Close(t) \/ Reopen(t)
  <2>1. /\ UNCHANGED <<room, chat, waiting, main>>
        /\ \/ current' = [current EXCEPT ![owner[t]] = IF @ = t THEN NoTicket ELSE @]
           \/ current' = [current EXCEPT ![owner[t]] = t]
    BY <1>5 DEF Close, Reopen, events
  <2>2. /\ current' \in [Users -> Tickets \cup {NoTicket}]
        /\ \A u \in Users : current'[u] # NoTicket => owner[current'[u]] = u
    <3>1. owner[t] \in Users \cup {NoUser} /\ current \in [Users -> Tickets \cup {NoTicket}]
      BY DEF Inv, TypeOK
    <3>2. /\ current' \in [Users -> Tickets \cup {NoTicket}]
          /\ \A u \in Users :
               (current'[u] \in {current[u], NoTicket}) \/ (current'[u] = t /\ owner[t] = u)
      <4>1. CASE current' = [current EXCEPT ![owner[t]] = IF @ = t THEN NoTicket ELSE @]
        BY <3>1, <4>1
      <4>2. CASE current' = [current EXCEPT ![owner[t]] = t]
        BY <3>1, <4>2
      <4> QED BY <2>1, <4>1, <4>2
    <3> QED BY <3>2 DEF Inv, Owned
  <2>3. TypeOK' /\ Owned'
    BY <1>1, <1>2, <1>3, <2>1, <2>2 DEF Inv, TypeOK, Owned
  <2>4. OfTicket'
    <3>1. IsIdle => main.at # "creating" /\ ~Copies
      BY IdleFacts DEF Inv, OfTicket, Copies
    <3> QED BY <1>1, <2>1, <3>1 DEF Inv, OfTicket, Copies, GrpcActs, IsIdle
  <2>5. \A m \in Messages : main'.todo[m] > 0 => Written(m)
    BY <2>1 DEF Inv, WrittenFirst
  <2>6. \A m \in Messages, p \in Places : waiting'[m][p] <= waiting[m][p]
    BY <2>1, Same DEF Inv
  <2> QED BY <1>1, <1>4, <2>1, <2>3, <2>4, <2>5, <2>6, FrameStep
<1>6. CASE CrashInCommand(t)
  <2>1. Restarted /\ UNCHANGED current
    BY <1>6 DEF CrashInCommand
  <2>2. /\ main' = Idle /\ Idle \in Work
        /\ waiting' \in [Messages -> [Places -> Nat]]
        /\ \A m \in Messages, p \in Places : waiting'[m][p] <= waiting[m][p]
        /\ room' \in [Tickets -> Room] /\ chat' \in [Users -> Room]
    BY <2>1, RestartTypes
  <2>3. TypeOK' /\ Owned'
    BY <1>1, <1>2, <1>3, <2>1, <2>2 DEF Inv, TypeOK, Owned
  <2> QED BY <1>1, <1>4, <2>1, <2>2, <2>3, MainStep
<1> QED BY <1>5, <1>6

\* Chats, rooms that become known, and what fails, expires, is lost or crashes.
LEMMA RestStep ==
  ASSUME Inv, UNCHANGED world,
         \/ \E u \in Users : OpenChat(u) \/ CloseChat(u)
         \/ Learn \/ RelayFailed \/ Disconnect \/ Crash
         \/ \E m \in Messages, p \in Places : Expire(m, p)
  PROVE  Inv'
<1>1. CASE (\E u \in Users : OpenChat(u) \/ CloseChat(u)) \/ Learn
  <2>1. UNCHANGED <<status, owner, current, events, main>> /\ IsIdle
    BY <1>1 DEF OpenChat, CloseChat, Learn
  <2>2. room' \in [Tickets -> Room] /\ chat' \in [Users -> Room]
    BY <1>1 DEF OpenChat, CloseChat, Learn, Inv, TypeOK, Room
  <2>3. TypeOK' /\ Owned'
    BY <2>1, <2>2 DEF Inv, TypeOK, Owned, events
  <2>4. main' = Idle
    BY <2>1 DEF Inv, OfTicket
  <2> QED BY <2>1, <2>3, <2>4, Same, MainStep DEF Inv, events
<1>2. CASE RelayFailed
  <2>1. main' = Resumed /\ UNCHANGED <<desk, events>> /\ Fits(Resumed)
    BY <1>2, ResumedFits DEF RelayFailed
  <2>2. TypeOK' /\ Owned'
    BY <2>1 DEF Inv, TypeOK, Owned, desk, events, Fits
  <2> QED BY <2>1, <2>2, Same, MainStep DEF Inv, desk, events
<1>3. CASE Disconnect
  <2>1. main' = Idle /\ UNCHANGED <<desk, events>>
    BY <1>3 DEF Disconnect
  <2>2. TypeOK' /\ Owned'
    BY <2>1, IdleFacts DEF Inv, TypeOK, Owned, desk, events
  <2> QED BY <2>1, <2>2, Same, MainStep DEF Inv, desk, events
<1>4. CASE Crash
  <2>1. Restarted /\ UNCHANGED <<status, owner, current, writer, saved, pairs, sent>>
    BY <1>4 DEF Crash
  <2>2. TypeOK' /\ Owned'
    BY <2>1, RestartTypes DEF Inv, TypeOK, Owned
  <2>3. \A m \in Messages : saved'[m] <= saved[m]
    BY <2>1, Same DEF Inv
  <2> QED BY <2>1, <2>2, <2>3, RestartTypes, MainStep
<1>5. ASSUME NEW m \in Messages, NEW p \in Places, Expire(m, p) PROVE Inv'
  <2>1. /\ IsIdle /\ waiting[m][p] > 0 /\ waiting' = Without(m, p)
        /\ UNCHANGED <<desk, writer, saved, pairs, sent, main>>
    BY <1>5 DEF Expire
  <2>2. /\ waiting' \in [Messages -> [Places -> Nat]]
        /\ \A k \in Messages, q \in Places :
             waiting'[k][q] = IF k = m /\ q = p THEN waiting[k][q] - 1 ELSE waiting[k][q]
    BY <2>1, WithoutOne DEF Inv
  <2>3. \A k \in Messages, q \in Places : waiting'[k][q] <= waiting[k][q]
    <3>1. \A k \in Messages, q \in Places : waiting[k][q] \in Nat
      BY DEF Inv, TypeOK
    <3> QED BY <2>2, <3>1
  <2>4. TypeOK' /\ Owned'
    BY <2>1, <2>2 DEF Inv, TypeOK, Owned, desk
  <2>5. main' = Idle /\ \A k \in Messages : saved'[k] <= saved[k]
    BY <2>1, Same DEF Inv, OfTicket
  <2> QED BY <2>1, <2>3, <2>4, <2>5, MainStep DEF desk
<1> QED BY <1>1, <1>2, <1>3, <1>4, <1>5

LEMMA NextInv == Inv /\ [Next]_vars => Inv'
<1> SUFFICES ASSUME Inv, [Next]_vars PROVE Inv'
  OBVIOUS
<1>0. UNCHANGED world
  BY DEF Next, vars
<1>1. CASE UNCHANGED vars
  BY <1>1 DEF vars, state, events, desk, Inv, TypeOK, Owned, WrittenFirst, OfTicket, Addressed,
     Cloned, OwnTicketOnly, Waits, Written, Copies, GrpcActs, IsIdle
<1>2. ASSUME NEW m \in Messages, NEW u \in Users, Write(m, u) PROVE Inv'
  BY <1>0, <1>2, WriteStep
<1>3. ASSUME NEW m \in Messages, NEW p \in Places, Replay(m, p) PROVE Inv'
  BY <1>0, <1>3, ReplayStep
<1>4. CASE Relayed
  BY <1>0, <1>4, RelayedStep
<1> QED
  BY <1>0, <1>1, <1>2, <1>3, <1>4, CopyingStep, RaiseStep, TicketStep, RestStep
     DEF Next, Step

\* The inductive invariant holds, whatever fails, is lost or crashes.
THEOREM InvAlways == Spec => []Inv
BY InitInv, NextInv, PTL DEF Spec

\* A ticket room only ever sees messages of the user its ticket was raised for.
THEOREM OwnTicket == Spec => []OwnTicketOnly
<1>1. Inv => OwnTicketOnly
  BY DEF Inv
<1> QED BY <1>1, InvAlways, PTL

\* The relay keeps its types.
THEOREM TypeCorrect == Spec => []TypeOK
<1>1. Inv => TypeOK
  BY DEF Inv
<1> QED BY <1>1, InvAlways, PTL

-----------------------------------------------------------------------------
(* A message is tied to one clone.                                         *)

Handled(m) == main.at \in {"fetching", "relaying"} /\ main.msg = m
Copied(m) == Copies /\ writer[m] = owner[main.ticket]

\* One thing at most is about to show a message: a task, a row that a copy has read,
\* or what Main has in hand.  Then it has no pair; or the row is still to do.  What
\* the next copy will read is one row, of a message without a task.
Sole(m) ==
  /\ \A p \in Places : waiting[m][p] <= 1
  /\ \A p, q \in Places : waiting[m][p] > 0 /\ waiting[m][q] > 0 => p = q
  /\ main.todo[m] <= 1
  /\ Waits(m) => main.todo[m] = 0 /\ ~Handled(m)
  /\ Handled(m) => main.todo[m] = 0
  /\ Waits(m) \/ Handled(m) \/ ~Written(m) => Unpaired(m)
  /\ \A x, y \in Nat : <<m, x>> \in pairs /\ <<m, y>> \in pairs => x = y
  /\ ~GrpcActs \/ ~Copied(m) => saved[m] <= 1
  /\ ~Copied(m) => saved[m] = 0 \/ ~Waits(m)

\* A message for which nothing is added.
LEMMA SoleLess ==
  ASSUME Inv, Inv', NEW m \in Messages, Sole(m), UNCHANGED <<world, writer>>,
         pairs' \subseteq pairs, saved'[m] <= saved[m],
         \A p \in Places : waiting'[m][p] <= waiting[m][p],
         main'.todo[m] <= main.todo[m], Handled(m)' => Handled(m),
         Copied(m) /\ ~Copied(m)' => saved'[m] <= 1 /\ (saved'[m] = 0 \/ ~Waits(m)')
  PROVE  Sole(m)'
<1>1. /\ saved[m] \in Nat /\ saved'[m] \in Nat
      /\ \A p \in Places : waiting[m][p] \in Nat /\ waiting'[m][p] \in Nat
      /\ main.todo[m] \in Nat /\ main'.todo[m] \in Nat
  BY DEF Inv, TypeOK, Work
<1>2. /\ \A p \in Places : waiting'[m][p] > 0 => waiting[m][p] > 0
      /\ Waits(m)' => Waits(m)
  BY <1>1 DEF Waits
<1>3. (Written(m)' <=> Written(m)) /\ (GrpcActs' <=> GrpcActs)
  BY DEF Written, GrpcActs
<1>4. /\ \A p \in Places : waiting'[m][p] <= 1
      /\ main'.todo[m] <= 1 /\ (main.todo[m] = 0 => main'.todo[m] = 0)
  BY <1>1 DEF Sole
<1>5. \A p, q \in Places : waiting'[m][p] > 0 /\ waiting'[m][q] > 0 => p = q
  BY <1>2 DEF Sole
<1>6. Unpaired(m) => Unpaired(m)'
  BY DEF Unpaired
<1>7. ~GrpcActs \/ ~Copied(m)' => saved'[m] <= 1
  BY <1>1 DEF Sole
<1>8. ~Copied(m)' => saved'[m] = 0 \/ ~Waits(m)'
  BY <1>1, <1>2 DEF Sole
<1>9. \A x, y \in Nat : <<m, x>> \in pairs' /\ <<m, y>> \in pairs' => x = y
  BY DEF Sole
<1>10. Waits(m)' => main'.todo[m] = 0 /\ ~Handled(m)'
  BY <1>2, <1>4 DEF Sole
<1>11. Handled(m)' => main'.todo[m] = 0
  BY <1>4 DEF Sole
<1>12. Waits(m)' \/ Handled(m)' \/ ~Written(m)' => Unpaired(m)'
  BY <1>2, <1>3, <1>6 DEF Sole
<1> QED BY <1>3, <1>4, <1>5, <1>7, <1>8, <1>9, <1>10, <1>11, <1>12 DEF Sole

\* A message that is handled anew: no task but the one that is executed, no row to
\* copy, no pair.
LEMMA SoleRelays ==
  ASSUME Inv, Inv', NEW m \in Messages, NEW u \in Users, NEW p, NEW work, Fits(work),
         NEW tasks \in [Messages -> [Places -> Nat]],
         Relays(m, u, p, tasks, work),
         UNCHANGED <<world, desk, pairs, sent>>, writer' = [writer EXCEPT ![m] = u],
         writer[m] = u \/ work = Idle, Copies <=> work.at = "copying",
         Copies => work.ticket = main.ticket /\ writer[m] = owner[main.ticket],
         \A k \in Messages : work.todo[k] = main.todo[k],
         \A k \in Messages, q \in Places :
           tasks[k][q] <= waiting[k][q] /\ (k = m => tasks[k][q] = 0),
         \A k \in Messages : Sole(k), ~Copies => saved[m] = 0,
         Unpaired(m), main.todo[m] = 0
  PROVE  \A k \in Messages : Sole(k)'
<1> SUFFICES ASSUME NEW k \in Messages PROVE Sole(k)'
  OBVIOUS
<1>1. /\ p \in Places /\ p = Route(u) /\ main'.ticket = work.ticket
      /\ main'.todo = work.todo /\ u # NoUser
      /\ saved'[k] = IF k = m /\ p = Management THEN saved[k] + 1 ELSE saved[k]
  BY MessageRelayAssumption DEF Relays
<1>2. \/ main'.at = "relaying" /\ main'.msg = m /\ waiting' = tasks
      \/ /\ main' = work /\ p # Management
         /\ \A l \in Messages, q \in Places :
              waiting'[l][q] = IF l = m /\ q = p THEN tasks[l][q] + 1 ELSE tasks[l][q]
  BY DEF Relays
<1>3. main'.at \in {"idle", "copying", "relaying"} /\ (Handled(k)' => k = m)
  BY <1>2 DEF Fits, Handled
<1>4. (Copies' <=> Copies) /\ (GrpcActs' <=> GrpcActs) /\ UNCHANGED owner
  BY <1>1, <1>2 DEF Copies, Fits, GrpcActs, desk
<1>5. \A l \in Messages : writer'[l] = IF l = m THEN u ELSE writer[l]
  BY DEF Inv, TypeOK
<1>6. /\ saved[k] \in Nat /\ main.todo[k] \in Nat
      /\ \A q \in Places : waiting[k][q] \in Nat /\ tasks[k][q] \in Nat
  BY DEF Inv, TypeOK, Work
<1>7. CASE k # m
  <2>1. \A q \in Places : waiting'[k][q] = tasks[k][q]
    BY <1>2, <1>7
  <2>2. /\ \A q \in Places : waiting'[k][q] <= waiting[k][q]
        /\ \A q \in Places : waiting'[k][q] > 0 => waiting[k][q] > 0
    BY <1>6, <2>1
  <2>3. /\ saved'[k] = saved[k] /\ ~Handled(k)' /\ main'.todo[k] = main.todo[k]
        /\ (Written(k)' <=> Written(k)) /\ (Copied(k)' <=> Copied(k))
    BY <1>1, <1>3, <1>4, <1>5, <1>7 DEF Written, Copied
  <2>4. Waits(k)' => Waits(k)
    BY <2>2 DEF Waits
  <2>5. \A q \in Places : waiting'[k][q] <= 1
    BY <1>6, <2>1 DEF Sole
  <2>6. \A q, r \in Places : waiting'[k][q] > 0 /\ waiting'[k][r] > 0 => q = r
    BY <2>2 DEF Sole
  <2>7. Unpaired(k)' <=> Unpaired(k)
    BY DEF Unpaired
  <2> QED BY <1>4, <2>3, <2>4, <2>5, <2>6, <2>7 DEF Sole
<1>8. CASE k = m
  <2>1. \A q \in Places : tasks[m][q] = 0
    BY <1>8
  <2>2. /\ \A q \in Places : waiting'[m][q] = 0 \/ (q = p /\ waiting'[m][q] = 1)
        /\ Waits(m)' => ~Handled(m)' /\ p # Management
    <3>1. CASE main'.at = "relaying" /\ waiting' = tasks
      BY <2>1, <3>1 DEF Waits
    <3>2. CASE /\ main' = work /\ p # Management
               /\ \A l \in Messages, q \in Places :
                    waiting'[l][q] = IF l = m /\ q = p THEN tasks[l][q] + 1 ELSE tasks[l][q]
      <4>1. \A q \in Places : waiting'[m][q] = IF q = p THEN 1 ELSE 0
        BY <2>1, <3>2
      <4>2. ~Handled(m)'
        BY <3>2 DEF Handled, Fits
      <4> QED BY <3>2, <4>1, <4>2
    <3> QED BY <1>2, <3>1, <3>2
  <2>3. /\ \A q \in Places : waiting'[m][q] <= 1
        /\ \A q, r \in Places : waiting'[m][q] > 0 /\ waiting'[m][r] > 0 => q = r
    BY <2>2
  <2>4. main'.todo[m] = 0 /\ Unpaired(m)' /\ Written(m)'
    BY <1>1, <1>5 DEF Unpaired, Written
  <2>5. Copied(m)' <=> Copies
    <3>1. Copied(m)' <=> Copies /\ u = owner[work.ticket]
      BY <1>1, <1>4, <1>5 DEF Copied
    <3>2. Copies => writer[m] = u
      BY IdleFacts
    <3> QED BY <3>1, <3>2
  <2>6. /\ ~GrpcActs \/ ~Copied(m)' => saved'[m] <= 1
        /\ ~Copied(m)' => saved'[m] = 0 \/ ~Waits(m)'
    <3>1. CASE ~Copies
      BY <1>1, <1>6, <1>8, <2>2, <2>5, <3>1
    <3>2. CASE Copies
      <4>1. CASE ~GrpcActs
        <5>1. /\ writer[m] = u \/ work = Idle
              /\ work.ticket = main.ticket /\ main.ticket \in Tickets
              /\ current[owner[main.ticket]] = main.ticket
          BY <3>2, <4>1 DEF Inv, OfTicket
        <5>2. writer[m] = u
          BY <3>2, <5>1, IdleFacts
        <5>3. Route(u) = main.ticket /\ main.ticket # Management
          BY <3>2, <5>1, <5>2, PlaceFacts DEF Route
        <5>4. saved'[m] = saved[m]
          BY <1>1, <1>8, <5>3
        <5> QED BY <1>6, <1>8, <2>5, <3>2, <4>1, <5>4 DEF Sole
      <4>2. CASE GrpcActs
        BY <2>5, <3>2, <4>2
      <4> QED BY <4>1, <4>2
    <3> QED BY <3>1, <3>2
  <2>7. \A x, y \in Nat : <<m, x>> \in pairs' /\ <<m, y>> \in pairs' => x = y
    BY DEF Unpaired
  <2> QED BY <1>4, <1>8, <2>2, <2>3, <2>4, <2>6, <2>7 DEF Sole
<1> QED BY <1>7, <1>8

\* A message with a row to copy is handled with the row.
LEMMA SoleCopyNext ==
  ASSUME Inv, Inv', UNCHANGED world, \A k \in Messages : Sole(k),
         NEW m \in Messages, CopyNext(m)
  PROVE  \A k \in Messages : Sole(k)'
<1>1. /\ main.at = "copying" /\ main.todo[m] > 0 /\ main \in Work
      /\ main' = [main EXCEPT !.at = "fetching", !.msg = m, !.todo[m] = @ - 1]
      /\ pairs' = {x \in pairs : x[1] # m}
      /\ UNCHANGED <<owner, writer, saved, waiting>>
  BY DEF CopyNext, desk, Inv, TypeOK
<1>2. /\ main'.at = "fetching" /\ main'.msg = m /\ main'.ticket = main.ticket
      /\ \A k \in Messages :
           main'.todo[k] = IF k = m THEN main.todo[k] - 1 ELSE main.todo[k]
  BY <1>1 DEF Work
<1>3. \A k \in Messages : main.todo[k] \in Nat
  BY <1>1 DEF Work
<1>4. \A k \in Messages : Copied(k)' <=> Copied(k)
  BY <1>1, <1>2 DEF Copied, Copies
<1>5. ASSUME NEW k \in Messages, k # m PROVE Sole(k)'
  <2>1. (Handled(k)' => Handled(k)) /\ main'.todo[k] <= main.todo[k]
    BY <1>2, <1>3, <1>5 DEF Handled
  <2> QED BY <1>1, <1>4, <2>1, Same, SoleLess DEF Inv
<1>6. Sole(m)'
  <2>1. main.todo[m] = 1 /\ ~Waits(m) /\ Written(m)
    BY <1>1, <1>3 DEF Sole, Inv, WrittenFirst
  <2>2. main'.todo[m] = 0 /\ Unpaired(m)' /\ ~Waits(m)'
    BY <1>1, <1>2, <2>1 DEF Unpaired, Waits
  <2>3. (Written(m)' <=> Written(m)) /\ (GrpcActs' <=> GrpcActs)
    BY <1>1 DEF Written, GrpcActs
  <2>4. \A x, y \in Nat : <<m, x>> \in pairs' /\ <<m, y>> \in pairs' => x = y
    BY <2>2 DEF Unpaired
  <2> QED BY <1>1, <1>4, <2>2, <2>3, <2>4 DEF Sole
<1> QED BY <1>5, <1>6

\* What is fetched is handled, gets its task, or is left out.
LEMMA SoleFetched ==
  ASSUME Inv, Inv', UNCHANGED world, \A k \in Messages : Sole(k), Fetched
  PROVE  \A k \in Messages : Sole(k)'
<1>1. PICK m \in Messages, t \in Tickets :
         /\ main.at = "fetching" /\ m = main.msg /\ t = main.ticket /\ Copies
         /\ Written(m) /\ owner[t] = writer[m] /\ UNCHANGED desk
  <2>1. main.at = "fetching" /\ Copies /\ UNCHANGED desk
    BY DEF Fetched, Copies
  <2> QED BY <2>1 DEF Inv, WrittenFirst, OfTicket
<1>2. writer[m] \in Users /\ writer = [writer EXCEPT ![m] = writer[m]]
  BY <1>1, WrittenBy
<1>3. /\ Fits(Resumed) /\ Resumed.ticket = t /\ Resumed.at = "copying"
      /\ \A k \in Messages : Resumed.todo[k] = main.todo[k]
  BY <1>1, ResumedFits
<1>4. Handled(m) /\ main.todo[m] = 0 /\ Unpaired(m) /\ ~Waits(m)
  BY <1>1 DEF Handled, Sole
<1>5. waiting \in [Messages -> [Places -> Nat]] /\ \A k \in Messages : main.todo[k] \in Nat
  BY DEF Inv, TypeOK, Work
<1>6. \A q \in Places : waiting[m][q] = 0
  BY <1>4, <1>5 DEF Waits
<1>7. CASE RelayFromUser(m, writer[m], waiting, Resumed) /\ UNCHANGED <<writer, pairs, sent>>
  <2>1. Relays(m, writer[m], Route(writer[m]), waiting, Resumed)
    BY <1>2, <1>3, <1>5, <1>7, RelayEffect DEF Inv, Fits
  <2>2. \A k \in Messages, q \in Places :
          waiting[k][q] <= waiting[k][q] /\ (k = m => waiting[k][q] = 0)
    BY <1>5, <1>6
  <2> HIDE DEF Resumed
  <2> QED BY <1>1, <1>2, <1>3, <1>4, <1>5, <1>7, <2>1, <2>2, SoleRelays
<1>8. CASE main' = Resumed /\ UNCHANGED <<writer, saved, pairs>> /\ m \notin Others
           /\ waiting' = [waiting EXCEPT ![m][t] = @ + 1]
  <2>1. /\ main'.at = "copying" /\ main'.ticket = main.ticket
        /\ \A k \in Messages : main'.todo[k] = main.todo[k] /\ ~Handled(k)'
    BY <1>1, <1>3, <1>8 DEF Handled
  <2>2. \A k \in Messages : Copied(k)' <=> Copied(k)
    BY <1>1, <1>8, <2>1 DEF Copied, Copies, desk
  <2>3. \A k \in Messages, q \in Places :
          waiting'[k][q] = IF k = m /\ q = t THEN 1 ELSE waiting[k][q]
    BY <1>5, <1>6, <1>8, PlaceFacts
  <2>4. ASSUME NEW k \in Messages, k # m PROVE Sole(k)'
    <3>1. main'.todo[k] <= main.todo[k] /\ \A q \in Places : waiting'[k][q] <= waiting[k][q]
      BY <1>5, <2>1, <2>3, <2>4
    <3> QED BY <1>8, <2>1, <2>2, <3>1, Same, SoleLess DEF Inv
  <2>5. Sole(m)'
    <3>1. \A q \in Places : waiting'[m][q] = IF q = t THEN 1 ELSE 0
      BY <1>6, <2>3
    <3>2. /\ \A q \in Places : waiting'[m][q] <= 1
          /\ \A q, r \in Places : waiting'[m][q] > 0 /\ waiting'[m][r] > 0 => q = r
      BY <3>1
    <3>3. main'.todo[m] = 0 /\ Unpaired(m)' /\ ~Handled(m)' /\ Copied(m)
      BY <1>1, <1>4, <1>8, <2>1 DEF Unpaired, Copied
    <3>4. \A x, y \in Nat : <<m, x>> \in pairs' /\ <<m, y>> \in pairs' => x = y
      BY <3>3 DEF Unpaired
    <3>5. (GrpcActs' <=> GrpcActs) /\ Copied(m)' /\ saved'[m] = saved[m]
      BY <1>8, <2>2, <3>3 DEF GrpcActs
    <3> QED BY <3>2, <3>3, <3>4, <3>5 DEF Sole
  <2> QED BY <2>4, <2>5
<1>9. CASE main' = Resumed /\ UNCHANGED events
  <2>1. /\ main'.at = "copying" /\ main'.ticket = main.ticket
        /\ \A k \in Messages : main'.todo[k] <= main.todo[k] /\ ~Handled(k)'
    BY <1>1, <1>3, <1>5, <1>9 DEF Handled
  <2>2. \A k \in Messages : Copied(k)' <=> Copied(k)
    BY <1>1, <1>9, <2>1 DEF Copied, Copies, desk, events
  <2> QED BY <1>9, <2>1, <2>2, Same, SoleLess DEF Inv, events
<1> QED BY <1>1, <1>7, <1>8, <1>9 DEF Fetched

\* The clone of what is relayed is the only one that a pair leads to.
LEMMA SoleRelayed ==
  ASSUME Inv, Inv', UNCHANGED world, \A k \in Messages : Sole(k), Relayed
  PROVE  \A k \in Messages : Sole(k)'
<1>1. PICK m \in Messages : main.at = "relaying" /\ m = main.msg
  BY DEF Relayed, Inv, WrittenFirst
<1>2. /\ main' = Resumed /\ UNCHANGED <<desk, writer, saved, waiting>>
      /\ \E n : pairs' \subseteq pairs \cup {<<m, n>>}
  BY <1>1 DEF Relayed
<1>3. /\ main'.at \in {"idle", "copying"} /\ main'.ticket = main.ticket
      /\ Copies <=> main'.at = "copying"
      /\ \A k \in Messages : main'.todo[k] = main.todo[k] /\ ~Handled(k)'
  BY <1>1, <1>2, ResumedFits DEF Fits, Handled
<1>4. \A k \in Messages : Copied(k)' <=> Copied(k)
  <2>1. Copies' <=> Copies
    BY <1>3 DEF Copies
  <2> QED BY <1>2, <1>3, <2>1 DEF Copied, desk
<1>5. ASSUME NEW k \in Messages, k # m PROVE Sole(k)'
  <2>1. \A x \in Nat : <<k, x>> \in pairs' => <<k, x>> \in pairs
    BY <1>2, <1>5
  <2>2. /\ Unpaired(k) => Unpaired(k)'
        /\ \A x, y \in Nat : <<k, x>> \in pairs' /\ <<k, y>> \in pairs' => x = y
    BY <2>1 DEF Unpaired, Sole
  <2>3. (Written(k)' <=> Written(k)) /\ (Waits(k)' <=> Waits(k)) /\ (GrpcActs' <=> GrpcActs)
    BY <1>2 DEF Written, Waits, GrpcActs
  <2> QED BY <1>2, <1>3, <1>4, <2>2, <2>3 DEF Sole
<1>6. Sole(m)'
  <2>1. Handled(m) /\ Unpaired(m) /\ ~Waits(m) /\ Written(m)
    BY <1>1 DEF Handled, Sole, Inv, WrittenFirst
  <2>2. \A x, y \in Nat : <<m, x>> \in pairs' /\ <<m, y>> \in pairs' => x = y
    BY <1>2, <2>1 DEF Unpaired
  <2>3. Written(m)' /\ ~Waits(m)' /\ (GrpcActs' <=> GrpcActs)
    BY <1>2, <2>1 DEF Written, Waits, GrpcActs
  <2> QED BY <1>2, <1>3, <1>4, <2>2, <2>3 DEF Sole
<1> QED BY <1>5, <1>6


\* What a copy will read is read or deleted, and the rest stays.
LEMMA SoleCopying ==
  ASSUME Inv, Inv', UNCHANGED world, \A k \in Messages : Sole(k),
         RoomCreated \/ RoomRefused \/ FetchFailed \/ CopyDone \/ RelayFailed
  PROVE  \A k \in Messages : Sole(k)'
<1>0. \A k \in Messages : main.todo[k] \in Nat /\ saved[k] \in Nat
  BY DEF Inv, TypeOK, Work
<1>1. CASE RoomCreated
  <2>1. /\ main.at = "creating" /\ main'.at = "copying" /\ ~Copies
        /\ \A k \in Messages : main'.todo[k] \in {0, saved[k]}
        /\ UNCHANGED events
    BY <1>1 DEF RoomCreated, Copies, Inv, TypeOK, Work
  <2> SUFFICES ASSUME NEW k \in Messages PROVE Sole(k)'
    OBVIOUS
  <2>2. saved[k] <= 1 /\ (saved[k] = 0 \/ ~Waits(k))
    BY <2>1 DEF Sole, Copied
  <2>3. main'.todo[k] <= 1 /\ (Waits(k)' => main'.todo[k] = 0) /\ ~Handled(k)'
    BY <1>0, <2>1, <2>2 DEF Waits, Handled, events
  <2>4. /\ saved'[k] <= 1 /\ (saved'[k] = 0 \/ ~Waits(k)')
        /\ (Unpaired(k)' <=> Unpaired(k)) /\ (Written(k)' <=> Written(k))
        /\ (Waits(k)' <=> Waits(k))
    BY <2>1, <2>2 DEF Waits, Unpaired, Written, events
  <2> QED BY <2>1, <2>3, <2>4 DEF Sole, events
<1>2. CASE RoomRefused
  <2>1. main.at = "creating" /\ main' = Idle /\ UNCHANGED <<desk, events>>
    BY <1>2 DEF RoomRefused
  <2>2. ~Copies /\ \A k \in Messages : main'.todo[k] <= main.todo[k] /\ ~Handled(k)'
    BY <1>0, <2>1, IdleFacts DEF Copies, Handled
  <2> QED BY <2>1, <2>2, Same, SoleLess DEF Inv, events, Copied
<1>3. CASE FetchFailed \/ RelayFailed
  <2>1. /\ main.at \in {"fetching", "relaying"} /\ main' = Resumed
        /\ UNCHANGED <<desk, events>>
    BY <1>3 DEF FetchFailed, RelayFailed
  <2>2. /\ main'.at \in {"idle", "copying"} /\ main'.ticket = main.ticket
        /\ Copies <=> main'.at = "copying"
        /\ \A k \in Messages : main'.todo[k] <= main.todo[k] /\ ~Handled(k)'
    BY <1>0, <2>1, ResumedFits DEF Fits, Handled
  <2>3. Copies' <=> Copies
    BY <2>2 DEF Copies
  <2>4. \A k \in Messages : Copied(k)' <=> Copied(k)
    BY <2>1, <2>2, <2>3 DEF Copied, desk, events
  <2> QED BY <2>1, <2>2, <2>4, Same, SoleLess DEF Inv, events
<1>4. CASE CopyDone
  <2>1. /\ main.at = "copying" /\ main' = Idle
        /\ \A k \in Messages : saved'[k] = IF writer[k] = owner[main.ticket] THEN 0 ELSE saved[k]
        /\ UNCHANGED <<writer, waiting, pairs>>
    BY <1>4 DEF CopyDone
  <2>2. \A k \in Messages : main'.todo[k] <= main.todo[k] /\ ~Handled(k)' /\ ~Copied(k)'
    BY <1>0, <2>1, IdleFacts DEF Handled, Copied, Copies
  <2>3. \A k \in Messages : saved'[k] <= saved[k] /\ (Copied(k) => saved'[k] = 0)
    BY <1>0, <2>1 DEF Copied
  <2> QED BY <2>1, <2>2, <2>3, Same, SoleLess DEF Inv
<1> QED BY <1>1, <1>2, <1>3, <1>4

LEMMA SoleNext ==
  ASSUME Inv, Inv', CopiesEnd, [Next]_vars, \A m \in Messages : Sole(m)
  PROVE  \A m \in Messages : Sole(m)'
<1>0. UNCHANGED world /\ waiting \in [Messages -> [Places -> Nat]]
      /\ \A m \in Messages : main.todo[m] \in Nat /\ saved[m] \in Nat
  BY DEF Next, vars, Inv, TypeOK, Work
<1>1. IsIdle => main = Idle /\ ~Copies
  BY IdleFacts DEF Inv, OfTicket, Copies
<1>2. ASSUME NEW m \in Messages, NEW u \in Users, Write(m, u)
      PROVE  \A k \in Messages : Sole(k)'
  <2>1. /\ IsIdle /\ writer' = [writer EXCEPT ![m] = u] /\ ~Written(m)
        /\ RelayFromUser(m, u, waiting, Idle) /\ UNCHANGED <<desk, pairs, sent>>
    BY <1>2 DEF Write, Written
  <2>2. saved[m] = 0 /\ ~Waits(m) /\ main.todo[m] = 0 /\ Unpaired(m)
    BY <1>0, <2>1 DEF Inv, WrittenFirst, Sole
  <2>3. Relays(m, u, Route(u), waiting, Idle)
    BY <1>0, <2>1, IdleFacts, RelayEffect DEF Inv
  <2>4. \A k \in Messages, q \in Places :
          waiting[k][q] <= waiting[k][q] /\ (k = m => waiting[k][q] = 0)
    BY <1>0, <2>2 DEF Waits
  <2> QED BY <1>0, <1>1, <2>1, <2>2, <2>3, <2>4, IdleFits, IdleFacts, SoleRelays
<1>3. ASSUME NEW m \in Messages, NEW p \in Places, Replay(m, p)
      PROVE  \A k \in Messages : Sole(k)'
  <2>1. /\ IsIdle /\ waiting[m][p] > 0 /\ Waits(m)
        /\ RelayFromUser(m, writer[m], Without(m, p), Idle)
        /\ UNCHANGED <<desk, writer, pairs, sent>>
    BY <1>3 DEF Replay, Waits
  <2>2. saved[m] = 0 /\ main.todo[m] = 0 /\ Unpaired(m) /\ Written(m)
    BY <1>1, <2>1 DEF Sole, Copied, Inv, WrittenFirst
  <2>3. writer[m] \in Users /\ writer' = [writer EXCEPT ![m] = writer[m]]
    BY <2>1, <2>2, WrittenBy
  <2>4. PICK tasks \in [Messages -> [Places -> Nat]] :
          /\ tasks = Without(m, p)
          /\ \A k \in Messages, q \in Places :
               tasks[k][q] = IF k = m /\ q = p THEN waiting[k][q] - 1 ELSE waiting[k][q]
    BY <2>1, WithoutOne DEF Inv
  <2>5. \A q \in Places : waiting[m][q] = IF q = p THEN 1 ELSE 0
    BY <1>0, <2>1 DEF Sole
  <2>6. \A k \in Messages, q \in Places :
          tasks[k][q] <= waiting[k][q] /\ (k = m => tasks[k][q] = 0)
    BY <1>0, <2>4, <2>5
  <2>7. Relays(m, writer[m], Route(writer[m]), tasks, Idle)
    BY <2>1, <2>3, <2>4, IdleFacts, RelayEffect DEF Inv
  <2> QED BY <1>0, <1>1, <2>1, <2>2, <2>3, <2>6, <2>7, IdleFits, IdleFacts, SoleRelays
<1>4. ASSUME NEW u \in Users, NEW t \in Tickets, Raise(u, t)
      PROVE  \A k \in Messages : Sole(k)'
  <2>1. IsIdle /\ main'.at = "creating" /\ UNCHANGED events
        /\ \A k \in Messages : main'.todo[k] = 0
    BY <1>4 DEF Raise, Idle
  <2>2. \A k \in Messages : main'.todo[k] <= main.todo[k] /\ ~Handled(k)' /\ ~Copied(k)
    BY <1>0, <1>1, <2>1 DEF Handled, Copied
  <2> QED BY <1>0, <2>1, <2>2, Same, SoleLess DEF Inv, events
<1>5. CASE Crash \/ (\E u \in Users, t \in Tickets : CrashInRaise(u, t))
           \/ \E t \in Tickets : CrashInCommand(t)
  <2>1. Restarted /\ MayFail /\ UNCHANGED <<writer, saved, pairs>>
    BY <1>5 DEF Crash, CrashInRaise, CrashInCommand, MidCrash
  <2>2. ~GrpcActs
    BY <2>1 DEF CopiesEnd
  <2>3. \A k \in Messages : main'.todo[k] <= main.todo[k] /\ ~Handled(k)' /\ ~Waits(k)'
    <3>1. \A k \in Messages, q \in Places : waiting'[k][q] = 0
      BY <2>1 DEF Restarted
    <3>2. main' = Idle
      BY <2>1 DEF Restarted
    <3> QED BY <1>0, <3>1, <3>2, IdleFacts DEF Handled, Waits
  <2>4. \A k \in Messages : saved'[k] <= 1
    BY <2>1, <2>2 DEF Sole
  <2>5. \A k \in Messages, q \in Places : waiting'[k][q] <= waiting[k][q]
    BY <2>1, RestartTypes DEF Inv
  <2> QED BY <1>0, <2>1, <2>3, <2>4, <2>5, Same, SoleLess DEF Inv
<1>6. ASSUME NEW t \in Tickets, Close(t) \/ Reopen(t)
      PROVE  \A k \in Messages : Sole(k)'
  <2>1. UNCHANGED <<owner, events, main>>
    BY <1>6 DEF Close, Reopen
  <2>2. \A k \in Messages : (Copied(k)' <=> Copied(k)) /\ (Handled(k)' <=> Handled(k))
                            /\ main'.todo[k] <= main.todo[k]
    BY <1>0, <2>1 DEF Copied, Copies, Handled, events
  <2> QED BY <1>0, <2>1, <2>2, Same, SoleLess DEF Inv, events
<1>7. CASE (\E u \in Users : OpenChat(u) \/ CloseChat(u)) \/ Learn \/ UNCHANGED vars
  <2>1. UNCHANGED <<owner, events, main>>
    BY <1>7 DEF OpenChat, CloseChat, Learn, vars, state, desk
  <2>2. \A k \in Messages : (Copied(k)' <=> Copied(k)) /\ (Handled(k)' <=> Handled(k))
                            /\ main'.todo[k] <= main.todo[k]
    BY <1>0, <2>1 DEF Copied, Copies, Handled, events
  <2> QED BY <1>0, <2>1, <2>2, Same, SoleLess DEF Inv, events
<1>8. ASSUME NEW m \in Messages, NEW p \in Places, Expire(m, p)
      PROVE  \A k \in Messages : Sole(k)'
  <2>1. /\ waiting[m][p] > 0 /\ waiting' = Without(m, p)
        /\ UNCHANGED <<desk, writer, saved, pairs, sent, main>>
    BY <1>8 DEF Expire
  <2>2. \A k \in Messages, q \in Places :
          waiting'[k][q] = IF k = m /\ q = p THEN waiting[k][q] - 1 ELSE waiting[k][q]
    BY <2>1, WithoutOne DEF Inv
  <2>3. \A k \in Messages, q \in Places : waiting'[k][q] <= waiting[k][q]
    BY <1>0, <2>2
  <2>4. \A k \in Messages : (Copied(k)' <=> Copied(k)) /\ (Handled(k)' <=> Handled(k))
                            /\ main'.todo[k] <= main.todo[k]
    BY <1>0, <2>1 DEF Copied, Copies, Handled, desk
  <2> QED BY <1>0, <2>1, <2>3, <2>4, Same, SoleLess DEF Inv
<1>9. ~Disconnect
  BY DEF CopiesEnd, Disconnect
<1> QED
  BY <1>0, <1>2, <1>3, <1>4, <1>5, <1>6, <1>7, <1>8, <1>9, SoleCopyNext, SoleFetched,
     SoleRelayed, SoleCopying
  DEF Next, Step, Copying

AllSole == CopiesEnd => \A m \in Messages : Sole(m)

LEMMA SoleAlways == Spec => []AllSole
<1>1. Init => AllSole
  <2> SUFFICES ASSUME Init, NEW m \in Messages PROVE Sole(m)
    BY DEF AllSole
  <2> QED BY IdleFacts DEF Init, Sole, Waits, Handled, Unpaired
<1>2. Inv /\ Inv' /\ AllSole /\ [Next]_vars => AllSole'
  <2>1. [Next]_vars => (CopiesEnd' <=> CopiesEnd)
    BY DEF Next, vars, CopiesEnd, Disconnects, GrpcActs, MayFail
  <2> QED BY <2>1, SoleNext DEF AllSole
<1> QED BY <1>1, <1>2, InvAlways, PTL DEF Spec

\* A message has one clone at most to which replies, edits and redactions apply:
\* in every behaviour where copies come to their end.
THEOREM OneClone == Spec => []OnePair
<1>1. Inv /\ AllSole => OnePair
  <2> SUFFICES ASSUME Inv, \A m \in Messages : Sole(m),
                      NEW x \in pairs, NEW y \in pairs, x[1] = y[1]
               PROVE  x = y
    BY DEF AllSole, OnePair, TiedOnce
  <2>1. /\ x = <<x[1], x[2]>> /\ x[1] \in Messages /\ x[2] \in Nat
        /\ y = <<y[1], y[2]>> /\ y[2] \in Nat
    BY DEF Inv, TypeOK
  <2>2. x[2] = y[2]
    BY <2>1 DEF Sole
  <2> QED BY <2>1, <2>2
<1> QED BY <1>1, InvAlways, SoleAlways, PTL

-----------------------------------------------------------------------------
(* A ticket's room is sent to while the ticket is open.                    *)

\* Without a crash between two rows, the current ticket of a user is open; and where
\* only commands close tickets, so is the one to whose room Main relays.
ToOpen ==
  ~MidCrash =>
    /\ \A u \in Users : current[u] # NoTicket => status[current[u]] = "open"
    /\ ~GrpcActs /\ main.at = "relaying" /\ main.to \in Tickets => status[main.to] = "open"

LEMMA OpenStep ==
  ASSUME Inv, ToOpen, [Next]_vars PROVE ToOpen'
<1>0. /\ UNCHANGED world /\ (GrpcActs' <=> GrpcActs) /\ (MidCrash' <=> MidCrash)
      /\ main \in Work /\ Idle \in Work /\ Idle.at = "idle"
      /\ \A t \in Tickets : t # NoTicket
  BY IdleFacts, PlaceFacts DEF Next, vars, GrpcActs, MidCrash, MayFail, Inv, TypeOK
<1> SUFFICES ASSUME ~MidCrash PROVE ToOpen'
  BY <1>0 DEF ToOpen
<1>1. ASSUME UNCHANGED <<status, current>>, main'.at # "relaying" \/ main' = main
      PROVE  ToOpen'
  BY <1>0, <1>1 DEF ToOpen
<1>2. ASSUME NEW m \in Messages, NEW u \in Users, NEW work, Fits(work),
             NEW tasks \in [Messages -> [Places -> Nat]],
             RelayFromUser(m, u, tasks, work), UNCHANGED desk
      PROVE  ToOpen'
  <2>1. Relays(m, u, Route(u), tasks, work)
    BY <1>2, RelayEffect DEF Inv, Fits
  <2>2. main'.at = "relaying" => main'.to = Route(u)
    BY <1>2, <2>1 DEF Relays, Fits
  <2>3. Route(u) \in Tickets => status[Route(u)] = "open"
    BY PlaceFacts DEF ToOpen, Route
  <2> QED BY <1>0, <1>2, <2>2, <2>3 DEF ToOpen, desk
<1>3. ASSUME NEW m \in Messages, NEW u \in Users, Write(m, u) PROVE ToOpen'
  BY <1>2, <1>3, IdleFits DEF Write, Inv, TypeOK
<1>4. ASSUME NEW m \in Messages, NEW p \in Places, Replay(m, p) PROVE ToOpen'
  <2>1. Written(m) /\ waiting[m][p] > 0
    BY <1>4 DEF Replay, Inv, WrittenFirst, Waits
  <2>2. writer[m] \in Users /\ Without(m, p) \in [Messages -> [Places -> Nat]]
    BY <2>1, WrittenBy, WithoutOne DEF Inv
  <2> QED BY <1>2, <1>4, <2>2, IdleFits DEF Replay
<1>5. CASE Fetched
  <2>1. /\ main.at = "fetching" /\ main.msg \in Messages /\ writer[main.msg] \in Users
        /\ UNCHANGED desk
    BY <1>5, WrittenBy DEF Fetched, Inv, WrittenFirst
  <2>2. Fits(Resumed)
    BY <2>1, ResumedFits
  <2>3. RelayFromUser(main.msg, writer[main.msg], waiting, Resumed) \/ main' = Resumed
    BY <1>5 DEF Fetched
  <2> QED BY <1>1, <1>2, <2>1, <2>2, <2>3 DEF desk, Fits, Inv, TypeOK
<1>6. ASSUME NEW u \in Users, NEW t \in Tickets, Raise(u, t) PROVE ToOpen'
  <2>1. /\ status' = [status EXCEPT ![t] = "open"] /\ current' = [current EXCEPT ![u] = t]
        /\ main'.at = "creating"
    BY <1>6 DEF Raise, Idle
  <2> QED BY <1>0, <2>1 DEF Inv, TypeOK, ToOpen
<1>7. ASSUME NEW t \in Tickets, Close(t) \/ Reopen(t) PROVE ToOpen'
  <2>1. (IsIdle \/ GrpcActs) /\ UNCHANGED main
    BY <1>7 DEF Close, Reopen
  <2>2. \A u \in Users : current'[u] # NoTicket => status'[current'[u]] = "open"
    <3>1. CASE Close(t)
      <4>1. status' = [status EXCEPT ![t] = "closed"]
            /\ current' = [current EXCEPT ![owner[t]] = IF @ = t THEN NoTicket ELSE @]
        BY <3>1 DEF Close
      <4> QED BY <1>0, <4>1 DEF Inv, TypeOK, Owned, ToOpen
    <3>2. CASE Reopen(t)
      <4>1. status' = [status EXCEPT ![t] = "open"]
            /\ current' = [current EXCEPT ![owner[t]] = t]
        BY <3>2 DEF Reopen
      <4> QED BY <1>0, <4>1 DEF Inv, TypeOK, Owned, ToOpen
    <3> QED BY <1>7, <3>1, <3>2
  <2> QED BY <1>0, <2>1, <2>2 DEF IsIdle, ToOpen
<1>8. CASE \/ Relayed \/ RelayFailed \/ RoomCreated \/ RoomRefused \/ FetchFailed \/ CopyDone
           \/ Disconnect \/ Crash \/ \E m \in Messages : CopyNext(m)
  <2>1. UNCHANGED <<status, current>>
    BY <1>8 DEF Relayed, RelayFailed, RoomCreated, RoomRefused, FetchFailed, CopyDone,
                Disconnect, Crash, CopyNext, desk
  <2>2. main'.at # "relaying"
    <3>1. CASE Relayed \/ RelayFailed \/ FetchFailed
      <4>1. main' = Resumed /\ main.at \in {"fetching", "relaying"}
        BY <3>1 DEF Relayed, RelayFailed, FetchFailed
      <4> QED BY <4>1, ResumedFits DEF Fits
    <3>2. CASE RoomCreated \/ \E m \in Messages : CopyNext(m)
      BY <1>0, <3>2 DEF RoomCreated, CopyNext, Work
    <3>3. CASE RoomRefused \/ CopyDone \/ Disconnect \/ Crash
      BY <1>0, <3>3 DEF RoomRefused, CopyDone, Disconnect, Crash, Restarted
    <3> QED BY <1>8, <3>1, <3>2, <3>3
  <2> QED BY <1>1, <2>1, <2>2
<1>9. CASE \/ \E u \in Users : OpenChat(u) \/ CloseChat(u)
           \/ Learn \/ UNCHANGED vars \/ \E m \in Messages, p \in Places : Expire(m, p)
  BY <1>1, <1>9 DEF OpenChat, CloseChat, Learn, vars, state, desk, Expire
<1>10. /\ \A u \in Users, t \in Tickets : ~CrashInRaise(u, t)
       /\ \A t \in Tickets : ~CrashInCommand(t)
  BY DEF CrashInRaise, CrashInCommand
<1> QED
  BY <1>3, <1>4, <1>5, <1>6, <1>7, <1>8, <1>9, <1>10 DEF Next, Step, Copying

\* A ticket's room is sent to while the ticket is open, although each message is
\* routed before its request: where only commands close tickets, and no crash comes
\* between the rows of one.
THEOREM OpenTicketOnly == Spec => SentToOpenTicket
<1>1. Init => ToOpen
  BY DEF Init, ToOpen, Idle
<1>2. Inv /\ ToOpen /\ [Next]_vars => [~GrpcActs /\ ~MidCrash => SentWhileOpen]_vars
  <2> SUFFICES ASSUME Inv, ToOpen, Next, ~GrpcActs, ~MidCrash, NEW m \in Messages,
                      Len(sent[m]) + 1 \in DOMAIN sent'[m],
                      sent'[m][Len(sent[m]) + 1] \in Tickets
               PROVE  status[sent'[m][Len(sent[m]) + 1]] = "open"
    BY Zenon DEF SentWhileOpen
  <2>1. sent[m] \in Seq(Places) /\ sent \in [Messages -> Seq(Places)]
    BY DEF Inv, TypeOK
  <2>2. sent' # sent
    <3>1. DOMAIN sent[m] = 1..Len(sent[m]) /\ Len(sent[m]) \in Nat
      BY <2>1
    <3> QED BY <3>1
  <2>3. Relayed
    BY <2>2, Zenon DEF Next, Step, Copying, Write, Replay, Expire, Raise, CrashInRaise, RoomCreated,
       RoomRefused, CopyNext, Fetched, FetchFailed, CopyDone, Close, Reopen, CrashInCommand,
       OpenChat, CloseChat, Learn, Disconnect, Crash, RelayFailed, RelayFromUser, events
  <2>4. main.at = "relaying" /\ sent' = [sent EXCEPT ![main.msg] = Append(@, main.to)]
    BY <2>3 DEF Relayed
  <2>5. main.msg = m
    BY <2>1, <2>4
  <2>6. sent'[m] = Append(sent[m], main.to)
    BY <2>1, <2>4, <2>5
  <2>7. sent'[m][Len(sent[m]) + 1] = main.to
    BY <2>1, <2>6
  <2> QED BY <2>4, <2>7 DEF ToOpen
<1> QED BY <1>1, <1>2, OpenStep, InvAlways, PTL DEF Spec, SentToOpenTicket

-----------------------------------------------------------------------------
(* A text or media is kept for the ticket.                                 *)

Calm == ~GrpcActs /\ ~MayFail /\ ~Disconnects

\* The message waits, or others than the management room have seen it.
Settled(m) == Waits(m) \/ \E n \in DOMAIN sent[m] : sent[m][n] # Management

\* Or it is about to be.
Provided(m) ==
  \/ Settled(m)
  \/ main.at = "relaying" /\ main.msg = m /\ main.to # Management
  \/ main.at = "fetching" /\ main.msg = m

\* What is not provided for is saved; and while Main copies what is saved of the
\* user of a ticket, it is still to be copied.
Keeping ==
  \A m \in Messages \ Others :
    /\ Written(m) => saved[m] > 0 \/ Provided(m)
    /\ Copied(m) /\ saved[m] > 0 => main.todo[m] > 0 \/ Provided(m)

\* relay_from_user leaves no message unsaved that goes to the management room,
\* and saves no other.
LEMMA RelayKeeps ==
  ASSUME Inv, NEW m \in Messages, NEW u \in Users, NEW work \in Work, NEW p,
         NEW tasks \in [Messages -> [Places -> Nat]],
         \A k \in Messages, q \in Places : k # m => tasks[k][q] = waiting[k][q],
         Relays(m, u, p, tasks, work), UNCHANGED sent
  PROVE  /\ saved'[m] > 0 \/ Provided(m)'
         /\ p # Management => Provided(m)' /\ saved' = saved
         /\ \A k \in Messages : k # m => (Settled(k)' <=> Settled(k)) /\ saved'[k] = saved[k]
<1>1. /\ p \in Places /\ saved' \in [Messages -> Nat] /\ saved \in [Messages -> Nat]
      /\ \A k \in Messages :
           saved'[k] = IF k = m /\ p = Management THEN saved[k] + 1 ELSE saved[k]
  BY DEF Relays, Inv, TypeOK
<1>2. \/ main'.at = "relaying" /\ main'.msg = m /\ main'.to = p /\ waiting' = tasks
      \/ /\ main' = work /\ p # Management
         /\ \A k \in Messages, q \in Places :
              waiting'[k][q] = IF k = m /\ q = p THEN tasks[k][q] + 1 ELSE tasks[k][q]
  BY DEF Relays
<1>3. p # Management => Provided(m)'
  <2>1. CASE main'.at = "relaying" /\ main'.msg = m /\ main'.to = p
    BY <2>1 DEF Provided
  <2>2. CASE waiting'[m][p] = tasks[m][p] + 1
    <3>1. waiting'[m][p] > 0
      BY <1>1, <2>2
    <3> QED BY <1>1, <3>1 DEF Provided, Settled, Waits
  <2> QED BY <1>1, <1>2, <2>1, <2>2
<1>4. p # Management => saved' = saved
  BY <1>1
<1>5. saved'[m] > 0 \/ Provided(m)'
  <2>1. CASE p = Management
    <3>1. saved'[m] = saved[m] + 1 /\ saved[m] \in Nat
      BY <1>1, <2>1
    <3> QED BY <3>1
  <2> QED BY <1>3, <2>1
<1>6. \A k \in Messages, q \in Places : k # m => waiting'[k][q] = waiting[k][q]
  BY <1>2
<1>7. \A k \in Messages : k # m => (Settled(k)' <=> Settled(k)) /\ saved'[k] = saved[k]
  BY <1>1, <1>6 DEF Settled, Waits
<1> QED BY <1>3, <1>4, <1>5, <1>7

\* Main is idle, and a message is written or handled again.
LEMMA AnewKeeps ==
  ASSUME Inv, Keeping, IsIdle, NEW m \in Messages, NEW u \in Users,
         NEW tasks \in [Messages -> [Places -> Nat]],
         \A k \in Messages, q \in Places : k # m => tasks[k][q] = waiting[k][q],
         RelayFromUser(m, u, tasks, Idle), UNCHANGED sent,
         \A k \in Messages : k # m => writer'[k] = writer[k]
  PROVE  Keeping'
<1>1. Relays(m, u, Route(u), tasks, Idle)
  BY IdleFacts, RelayEffect DEF Inv
<1>2. /\ saved'[m] > 0 \/ Provided(m)'
      /\ \A k \in Messages : k # m => (Settled(k)' <=> Settled(k)) /\ saved'[k] = saved[k]
  BY <1>1, IdleFacts, RelayKeeps
<1>3. main'.ticket = NoTicket /\ main'.at \in {"idle", "relaying"}
  BY <1>1, IdleFacts DEF Relays
<1>4. \A k \in Messages : ~Copied(k)'
  BY <1>3 DEF Copied, Copies
<1>5. \A k \in Messages \ Others : k # m /\ Written(k)' => saved'[k] > 0 \/ Provided(k)'
  BY <1>2 DEF Keeping, Provided, IsIdle, Written
<1> QED BY <1>2, <1>4, <1>5 DEF Keeping

\* Main is idle and stays so, or raises a ticket.
LEMMA IdleKeeps ==
  ASSUME Inv, Keeping, IsIdle, UNCHANGED events,
         main'.at \in {"idle", "creating"}
  PROVE  Keeping'
BY DEF Keeping, Copied, Copies, Provided, Settled, Waits, Written, IsIdle, events

\* Main goes on with the copy, or is idle again.
LEMMA ResumedKeeps ==
  ASSUME Inv, Keeping, main.at \in {"fetching", "relaying"}, main' = Resumed,
         UNCHANGED <<writer, saved, owner>>,
         \A k \in Messages \ Others : Provided(k) => Settled(k)'
  PROVE  Keeping'
<1>1. /\ main'.at \in {"idle", "copying"} /\ main'.ticket = main.ticket
      /\ Copies <=> main'.at = "copying"
      /\ \A k \in Messages : main'.todo[k] = main.todo[k]
  BY ResumedFits DEF Fits
<1>2. Copies' <=> Copies
  BY <1>1 DEF Copies
<1>3. \A k \in Messages : (Copied(k)' <=> Copied(k)) /\ (Written(k)' <=> Written(k))
  BY <1>1, <1>2 DEF Copied, Written
<1>4. \A k \in Messages \ Others : Provided(k) => Provided(k)'
  BY DEF Provided
<1> QED BY <1>1, <1>3, <1>4 DEF Keeping

LEMMA FetchedKeeps ==
  ASSUME Inv, Calm, Keeping, Fetched PROVE Keeping'
<1>1. PICK m \in Messages, t \in Tickets :
         /\ main.at = "fetching" /\ m = main.msg /\ t = main.ticket /\ Copies
         /\ Written(m) /\ owner[t] = writer[m] /\ current[writer[m]] = t
         /\ UNCHANGED desk
  <2>1. main.at = "fetching" /\ Copies /\ UNCHANGED desk
    BY DEF Fetched, Copies
  <2> QED BY <2>1 DEF Inv, WrittenFirst, OfTicket, Calm
<1>2. writer[m] \in Users /\ t # NoTicket /\ t \in Places /\ t # Management
  BY <1>1, WrittenBy, PlaceFacts
<1>3. waiting \in [Messages -> [Places -> Nat]]
  BY DEF Inv, TypeOK
<1>4. CASE m \in Others /\ main' = Resumed /\ UNCHANGED events
  BY <1>1, <1>4, ResumedKeeps DEF Provided, Settled, Waits, events, desk
<1>5. CASE /\ waiting' = [waiting EXCEPT ![m][t] = @ + 1] /\ main' = Resumed
           /\ UNCHANGED <<writer, saved, pairs, sent>>
  <2>1. /\ \A k \in Messages, q \in Places : waiting[k][q] > 0 => waiting'[k][q] > 0
        /\ waiting'[m][t] > 0
    BY <1>2, <1>3, <1>5
  <2>2. Settled(m)' /\ \A k \in Messages : Settled(k) => Settled(k)'
    BY <1>2, <1>5, <2>1 DEF Settled, Waits
  <2> QED BY <1>1, <1>5, <2>2, ResumedKeeps DEF Provided, desk
<1>6. CASE RelayFromUser(m, writer[m], waiting, Resumed) /\ UNCHANGED <<writer, pairs, sent>>
  <2>1. Route(writer[m]) = t
    BY <1>1, <1>2 DEF Route
  <2>2. /\ Fits(Resumed) /\ Resumed.ticket = t /\ Resumed.at = "copying"
        /\ \A k \in Messages : Resumed.todo[k] = main.todo[k]
    BY <1>1, ResumedFits
  <2>3. Relays(m, writer[m], t, waiting, Resumed)
    BY <1>2, <1>3, <1>6, <2>1, <2>2, RelayEffect DEF Inv, Fits
  <2>4. /\ Provided(m)' /\ saved' = saved
        /\ \A k \in Messages : k # m => (Settled(k)' <=> Settled(k))
    BY <1>2, <1>3, <1>6, <2>2, <2>3, RelayKeeps DEF Fits
  <2>5. /\ main'.at \in {"copying", "relaying"} /\ main'.ticket = main.ticket
        /\ \A k \in Messages : main'.todo[k] = main.todo[k]
    BY <1>1, <2>2, <2>3 DEF Relays
  <2>6. \A k \in Messages : (Copied(k)' <=> Copied(k)) /\ (Written(k)' <=> Written(k))
    BY <1>1, <1>2, <1>6, <2>5 DEF Copied, Copies, Written, desk
  <2>7. \A k \in Messages : Provided(k) => Provided(k)'
    BY <1>1, <2>4 DEF Provided
  <2> QED BY <2>4, <2>5, <2>6, <2>7 DEF Keeping
<1> QED BY <1>1, <1>4, <1>5, <1>6 DEF Fetched

LEMMA CopyKeeps ==
  ASSUME Inv, Calm, Keeping, Copying PROVE Keeping'
<1>0. main \in Work /\ \A k \in Messages : main.todo[k] \in Nat /\ saved[k] \in Nat
  BY DEF Inv, TypeOK, Work
<1>1. CASE RoomCreated
  <2>1. /\ main.at = "creating" /\ main'.at = "copying" /\ main'.ticket = main.ticket
        /\ \A m \in Messages :
             main'.todo[m] = IF writer[m] = owner[main.ticket] THEN saved[m] ELSE 0
        /\ UNCHANGED <<owner, events>>
    BY <1>0, <1>1 DEF RoomCreated, Work
  <2>2. \A m \in Messages : Provided(m) => Provided(m)'
    BY <2>1 DEF Provided, Settled, Waits, events
  <2>3. \A m \in Messages : Copied(m)' /\ saved'[m] > 0 => main'.todo[m] > 0
    BY <2>1 DEF Copied, events
  <2> QED BY <2>1, <2>2, <2>3 DEF Keeping, Written, events
<1>2. ASSUME NEW m \in Messages, CopyNext(m) PROVE Keeping'
  <2>1. /\ main.at = "copying" /\ main'.at = "fetching" /\ main'.msg = m
        /\ main'.ticket = main.ticket
        /\ \A k \in Messages : k # m => main'.todo[k] = main.todo[k]
        /\ UNCHANGED <<owner, writer, saved, waiting, sent>>
    BY <1>0, <1>2 DEF CopyNext, desk, Work
  <2>2. \A k \in Messages : Provided(k) => Provided(k)'
    BY <2>1 DEF Provided, Settled, Waits
  <2>3. Provided(m)'
    BY <2>1 DEF Provided
  <2>4. \A k \in Messages : (Copied(k)' <=> Copied(k)) /\ (Written(k)' <=> Written(k))
    BY <2>1 DEF Copied, Copies, Written
  <2> QED BY <2>1, <2>2, <2>3, <2>4 DEF Keeping
<1>3. CASE CopyDone
  <2>1. /\ main.at = "copying" /\ \A k \in Messages : main.todo[k] = 0
        /\ main'.at = "idle"
        /\ \A k \in Messages : saved'[k] = IF writer[k] = owner[main.ticket] THEN 0 ELSE saved[k]
        /\ UNCHANGED <<writer, waiting, sent>>
    BY <1>3, IdleFacts DEF CopyDone
  <2>2. \A k \in Messages : Provided(k) => Provided(k)'
    BY <2>1 DEF Provided, Settled, Waits
  <2>3. \A k \in Messages \ Others : Written(k) => saved'[k] > 0 \/ Provided(k)
    <3>1. \A k \in Messages \ Others : Copied(k) /\ saved[k] > 0 => Provided(k)
      BY <2>1 DEF Keeping
    <3>2. \A k \in Messages : Copied(k) <=> writer[k] = owner[main.ticket]
      BY <2>1 DEF Copied, Copies
    <3> QED BY <2>1, <3>1, <3>2 DEF Keeping
  <2> QED BY <2>1, <2>2, <2>3 DEF Keeping, Copied, Copies, Written
<1> QED BY <1>1, <1>2, <1>3, FetchedKeeps DEF Copying, RoomRefused, FetchFailed, Calm

LEMMA RelayedKeeps ==
  ASSUME Inv, Keeping, Relayed PROVE Keeping'
<1>1. PICK m \in Messages, p \in Places :
         /\ main.at = "relaying" /\ m = main.msg /\ p = main.to
         /\ sent' = [sent EXCEPT ![m] = Append(@, p)] /\ main' = Resumed
         /\ UNCHANGED <<owner, writer, saved, waiting>>
  BY DEF Relayed, Inv, WrittenFirst, Addressed, desk
<1>2. sent \in [Messages -> Seq(Places)]
  BY DEF Inv, TypeOK
<1>3. /\ \A k \in Messages : k # m => sent'[k] = sent[k]
      /\ sent'[m] = Append(sent[m], p)
      /\ DOMAIN sent'[m] = 1..(Len(sent[m]) + 1) /\ DOMAIN sent[m] = 1..Len(sent[m])
      /\ Len(sent[m]) \in Nat /\ sent'[m][Len(sent[m]) + 1] = p
      /\ \A n \in DOMAIN sent[m] : sent'[m][n] = sent[m][n]
  BY <1>1, <1>2
<1>4. \A k \in Messages : Settled(k) => Settled(k)'
  <2>1. \A k \in Messages : \A n \in DOMAIN sent[k] :
          n \in DOMAIN sent'[k] /\ sent'[k][n] = sent[k][n]
    BY <1>3
  <2> QED BY <1>1, <2>1 DEF Settled, Waits
<1>5. p # Management => Settled(m)'
  BY <1>3 DEF Settled
<1>6. \A k \in Messages : Provided(k) => Settled(k)'
  BY <1>1, <1>4, <1>5 DEF Provided
<1> QED BY <1>1, <1>6, ResumedKeeps

LEMMA NextKeeps ==
  ASSUME Inv, Calm => Keeping, [Next]_vars PROVE (Calm => Keeping)'
<1>0. (Calm' <=> Calm)
  BY DEF Next, vars, Calm, GrpcActs, MayFail, Disconnects
<1> SUFFICES ASSUME Calm, Keeping PROVE Keeping'
  BY <1>0
<1>1. ASSUME NEW m \in Messages, NEW u \in Users, Write(m, u) PROVE Keeping'
  BY <1>1, AnewKeeps DEF Write, Inv, TypeOK
<1>2. ASSUME NEW m \in Messages, NEW p \in Places, Replay(m, p) PROVE Keeping'
  <2>1. /\ IsIdle /\ waiting[m][p] > 0 /\ Waits(m)
        /\ RelayFromUser(m, writer[m], Without(m, p), Idle)
        /\ UNCHANGED <<writer, sent>>
    BY <1>2 DEF Replay, Waits
  <2>2. writer[m] \in Users
    BY <2>1, WrittenBy DEF Inv, WrittenFirst
  <2>3. PICK tasks \in [Messages -> [Places -> Nat]] :
          /\ tasks = Without(m, p)
          /\ \A k \in Messages, q \in Places : k # m => tasks[k][q] = waiting[k][q]
    BY <2>1, WithoutOne DEF Inv
  <2> QED BY <2>1, <2>2, <2>3, AnewKeeps
<1>3. CASE \/ \E u \in Users, t \in Tickets : Raise(u, t)
           \/ \E u \in Users : OpenChat(u) \/ CloseChat(u)
           \/ \E t \in Tickets : Close(t) \/ Reopen(t)
           \/ Learn
  <2>1. IsIdle /\ UNCHANGED events /\ main'.at \in {"idle", "creating"}
    BY <1>3 DEF Raise, Idle, OpenChat, CloseChat, Close, Reopen, Learn, Calm, IsIdle
  <2> QED BY <2>1, IdleKeeps
<1>4. CASE RelayFailed
  <2>1. /\ main.at = "relaying" /\ main.msg \in Others /\ main' = Resumed
        /\ UNCHANGED <<desk, events>>
    BY <1>4 DEF RelayFailed, Calm
  <2> QED BY <2>1, ResumedKeeps DEF desk, events, Provided, Settled, Waits
<1>5. CASE UNCHANGED vars
  BY <1>5 DEF vars, state, desk, events, Keeping, Copied, Copies, Provided, Settled, Waits,
     Written
<1> QED
  BY <1>1, <1>2, <1>3, <1>4, <1>5, CopyKeeps, RelayedKeeps
  DEF Next, Step, Expire, Disconnect, Crash, CrashInRaise, CrashInCommand, MidCrash, Calm

\* No text and no media is forgotten between the management room and the ticket,
\* though CopyDone deletes what is saved without asking what became of it: where
\* only commands change tickets, and nothing fails.
THEOREM NoneForgotten == Spec => []KeptForTicket
<1>1. Init => (Calm => Keeping)
  BY IdleFacts DEF Init, Keeping, Copied, Copies, Written
<1>2. Inv /\ (Calm => Keeping) => KeptForTicket
  BY DEF Keeping, Provided, Settled, Waits, KeptForTicket, Kept, Calm, IsIdle, Written
<1> QED BY <1>1, <1>2, NextKeeps, InvAlways, PTL DEF Spec

-----------------------------------------------------------------------------
(* The relay implements RelayContract.                                     *)

\* What a message's pair leads to.
LEMMA LinkFacts ==
  ASSUME Inv, CopiesEnd, AllSole, NEW m \in Messages
  PROVE  /\ Unpaired(m) => Link(m) = Nowhere
         /\ \A n \in Nat : <<m, n>> \in pairs => Link(m) = sent[m][n]
<1>1. sent[m] \in Seq(Places)
  BY DEF Inv, TypeOK
<1>2. \A n \in DOMAIN sent[m] : n \in Nat
  BY <1>1
<1>3. Unpaired(m) => Link(m) = Nowhere
  BY <1>2 DEF Unpaired, Link
<1>4. ASSUME NEW n \in Nat, <<m, n>> \in pairs PROVE Link(m) = sent[m][n]
  <2>1. \A k \in DOMAIN sent[m] : <<m, k>> \in pairs => k = n
    BY <1>2, <1>4 DEF AllSole, Sole
  <2>2. n \in DOMAIN sent[m]
    BY <1>4 DEF Inv, Cloned
  <2> QED BY <1>4, <2>1, <2>2 DEF Link
<1> QED BY <1>3, <1>4

\* A step that shows nothing and keeps the pairs is a stutter of the contract.
LEMMA Hidden ==
  ASSUME UNCHANGED <<world, writer, owner, sent, pairs>>
  PROVE  UNCHANGED Contract!contract
<1>1. /\ CopiesEnd' <=> CopiesEnd
      /\ Shown' = Shown /\ \A m \in Messages : Link(m)' = Link(m)
  BY DEF CopiesEnd, Disconnects, GrpcActs, MayFail, Shown, Link
<1> QED BY <1>1 DEF Contract!contract

\* Where copies need not end, the contract's state stays as it is.
LEMMA Unpromised ==
  ASSUME ~CopiesEnd, UNCHANGED world
  PROVE  UNCHANGED Contract!contract
<1>1. ~CopiesEnd'
  BY DEF CopiesEnd, Disconnects, GrpcActs, MayFail
<1> QED BY <1>1 DEF Contract!contract

LEMMA WriteMaps ==
  ASSUME Inv, CopiesEnd, UNCHANGED world, NEW m \in Messages, NEW u \in Users, Write(m, u)
  PROVE  Contract!Next
<1>1. /\ writer[m] = NoUser /\ writer' = [writer EXCEPT ![m] = u]
      /\ UNCHANGED <<owner, sent, pairs>> /\ writer \in [Messages -> Users \cup {NoUser}]
  BY DEF Write, desk, Inv, TypeOK
<1>2. CopiesEnd' /\ Shown' = Shown /\ \A k \in Messages : Link(k)' = Link(k)
  BY <1>1 DEF CopiesEnd, Disconnects, GrpcActs, MayFail, Shown, Link
<1>3. [k \in Messages |-> IF CopiesEnd' THEN writer'[k] ELSE NoUser] =
        [[k \in Messages |-> IF CopiesEnd THEN writer[k] ELSE NoUser] EXCEPT ![m] = u]
  BY <1>1, <1>2
<1>4. Contract!Write(m, u)
  BY <1>1, <1>2, <1>3 DEF Contract!Write
<1> QED BY <1>4 DEF Contract!Next

\* The ticket is there when its row is, whatever becomes of the user's row.
LEMMA RaiseMaps ==
  ASSUME Inv, CopiesEnd, UNCHANGED world, NEW u \in Users, NEW t \in Tickets,
         Raise(u, t) \/ CrashInRaise(u, t)
  PROVE  Contract!Next
<1>1. /\ owner[t] = NoUser /\ owner' = [owner EXCEPT ![t] = u]
      /\ UNCHANGED <<writer, sent, pairs>> /\ owner \in [Tickets -> Users \cup {NoUser}]
  BY DEF Raise, CrashInRaise, Unused, Inv, TypeOK, Owned, events
<1>2. CopiesEnd' /\ Shown' = Shown /\ \A k \in Messages : Link(k)' = Link(k)
  BY <1>1 DEF CopiesEnd, Disconnects, GrpcActs, MayFail, Shown, Link
<1>3. [s \in Tickets |-> IF CopiesEnd' THEN owner'[s] ELSE NoUser] =
        [[s \in Tickets |-> IF CopiesEnd THEN owner[s] ELSE NoUser] EXCEPT ![t] = u]
  BY <1>1, <1>2
<1>4. Contract!Raise(u, t)
  BY <1>1, <1>2, <1>3 DEF Contract!Raise
<1> QED BY <1>4 DEF Contract!Next

LEMMA CopyNextMaps ==
  ASSUME Inv, Inv', CopiesEnd, AllSole, AllSole', UNCHANGED world,
         NEW m \in Messages, CopyNext(m)
  PROVE  Contract!Next
<1>1. /\ pairs' = {x \in pairs : x[1] # m} /\ UNCHANGED <<owner, writer, sent>>
      /\ sent \in [Messages -> Seq(Places)]
  BY DEF CopyNext, desk, Inv, TypeOK
<1>2. CopiesEnd' /\ Shown' = Shown
  BY <1>1 DEF CopiesEnd, Disconnects, GrpcActs, MayFail, Shown
<1>3. \A k \in Messages : Link(k)' = IF k = m THEN Nowhere ELSE Link(k)
  <2> SUFFICES ASSUME NEW k \in Messages
               PROVE  Link(k)' = IF k = m THEN Nowhere ELSE Link(k)
    OBVIOUS
  <2>1. \A n : <<k, n>> \in pairs' <=> k # m /\ <<k, n>> \in pairs
    BY <1>1
  <2> QED BY <1>1, <2>1 DEF Link
<1>4. [k \in Messages |-> IF CopiesEnd' THEN Link(k)' ELSE Nowhere] =
        [[k \in Messages |-> IF CopiesEnd THEN Link(k) ELSE Nowhere] EXCEPT ![m] = Nowhere]
  BY <1>2, <1>3
<1>5. Contract!Unlink(m)
  BY <1>1, <1>2, <1>4 DEF Contract!Unlink
<1> QED BY <1>5 DEF Contract!Next

LEMMA RelayedMaps ==
  ASSUME Inv, Inv', CopiesEnd, AllSole, AllSole', UNCHANGED world, Relayed
  PROVE  Contract!Next
<1>1. PICK m \in Messages, p \in Places :
         /\ main.at = "relaying" /\ m = main.msg /\ p = main.to
         /\ Written(m) /\ Unpaired(m) /\ (p \in Tickets => owner[p] = writer[m])
  BY DEF Relayed, Inv, WrittenFirst, Addressed, AllSole, Sole, Handled
<1>2. /\ sent' = [sent EXCEPT ![m] = Append(@, p)]
      /\ pairs' = pairs \/ pairs' = pairs \cup {<<m, Len(sent[m]) + 1>>}
      /\ UNCHANGED <<owner, writer>>
  BY <1>1 DEF Relayed, desk
<1>3. sent \in [Messages -> Seq(Places)]
  BY DEF Inv, TypeOK
<1>4. /\ \A k \in Messages : k # m => sent'[k] = sent[k]
      /\ sent'[m] = Append(sent[m], p)
      /\ DOMAIN sent'[m] = 1..(Len(sent[m]) + 1) /\ DOMAIN sent[m] = 1..Len(sent[m])
      /\ Len(sent[m]) \in Nat /\ sent'[m][Len(sent[m]) + 1] = p
      /\ \A n \in DOMAIN sent[m] : sent'[m][n] = sent[m][n]
  BY <1>2, <1>3
<1>5. Shown' = Shown \cup {<<m, p>>}
  <2>1. ASSUME NEW x \in Messages \X Places PROVE x \in Shown' <=> x \in Shown \/ x = <<m, p>>
    <3>1. x[1] \in Messages /\ x = <<x[1], x[2]>>
      OBVIOUS
    <3>2. CASE x[1] # m
      <4>1. sent'[x[1]] = sent[x[1]]
        BY <1>4, <3>1, <3>2
      <4> QED BY <3>2, <4>1 DEF Shown
    <3>3. CASE x[1] = m
      <4>1. (\E n \in DOMAIN sent'[m] : sent'[m][n] = x[2])
              <=> (\E n \in DOMAIN sent[m] : sent[m][n] = x[2]) \/ x[2] = p
        <5>1. \A n \in DOMAIN sent'[m] : n \in DOMAIN sent[m] \/ n = Len(sent[m]) + 1
          BY <1>4
        <5>2. DOMAIN sent[m] \subseteq DOMAIN sent'[m] /\ Len(sent[m]) + 1 \in DOMAIN sent'[m]
          BY <1>4
        <5> QED BY <1>4, <5>1, <5>2
      <4> QED BY <3>1, <3>3, <4>1 DEF Shown
    <3> QED BY <3>2, <3>3
  <2>2. Shown \subseteq Messages \X Places /\ Shown' \subseteq Messages \X Places
    BY DEF Shown
  <2>3. <<m, p>> \in Messages \X Places
    OBVIOUS
  <2> QED BY <2>1, <2>2, <2>3
<1>6. Link(m) = Nowhere
  BY <1>1, LinkFacts
<1>7. CopiesEnd'
  BY DEF CopiesEnd, Disconnects, GrpcActs, MayFail
<1>8. \A k \in Messages : k # m => Link(k)' = Link(k)
  <2> SUFFICES ASSUME NEW k \in Messages, k # m PROVE Link(k)' = Link(k)
    OBVIOUS
  <2>1. \A n : <<k, n>> \in pairs' <=> <<k, n>> \in pairs
    BY <1>2
  <2> QED BY <1>4, <2>1 DEF Link
<1>9. Link(m)' \in {p, Nowhere}
  <2>1. \A n : <<m, n>> \in pairs' => n = Len(sent[m]) + 1 \/ <<m, n>> \in pairs
    BY <1>2
  <2>2. \A n \in DOMAIN sent'[m] : <<m, n>> \in pairs' => sent'[m][n] = p
    BY <1>1, <1>4, <2>1 DEF Unpaired
  <2> QED BY <2>2 DEF Link
<1> DEFINE before == [k \in Messages |-> IF CopiesEnd THEN Link(k) ELSE Nowhere]
<1>10. [k \in Messages |-> IF CopiesEnd' THEN Link(k)' ELSE Nowhere]
         \in {[before EXCEPT ![m] = p], before}
  BY <1>6, <1>7, <1>8, <1>9
<1>11. /\ [k \in Messages |-> IF CopiesEnd' THEN writer'[k] ELSE NoUser] =
            [k \in Messages |-> IF CopiesEnd THEN writer[k] ELSE NoUser]
       /\ [t \in Tickets |-> IF CopiesEnd' THEN owner'[t] ELSE NoUser] =
            [t \in Tickets |-> IF CopiesEnd THEN owner[t] ELSE NoUser]
  BY <1>2, <1>7
<1>12. Contract!Show(m, p)
  BY <1>1, <1>5, <1>6, <1>7, <1>10, <1>11 DEF Contract!Show, Written
<1> QED BY <1>1, <1>12 DEF Contract!Next, Places

LEMMA StepMaps ==
  Inv /\ Inv' /\ AllSole /\ AllSole' /\ [Next]_vars => [Contract!Next]_(Contract!contract)
<1> SUFFICES ASSUME Inv, Inv', AllSole, AllSole', [Next]_vars
             PROVE  Contract!Next \/ UNCHANGED Contract!contract
  OBVIOUS
<1>0. UNCHANGED world
  BY DEF Next, vars
<1> SUFFICES ASSUME CopiesEnd PROVE Contract!Next \/ UNCHANGED Contract!contract
  BY <1>0, Unpromised
<1>1. ASSUME NEW m \in Messages, NEW u \in Users, Write(m, u) PROVE Contract!Next
  BY <1>0, <1>1, WriteMaps
<1>2. CASE Relayed
  BY <1>0, <1>2, RelayedMaps
<1>3. ASSUME NEW u \in Users, NEW t \in Tickets, Raise(u, t) \/ CrashInRaise(u, t)
      PROVE  Contract!Next
  BY <1>0, <1>3, RaiseMaps
<1>4. ASSUME NEW m \in Messages, CopyNext(m) PROVE Contract!Next
  BY <1>0, <1>4, CopyNextMaps
<1>5. CASE \/ RelayFailed \/ Learn \/ Disconnect \/ Crash
           \/ \E m \in Messages, p \in Places : Replay(m, p) \/ Expire(m, p)
           \/ RoomCreated \/ RoomRefused \/ Fetched \/ FetchFailed \/ CopyDone
  BY <1>0, <1>5, Hidden, Zenon DEF RelayFailed, Learn, Disconnect, Crash, Replay, Expire, RoomCreated,
     RoomRefused, Fetched, FetchFailed, CopyDone, RelayFromUser, desk, events
<1>6. CASE \/ \E t \in Tickets : Close(t) \/ Reopen(t) \/ CrashInCommand(t)
           \/ \E u \in Users : OpenChat(u) \/ CloseChat(u)
           \/ UNCHANGED vars
  BY <1>0, <1>6, Hidden DEF Close, Reopen, CrashInCommand, OpenChat, CloseChat, vars, state,
     desk, events
<1> QED
  BY <1>1, <1>2, <1>3, <1>4, <1>5, <1>6 DEF Next, Step, Copying

\* Staff see a user's message in the management room, a chat, or a ticket of the
\* user's own, and what they quote leads to one place, whatever overlaps, fails or
\* crashes, the queue, the copies and the requests being hidden: in every behaviour
\* where copies come to their end.
THEOREM RelayImplementsContract == Spec => ImplementsContract
<1>1. Init => Contract!Init
  <2> SUFFICES ASSUME Init PROVE Contract!Init
    OBVIOUS
  <2>1. Shown = {} /\ \A m \in Messages : Link(m) = Nowhere
    BY DEF Init, Shown, Link
  <2> QED BY <2>1 DEF Init, Contract!Init
<1> QED BY <1>1, InvAlways, SoleAlways, StepMaps, PTL
        DEF Spec, ImplementsContract, Contract!Spec

-----------------------------------------------------------------------------
(* rooms_pending in detail: lists, their order, and the runs that read them. *)

\* Every set of numbers that is not empty has a least one.
LEMMA Least == ASSUME NEW T \in SUBSET Nat, T # {} PROVE \E m \in T : \A n \in T : m <= n
<1> DEFINE R == {ss \in Nat \X Nat : ss[1] < ss[2]}
<1>1. R = OpToRel(<, Nat)
  BY Zenon DEF OpToRel
<1>2. IsWellFoundedOn(R, Nat)
  BY <1>1, NatLessThanWellFounded, Zenon
<1> HIDE DEF R
<1>3. \E x \in T : \A y \in T : ~(<<y, x>> \in R)
  BY <1>2, WFMin, Zenon
<1>4. ASSUME NEW x \in T, NEW y \in T, ~(<<y, x>> \in R) PROVE x <= y
  BY <1>4 DEF R
<1> QED BY <1>3, <1>4

\* The function that the definition of LiveTasks names.
LiveUpTo(list, n, f) ==
  f = [i \in 0..n |-> IF i = 0 THEN <<>>
                      ELSE IF list[i] \in old THEN f[i - 1] ELSE Append(f[i - 1], list[i])]

\* If there is such a function for n, then there is one for n + 1.
LEMMA Extend ==
  ASSUME NEW list, NEW n \in Nat, NEW f, LiveUpTo(list, n, f)
  PROVE  \E g : LiveUpTo(list, n + 1, g)
<1> DEFINE g == [i \in 0..(n + 1) |->
                   IF i <= n THEN f[i]
                   ELSE IF list[i] \in old THEN f[n] ELSE Append(f[n], list[i])]
<1>1. ASSUME NEW i \in 0..(n + 1)
      PROVE  g[i] = IF i = 0 THEN <<>>
                    ELSE IF list[i] \in old THEN g[i - 1] ELSE Append(g[i - 1], list[i])
  <2>1. CASE i <= n
    <3>1. g[i] = f[i]
      BY <2>1
    <3>2. i # 0 => i - 1 \in 0..n /\ g[i - 1] = f[i - 1]
      BY <2>1
    <3>3. i \in 0..n
      BY <2>1
    <3>4. f[i] = IF i = 0 THEN <<>>
                 ELSE IF list[i] \in old THEN f[i - 1] ELSE Append(f[i - 1], list[i])
      BY <3>3 DEF LiveUpTo
    <3> HIDE DEF g
    <3> QED BY <3>1, <3>2, <3>4
  <2>2. CASE i = n + 1
    <3>1. g[i] = IF list[i] \in old THEN f[n] ELSE Append(f[n], list[i])
      BY <2>2
    <3>2. i # 0 /\ i - 1 = n /\ g[i - 1] = f[n]
      BY <2>2
    <3> HIDE DEF g
    <3> QED BY <3>1, <3>2
  <2> QED BY <2>1, <2>2
<1>2. g = [i \in 0..(n + 1) |-> IF i = 0 THEN <<>>
                    ELSE IF list[i] \in old THEN g[i - 1] ELSE Append(g[i - 1], list[i])]
  BY <1>1
<1> QED BY <1>2 DEF LiveUpTo

\* There is such a function for every n: there is no least n without one.
LEMMA Exists == ASSUME NEW list, NEW n \in Nat PROVE \E f : LiveUpTo(list, n, f)
<1> DEFINE T == {i \in Nat : ~\E f : LiveUpTo(list, i, f)}
<1>1. SUFFICES ASSUME T # {} PROVE FALSE
  OBVIOUS
<1>2. PICK m \in T : \A i \in T : m <= i
  BY <1>1, Least
<1>3. \E f : LiveUpTo(list, 0, f)
  <2>1. LiveUpTo(list, 0, [i \in 0..0 |-> <<>>])
    BY DEF LiveUpTo
  <2> QED BY <2>1
<1>4. m # 0 /\ m - 1 \in Nat
  BY <1>2, <1>3
<1>5. m - 1 \notin T
  BY <1>2, <1>4
<1>6. \E f : LiveUpTo(list, m - 1, f)
  BY <1>4, <1>5
<1>7. \E f : LiveUpTo(list, (m - 1) + 1, f)
  BY <1>4, <1>6, Extend
<1>8. (m - 1) + 1 = m
  BY <1>2
<1> QED BY <1>2, <1>7, <1>8

\* LiveTasks is the last value of such a function.
LEMMA LiveIs ==
  ASSUME NEW list, Len(list) \in Nat
  PROVE  \E f : LiveUpTo(list, Len(list), f) /\ Queue!LiveTasks(list) = f[Len(list)]
<1> DEFINE F == CHOOSE f : f = [i \in 0..Len(list) |-> IF i = 0 THEN <<>>
                      ELSE IF list[i] \in old THEN f[i - 1] ELSE Append(f[i - 1], list[i])]
<1>1. LiveUpTo(list, Len(list), F)
  BY Exists, Zenon DEF LiveUpTo
<1>2. Queue!LiveTasks(list) = F[Len(list)]
  BY DEF Queue!LiveTasks
<1> QED BY <1>1, <1>2, Zenon

\* What the loop collects of the first n.
Filtered(list, n, l, S) ==
  /\ l \in Seq(S)
  /\ \A i \in 1..Len(l) : \E j \in 1..n : l[i] = list[j] /\ list[j] \notin old
  /\ \A j \in 1..n : list[j] \notin old => \E i \in 1..Len(l) : l[i] = list[j]
  /\ (\A i, j \in 1..n : list[i] = list[j] => i = j) =>
        \A i, j \in 1..Len(l) : l[i] = l[j] => i = j

\* One more round of the loop collects one more task, unless it is old.
LEMMA FilteredNext ==
  ASSUME NEW S, NEW list \in Seq(S), NEW n \in Nat, n < Len(list),
         NEW l, Filtered(list, n, l, S)
  PROVE  Filtered(list, n + 1, IF list[n + 1] \in old THEN l ELSE Append(l, list[n + 1]), S)
<1>0. n + 1 \in 1..Len(list) /\ list[n + 1] \in S
  OBVIOUS
<1>1. CASE list[n + 1] \in old
  <2>1. \A i \in 1..Len(l) : \E j \in 1..(n + 1) : l[i] = list[j] /\ list[j] \notin old
    <3>1. SUFFICES ASSUME NEW i \in 1..Len(l)
                   PROVE  \E j \in 1..(n + 1) : l[i] = list[j] /\ list[j] \notin old
      OBVIOUS
    <3>2. PICK j \in 1..n : l[i] = list[j] /\ list[j] \notin old
      BY DEF Filtered
    <3> QED BY <3>2
  <2>2. ASSUME NEW j \in 1..(n + 1), list[j] \notin old PROVE \E i \in 1..Len(l) : l[i] = list[j]
    <3>1. j \in 1..n
      BY <1>1, <2>2
    <3> QED BY <2>2, <3>1 DEF Filtered
  <2>3. ASSUME \A i, j \in 1..(n + 1) : list[i] = list[j] => i = j
        PROVE  \A i, j \in 1..Len(l) : l[i] = l[j] => i = j
    <3>1. \A i, j \in 1..n : list[i] = list[j] => i = j
      BY <2>3
    <3> QED BY <3>1 DEF Filtered
  <2>4. l \in Seq(S)
    BY DEF Filtered
  <2>5. Filtered(list, n + 1, l, S)
    BY <2>1, <2>2, <2>3, <2>4 DEF Filtered
  <2> QED BY <1>1, <2>5
<1>2. CASE list[n + 1] \notin old
  <2> DEFINE k == Append(l, list[n + 1])
  <2>1. /\ k \in Seq(S) /\ Len(k) = Len(l) + 1 /\ Len(l) \in Nat
        /\ \A i \in 1..Len(l) : k[i] = l[i]
        /\ k[Len(l) + 1] = list[n + 1]
    BY <1>0 DEF Filtered
  <2> HIDE DEF k
  <2>2. ASSUME NEW i \in 1..Len(k)
        PROVE  \E j \in 1..(n + 1) : k[i] = list[j] /\ list[j] \notin old
    <3>1. CASE i \in 1..Len(l)
      <4>1. PICK j \in 1..n : l[i] = list[j] /\ list[j] \notin old
        BY <3>1 DEF Filtered
      <4> QED BY <2>1, <3>1, <4>1
    <3>2. CASE i = Len(l) + 1
      BY <1>2, <2>1, <3>2
    <3> QED BY <2>1, <3>1, <3>2
  <2>3. ASSUME NEW j \in 1..(n + 1), list[j] \notin old
        PROVE  \E i \in 1..Len(k) : k[i] = list[j]
    <3>1. CASE j \in 1..n
      <4>1. PICK i \in 1..Len(l) : l[i] = list[j]
        BY <2>3, <3>1 DEF Filtered
      <4> QED BY <2>1, <4>1
    <3>2. CASE j = n + 1
      BY <2>1, <3>2
    <3> QED BY <3>1, <3>2
  <2>4. ASSUME \A i, j \in 1..(n + 1) : list[i] = list[j] => i = j,
               NEW i \in 1..Len(k), NEW j \in 1..Len(k), k[i] = k[j]
        PROVE  i = j
    <3>1. \A a, b \in 1..Len(l) : l[a] = l[b] => a = b
      BY <2>4 DEF Filtered
    <3>2. ASSUME NEW a \in 1..Len(l) PROVE l[a] # list[n + 1]
      <4>1. PICK b \in 1..n : l[a] = list[b]
        BY DEF Filtered
      <4>2. b \in 1..(n + 1) /\ n + 1 \in 1..(n + 1) /\ b # n + 1
        OBVIOUS
      <4> QED BY <2>4, <4>1, <4>2
    <3>3. CASE i \in 1..Len(l) /\ j \in 1..Len(l)
      BY <2>1, <2>4, <3>1, <3>3
    <3>4. CASE i \in 1..Len(l) /\ j = Len(l) + 1
      BY <2>1, <2>4, <3>2, <3>4
    <3>5. CASE i = Len(l) + 1 /\ j \in 1..Len(l)
      BY <2>1, <2>4, <3>2, <3>5
    <3>6. CASE i = Len(l) + 1 /\ j = Len(l) + 1
      BY <3>6
    <3> QED BY <2>1, <3>3, <3>4, <3>5, <3>6
  <2>5. Filtered(list, n + 1, k, S)
    BY <2>1, <2>2, <2>3, <2>4 DEF Filtered
  <2> QED BY <1>2, <2>5 DEF k
<1> QED BY <1>1, <1>2

\* What is left of a list are its tasks that are not old.
LEMMA LiveFacts ==
  ASSUME NEW S, NEW list \in Seq(S)
  PROVE  Filtered(list, Len(list), Queue!LiveTasks(list), S)
<1>1. PICK f : LiveUpTo(list, Len(list), f) /\ Queue!LiveTasks(list) = f[Len(list)]
  BY LiveIs
<1> DEFINE T == {i \in 0..Len(list) : ~Filtered(list, i, f[i], S)}
<1>2. SUFFICES ASSUME T # {} PROVE FALSE
  BY <1>1
<1>3. PICK m \in T : \A i \in T : m <= i
  <2>1. T \in SUBSET Nat
    OBVIOUS
  <2> QED BY <1>2, <2>1, Least
<1>4. m \in 0..Len(list) /\ ~Filtered(list, m, f[m], S)
  BY <1>3
<1>5. f[m] = IF m = 0 THEN <<>>
             ELSE IF list[m] \in old THEN f[m - 1] ELSE Append(f[m - 1], list[m])
  BY <1>1, <1>4 DEF LiveUpTo
<1>6. CASE m = 0
  <2>1. Filtered(list, 0, <<>>, S)
    BY DEF Filtered
  <2> QED BY <1>4, <1>5, <1>6, <2>1
<1>7. CASE m # 0
  <2>1. PICK n \in Nat : m = n + 1 /\ n < Len(list) /\ m - 1 = n
    BY <1>4, <1>7
  <2>2. n \in 0..Len(list) /\ n \notin T
    BY <1>3, <2>1
  <2>3. Filtered(list, n, f[n], S)
    BY <2>2
  <2> QED BY <1>4, <1>5, <1>7, <2>1, <2>3, FilteredNext
<1> QED BY <1>6, <1>7
-----------------------------------------------------------------------------
(* Lists as sets.                                                          *)

\* Is the task in the list?  Is every task in it once?
In(t, l) == \E i \in 1..Len(l) : l[i] = t
OneEach(l) == \A i, j \in 1..Len(l) : l[i] = l[j] => i = j

\* ToSet has the elements of a list.
LEMMA ToSetIsIn ==
  ASSUME NEW S, NEW l \in Seq(S)
  PROVE  \A t : t \in Queue!ToSet(l) <=> In(t, l)
<1>1. DOMAIN l = 1..Len(l)
  OBVIOUS
<1> QED BY <1>1 DEF Queue!ToSet, In

\* An empty list has none.
LEMMA InEmpty == OneEach(<<>>) /\ \A t : ~In(t, <<>>)
BY DEF In, OneEach

\* What is appended is in the list, besides what was; once, if it was not.
LEMMA InAppend ==
  ASSUME NEW S, NEW l \in Seq(S), NEW e \in S
  PROVE  /\ \A t : In(t, Append(l, e)) <=> In(t, l) \/ t = e
         /\ OneEach(l) /\ ~In(e, l) => OneEach(Append(l, e))
<1> DEFINE k == Append(l, e)
<1>1. /\ Len(k) = Len(l) + 1 /\ Len(l) \in Nat /\ k[Len(l) + 1] = e
      /\ \A i \in 1..Len(l) : k[i] = l[i]
  OBVIOUS
<1> HIDE DEF k
<1>2. ASSUME NEW t, In(t, k) PROVE In(t, l) \/ t = e
  <2>1. PICK i \in 1..Len(k) : k[i] = t
    BY <1>2 DEF In
  <2>2. CASE i \in 1..Len(l)
    BY <1>1, <2>1, <2>2 DEF In
  <2>3. CASE i = Len(l) + 1
    BY <1>1, <2>1, <2>3
  <2> QED BY <1>1, <2>2, <2>3
<1>3. ASSUME NEW t, In(t, l) PROVE In(t, k)
  <2>1. PICK i \in 1..Len(l) : l[i] = t
    BY <1>3 DEF In
  <2>2. i \in 1..Len(k) /\ k[i] = t
    BY <1>1, <2>1
  <2> QED BY <2>2 DEF In
<1>4. In(e, k)
  <2>1. Len(l) + 1 \in 1..Len(k)
    BY <1>1
  <2> QED BY <1>1, <2>1 DEF In
<1>5. ASSUME OneEach(l), ~In(e, l), NEW i \in 1..Len(k), NEW j \in 1..Len(k), k[i] = k[j]
      PROVE  i = j
  <2>1. CASE i \in 1..Len(l) /\ j \in 1..Len(l)
    BY <1>1, <1>5, <2>1 DEF OneEach
  <2>2. CASE i \in 1..Len(l) /\ j = Len(l) + 1
    BY <1>1, <1>5, <2>2 DEF In
  <2>3. CASE i = Len(l) + 1 /\ j \in 1..Len(l)
    BY <1>1, <1>5, <2>3 DEF In
  <2>4. CASE i = Len(l) + 1 /\ j = Len(l) + 1
    BY <2>4
  <2> QED BY <1>1, <2>1, <2>2, <2>3, <2>4
<1>6. OneEach(l) /\ ~In(e, l) => OneEach(k)
  BY <1>5 DEF OneEach
<1> QED BY <1>2, <1>3, <1>4, <1>6 DEF k

\* The tail has all but the head.
LEMMA InTail ==
  ASSUME NEW S, NEW l \in Seq(S), l # <<>>, OneEach(l)
  PROVE  /\ Tail(l) \in Seq(S) /\ Head(l) \in S
         /\ In(Head(l), l) /\ OneEach(Tail(l))
         /\ \A t : In(t, Tail(l)) <=> In(t, l) /\ t # Head(l)
<1> DEFINE k == Tail(l)
<1>1. /\ k \in Seq(S) /\ Head(l) \in S /\ Head(l) = l[1] /\ Len(l) \in Nat /\ Len(l) >= 1
      /\ Len(k) = Len(l) - 1 /\ \A i \in 1..Len(k) : k[i] = l[i + 1]
  OBVIOUS
<1> HIDE DEF k
<1>2. In(Head(l), l)
  BY <1>1 DEF In
<1>3. OneEach(k)
  <2>1. SUFFICES ASSUME NEW i \in 1..Len(k), NEW j \in 1..Len(k), k[i] = k[j] PROVE i = j
    BY DEF OneEach
  <2>2. l[i + 1] = l[j + 1] /\ i + 1 \in 1..Len(l) /\ j + 1 \in 1..Len(l)
    BY <1>1, <2>1
  <2>3. i + 1 = j + 1
    BY <2>2 DEF OneEach
  <2> QED BY <1>1, <2>3
<1>4. ASSUME NEW t, In(t, k) PROVE In(t, l) /\ t # Head(l)
  <2>1. PICK i \in 1..Len(k) : k[i] = t
    BY <1>4 DEF In
  <2>2. i + 1 \in 1..Len(l) /\ l[i + 1] = t /\ 1 \in 1..Len(l) /\ i + 1 # 1
    BY <1>1, <2>1
  <2>3. t # l[1]
    BY <2>2 DEF OneEach
  <2> QED BY <1>1, <2>2, <2>3 DEF In
<1>5. ASSUME NEW t, In(t, l), t # Head(l) PROVE In(t, k)
  <2>1. PICK i \in 1..Len(l) : l[i] = t
    BY <1>5 DEF In
  <2>2. i - 1 \in 1..Len(k) /\ k[i - 1] = t
    <3>1. i # 1
      BY <1>1, <1>5, <2>1
    <3>2. i - 1 \in 1..Len(k) /\ (i - 1) + 1 = i
      BY <1>1, <2>1, <3>1
    <3> QED BY <1>1, <2>1, <3>2
  <2> QED BY <2>2 DEF In
<1> QED BY <1>1, <1>2, <1>3, <1>4, <1>5 DEF k

\* LiveTasks has what is not old, and has it once.
LEMMA InLive ==
  ASSUME NEW S, NEW l \in Seq(S), OneEach(l)
  PROVE  LET k == Queue!LiveTasks(l) IN
         /\ k \in Seq(S) /\ OneEach(k)
         /\ \A t : In(t, k) <=> In(t, l) /\ t \notin old
<1> DEFINE k == Queue!LiveTasks(l)
<1>1. Filtered(l, Len(l), k, S)
  BY LiveFacts
<1> HIDE DEF k
<1>2. k \in Seq(S)
  BY <1>1 DEF Filtered
<1>3. OneEach(k)
  BY <1>1 DEF Filtered, OneEach
<1>4. ASSUME NEW t, In(t, k) PROVE In(t, l) /\ t \notin old
  <2>1. PICK i \in 1..Len(k) : k[i] = t
    BY <1>4 DEF In
  <2>2. \E j \in 1..Len(l) : k[i] = l[j] /\ l[j] \notin old
    BY <1>1 DEF Filtered
  <2> QED BY <2>1, <2>2 DEF In
<1>5. ASSUME NEW t, In(t, l), t \notin old PROVE In(t, k)
  <2>1. PICK j \in 1..Len(l) : l[j] = t
    BY <1>5 DEF In
  <2>2. \E i \in 1..Len(k) : k[i] = l[j]
    BY <1>1, <1>5, <2>1 DEF Filtered
  <2> QED BY <2>1, <2>2 DEF In
<1> QED BY <1>2, <1>3, <1>4, <1>5 DEF k

-----------------------------------------------------------------------------
(* The queue as a mailbox.                                                 *)

\* What is in progress between runs: nothing is visited.
NoRun == [seen |-> {}, size |-> 0, done |-> {}, room |-> NoRoom, left |-> <<>>]

\* Is the task in the queue, and the run not through with it?
Pending(q, run, t) ==
  \E r \in Rooms : /\ In(t, q[r]) /\ r \notin run.done
                   /\ run.room = r => In(t, run.left)

\* The runs that began with n keys.
RunOf(n) ==
  [seen : SUBSET Rooms, size : {n}, done : SUBSET Rooms,
   room : Rooms \cup {NoRoom}, left : Seq(Queue!Tasks)]

\* The types, for a queue, the fates and sends of its tasks, and a run.
Shaped(q, f, s, run) ==
  /\ q \in [Rooms -> Seq(Queue!Tasks)]
  /\ f \in [Queue!Tasks -> Queue!Fate] /\ s \in [Queue!Tasks -> {0, 1}]
  /\ run \in RunOf(run.size)

\* A task is in the queue once, and under one room.
Apart(q) ==
  /\ \A r \in Rooms : OneEach(q[r])
  /\ \A r1, r2 \in Rooms, t \in Queue!Tasks : In(t, q[r1]) /\ In(t, q[r2]) => r1 = r2

\* A run is through with what it has visited, and executes what is in the queue.
Orderly(q, run) ==
  /\ run.done \subseteq run.seen
  /\ run.room = NoRoom => run.left = <<>>
  /\ run.room # NoRoom =>
       /\ run.room \in run.seen /\ run.room \notin run.done
       /\ OneEach(run.left)
       /\ \A t \in Queue!Tasks : In(t, run.left) => In(t, q[run.room])

\* A task waits as long as the run is not through with it, and is sent once.
Tracked(q, f, s, run) ==
  \A t \in Queue!Tasks :
    /\ f[t] = "queued" <=> Pending(q, run, t)
    /\ f[t] = "sent" <=> s[t] = 1
    /\ f[t] = "new" => \A r \in Rooms : ~In(t, q[r])

\* The queue is a mailbox, as far as this run has come.
Tidy(q, f, s, run) ==
  Shaped(q, f, s, run) /\ Apart(q) /\ Orderly(q, run) /\ Tracked(q, f, s, run)

\* What the mailbox calls what became of a task.
View(f) ==
  CASE f = "new" -> "new" [] f = "queued" -> "waiting" [] f = "sent" -> "sent"
    [] OTHER -> "discarded"

\* A queue without tasks is tidy, if no task is queued.
LEMMA TidyEmpty ==
  ASSUME NEW f \in [Queue!Tasks -> Queue!Fate], NEW s \in [Queue!Tasks -> {0, 1}],
         \A t \in Queue!Tasks : f[t] # "queued" /\ (f[t] = "sent" <=> s[t] = 1)
  PROVE  Tidy([r \in Rooms |-> <<>>], f, s, NoRun)
<1> DEFINE q == [r \in Rooms |-> <<>>]
<1>1. /\ q \in [Rooms -> Seq(Queue!Tasks)]
      /\ \A r \in Rooms : q[r] = <<>>
  OBVIOUS
<1> HIDE DEF q
<1>2. \A r \in Rooms, t \in Queue!Tasks : ~In(t, q[r])
  BY <1>1, InEmpty
<1>3. Shaped(q, f, s, NoRun)
  BY <1>1 DEF Shaped, RunOf, NoRun
<1>4. Apart(q)
  BY <1>1, <1>2, InEmpty DEF Apart
<1>5. Orderly(q, NoRun)
  BY DEF Orderly, NoRun
<1>6. Tracked(q, f, s, NoRun)
  BY <1>2 DEF Tracked, Pending
<1> QED BY <1>3, <1>4, <1>5, <1>6 DEF Tidy, q

\* A new task is appended to the list of a room, and no run is in progress.
LEMMA TidyPut ==
  ASSUME NoRoom \notin Rooms, NEW q, NEW f, NEW s, Tidy(q, f, s, NoRun),
         NEW m \in Queue!Tasks, NEW r \in Rooms, f[m] = "new"
  PROVE  Tidy([q EXCEPT ![r] = Append(@, m)], [f EXCEPT ![m] = "queued"], s, NoRun)
<1> DEFINE q2 == [q EXCEPT ![r] = Append(@, m)]
           f2 == [f EXCEPT ![m] = "queued"]
<1>0. Shaped(q, f, s, NoRun) /\ Apart(q) /\ Tracked(q, f, s, NoRun)
  BY DEF Tidy
<1>1. /\ q \in [Rooms -> Seq(Queue!Tasks)]
      /\ f \in [Queue!Tasks -> Queue!Fate]
      /\ q[r] \in Seq(Queue!Tasks)
  BY <1>0 DEF Shaped
<1>2. /\ q2 \in [Rooms -> Seq(Queue!Tasks)]
      /\ q2[r] = Append(q[r], m) /\ \A x \in Rooms : x # r => q2[x] = q[x]
      /\ f2 \in [Queue!Tasks -> Queue!Fate]
      /\ f2[m] = "queued" /\ \A t \in Queue!Tasks : t # m => f2[t] = f[t]
  BY <1>1 DEF Queue!Fate
<1> HIDE DEF q2, f2
<1>3. \A x \in Rooms : ~In(m, q[x])
  BY <1>0 DEF Tracked
<1>4. \A t \in Queue!Tasks, x \in Rooms : In(t, q2[x]) <=> In(t, q[x]) \/ (t = m /\ x = r)
  <2>1. TAKE t \in Queue!Tasks, x \in Rooms
  <2>2. In(t, q2[r]) <=> In(t, q[r]) \/ t = m
    BY <1>1, <1>2, InAppend
  <2> QED BY <1>2, <2>2
<1>5. Apart(q2)
  <2>1. \A x \in Rooms : OneEach(q[x])
    BY <1>0 DEF Apart
  <2>2. OneEach(q2[r])
    BY <1>1, <1>2, <1>3, <2>1, InAppend
  <2>3. \A x \in Rooms : OneEach(q2[x])
    BY <1>2, <2>1, <2>2
  <2>4. ASSUME NEW r1 \in Rooms, NEW r2 \in Rooms, NEW t \in Queue!Tasks,
               In(t, q2[r1]), In(t, q2[r2])
        PROVE  r1 = r2
    <3>1. CASE t = m
      BY <1>3, <1>4, <2>4, <3>1
    <3>2. CASE t # m
      <4>1. In(t, q[r1]) /\ In(t, q[r2])
        BY <1>4, <2>4, <3>2
      <4> QED BY <1>0, <4>1 DEF Apart
    <3> QED BY <3>1, <3>2
  <2> QED BY <2>3, <2>4 DEF Apart
<1>6. Orderly(q2, NoRun)
  BY DEF Orderly, NoRun
<1>7. Tracked(q2, f2, s, NoRun)
  <2>0. NoRoom = NoRun.room /\ NoRun.done = {} /\ NoRun.left = <<>>
    BY DEF NoRun
  <2>2. \A t \in Queue!Tasks : t # m => (Pending(q2, NoRun, t) <=> Pending(q, NoRun, t))
    BY <1>4 DEF Pending
  <2>3. Pending(q2, NoRun, m)
    BY <1>4, <2>0 DEF Pending
  <2> QED BY <1>0, <1>2, <1>4, <2>2, <2>3 DEF Tracked
<1>8. Shaped(q2, f2, s, NoRun)
  BY <1>0, <1>2 DEF Shaped
<1> QED BY <1>5, <1>6, <1>7, <1>8 DEF Tidy, q2, f2

\* A run begins.
LEMMA TidyStart ==
  ASSUME NEW q, NEW f, NEW s, Tidy(q, f, s, NoRun)
  PROVE  Tidy(q, f, s, Queue!NewRun)
<1> DEFINE run == Queue!NewRun
<1>1. /\ run.seen = {} /\ run.done = {} /\ run.room = NoRoom /\ run.left = <<>>
      /\ run \in RunOf(run.size)
  BY DEF Queue!NewRun, RunOf
<1>2. NoRun.seen = {} /\ NoRun.done = {} /\ NoRun.room = NoRoom /\ NoRun.left = <<>>
  BY DEF NoRun
<1> HIDE DEF run
<1>3. Shaped(q, f, s, run)
  BY <1>1, <1>2 DEF Tidy, Shaped
<1>4. Orderly(q, run)
  BY <1>1 DEF Orderly
<1>5. \A t \in Queue!Tasks : Pending(q, run, t) <=> Pending(q, NoRun, t)
  BY <1>1, <1>2 DEF Pending
<1>6. Tracked(q, f, s, run)
  BY <1>5 DEF Tidy, Tracked
<1> QED BY <1>3, <1>4, <1>6 DEF Tidy, run

\* A run turns to a room it has not visited, to execute what waits for it.
LEMMA TidyVisit ==
  ASSUME NoRoom \notin Rooms, NEW q, NEW f, NEW s, NEW run, Tidy(q, f, s, run),
         run.room = NoRoom, NEW r \in Rooms, r \notin run.seen
  PROVE  Tidy(q, f, s, [run EXCEPT !.seen = @ \cup {r}, !.room = r, !.left = q[r]])
<1> DEFINE run2 == [run EXCEPT !.seen = @ \cup {r}, !.room = r, !.left = q[r]]
<1>0. Shaped(q, f, s, run) /\ Apart(q) /\ Orderly(q, run) /\ Tracked(q, f, s, run)
  BY DEF Tidy
<1>1. /\ run2.seen = run.seen \cup {r} /\ run2.done = run.done
      /\ run2.room = r /\ run2.left = q[r]
      /\ run2 \in RunOf(run2.size)
  BY <1>0 DEF Shaped, RunOf
<1> HIDE DEF run2
<1>2. Shaped(q, f, s, run2)
  BY <1>0, <1>1 DEF Shaped
<1>3. Orderly(q, run2)
  BY <1>0, <1>1 DEF Orderly, Apart
<1>4. \A t \in Queue!Tasks : Pending(q, run2, t) <=> Pending(q, run, t)
  BY <1>1 DEF Pending
<1>5. Tracked(q, f, s, run2)
  BY <1>0, <1>4 DEF Tracked
<1> QED BY <1>0, <1>2, <1>3, <1>5 DEF Tidy, run2

\* The tasks of a list that are old, and the others.
Splits(list, live, expired) ==
  \A t \in Queue!Tasks : /\ In(t, live) <=> In(t, list) /\ t \notin old
                         /\ t \in expired <=> In(t, list) /\ t \in old

DropsFrom(f, f2, expired) ==
  /\ f2 \in [Queue!Tasks -> Queue!Fate]
  /\ \A t \in Queue!Tasks : f2[t] = IF t \in expired THEN "dropped" ELSE f[t]

\* The queue without the old tasks of a room, and the run that has dropped them.
Trimmed(q, r, live) == [q EXCEPT ![r] = IF live = <<>> THEN @ ELSE live]
Visited(run, r, live) ==
  [run EXCEPT !.seen = @ \cup {r}, !.done = IF live = <<>> THEN @ \cup {r} ELSE @]

\* A run drops the old tasks of a room that cannot be sent to.
LEMMA TidyDrop ==
  ASSUME NoRoom \notin Rooms, NEW q, NEW f, NEW s, NEW run, Tidy(q, f, s, run),
         run.room = NoRoom, NEW r \in Rooms, r \notin run.seen,
         NEW live \in Seq(Queue!Tasks), OneEach(live), NEW expired,
         Splits(q[r], live, expired),
         NEW f2, DropsFrom(f, f2, expired)
  PROVE  /\ Tidy(Trimmed(q, r, live), f2, s, Visited(run, r, live))
         /\ \A t \in Queue!Tasks : t \in expired => f[t] = "queued"
<1> DEFINE q2 == Trimmed(q, r, live)
           run2 == Visited(run, r, live)
<1>a. /\ \A t \in Queue!Tasks : /\ In(t, live) <=> In(t, q[r]) /\ t \notin old
                                /\ t \in expired <=> In(t, q[r]) /\ t \in old
      /\ f2 \in [Queue!Tasks -> Queue!Fate]
      /\ \A t \in Queue!Tasks : f2[t] = IF t \in expired THEN "dropped" ELSE f[t]
  BY DEF Splits, DropsFrom
<1>0. Shaped(q, f, s, run) /\ Apart(q) /\ Orderly(q, run) /\ Tracked(q, f, s, run)
  BY DEF Tidy
<1>1. /\ run2.seen = run.seen \cup {r}
      /\ run2.done = IF live = <<>> THEN run.done \cup {r} ELSE run.done
      /\ run2.room = NoRoom /\ run2.left = <<>>
      /\ run2 \in RunOf(run2.size)
  BY <1>0 DEF Shaped, RunOf, Orderly, Visited
<1>2. /\ q2 \in [Rooms -> Seq(Queue!Tasks)]
      /\ q2[r] = (IF live = <<>> THEN q[r] ELSE live)
      /\ \A x \in Rooms : x # r => q2[x] = q[x]
  BY <1>0 DEF Shaped, Trimmed
<1> HIDE DEF q2, run2
<1>4. \A t \in Queue!Tasks, x \in Rooms : In(t, q2[x]) => In(t, q[x])
  BY <1>2, <1>a
<1>5. Apart(q2)
  <2>1. \A x \in Rooms : OneEach(q2[x])
    BY <1>0, <1>2 DEF Apart
  <2> QED BY <1>0, <1>4, <2>1 DEF Apart
<1>6. Shaped(q2, f2, s, run2)
  BY <1>0, <1>1, <1>2, <1>a DEF Shaped
<1>7. Orderly(q2, run2)
  BY <1>0, <1>1 DEF Orderly
<1>8. ASSUME NEW t \in Queue!Tasks, t \in expired
      PROVE  ~Pending(q2, run2, t) /\ f[t] = "queued" /\ s[t] # 1
  <2>1. In(t, q[r]) /\ ~In(t, live)
    BY <1>8, <1>a
  <2>2. Pending(q, run, t)
    BY <1>0, <2>1 DEF Pending, Orderly
  <2>3. f[t] = "queued" /\ s[t] # 1
    BY <1>0, <2>2 DEF Tracked
  <2>4. ASSUME NEW x \in Rooms, In(t, q2[x]), x \notin run2.done PROVE FALSE
    <3>1. x = r
      BY <1>0, <1>4, <2>1, <2>4 DEF Apart
    <3>2. live # <<>>
      BY <1>1, <2>4, <3>1
    <3> QED BY <1>2, <2>1, <2>4, <3>1, <3>2
  <2> QED BY <2>3, <2>4 DEF Pending
<1>9. ASSUME NEW t \in Queue!Tasks, t \notin expired
      PROVE  Pending(q2, run2, t) <=> Pending(q, run, t)
  <2>1. \A x \in Rooms : x # r => (In(t, q2[x]) <=> In(t, q[x])) /\ (x \in run2.done <=> x \in run.done)
    BY <1>1, <1>2
  <2>2. In(t, q[r]) <=> In(t, live)
    BY <1>9, <1>a
  <2>3. In(t, live) => live # <<>>
    BY InEmpty
  <2>4. In(t, q2[r]) /\ r \notin run2.done <=> In(t, q[r]) /\ r \notin run.done
    BY <1>0, <1>1, <1>2, <2>2, <2>3 DEF Orderly
  <2> QED BY <1>1, <2>1, <2>4 DEF Pending
<1>10. Tracked(q2, f2, s, run2)
  <2>1. SUFFICES ASSUME NEW t \in Queue!Tasks
                 PROVE  /\ f2[t] = "queued" <=> Pending(q2, run2, t)
                        /\ f2[t] = "sent" <=> s[t] = 1
                        /\ f2[t] = "new" => \A x \in Rooms : ~In(t, q2[x])
    BY DEF Tracked
  <2>2. CASE t \in expired
    BY <1>8, <1>a, <2>2
  <2>3. CASE t \notin expired
    <3>1. f2[t] = f[t]
      BY <1>a, <2>3
    <3>2. \A x \in Rooms : In(t, q2[x]) => In(t, q[x])
      BY <1>4
    <3> QED BY <1>0, <1>9, <2>3, <3>1, <3>2 DEF Tracked
  <2> QED BY <2>2, <2>3
<1> QED BY <1>5, <1>6, <1>7, <1>8, <1>10 DEF Tidy, q2, run2

\* The first of the tasks that are left is queued, and was not sent yet.
LEMMA TidyTaken ==
  ASSUME NoRoom \notin Rooms, NEW q, NEW f, NEW s, NEW run, Tidy(q, f, s, run),
         run.left # <<>>, NEW t, t = Head(run.left)
  PROVE  /\ t \in Queue!Tasks /\ f[t] = "queued" /\ s[t] = 0
         /\ run.room \in Rooms /\ OneEach(run.left) /\ run.left \in Seq(Queue!Tasks)
         /\ In(t, run.left) /\ In(t, q[run.room])
<1>0. Shaped(q, f, s, run) /\ Orderly(q, run) /\ Tracked(q, f, s, run)
  BY DEF Tidy
<1>1. run.room \in Rooms /\ OneEach(run.left) /\ run.left \in Seq(Queue!Tasks)
  BY <1>0 DEF Shaped, RunOf, Orderly
<1>2. t \in Queue!Tasks /\ In(t, run.left)
  BY <1>1, InTail
<1>3. In(t, q[run.room]) /\ run.room \notin run.done
  BY <1>0, <1>1, <1>2 DEF Orderly
<1>4. Pending(q, run, t)
  BY <1>1, <1>2, <1>3 DEF Pending
<1>5. f[t] = "queued"
  BY <1>0, <1>2, <1>4 DEF Tracked
<1>6. s[t] # 1 /\ s[t] \in {0, 1}
  BY <1>0, <1>2, <1>5 DEF Tracked, Shaped
<1> QED BY <1>1, <1>2, <1>3, <1>5, <1>6

\* The task leaves the mailbox, and is sent or not; the others stay as they are.
TakesOut(t, f, s, f2, s2) ==
  /\ f2 \in [Queue!Tasks -> Queue!Fate] /\ s2 \in [Queue!Tasks -> {0, 1}]
  /\ f2[t] # "queued" /\ f2[t] # "new" /\ (f2[t] = "sent" <=> s2[t] = 1)
  /\ \A u \in Queue!Tasks : u # t => f2[u] = f[u] /\ s2[u] = s[u]

\* A run executes the first of the tasks that are left: it was sent, or refused.
LEMMA TidyExecute ==
  ASSUME NoRoom \notin Rooms, NEW q, NEW f, NEW s, NEW run, Tidy(q, f, s, run),
         run.left # <<>>, NEW t, t = Head(run.left),
         NEW f2, NEW s2, TakesOut(t, f, s, f2, s2),
         NEW run2, run2 = [run EXCEPT !.left = Tail(@)]
  PROVE  Tidy(q, f2, s2, run2)
<1>a. /\ f2 \in [Queue!Tasks -> Queue!Fate] /\ s2 \in [Queue!Tasks -> {0, 1}]
      /\ f2[t] # "queued" /\ f2[t] # "new" /\ (f2[t] = "sent" <=> s2[t] = 1)
      /\ \A u \in Queue!Tasks : u # t => f2[u] = f[u] /\ s2[u] = s[u]
  BY DEF TakesOut
<1>0. Shaped(q, f, s, run) /\ Apart(q) /\ Orderly(q, run) /\ Tracked(q, f, s, run)
  BY DEF Tidy
<1>1. /\ t \in Queue!Tasks /\ run.room \in Rooms /\ OneEach(run.left)
      /\ run.left \in Seq(Queue!Tasks) /\ In(t, run.left) /\ In(t, q[run.room])
  BY TidyTaken
<1>2. /\ Tail(run.left) \in Seq(Queue!Tasks) /\ OneEach(Tail(run.left))
      /\ \A u : In(u, Tail(run.left)) <=> In(u, run.left) /\ u # t
  BY <1>1, InTail
<1>3. /\ run2.seen = run.seen /\ run2.done = run.done
      /\ run2.room = run.room /\ run2.left = Tail(run.left)
      /\ run2 \in RunOf(run2.size)
  BY <1>0, <1>2 DEF Shaped, RunOf
<1>4. Shaped(q, f2, s2, run2)
  BY <1>0, <1>3, <1>a DEF Shaped
<1>5. Orderly(q, run2)
  BY <1>0, <1>1, <1>2, <1>3 DEF Orderly
<1>6. ~Pending(q, run2, t)
  <2>1. ASSUME NEW x \in Rooms, In(t, q[x]) PROVE x = run.room
    BY <1>0, <1>1, <2>1 DEF Apart
  <2> QED BY <1>2, <1>3, <2>1 DEF Pending
<1>7. \A u \in Queue!Tasks : u # t => (Pending(q, run2, u) <=> Pending(q, run, u))
  BY <1>2, <1>3 DEF Pending
<1>8. Tracked(q, f2, s2, run2)
  <2>1. SUFFICES ASSUME NEW u \in Queue!Tasks
                 PROVE  /\ f2[u] = "queued" <=> Pending(q, run2, u)
                        /\ f2[u] = "sent" <=> s2[u] = 1
                        /\ f2[u] = "new" => \A x \in Rooms : ~In(u, q[x])
    BY DEF Tracked
  <2>2. CASE u = t
    BY <1>6, <1>a, <2>2
  <2>3. CASE u # t
    <3>1. f2[u] = f[u] /\ s2[u] = s[u]
      BY <1>a, <2>3
    <3> QED BY <1>0, <1>7, <2>3, <3>1 DEF Tracked
  <2> QED BY <2>2, <2>3
<1> QED BY <1>0, <1>4, <1>5, <1>8 DEF Tidy

\* A run is through with a room.
LEMMA TidyRoomDone ==
  ASSUME NoRoom \notin Rooms, NEW q, NEW f, NEW s, NEW run, Tidy(q, f, s, run),
         run.room # NoRoom, run.left = <<>>
  PROVE  Tidy(q, f, s, [run EXCEPT !.room = NoRoom, !.done = @ \cup {run.room}])
<1> DEFINE run2 == [run EXCEPT !.room = NoRoom, !.done = @ \cup {run.room}]
<1>0. Shaped(q, f, s, run) /\ Apart(q) /\ Orderly(q, run) /\ Tracked(q, f, s, run)
  BY DEF Tidy
<1>1. /\ run2.seen = run.seen /\ run2.done = run.done \cup {run.room}
      /\ run2.room = NoRoom /\ run2.left = <<>>
      /\ run2 \in RunOf(run2.size)
  BY <1>0 DEF Shaped, RunOf
<1> HIDE DEF run2
<1>2. Shaped(q, f, s, run2)
  BY <1>0, <1>1 DEF Shaped
<1>3. Orderly(q, run2)
  BY <1>0, <1>1 DEF Orderly
<1>4. \A t \in Queue!Tasks : Pending(q, run2, t) <=> Pending(q, run, t)
  <2>1. \A t : ~In(t, run.left)
    BY InEmpty
  <2> QED BY <1>1, <2>1 DEF Pending
<1>5. Tracked(q, f, s, run2)
  BY <1>0, <1>4 DEF Tracked
<1> QED BY <1>0, <1>2, <1>3, <1>5 DEF Tidy, run2

\* A run ends: the rooms it is through with are deleted.
LEMMA TidyFinish ==
  ASSUME NoRoom \notin Rooms, NEW q, NEW f, NEW s, NEW run, Tidy(q, f, s, run),
         run.room = NoRoom
  PROVE  Tidy([r \in Rooms |-> IF r \in run.done THEN <<>> ELSE q[r]], f, s, NoRun)
<1> DEFINE q2 == [r \in Rooms |-> IF r \in run.done THEN <<>> ELSE q[r]]
<1>0. Shaped(q, f, s, run) /\ Apart(q) /\ Tracked(q, f, s, run)
  BY DEF Tidy
<1>1. /\ q2 \in [Rooms -> Seq(Queue!Tasks)]
      /\ \A r \in Rooms : q2[r] = IF r \in run.done THEN <<>> ELSE q[r]
  BY <1>0 DEF Shaped, RunOf
<1> HIDE DEF q2
<1>2. NoRun.done = {} /\ NoRun.room = NoRoom
  BY DEF NoRun
<1>3. \A t \in Queue!Tasks, r \in Rooms : In(t, q2[r]) <=> In(t, q[r]) /\ r \notin run.done
  BY <1>1, InEmpty
<1>4. Shaped(q2, f, s, NoRun)
  BY <1>0, <1>1 DEF Shaped, RunOf, NoRun
<1>5. Apart(q2)
  <2>1. \A r \in Rooms : OneEach(q2[r])
    BY <1>0, <1>1, InEmpty DEF Apart
  <2> QED BY <1>0, <1>3, <2>1 DEF Apart
<1>6. Orderly(q2, NoRun)
  BY DEF Orderly, NoRun
<1>7. \A t \in Queue!Tasks : Pending(q2, NoRun, t) <=> Pending(q, run, t)
  BY <1>2, <1>3 DEF Pending
<1>8. Tracked(q2, f, s, NoRun)
  BY <1>0, <1>3, <1>7 DEF Tracked
<1> QED BY <1>4, <1>5, <1>6, <1>8 DEF Tidy, q2

\* What a step does to the fate of the tasks: nothing, or what a mailbox does.
Effect ==
  \/ fate' = fate
  \/ \E t \in Queue!Tasks : fate[t] = "new" /\ fate' = [fate EXCEPT ![t] = "queued"]
  \/ \E t \in Queue!Tasks : fate[t] = "queued" /\ fate' = [fate EXCEPT ![t] = "sent"]
  \/ \E several \in SUBSET Queue!Tasks, end \in {"failed", "dropped", "lost"} :
       /\ \A t \in several : fate[t] = "queued"
       /\ fate' = [t \in Queue!Tasks |-> IF t \in several THEN end ELSE fate[t]]

\* The queue is tidy with the only run in progress, or with none.
TidyWith(run) ==
  /\ Tidy(queue, fate, sends, run)
  /\ (runs = <<>> /\ run = NoRun) \/ runs = <<run>>

\* Where one run is in progress, what it is and how it goes on.
LEMMA OneRun ==
  ASSUME NEW run, runs = <<run>>
  PROVE  /\ ~Queue!Between /\ Queue!Atop = run /\ Len(runs) = 1
         /\ \A next : Queue!Continue(next) => runs' = <<next>>
         /\ Queue!Raise => Queue!Restart
<1>1. Len(runs) = 1 /\ Head(runs) = run /\ runs # <<>> /\ Tail(runs) = <<>>
  OBVIOUS
<1>2. \A next : <<next>> \o <<>> = <<next>>
  OBVIOUS
<1> QED BY <1>1, <1>2 DEF Queue!Between, Queue!Atop, Queue!Continue, Queue!Raise

\* The process ends, whatever it was doing.
LEMMA RestartStep ==
  ASSUME NEW run, TidyWith(run), Queue!Restart
  PROVE  Effect /\ \E next : TidyWith(next)'
<1> DEFINE several == {t \in Queue!Tasks : fate[t] = "queued"}
<1>1. /\ fate \in [Queue!Tasks -> Queue!Fate] /\ sends \in [Queue!Tasks -> {0, 1}]
      /\ \A t \in Queue!Tasks : fate[t] = "sent" <=> sends[t] = 1
  BY DEF TidyWith, Tidy, Shaped, Tracked
<1>2. /\ queue' = [r \in Rooms |-> <<>>] /\ runs' = <<>> /\ sends' = sends
      /\ fate' = [t \in Queue!Tasks |-> IF fate[t] = "queued" THEN "lost" ELSE fate[t]]
  BY DEF Queue!Restart
<1>3. fate' \in [Queue!Tasks -> Queue!Fate]
  BY <1>1, <1>2 DEF Queue!Fate
<1>4. \A t \in Queue!Tasks : fate'[t] # "queued" /\ (fate'[t] = "sent" <=> sends[t] = 1)
  BY <1>1, <1>2
<1>5. Tidy(queue', fate', sends', NoRun)
  BY <1>1, <1>2, <1>3, <1>4, TidyEmpty
<1>6. fate' = [t \in Queue!Tasks |-> IF t \in several THEN "lost" ELSE fate[t]]
  BY <1>2
<1>7. several \in SUBSET Queue!Tasks /\ \A t \in several : fate[t] = "queued"
  OBVIOUS
<1>8. Effect
  BY <1>6, <1>7 DEF Effect
<1>9. NoRun' = NoRun
  BY DEF NoRun
<1>10. PICK next : next = NoRun
  OBVIOUS
<1> QED BY <1>2, <1>5, <1>8, <1>9, <1>10 DEF TidyWith

\* A message is queued.
LEMMA QueueMessageStep ==
  ASSUME NoRoom \notin Rooms, NEW run, TidyWith(run),
         NEW m \in Queue!Tasks, NEW r \in Rooms, Queue!QueueMessage(m, r)
  PROVE  Effect /\ \E next : TidyWith(next)'
<1>1. Tidy(queue, fate, sends, NoRun) /\ runs = <<>>
  BY DEF TidyWith, Queue!QueueMessage, Queue!Between
<1>2. /\ fate[m] = "new" /\ runs' = runs /\ sends' = sends
      /\ queue' = [queue EXCEPT ![r] = Append(@, m)]
      /\ fate' = [fate EXCEPT ![m] = "queued"]
  BY DEF Queue!QueueMessage, Queue!Enqueue
<1>3. Tidy(queue', fate', sends', NoRun)
  BY <1>1, <1>2, TidyPut
<1>4. NoRun' = NoRun
  BY DEF NoRun
<1>5. PICK next : next = NoRun
  OBVIOUS
<1>6. TidyWith(next)'
  BY <1>1, <1>2, <1>3, <1>4, <1>5 DEF TidyWith
<1> QED BY <1>2, <1>6 DEF Effect

\* A run of check_awaited begins.
LEMMA StartCheckStep ==
  ASSUME NEW run, TidyWith(run), Queue!StartCheck
  PROVE  Effect /\ \E next : TidyWith(next)'
<1>1. Tidy(queue, fate, sends, NoRun) /\ runs = <<>>
  BY DEF TidyWith, Queue!StartCheck, Queue!Between
<1>2. PICK next : next = Queue!NewRun
  OBVIOUS
<1>3. runs' = <<next>> /\ queue' = queue /\ fate' = fate /\ sends' = sends
  BY <1>2 DEF Queue!StartCheck, Queue!tasks
<1>4. Tidy(queue, fate, sends, next)
  BY <1>1, <1>2, TidyStart
<1>5. Tidy(queue', fate', sends', next)
  BY <1>3, <1>4
<1> QED BY <1>3, <1>5 DEF TidyWith, Effect

\* A run visits a room that can be sent to.
LEMMA VisitReadyStep ==
  ASSUME NoRoom \notin Rooms, NEW run, TidyWith(run),
         NEW r \in Rooms, Queue!VisitReady(r)
  PROVE  Effect /\ \E next : TidyWith(next)'
<1>1. Tidy(queue, fate, sends, run) /\ runs = <<run>>
  BY DEF TidyWith, Queue!VisitReady, Queue!Iterating, Queue!Between
<1>2. Queue!Atop = run /\ \A next : Queue!Continue(next) => runs' = <<next>>
  BY <1>1, OneRun
<1>3. run.room = NoRoom /\ r \notin run.seen
  BY <1>2 DEF Queue!VisitReady, Queue!Iterating, Queue!Unvisited
<1>4. PICK next : next = [run EXCEPT !.seen = @ \cup {r}, !.room = r, !.left = queue[r]]
  OBVIOUS
<1>5. runs' = <<next>> /\ queue' = queue /\ fate' = fate /\ sends' = sends
  BY <1>2, <1>4 DEF Queue!VisitReady, Queue!tasks
<1>6. Tidy(queue, fate, sends, next)
  BY <1>1, <1>3, <1>4, TidyVisit
<1>7. Tidy(queue', fate', sends', next)
  BY <1>5, <1>6
<1> QED BY <1>5, <1>7 DEF TidyWith, Effect

\* A run visits a room that cannot be sent to, unless an exception ends the process.
LEMMA VisitWaitingStep ==
  ASSUME NoRoom \notin Rooms, NEW run, TidyWith(run),
         NEW r \in Rooms, Queue!VisitWaiting(r)
  PROVE  Effect /\ \E next : TidyWith(next)'
<1>1. Tidy(queue, fate, sends, run) /\ runs = <<run>>
  BY DEF TidyWith, Queue!VisitWaiting, Queue!Iterating, Queue!Between
<1>2. Queue!Atop = run /\ \A next : Queue!Continue(next) => runs' = <<next>>
  BY <1>1, OneRun
<1>3. run.room = NoRoom /\ r \notin run.seen
  BY <1>2 DEF Queue!VisitWaiting, Queue!Iterating, Queue!Unvisited
<1>4. CASE Queue!Raise
  <2>1. Queue!Restart
    BY <1>1, <1>4, OneRun
  <2> QED BY <2>1, RestartStep
<1>5. CASE ~Queue!Raise
  <2>1. queue[r] \in Seq(Queue!Tasks) /\ OneEach(queue[r])
    BY <1>1 DEF Tidy, Shaped, Apart
  <2>2. PICK live : live = Queue!LiveTasks(queue[r])
    OBVIOUS
  <2>3. /\ live \in Seq(Queue!Tasks) /\ OneEach(live)
        /\ \A t : In(t, live) <=> In(t, queue[r]) /\ t \notin old
    BY <2>1, <2>2, InLive
  <2>4. PICK expired : expired = Queue!ToSet(queue[r]) \cap old
    OBVIOUS
  <2>5. \A t : t \in expired <=> In(t, queue[r]) /\ t \in old
    BY <2>1, <2>4, ToSetIsIn
  <2>6. PICK next : next = Visited(run, r, live)
    OBVIOUS
  <2>7. /\ queue' = Trimmed(queue, r, live)
        /\ fate' = [t \in Queue!Tasks |-> IF t \in expired THEN "dropped" ELSE fate[t]]
        /\ sends' = sends /\ runs' = <<next>>
    BY <1>2, <1>5, <2>2, <2>4, <2>6 DEF Queue!VisitWaiting, Trimmed, Visited
  <2>8. /\ Tidy(queue', fate', sends', next)
        /\ \A t \in Queue!Tasks : t \in expired => fate[t] = "queued"
    <3>1. Splits(queue[r], live, expired)
      BY <2>3, <2>5 DEF Splits
    <3>2. live \in Seq(Queue!Tasks) /\ OneEach(live)
      BY <2>3
    <3>3. fate \in [Queue!Tasks -> Queue!Fate]
      BY <1>1 DEF Tidy, Shaped
    <3>4. DropsFrom(fate, fate', expired)
      BY <2>7, <3>3 DEF DropsFrom, Queue!Fate
    <3>5. /\ Tidy(Trimmed(queue, r, live), fate', sends, Visited(run, r, live))
          /\ \A t \in Queue!Tasks : t \in expired => fate[t] = "queued"
      BY <1>1, <1>3, <3>1, <3>2, <3>4, TidyDrop
    <3> QED BY <2>6, <2>7, <3>5
  <2>9. PICK several : several = {t \in Queue!Tasks : t \in expired}
    OBVIOUS
  <2>10. /\ several \in SUBSET Queue!Tasks /\ \A t \in several : fate[t] = "queued"
         /\ fate' = [t \in Queue!Tasks |-> IF t \in several THEN "dropped" ELSE fate[t]]
    BY <2>7, <2>8, <2>9
  <2>11. Effect
    BY <2>10 DEF Effect
  <2> QED BY <2>7, <2>8, <2>11 DEF TidyWith
<1> QED BY <1>4, <1>5

\* A task is sent.
LEMMA ExecuteSendsStep ==
  ASSUME NoRoom \notin Rooms, NEW run, TidyWith(run),
         NEW t \in Queue!Tasks, Queue!ExecuteSends(t)
  PROVE  Effect /\ \E next : TidyWith(next)'
<1>1. Tidy(queue, fate, sends, run) /\ runs = <<run>>
  BY DEF TidyWith, Queue!ExecuteSends, Queue!Executing, Queue!Between
<1>2. Queue!Atop = run /\ \A next : Queue!Continue(next) => runs' = <<next>>
  BY <1>1, OneRun
<1>3. run.left # <<>> /\ t = Head(run.left)
  BY <1>2 DEF Queue!ExecuteSends, Queue!Executing
<1>4. PICK next : next = [run EXCEPT !.left = Tail(@)]
  OBVIOUS
<1>5. /\ runs' = <<next>> /\ queue' = queue
      /\ fate' = [fate EXCEPT ![t] = "sent"]
      /\ sends' = [sends EXCEPT ![t] = IF @ = 2 THEN 2 ELSE @ + 1]
  BY <1>2, <1>4 DEF Queue!ExecuteSends, Queue!Executed, Queue!Send
<1>6. fate \in [Queue!Tasks -> Queue!Fate] /\ sends \in [Queue!Tasks -> {0, 1}]
  BY <1>1 DEF Tidy, Shaped
<1>7. /\ fate' \in [Queue!Tasks -> Queue!Fate] /\ fate'[t] = "sent"
      /\ \A u \in Queue!Tasks : u # t => fate'[u] = fate[u]
  BY <1>5, <1>6 DEF Queue!Fate
<1>8. fate[t] = "queued" /\ sends[t] = 0
  BY <1>1, <1>3, TidyTaken
<1>9. /\ sends' \in [Queue!Tasks -> {0, 1}] /\ sends'[t] = 1
      /\ \A u \in Queue!Tasks : u # t => sends'[u] = sends[u]
  BY <1>5, <1>6, <1>8
<1>10. TakesOut(t, fate, sends, fate', sends')
  BY <1>7, <1>9 DEF TakesOut
<1>11. Tidy(queue, fate', sends', next)
  BY <1>1, <1>3, <1>4, <1>10, TidyExecute
<1>12. Tidy(queue', fate', sends', next)
  BY <1>5, <1>11
<1> QED BY <1>5, <1>8, <1>12 DEF TidyWith, Effect

\* A task fails: it is not sent, and not handled again.
LEMMA ExecuteFailsStep ==
  ASSUME NoRoom \notin Rooms, NEW run, TidyWith(run),
         NEW t \in Queue!Tasks, Queue!ExecuteFails(t)
  PROVE  Effect /\ \E next : TidyWith(next)'
<1>1. Tidy(queue, fate, sends, run) /\ runs = <<run>>
  BY DEF TidyWith, Queue!ExecuteFails, Queue!Executing, Queue!Between
<1>2. Queue!Atop = run /\ \A next : Queue!Continue(next) => runs' = <<next>>
  BY <1>1, OneRun
<1>3. run.left # <<>> /\ t = Head(run.left)
  BY <1>2 DEF Queue!ExecuteFails, Queue!Executing
<1>4. PICK next : next = [run EXCEPT !.left = Tail(@)]
  OBVIOUS
<1>5. /\ runs' = <<next>> /\ queue' = queue /\ sends' = sends
      /\ fate' = [fate EXCEPT ![t] = "failed"]
  BY <1>2, <1>4 DEF Queue!ExecuteFails, Queue!Executed
<1>6. fate \in [Queue!Tasks -> Queue!Fate] /\ sends \in [Queue!Tasks -> {0, 1}]
  BY <1>1 DEF Tidy, Shaped
<1>7. /\ fate' \in [Queue!Tasks -> Queue!Fate] /\ fate'[t] = "failed"
      /\ \A u \in Queue!Tasks : u # t => fate'[u] = fate[u]
  BY <1>5, <1>6 DEF Queue!Fate
<1>8. fate[t] = "queued" /\ sends[t] = 0
  BY <1>1, <1>3, TidyTaken
<1>9. Tidy(queue', fate', sends', next)
  <2>1. TakesOut(t, fate, sends, fate', sends')
    BY <1>5, <1>6, <1>7, <1>8 DEF TakesOut
  <2>2. Tidy(queue, fate', sends', next)
    BY <1>1, <1>3, <1>4, <2>1, TidyExecute
  <2> QED BY <1>5, <2>2
<1>10. fate' = [u \in Queue!Tasks |-> IF u \in {t} THEN "failed" ELSE fate[u]]
  BY <1>5, <1>6
<1>11. Effect
  <2>1. {t} \in SUBSET Queue!Tasks /\ \A u \in {t} : fate[u] = "queued"
    BY <1>8
  <2> QED BY <1>10, <2>1 DEF Effect
<1> QED BY <1>5, <1>9, <1>11 DEF TidyWith

\* A run is through with the tasks of a room.
LEMMA RoomDoneStep ==
  ASSUME NoRoom \notin Rooms, NEW run, TidyWith(run), Queue!RoomDone
  PROVE  Effect /\ \E next : TidyWith(next)'
<1>1. Tidy(queue, fate, sends, run) /\ runs = <<run>>
  BY DEF TidyWith, Queue!RoomDone, Queue!Between
<1>2. Queue!Atop = run /\ \A next : Queue!Continue(next) => runs' = <<next>>
  BY <1>1, OneRun
<1>3. run.room # NoRoom /\ run.left = <<>>
  BY <1>2 DEF Queue!RoomDone
<1>4. PICK next : next = [run EXCEPT !.room = NoRoom, !.done = @ \cup {run.room}]
  OBVIOUS
<1>5. runs' = <<next>> /\ queue' = queue /\ fate' = fate /\ sends' = sends
  BY <1>2, <1>4 DEF Queue!RoomDone, Queue!tasks
<1>6. Tidy(queue, fate, sends, next)
  BY <1>1, <1>3, <1>4, TidyRoomDone
<1>7. Tidy(queue', fate', sends', next)
  BY <1>5, <1>6
<1> QED BY <1>5, <1>7 DEF TidyWith, Effect

\* A run ends, or an exception ends the process.
LEMMA FinishStep ==
  ASSUME NoRoom \notin Rooms, NEW run, TidyWith(run), Queue!Finish
  PROVE  Effect /\ \E next : TidyWith(next)'
<1>1. Tidy(queue, fate, sends, run) /\ runs = <<run>>
  BY DEF TidyWith, Queue!Finish, Queue!Iterating, Queue!Between
<1>2. Queue!Atop = run /\ Len(runs) = 1
  BY <1>1, OneRun
<1>3. run.room = NoRoom
  BY <1>2 DEF Queue!Finish, Queue!Iterating
<1>4. CASE Queue!Raise
  <2>1. Queue!Restart
    BY <1>1, <1>4, OneRun
  <2> QED BY <2>1, RestartStep
<1>5. CASE Queue!DeleteDone
  <2>1. /\ queue' = [r \in Rooms |-> IF r \in run.done THEN <<>> ELSE queue[r]]
        /\ runs' = <<>> /\ fate' = fate /\ sends' = sends
    BY <1>2, <1>5 DEF Queue!DeleteDone
  <2>2. PICK next : next = NoRun
    OBVIOUS
  <2>3. Tidy(queue', fate', sends', NoRun)
    BY <1>1, <1>3, <2>1, TidyFinish
  <2>4. NoRun' = NoRun
    BY DEF NoRun
  <2> QED BY <2>1, <2>2, <2>3, <2>4 DEF TidyWith, Effect
<1> QED BY <1>4, <1>5 DEF Queue!Finish

\* The steps that do not touch the tasks or the run.
LEMMA UntouchedStep ==
  ASSUME NEW run, TidyWith(run),
         queue' = queue, fate' = fate, sends' = sends, runs' = runs
  PROVE  Effect /\ \E next : TidyWith(next)'
<1>1. TidyWith(run)'
  <2>1. NoRun' = NoRun
    BY DEF NoRun
  <2> QED BY <2>1 DEF TidyWith
<1> QED BY <1>1 DEF Effect

\* In a plain world a step keeps the queue tidy, and does what a mailbox does.
LEMMA PlainStep ==
  ASSUME NoRoom \notin Rooms, Queue!Plain, NEW run, TidyWith(run), Queue!Step
  PROVE  Effect /\ \E next : TidyWith(next)'
<1>1. ~Queue!Invites /\ ~Queue!Reroutes /\ Queue!MaxRuns = 1
  BY DEF Queue!Plain, Queue!Invites, Queue!Reroutes, Queue!MaxRuns
<1>2. ASSUME NEW t \in Queue!Tasks, NEW r \in Rooms, Queue!QueueMessage(t, r)
      PROVE  Effect /\ \E next : TidyWith(next)'
  BY <1>2, QueueMessageStep
<1>3. ASSUME NEW t \in Queue!Tasks, NEW r \in Rooms, Queue!Invite(t, r) PROVE FALSE
  BY <1>1, <1>3 DEF Queue!Invite
<1>4. ASSUME NEW r \in Rooms, Queue!Learn(r) \/ Queue!Encrypt(r) \/ Queue!Forget(r)
      PROVE  Effect /\ \E next : TidyWith(next)'
  <2>1. queue' = queue /\ fate' = fate /\ sends' = sends /\ runs' = runs
    BY <1>4 DEF Queue!Learn, Queue!Encrypt, Queue!Forget, Queue!tasks
  <2> QED BY <2>1, UntouchedStep
<1>5. CASE Queue!TimePasses
  <2>1. queue' = queue /\ fate' = fate /\ sends' = sends /\ runs' = runs
    BY <1>5 DEF Queue!TimePasses
  <2> QED BY <2>1, UntouchedStep
<1>6. CASE Queue!Crash
  BY <1>6, RestartStep DEF Queue!Crash
<1>7. CASE Queue!StartCheck
  BY <1>7, StartCheckStep
<1>8. CASE Queue!IterationFails
  <2>1. runs = <<run>>
    BY <1>8 DEF TidyWith, Queue!IterationFails, Queue!Iterating, Queue!Between
  <2>2. Queue!Restart
    BY <1>8, <2>1, OneRun DEF Queue!IterationFails
  <2> QED BY <2>2, RestartStep
<1>9. CASE Queue!RoomDone
  BY <1>9, RoomDoneStep
<1>10. CASE Queue!Finish
  BY <1>10, FinishStep
<1>11. ASSUME NEW r \in Rooms, Queue!VisitReady(r) \/ Queue!VisitWaiting(r)
       PROVE  Effect /\ \E next : TidyWith(next)'
  BY <1>11, VisitReadyStep, VisitWaitingStep
<1>12. ASSUME NEW t \in Queue!Tasks, Queue!ExecuteSends(t) \/ Queue!ExecuteFails(t)
       PROVE  Effect /\ \E next : TidyWith(next)'
  BY <1>12, ExecuteSendsStep, ExecuteFailsStep
<1>13. ASSUME NEW t \in Queue!Tasks, NEW r \in Rooms,
              Queue!ExecuteReroutes(t, r) \/ Queue!ExecuteSyncs(t, r)
       PROVE  FALSE
  <2>1. CASE Queue!ExecuteReroutes(t, r)
    BY <1>1, <2>1 DEF Queue!ExecuteReroutes
  <2>2. CASE Queue!ExecuteSyncs(t, r)
    <3>1. runs = <<run>>
      BY <2>2 DEF TidyWith, Queue!ExecuteSyncs, Queue!Executing, Queue!Between
    <3>2. Len(runs) = 1
      BY <3>1, OneRun
    <3> QED BY <1>1, <2>2, <3>2 DEF Queue!ExecuteSyncs
  <2> QED BY <1>13, <2>1, <2>2
<1> QED
  BY <1>2, <1>3, <1>4, <1>5, <1>6, <1>7, <1>8, <1>9, <1>10, <1>11, <1>12, <1>13
  DEF Queue!Step, Queue!Checking

\* The inductive invariant: the queue of a plain world is tidy.
TidyQueue == Queue!Plain => \E run : TidyWith(run)

\* Every step of the queue keeps it, and does in a plain world what a mailbox does.
LEMMA QueueStep ==
  ASSUME NoRoom \notin Rooms, TidyQueue, [Queue!Next]_Queue!vars
  PROVE  TidyQueue' /\ queueWorld' = queueWorld /\ (Queue!Plain => Effect)
<1>1. queueWorld' = queueWorld
  BY DEF Queue!Next, Queue!vars
<1>2. CASE ~Queue!Plain
  <2>1. ~Queue!Plain'
    BY <1>1, <1>2 DEF Queue!Plain
  <2> QED BY <1>1, <1>2, <2>1 DEF TidyQueue
<1>3. CASE Queue!Plain
  <2>1. PICK run : TidyWith(run)
    BY <1>3 DEF TidyQueue
  <2>2. CASE Queue!Next
    <3>1. Queue!Step
      BY <2>2 DEF Queue!Next
    <3>2. Effect /\ \E next : TidyWith(next)'
      BY <1>3, <2>1, <3>1, PlainStep
    <3> QED BY <1>1, <3>2 DEF TidyQueue
  <2>3. CASE UNCHANGED Queue!vars
    <3>1. queue' = queue /\ fate' = fate /\ sends' = sends /\ runs' = runs
      BY <2>3 DEF Queue!vars, Queue!state, Queue!tasks
    <3>2. Effect /\ \E next : TidyWith(next)'
      BY <2>1, <3>1, UntouchedStep
    <3> QED BY <1>1, <3>2 DEF TidyQueue
  <2> QED BY <2>2, <2>3
<1> QED BY <1>2, <1>3

\* What became of the tasks, in the words of the mailbox: as RelayQueue maps its
\* state, and as the invariant allows to read it off their fate.
Mapped == [t \in Queue!Tasks |-> IF Queue!Plain THEN Queue!StateOf(t) ELSE "new"]
Mirror == [t \in Queue!Tasks |-> IF Queue!Plain THEN View(fate[t]) ELSE "new"]

\* A task waits in the sense of the mailbox if the run is not through with it.
LEMMA WaitsIsPending ==
  ASSUME NoRoom \notin Rooms, NEW run, TidyWith(run), NEW t \in Queue!Tasks
  PROVE  Queue!Waits(t) <=> Pending(queue, run, t)
<1>1. /\ queue \in [Rooms -> Seq(Queue!Tasks)] /\ run.left \in Seq(Queue!Tasks)
  BY DEF TidyWith, Tidy, Shaped, RunOf
<1>2. \A r \in Rooms : Queue!Queued(t, r) <=> In(t, queue[r])
  BY <1>1, ToSetIsIn DEF Queue!Queued
<1>3. t \in Queue!ToSet(run.left) <=> In(t, run.left)
  BY <1>1, ToSetIsIn
<1>4. CASE runs = <<>> /\ run = NoRun
  <2>1. DOMAIN runs = {}
    BY <1>4
  <2>2. run.done = {} /\ run.room = NoRoom
    BY <1>4 DEF NoRun
  <2> QED BY <1>2, <2>1, <2>2 DEF Queue!Waits, Pending
<1>5. CASE runs = <<run>>
  <2>1. DOMAIN runs = {1} /\ runs[1] = run
    BY <1>5
  <2> QED BY <1>2, <1>3, <2>1 DEF Queue!Waits, Pending
<1> QED BY <1>4, <1>5 DEF TidyWith

\* The two readings agree: no task is sent twice, and none is forgotten.
LEMMA MappedIsMirror ==
  ASSUME NoRoom \notin Rooms, TidyQueue
  PROVE  Mapped = Mirror
<1>1. CASE ~Queue!Plain
  BY <1>1 DEF Mapped, Mirror
<1>2. CASE Queue!Plain
  <2>1. PICK run : TidyWith(run)
    BY <1>2 DEF TidyQueue
  <2>2. ASSUME NEW t \in Queue!Tasks PROVE Queue!StateOf(t) = View(fate[t])
    <3>1. /\ fate[t] = "queued" <=> Queue!Waits(t)
          /\ fate[t] = "sent" <=> sends[t] = 1
          /\ fate[t] \in Queue!Fate /\ sends[t] \in {0, 1}
      BY <2>1, WaitsIsPending DEF TidyWith, Tidy, Shaped, Tracked
    <3>2. CASE sends[t] = 1
      BY <3>1, <3>2 DEF Queue!StateOf, View
    <3>3. CASE sends[t] = 0 /\ Queue!Waits(t)
      BY <3>1, <3>3 DEF Queue!StateOf, View
    <3>4. CASE sends[t] = 0 /\ ~Queue!Waits(t)
      BY <3>1, <3>4 DEF Queue!StateOf, View, Queue!Fate
    <3> QED BY <3>1, <3>2, <3>3, <3>4
  <2> QED BY <1>2, <2>2 DEF Mapped, Mirror
<1> QED BY <1>1, <1>2

\* What a step does to the fate of the tasks is a step of the mailbox.
LEMMA MailboxStep ==
  ASSUME NoRoom \notin Rooms, TidyQueue, [Queue!Next]_Queue!vars,
         Mapped = Mirror, Mapped' = Mirror'
  PROVE  [Queue!Mailbox!Next]_Mapped
<1>1. queueWorld' = queueWorld /\ (Queue!Plain => Effect)
  BY QueueStep
<1>2. Queue!Plain' <=> Queue!Plain
  BY <1>1 DEF Queue!Plain
<1>3. CASE ~Queue!Plain
  <2>1. Mirror' = Mirror
    BY <1>2, <1>3 DEF Mirror
  <2> QED BY <2>1
<1>4. CASE Queue!Plain
  <2>1. fate \in [Queue!Tasks -> Queue!Fate]
    BY <1>4 DEF TidyQueue, TidyWith, Tidy, Shaped
  <2>2. \A t \in Queue!Tasks : Mapped[t] = View(fate[t]) /\ Mapped'[t] = View(fate'[t])
    BY <1>2, <1>4 DEF Mirror
  <2>3. CASE fate' = fate
    BY <1>2, <1>4, <2>3 DEF Mirror
  <2>4. ASSUME NEW t \in Queue!Tasks, fate[t] = "new", fate' = [fate EXCEPT ![t] = "queued"]
        PROVE  Queue!Mailbox!Put(t)
    <3>1. Mapped[t] = "new"
      BY <2>2, <2>4 DEF View
    <3>2. Mapped' = [Mapped EXCEPT ![t] = "waiting"]
      BY <1>2, <1>4, <2>1, <2>4 DEF Mirror, View
    <3> QED BY <3>1, <3>2 DEF Queue!Mailbox!Put, Mapped
  <2>5. ASSUME NEW t \in Queue!Tasks, fate[t] = "queued", fate' = [fate EXCEPT ![t] = "sent"]
        PROVE  Queue!Mailbox!Send(t)
    <3>1. Mapped[t] = "waiting"
      BY <2>2, <2>5 DEF View
    <3>2. Mapped' = [Mapped EXCEPT ![t] = "sent"]
      BY <1>2, <1>4, <2>1, <2>5 DEF Mirror, View
    <3> QED BY <3>1, <3>2 DEF Queue!Mailbox!Send, Mapped
  <2>6. ASSUME NEW several \in SUBSET Queue!Tasks, NEW end \in {"failed", "dropped", "lost"},
               \A t \in several : fate[t] = "queued",
               fate' = [t \in Queue!Tasks |-> IF t \in several THEN end ELSE fate[t]]
        PROVE  Queue!Mailbox!Discard(several)
    <3>1. \A t \in several : Mapped[t] = "waiting"
      BY <2>2, <2>6 DEF View
    <3>2. Mapped' = [t \in Queue!Tasks |-> IF t \in several THEN "discarded" ELSE Mapped[t]]
      BY <1>2, <1>4, <2>1, <2>6 DEF Mirror, View
    <3> QED BY <3>1, <3>2 DEF Queue!Mailbox!Discard, Mapped
  <2> QED BY <1>1, <1>4, <2>3, <2>4, <2>5, <2>6 DEF Effect, Queue!Mailbox!Next
<1> QED BY <1>3, <1>4

\* The queue is empty at first.
LEMMA TidyInit == ASSUME NoRoom \notin Rooms, Queue!Init PROVE TidyQueue
<1>1. SUFFICES TidyWith(NoRun)
  BY DEF TidyQueue
<1>2. /\ fate \in [Queue!Tasks -> Queue!Fate] /\ sends \in [Queue!Tasks -> {0, 1}]
      /\ \A t \in Queue!Tasks : fate[t] = "new" /\ sends[t] = 0
  BY DEF Queue!Init, Queue!Fate
<1>3. Tidy([r \in Rooms |-> <<>>], fate, sends, NoRun)
  BY <1>2, TidyEmpty
<1> QED BY <1>3 DEF Queue!Init, TidyWith

\* In every behaviour of messages, with failures and crashes, rooms_pending holds a
\* task once, and it is there until it is sent, fails, expires or is lost.
THEOREM QueueAlwaysTidy ==
  ASSUME NoRoom \notin Rooms
  PROVE  Queue!Spec => []TidyQueue
<1>1. Queue!Init => TidyQueue
  BY TidyInit
<1>2. TidyQueue /\ [Queue!Next]_Queue!vars => TidyQueue'
  BY QueueStep
<1> QED BY <1>1, <1>2, PTL DEF Queue!Spec

\* rooms_pending is a mailbox: what check_awaited executes was queued and not yet
\* sent, and nothing leaves the dictionary that was not handled.  Of the assumption
\* of RelayQueue only the name of no room is needed.
THEOREM QueueImplementsMailbox ==
  ASSUME NoRoom \notin Rooms
  PROVE  Queue!Spec => Queue!ImplementsMailbox
<1>1. Queue!Init => Queue!Mailbox!Init
  <2>1. SUFFICES ASSUME Queue!Init PROVE Mapped = [t \in Queue!Tasks |-> "new"]
    BY DEF Queue!Mailbox!Init, Mapped
  <2>2. \A t \in Queue!Tasks : fate[t] = "new"
    BY <2>1 DEF Queue!Init
  <2>3. Mirror = [t \in Queue!Tasks |-> "new"]
    BY <2>2 DEF Mirror, View
  <2> QED BY <2>1, <2>3, TidyInit, MappedIsMirror
<1>2. TidyQueue => Mapped = Mirror
  BY MappedIsMirror
<1>3. TidyQueue /\ [Queue!Next]_Queue!vars /\ Mapped = Mirror /\ (Mapped = Mirror)'
        => [Queue!Mailbox!Next]_Mapped
  BY MailboxStep
<1> QED
  BY <1>1, <1>2, <1>3, QueueAlwaysTidy, PTL
  DEF Queue!Spec, Queue!ImplementsMailbox, Queue!Mailbox!Spec, Mapped
=============================================================================
