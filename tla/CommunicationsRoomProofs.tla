----------------------- MODULE CommunicationsRoomProofs -----------------------
(***************************************************************************)
(* What holds of the communications room for any people and any number of  *)
(* rooms and events, whoever is kicked or invited, and whatever is handled *)
(* again or lost.                                                          *)
(***************************************************************************)
EXTENDS CommunicationsRoom, TLAPS

\* Whoever the homeserver, the client, an event or a saved message places in a
\* room has been there.
Witnessed ==
  /\ \A r \in Rooms : inside[r] \cup seen[r] \subseteq been[r]
  /\ \A r \in Rooms : \A i \in DOMAIN feed[r] : feed[r][i].who \in been[r]
  /\ \A p \in People, r \in Rooms : <<p, r>> \in said => p \in been[r]
  /\ main # Idle => main.user \in been[main.room]
  /\ \A r \in Rooms : creator[r] \in People => creator[r] \in been[r]

\* Nobody has been in a room that is not made.
Fresh == \A r \in Rooms : r \notin Made => been[r] = {}

Inv == TypeOK /\ Witnessed /\ Fresh /\ EverInside

LEMMA Distinct ==
  /\ Bot \notin People /\ NoOne \notin People /\ NoOne # Bot
  /\ NoRoom \notin Rooms /\ Users \subseteq People /\ Staff \subseteq People
BY CommunicationsRoomAssumption DEF People

LEMMA InitInv == Init => Inv
<1> SUFFICES ASSUME Init PROVE Inv
  OBVIOUS
<1> USE Distinct
<1>1. TypeOK
  BY DEF Init, TypeOK, Work
<1>2. Witnessed /\ Fresh /\ EverInside
  BY DEF Init, Witnessed, Fresh, EverInside
<1> QED BY <1>1, <1>2 DEF Inv

-----------------------------------------------------------------------------
(* The invariant is inductive.                                             *)

\* Who has been in a room stays among those who have been there.
LEMMA MakeGrows ==
  ASSUME Inv, NEW r \in Rooms, NEW by, NEW user, NEW people \in SUBSET People,
         Make(r, by, user, people), by \in {Bot} \cup people,
         user \in Users \cup {NoOne}
  PROVE  /\ creator' \in [Rooms -> People \cup {Bot, NoOne}]
         /\ about' \in [Rooms -> Users \cup {NoOne}]
         /\ inside' \in [Rooms -> SUBSET People]
         /\ been' \in [Rooms -> SUBSET People]
         /\ seen' \in [Rooms -> SUBSET People]
         /\ \A s \in Rooms : been[s] \subseteq been'[s]
         /\ \A s \in Rooms : inside'[s] \cup seen'[s] \subseteq been'[s]
         /\ \A s \in Rooms : creator'[s] \in People => creator'[s] \in been'[s]
         /\ been'[r] = people
         /\ Fresh'
         /\ UNCHANGED <<known, said>>
BY Distinct DEF Inv, TypeOK, Witnessed, Fresh, Make, Made

\* An event that is added to what is not delivered.
LEMMA HappenedFeed ==
  ASSUME Inv, NEW r \in Rooms, NEW kind \in {"message", "leave", "invite"},
         NEW who \in People, NEW by \in People \cup {Bot},
         Happened(r, kind, who, by)
  PROVE  /\ feed' \in [Rooms -> Seq(Event)]
         /\ \A s \in Rooms : \A i \in DOMAIN feed'[s] :
              \/ i \in DOMAIN feed[s] /\ feed'[s][i] = feed[s][i]
              \/ s = r /\ feed'[s][i].who = who
<1> DEFINE e == [kind |-> kind, who |-> who, by |-> by]
<1>1. e \in Event /\ e.who = who
  BY DEF Event
<1>2. feed' = [feed EXCEPT ![r] = Append(@, e)] /\ feed \in [Rooms -> Seq(Event)]
  BY DEF Happened, Inv, TypeOK
<1> HIDE DEF e
<1>3. feed' \in [Rooms -> Seq(Event)]
  BY <1>1, <1>2
<1>4. ASSUME NEW s \in Rooms, NEW i \in DOMAIN feed'[s]
      PROVE  \/ i \in DOMAIN feed[s] /\ feed'[s][i] = feed[s][i]
             \/ s = r /\ feed'[s][i].who = who
  <2>1. CASE s # r
    BY <1>2, <1>4, <2>1
  <2>2. CASE s = r
    <3>1. feed'[s] = Append(feed[s], e) /\ feed[s] \in Seq(Event)
      BY <1>2, <2>2
    <3> QED BY <1>1, <1>4, <2>2, <3>1
  <2> QED BY <2>1, <2>2
<1> QED BY <1>3, <1>4

\* An event that is delivered.
LEMMA DeliverFeed ==
  ASSUME Inv, NEW r \in Rooms, Deliver(r)
  PROVE  /\ feed' \in [Rooms -> Seq(Event)]
         /\ \A s \in Rooms : \A i \in DOMAIN feed'[s] :
              \E j \in DOMAIN feed[s] : feed'[s][i] = feed[s][j]
         /\ Head(feed[r]) \in Event /\ Head(feed[r]).who \in been[r]
         /\ r \in Made
<1>1. /\ feed' = [feed EXCEPT ![r] = Tail(@)] /\ feed \in [Rooms -> Seq(Event)]
      /\ feed[r] # <<>>
  BY DEF Deliver, Inv, TypeOK
<1>2. /\ feed[r] \in Seq(Event) /\ Tail(feed[r]) \in Seq(Event)
      /\ Len(feed[r]) \in Nat \ {0} /\ Len(Tail(feed[r])) = Len(feed[r]) - 1
      /\ \A i \in DOMAIN Tail(feed[r]) :
           i + 1 \in DOMAIN feed[r] /\ Tail(feed[r])[i] = feed[r][i + 1]
      /\ Head(feed[r]) \in Event /\ Head(feed[r]) = feed[r][1] /\ 1 \in DOMAIN feed[r]
  BY <1>1
<1>3. \A s \in Rooms : feed'[s] = IF s = r THEN Tail(feed[r]) ELSE feed[s]
  BY <1>1
<1>4. \A s \in Rooms : \A i \in DOMAIN feed'[s] :
        \E j \in DOMAIN feed[s] : feed'[s][i] = feed[s][j]
  BY <1>2, <1>3
<1>5. feed' \in [Rooms -> Seq(Event)]
  BY <1>1, <1>2
<1>6. Head(feed[r]).who \in been[r]
  BY <1>2 DEF Inv, Witnessed
<1> QED BY <1>2, <1>4, <1>5, <1>6 DEF Deliver, MayDeliver

\* It is enough that nobody is forgotten, and whoever gets a room has been there.
LEMMA Grows ==
  ASSUME Inv, TypeOK', Fresh',
         \A r \in Rooms : been[r] \subseteq been'[r],
         \A r \in Rooms : inside'[r] \cup seen'[r] \subseteq been'[r],
         \A r \in Rooms : \A i \in DOMAIN feed'[r] : feed'[r][i].who \in been'[r],
         \A p \in People, r \in Rooms : <<p, r>> \in said' => p \in been'[r],
         main' # Idle => main'.user \in been'[main'.room],
         \A r \in Rooms : creator'[r] \in People => creator'[r] \in been'[r],
         \A u \in People : roomOf'[u] # NoRoom =>
           roomOf'[u] = roomOf[u] \/ u \in been'[roomOf'[u]]
  PROVE  Inv'
<1>1. Witnessed'
  BY DEF Witnessed
<1>2. EverInside'
  BY DEF Inv, TypeOK, EverInside
<1> QED BY <1>1, <1>2 DEF Inv

LEMMA MainFacts ==
  ASSUME Inv
  PROVE  /\ main # Idle => main.user \in Users /\ main.room \in Rooms
         /\ Idle \in Work
BY DEF Inv, TypeOK, Work

\* What is made: nothing but the new room changes.
LEMMA MadeStep ==
  ASSUME Inv, UNCHANGED world, NEW r \in Rooms, NEW by, NEW user, NEW people \in SUBSET People,
         Make(r, by, user, people), by \in {Bot} \cup people,
         user \in Users \cup {NoOne},
         feed' \in [Rooms -> Seq(Event)],
         \A s \in Rooms : \A i \in DOMAIN feed'[s] :
           \E j \in DOMAIN feed[s] : feed'[s][i] = feed[s][j],
         \/ UNCHANGED main
         \/ \E u \in people \cap Users : main' = [user |-> u, room |-> r],
         roomOf' \in [People \cup {Bot} -> Rooms \cup {NoRoom}],
         \A u \in People : roomOf'[u] = roomOf[u] \/ (roomOf'[u] = r /\ u \in people)
  PROVE  Inv'
<1>1. /\ creator' \in [Rooms -> People \cup {Bot, NoOne}]
      /\ about' \in [Rooms -> Users \cup {NoOne}]
      /\ inside' \in [Rooms -> SUBSET People]
      /\ been' \in [Rooms -> SUBSET People]
      /\ seen' \in [Rooms -> SUBSET People]
      /\ \A s \in Rooms : been[s] \subseteq been'[s]
      /\ \A s \in Rooms : inside'[s] \cup seen'[s] \subseteq been'[s]
      /\ \A s \in Rooms : creator'[s] \in People => creator'[s] \in been'[s]
      /\ been'[r] = people
      /\ Fresh'
      /\ UNCHANGED <<known, said>>
  BY MakeGrows
<1>2. /\ main' \in Work
      /\ main' # Idle => main'.user \in been'[main'.room]
  <2>1. CASE UNCHANGED main
    BY <1>1, <2>1, MainFacts DEF Inv, TypeOK, Witnessed
  <2>2. ASSUME NEW u \in people \cap Users, main' = [user |-> u, room |-> r]
        PROVE  main' \in Work /\ main'.user \in been'[main'.room]
    BY <1>1, <2>2 DEF Work
  <2> QED BY <2>1, <2>2
<1>3. TypeOK'
  <2>1. world' \in Worlds /\ known' \subseteq Rooms /\ said' \subseteq People \X Rooms
    BY <1>1 DEF Inv, TypeOK
  <2>2. /\ feed' \in [Rooms -> Seq(Event)]
        /\ roomOf' \in [People \cup {Bot} -> Rooms \cup {NoRoom}]
    OBVIOUS
  <2> QED BY <1>1, <1>2, <2>1, <2>2 DEF TypeOK
<1>4. ASSUME NEW s \in Rooms, NEW i \in DOMAIN feed'[s] PROVE feed'[s][i].who \in been'[s]
  <2>1. PICK j \in DOMAIN feed[s] : feed'[s][i] = feed[s][j]
    OBVIOUS
  <2>2. feed[s][j].who \in been[s]
    BY DEF Inv, Witnessed
  <2> QED BY <1>1, <2>1, <2>2
<1>5. ASSUME NEW p \in People, NEW s \in Rooms, <<p, s>> \in said' PROVE p \in been'[s]
  BY <1>1, <1>5 DEF Inv, Witnessed
<1>6. \A u \in People : roomOf'[u] # NoRoom =>
        roomOf'[u] = roomOf[u] \/ u \in been'[roomOf'[u]]
  BY <1>1
<1> QED BY <1>1, <1>2, <1>3, <1>4, <1>5, <1>6, Grows

\* Somebody who is inside writes, leaves or is kicked.
LEMMA SentStep ==
  ASSUME Inv, UNCHANGED world, NEW r \in Rooms, NEW p \in People, NEW by \in People \cup {Bot},
         NEW kind \in {"message", "leave", "invite"}, Happened(r, kind, p, by),
         p \in inside[r], inside' \in [Rooms -> SUBSET People],
         \A s \in Rooms : inside'[s] \subseteq inside[s],
         UNCHANGED <<creator, about, been, known, seen, said, roomOf, main>>
  PROVE  Inv'
<1>1. /\ feed' \in [Rooms -> Seq(Event)]
      /\ \A s \in Rooms : \A i \in DOMAIN feed'[s] :
           \/ i \in DOMAIN feed[s] /\ feed'[s][i] = feed[s][i]
           \/ s = r /\ feed'[s][i].who = p
  BY HappenedFeed
<1>2. TypeOK' /\ Fresh'
  BY <1>1 DEF Inv, TypeOK, Fresh, Made
<1>3. p \in been[r]
  BY DEF Inv, Witnessed
<1>4. \A s \in Rooms : \A i \in DOMAIN feed'[s] : feed'[s][i].who \in been[s]
  BY <1>1, <1>3 DEF Inv, Witnessed
<1> QED BY <1>2, <1>4, Grows DEF Inv, Witnessed

LEMMA HappeningStep ==
  ASSUME Inv, UNCHANGED world, Happening PROVE Inv'
<1>1. ASSUME NEW u \in Users, NEW r \in Rooms, UserMakes(u, r) PROVE Inv'
  <2>1. Make(r, u, NoOne, {u}) /\ UNCHANGED <<feed, roomOf, main>>
    BY <1>1 DEF UserMakes
  <2>2. u \in People /\ feed \in [Rooms -> Seq(Event)]
        /\ roomOf \in [People \cup {Bot} -> Rooms \cup {NoRoom}]
    BY Distinct DEF Inv, TypeOK
  <2> QED BY <2>1, <2>2, MadeStep
<1>2. ASSUME NEW u \in Users, NEW r \in Rooms, NEW people \in SUBSET Staff,
             TicketMade(u, r, people)
      PROVE  Inv'
  <2>1. Make(r, Bot, u, people) /\ UNCHANGED <<feed, roomOf, main>>
    BY <1>2 DEF TicketMade
  <2>2. people \in SUBSET People /\ feed \in [Rooms -> Seq(Event)]
        /\ roomOf \in [People \cup {Bot} -> Rooms \cup {NoRoom}]
    BY Distinct DEF Inv, TypeOK
  <2> QED BY <2>1, <2>2, MadeStep
<1>3. ASSUME NEW p \in People, NEW r \in Rooms, Writes(p, r) \/ Leaves(p, r)
      PROVE  Inv'
  <2>1. CASE Writes(p, r)
    BY <2>1, SentStep DEF Writes, Inv, TypeOK, client
  <2>2. CASE Leaves(p, r)
    BY <2>2, SentStep DEF Leaves, Inv, TypeOK, client
  <2> QED BY <1>3, <2>1, <2>2
<1>4. ASSUME NEW p \in People, NEW by \in People \cup {Bot}, NEW r \in Rooms, Kicked(p, by, r)
      PROVE  Inv'
  BY <1>4, SentStep DEF Kicked, Inv, TypeOK, client
<1>5. ASSUME NEW p \in People, NEW by \in People \cup {Bot}, NEW r \in Rooms, Invited(p, by, r)
      PROVE  Inv'
  <2>1. /\ by \in inside[r] /\ UNCHANGED <<creator, about, client, roomOf, main>>
        /\ inside' = [inside EXCEPT ![r] = @ \cup {p}]
        /\ been' = [been EXCEPT ![r] = @ \cup {p}] /\ Happened(r, "invite", p, by)
    BY <1>5 DEF Invited
  <2>2. /\ feed' \in [Rooms -> Seq(Event)]
        /\ \A s \in Rooms : \A i \in DOMAIN feed'[s] :
             \/ i \in DOMAIN feed[s] /\ feed'[s][i] = feed[s][i]
             \/ s = r /\ feed'[s][i].who = p
    BY <2>1, HappenedFeed
  <2>3. \A s \in Rooms : been'[s] = IF s = r THEN been[s] \cup {p} ELSE been[s]
    BY <2>1 DEF Inv, TypeOK
  <2>4. \A s \in Rooms : inside'[s] = IF s = r THEN inside[s] \cup {p} ELSE inside[s]
    BY <2>1 DEF Inv, TypeOK
  <2>5. TypeOK'
    <3>1. /\ inside' \in [Rooms -> SUBSET People] /\ been' \in [Rooms -> SUBSET People]
      BY <2>1 DEF Inv, TypeOK
    <3> QED BY <2>1, <2>2, <3>1 DEF Inv, TypeOK, client
  <2>6. Fresh'
    BY <2>1, <2>3 DEF Inv, Witnessed, Fresh, Made
  <2>7. \A s \in Rooms : been[s] \subseteq been'[s] /\ inside'[s] \cup seen'[s] \subseteq been'[s]
    BY <2>1, <2>3, <2>4 DEF Inv, Witnessed, client
  <2>w. \A s \in Rooms : \A i \in DOMAIN feed[s] : feed[s][i].who \in been[s]
    BY DEF Inv, Witnessed
  <2>8. \A s \in Rooms : \A i \in DOMAIN feed'[s] : feed'[s][i].who \in been'[s]
    <3>1. ASSUME NEW s \in Rooms, NEW i \in DOMAIN feed'[s]
          PROVE  feed'[s][i].who \in been'[s]
      <4>1. CASE i \in DOMAIN feed[s] /\ feed'[s][i] = feed[s][i]
        BY <2>w, <2>3, <4>1
      <4>2. CASE s = r /\ feed'[s][i].who = p
        BY <2>3, <4>2
      <4> QED BY <2>2, <4>1, <4>2
    <3> QED BY <3>1
  <2>9. main' # Idle => main'.user \in been'[main'.room]
    BY <2>1, <2>7, MainFacts DEF Inv, Witnessed
  <2> QED BY <2>1, <2>5, <2>6, <2>7, <2>8, <2>9, Grows DEF Inv, Witnessed, client
<1> QED BY <1>1, <1>2, <1>3, <1>4, <1>5 DEF Happening

\* A room the client knows as one with the bot and the user alone.
LEMMA PrivateBeen ==
  ASSUME Inv, NEW u \in People, NEW r \in Private(u)
  PROVE  r \in Rooms /\ u \in been[r]
BY DEF Inv, TypeOK, Witnessed, Private

\* An event is delivered, and its callback writes rows of those who were there.
LEMMA HandledStep ==
  ASSUME Inv, UNCHANGED world, NEW r \in Rooms, Deliver(r),
         UNCHANGED <<creator, about, inside, been, known, main>>,
         seen' \in [Rooms -> SUBSET People],
         \A s \in Rooms : seen'[s] \subseteq been[s],
         said' \subseteq People \X Rooms,
         \A p \in People, s \in Rooms : <<p, s>> \in said' => p \in been[s],
         roomOf' \in [People \cup {Bot} -> Rooms \cup {NoRoom}],
         \A u \in People : roomOf'[u] # NoRoom =>
           roomOf'[u] = roomOf[u] \/ u \in been[roomOf'[u]]
  PROVE  Inv'
<1>1. /\ feed' \in [Rooms -> Seq(Event)]
      /\ \A s \in Rooms : \A i \in DOMAIN feed'[s] :
           \E j \in DOMAIN feed[s] : feed'[s][i] = feed[s][j]
  BY DeliverFeed
<1>2. TypeOK'
  BY <1>1 DEF Inv, TypeOK
<1>3. Fresh'
  BY DEF Inv, Fresh, Made
<1>4. \A s \in Rooms : \A i \in DOMAIN feed'[s] : feed'[s][i].who \in been[s]
  BY <1>1 DEF Inv, Witnessed
<1> QED BY <1>2, <1>3, <1>4, Grows DEF Inv, Witnessed

LEMMA HandlingStep ==
  ASSUME Inv, UNCHANGED world, NEW r \in Rooms, Handling(r) PROVE Inv'
<1> DEFINE e == Head(feed[r])
<1> USE DEF Inv
<1>0. ASSUME Deliver(r)
      PROVE  e.who \in been[r] /\ e.who \in People /\ r \in Made
  BY <1>0, DeliverFeed DEF Event
<1>1. CASE RelayFromUser(r)
  <2>1. Deliver(r) /\ e.who \in been[r] /\ e.who \in People
    BY <1>0, <1>1 DEF RelayFromUser
  <2>2. /\ roomOf' = [roomOf EXCEPT ![e.who] = r]
        /\ said' \subseteq said \cup {<<e.who, r>>}
        /\ UNCHANGED <<creator, about, inside, been, known, seen, main>>
    BY <1>1 DEF RelayFromUser
  <2> HIDE DEF e
  <2>3. \A p \in People, s \in Rooms : <<p, s>> \in said' => p \in been[s]
    BY <2>1, <2>2 DEF Witnessed
  <2>4. \A s \in Rooms : seen'[s] \subseteq been[s]
    BY <2>2 DEF Witnessed
  <2>5. roomOf' \in [People \cup {Bot} -> Rooms \cup {NoRoom}]
    BY <2>1, <2>2 DEF TypeOK
  <2>6. said' \subseteq People \X Rooms /\ seen' \in [Rooms -> SUBSET People]
    BY <2>1, <2>2 DEF TypeOK
  <2>7. \A u \in People : roomOf'[u] # NoRoom =>
          roomOf'[u] = roomOf[u] \/ u \in been[roomOf'[u]]
    BY <2>1, <2>2 DEF TypeOK
  <2> HIDE DEF Inv
  <2> QED BY <2>1, <2>2, <2>3, <2>4, <2>5, <2>6, <2>7, HandledStep
<1>2. CASE AnswerTo(r)
  <2>1. /\ Deliver(r) /\ about[r] \in Users
        /\ UNCHANGED <<creator, about, inside, been, client, main>>
    BY <1>2 DEF AnswerTo, IsTicketRoom, TypeOK
  <2>2. \/ UNCHANGED roomOf
        \/ \E x \in Private(about[r]) : roomOf' = [roomOf EXCEPT ![about[r]] = x]
    BY <1>2 DEF AnswerTo
  <2>3. \A x \in Private(about[r]) : x \in Rooms /\ about[r] \in been[x]
    BY <2>1, Distinct, PrivateBeen
  <2>4. \A s \in Rooms : seen'[s] \subseteq been[s]
    BY <2>1 DEF Witnessed, client
  <2>5. roomOf' \in [People \cup {Bot} -> Rooms \cup {NoRoom}]
    BY <2>2, <2>3 DEF TypeOK
  <2>6. \A u \in People : roomOf'[u] # NoRoom =>
          roomOf'[u] = roomOf[u] \/ u \in been[roomOf'[u]]
    BY <2>1, <2>2, <2>3, Distinct DEF TypeOK
  <2> QED BY <2>1, <2>4, <2>5, <2>6, HandledStep DEF TypeOK, Witnessed, client
<1>3. CASE MemberLeft(r)
  <2>1. /\ Deliver(r)
        /\ seen' = [seen EXCEPT ![r] = @ \ {e.who}]
        /\ roomOf' = [p \in DOMAIN roomOf |->
                        IF p = e.by /\ roomOf[p] = r THEN NoRoom ELSE roomOf[p]]
        /\ UNCHANGED <<creator, about, inside, been, known, said, main>>
    BY <1>3 DEF MemberLeft
  <2>2. /\ seen' \in [Rooms -> SUBSET People]
        /\ \A s \in Rooms : seen'[s] \subseteq been[s]
    BY <2>1 DEF TypeOK, Witnessed
  <2>3. /\ roomOf' \in [People \cup {Bot} -> Rooms \cup {NoRoom}]
        /\ \A u \in People : roomOf'[u] \in {NoRoom, roomOf[u]}
    BY <2>1 DEF TypeOK
  <2> QED BY <2>1, <2>2, <2>3, HandledStep DEF TypeOK, Witnessed
<1>4. CASE MemberInvited(r)
  <2>1. /\ Deliver(r) /\ e.who \in been[r] /\ e.who \in People /\ r \in Made
        /\ seen' = [seen EXCEPT ![r] = @ \cup {e.who}]
        /\ roomOf' = [p \in DOMAIN roomOf |-> IF p = creator[r] THEN r ELSE roomOf[p]]
        /\ UNCHANGED <<creator, about, inside, been, known, said, main>>
    BY <1>0, <1>4 DEF MemberInvited
  <2> HIDE DEF e
  <2>2. /\ seen' \in [Rooms -> SUBSET People]
        /\ \A s \in Rooms : seen'[s] \subseteq been[s]
    BY <2>1 DEF TypeOK, Witnessed
  <2>3. /\ roomOf' \in [People \cup {Bot} -> Rooms \cup {NoRoom}]
        /\ \A u \in People : roomOf'[u] = roomOf[u] \/ (u = creator[r] /\ roomOf'[u] = r)
    BY <2>1 DEF TypeOK
  <2>4. \A u \in People : roomOf'[u] # NoRoom =>
          roomOf'[u] = roomOf[u] \/ u \in been[roomOf'[u]]
    BY <2>3 DEF Witnessed
  <2> QED BY <2>1, <2>2, <2>3, <2>4, HandledStep DEF TypeOK, Witnessed
<1>5. ASSUME NEW new \in Rooms, AnswerMakes(r, new) PROVE Inv'
  <2>1. /\ Deliver(r) /\ about[r] \in Users /\ about[r] \in People
        /\ Make(new, Bot, NoOne, {about[r]})
        /\ main' = [user |-> about[r], room |-> new] /\ UNCHANGED roomOf
    BY <1>5, Distinct DEF AnswerMakes, IsTicketRoom, TypeOK
  <2>2. /\ feed' \in [Rooms -> Seq(Event)]
        /\ \A s \in Rooms : \A i \in DOMAIN feed'[s] :
             \E j \in DOMAIN feed[s] : feed'[s][i] = feed[s][j]
    BY <2>1, DeliverFeed
  <2>3. roomOf' \in [People \cup {Bot} -> Rooms \cup {NoRoom}]
    BY <2>1 DEF TypeOK
  <2>4. \A u \in People : roomOf'[u] = roomOf[u]
    BY <2>1
  <2> DEFINE user == about[r]
  <2>5. /\ user \in Users /\ user \in People /\ Make(new, Bot, NoOne, {user})
        /\ main' = [user |-> user, room |-> new]
    BY <2>1
  <2> HIDE DEF Inv, user
  <2>6. {user} \in SUBSET People /\ user \in {user} \cap Users
    BY <2>5
  <2> QED BY <2>2, <2>3, <2>4, <2>5, <2>6, MadeStep
<1> QED BY <1>1, <1>2, <1>3, <1>4, <1>5 DEF Handling

LEMMA SetupStep ==
  ASSUME Inv, UNCHANGED world, NEW u \in Users, NEW new \in Rooms, Setup(u, new)
  PROVE  Inv'
<1> USE DEF Inv
<1>0. u \in People
  BY Distinct
<1>1. ASSUME NEW x \in Private(u), roomOf' = [roomOf EXCEPT ![u] = x],
             UNCHANGED <<server, client, main>>
      PROVE  Inv'
  <2>1. x \in Rooms /\ u \in been[x]
    BY <1>0, <1>1, PrivateBeen
  <2>2. TypeOK' /\ Fresh'
    BY <1>0, <1>1, <2>1 DEF TypeOK, Fresh, Made, server, client
  <2> QED BY <1>0, <1>1, <2>1, <2>2, Grows DEF TypeOK, Witnessed, server, client
<1>2. CASE /\ Make(new, Bot, NoOne, {u}) /\ roomOf' = [roomOf EXCEPT ![u] = new]
           /\ UNCHANGED <<feed, main>>
  <2>1. /\ roomOf' \in [People \cup {Bot} -> Rooms \cup {NoRoom}]
        /\ \A p \in People : roomOf'[p] = roomOf[p] \/ (roomOf'[p] = new /\ p \in {u})
    BY <1>0, <1>2 DEF TypeOK
  <2>2. feed \in [Rooms -> Seq(Event)]
    BY DEF TypeOK
  <2> QED BY <1>0, <1>2, <2>1, <2>2, MadeStep
<1> QED BY <1>1, <1>2 DEF Setup

LEMMA NextInv == Inv /\ [Next]_vars => Inv'
<1> SUFFICES ASSUME Inv, [Next]_vars PROVE Inv'
  OBVIOUS
<1> USE DEF Inv
<1>0. UNCHANGED world
  BY DEF Next, vars
<1>1. ASSUME NEW r \in Rooms, Learn(r) PROVE Inv'
  <2>1. TypeOK' /\ Fresh'
    BY <1>0, <1>1 DEF Learn, TypeOK, Fresh, Made, server
  <2> QED BY <1>1, <2>1, Grows DEF Learn, Witnessed, server
<1>2. CASE Synced
  <2>1. /\ main # Idle /\ main.user \in People /\ main.room \in Rooms
        /\ main.user \in been[main.room]
        /\ roomOf' = [roomOf EXCEPT ![main.user] = main.room] /\ main' = Idle
        /\ UNCHANGED <<server, client>>
    BY <1>2, MainFacts, Distinct DEF Synced, IsIdle, Witnessed
  <2>2. TypeOK' /\ Fresh'
    BY <1>0, <2>1, MainFacts DEF TypeOK, Fresh, Made, server, client
  <2> QED BY <2>1, <2>2, Grows DEF TypeOK, Witnessed, server, client
<1>3. ASSUME NEW p \in People, NEW r \in Rooms, Replayed(p, r) PROVE Inv'
  <2>1. /\ p \in been[r] /\ roomOf' = [roomOf EXCEPT ![p] = r]
        /\ UNCHANGED <<server, client, main>>
    BY <1>3 DEF Replayed, Witnessed
  <2>2. TypeOK' /\ Fresh'
    BY <1>0, <2>1 DEF TypeOK, Fresh, Made, server, client
  <2> QED BY <2>1, <2>2, Grows DEF TypeOK, Witnessed, server, client
<1>4. CASE Crash
  <2>1. PICK lost \in SUBSET Rooms :
          /\ feed' = [r \in Rooms |-> IF r \in lost THEN <<>> ELSE feed[r]]
          /\ seen' = [r \in Rooms |-> IF r \in lost THEN inside[r] ELSE seen[r]]
    BY <1>4 DEF Crash
  <2>2. /\ known' = {} /\ main' = Idle
        /\ UNCHANGED <<creator, about, inside, been, said, roomOf>>
    BY <1>4 DEF Crash
  <2>3. TypeOK' /\ Fresh'
    BY <1>0, <2>1, <2>2, MainFacts DEF TypeOK, Fresh, Made
  <2>4. \A r \in Rooms : \A i \in DOMAIN feed'[r] : feed'[r][i].who \in been[r]
    BY <2>1 DEF Witnessed
  <2> QED BY <2>1, <2>2, <2>3, <2>4, Grows DEF Witnessed
<1>5. CASE UNCHANGED vars
  BY <1>5, Grows DEF vars, state, server, client, TypeOK, Witnessed, Fresh, Made
<1> QED
  BY <1>0, <1>1, <1>2, <1>3, <1>4, <1>5, HappeningStep, HandlingStep, SetupStep DEF Next, Step

\* The inductive invariant holds, whoever writes, leaves or is invited.
THEOREM InvAlways == Spec => []Inv
BY InitInv, NextInv, PTL DEF Spec

\* What is meant for a user never goes to a room in which the user has never been.
THEOREM RoomsOfUsers == Spec => []EverInside
<1>1. Inv => EverInside
  BY DEF Inv
<1> QED BY <1>1, InvAlways, PTL

\* The communications rooms keep their types.
THEOREM TypeCorrect == Spec => []TypeOK
<1>1. Inv => TypeOK
  BY DEF Inv
<1> QED BY <1>1, InvAlways, PTL

-----------------------------------------------------------------------------
(* Where people only write, leave and are answered.                        *)

\* Of some members of a room, p is one, or the events after the k-th will tell
\* that p has left.
Going(p, members, events, k) ==
  \/ p \in members
  \/ \E j \in DOMAIN events : j > k /\ events[j].kind = "leave" /\ events[j].who = p

InOrder(members, events) ==
  \A i \in DOMAIN events :
    /\ events[i].kind = "message" => Going(events[i].who, members, events, i)
    /\ events[i].kind = "leave" => events[i].by = events[i].who
    /\ events[i].kind # "invite"

\* Whoever the client takes for a member is one, or will be heard to leave; and
\* whoever writes leaves later.
Told ==
  /\ said = {}
  /\ main # Idle => main.user \in inside[main.room]
  /\ \A r \in Rooms : \A p \in seen[r] : Going(p, inside[r], feed[r], 0)
  /\ \A u \in People : roomOf[u] # NoRoom => Going(u, inside[roomOf[u]], feed[roomOf[u]], 0)
  /\ \A r \in Rooms : InOrder(inside[r], feed[r])

LEMMA GoingGrows ==
  ASSUME NEW p, NEW events, NEW k, NEW members, NEW more, members \subseteq more,
         Going(p, members, events, k)
  PROVE  Going(p, more, events, k)
BY DEF Going

\* The first of the events is taken away.
LEMMA TailFacts ==
  ASSUME NEW events \in Seq(Event), events # <<>>
  PROVE  /\ Head(events) = events[1] /\ events[1] \in Event /\ 1 \in DOMAIN events
         /\ Tail(events) \in Seq(Event)
         /\ \A i \in DOMAIN Tail(events) :
              i \in Nat /\ i + 1 \in DOMAIN events /\ Tail(events)[i] = events[i + 1]
         /\ \A j \in DOMAIN events :
              /\ j \in Nat \ {0}
              /\ j # 1 => j - 1 \in DOMAIN Tail(events) /\ Tail(events)[j - 1] = events[j]
OBVIOUS

LEMMA TailGoing ==
  ASSUME NEW events \in Seq(Event), events # <<>>, NEW p, NEW members, NEW k \in Nat,
         Going(p, members, events, k + 1)
  PROVE  Going(p, members, Tail(events), k)
<1>1. CASE p \in members
  BY <1>1 DEF Going
<1>2. ASSUME NEW j \in DOMAIN events,
             j > k + 1, events[j].kind = "leave", events[j].who = p
      PROVE  Going(p, members, Tail(events), k)
  <2>1. j \in Nat /\ j # 1 /\ j - 1 > k
    BY <1>2, TailFacts
  <2>2. j - 1 \in DOMAIN Tail(events) /\ Tail(events)[j - 1] = events[j]
    BY <1>2, <2>1, TailFacts
  <2> QED BY <1>2, <2>1, <2>2 DEF Going
<1> QED BY <1>1, <1>2 DEF Going

\* An event that does not tell that p has left takes nothing from p.
LEMMA HeadGoing ==
  ASSUME NEW events \in Seq(Event), events # <<>>, NEW p, NEW members,
         Going(p, members, events, 0),
         Head(events).kind = "leave" => Head(events).who # p
  PROVE  Going(p, members, Tail(events), 0)
<1>1. \A j \in DOMAIN events : events[j].kind = "leave" /\ events[j].who = p => j > 0 + 1
  BY TailFacts
<1>2. Going(p, members, events, 0 + 1)
  BY <1>1 DEF Going
<1> QED BY <1>2, TailGoing

LEMMA TailInOrder ==
  ASSUME NEW events \in Seq(Event), events # <<>>, NEW members, InOrder(members, events)
  PROVE  InOrder(members, Tail(events))
<1> SUFFICES ASSUME NEW i \in DOMAIN Tail(events)
             PROVE  LET e == Tail(events)[i] IN
                    /\ e.kind = "message" => Going(e.who, members, Tail(events), i)
                    /\ e.kind = "leave" => e.by = e.who
                    /\ e.kind # "invite"
  BY DEF InOrder
<1>1. i \in Nat /\ i + 1 \in DOMAIN events /\ Tail(events)[i] = events[i + 1]
  BY TailFacts
<1>2. /\ events[i + 1].kind = "message" => Going(events[i + 1].who, members, events, i + 1)
      /\ events[i + 1].kind = "leave" => events[i + 1].by = events[i + 1].who
      /\ events[i + 1].kind # "invite"
  BY <1>1 DEF InOrder
<1> QED BY <1>1, <1>2, TailGoing

LEMMA InOrderGrows ==
  ASSUME NEW events, NEW members, NEW more, members \subseteq more, InOrder(members, events)
  PROVE  InOrder(more, events)
BY GoingGrows DEF InOrder

\* An event is added.
LEMMA AppendFacts ==
  ASSUME NEW events \in Seq(Event), NEW e \in Event
  PROVE  /\ \A j \in DOMAIN events :
              /\ j \in Nat /\ j <= Len(events)
              /\ j \in DOMAIN Append(events, e) /\ Append(events, e)[j] = events[j]
         /\ Len(events) \in Nat /\ Len(events) + 1 \in DOMAIN Append(events, e)
         /\ Append(events, e)[Len(events) + 1] = e
         /\ \A j \in DOMAIN Append(events, e) : j \in DOMAIN events \/ j = Len(events) + 1
OBVIOUS

\* p writes, or leaves.
LEMMA AppendGoing ==
  ASSUME NEW events \in Seq(Event), NEW e \in Event, NEW members, NEW q, NEW k \in Nat,
         k <= Len(events), Going(q, members, events, k)
  PROVE  /\ Going(q, members, Append(events, e), k)
         /\ e.kind = "leave" => Going(q, members \ {e.who}, Append(events, e), k)
<1>1. CASE q \in members
  <2>1. ASSUME e.kind = "leave", q = e.who
        PROVE  Going(q, members \ {e.who}, Append(events, e), k)
    <3>1. Len(events) + 1 > k
      BY AppendFacts
    <3> QED BY <2>1, <3>1, AppendFacts DEF Going
  <2> QED BY <1>1, <2>1 DEF Going
<1>2. CASE \E j \in DOMAIN events : j > k /\ events[j].kind = "leave" /\ events[j].who = q
  BY <1>2, AppendFacts DEF Going
<1> QED BY <1>1, <1>2 DEF Going

LEMMA AppendInOrder ==
  ASSUME NEW events \in Seq(Event), NEW e \in Event, NEW members, e.who \in members,
         e.by = e.who, InOrder(members, events)
  PROVE  /\ e.kind = "message" => InOrder(members, Append(events, e))
         /\ e.kind = "leave" => InOrder(members \ {e.who}, Append(events, e))
<1> DEFINE longer == Append(events, e)
<1>1. ASSUME NEW i \in DOMAIN events
      PROVE  /\ longer[i] = events[i]
             /\ longer[i].kind = "message" => Going(longer[i].who, members, longer, i)
             /\ longer[i].kind = "message" /\ e.kind = "leave"
                  => Going(longer[i].who, members \ {e.who}, longer, i)
             /\ longer[i].kind = "leave" => longer[i].by = longer[i].who
             /\ longer[i].kind # "invite"
  <2>1. i \in Nat /\ i <= Len(events) /\ longer[i] = events[i]
    BY AppendFacts
  <2>2. /\ events[i].kind = "message" => Going(events[i].who, members, events, i)
        /\ events[i].kind = "leave" => events[i].by = events[i].who
        /\ events[i].kind # "invite"
    BY DEF InOrder
  <2> QED BY <2>1, <2>2, AppendGoing
<1>2. /\ longer[Len(events) + 1] = e
      /\ \A i \in DOMAIN longer : i \in DOMAIN events \/ i = Len(events) + 1
  BY AppendFacts
<1>3. Going(e.who, members, longer, Len(events) + 1)
  BY DEF Going
<1> HIDE DEF longer
<1>4. e.kind = "message" => InOrder(members, longer)
  BY <1>1, <1>2, <1>3 DEF InOrder
<1>5. e.kind = "leave" => InOrder(members \ {e.who}, longer)
  BY <1>1, <1>2 DEF InOrder
<1> QED BY <1>4, <1>5 DEF longer

\* A step that delivers nothing.
LEMMA SteadyTold ==
  ASSUME Inv, Told, UNCHANGED feed,
         \A r \in Rooms : inside[r] \subseteq inside'[r],
         said' = {}, main' # Idle => main'.user \in inside'[main'.room],
         \A r \in Rooms : seen'[r] \subseteq inside'[r] \cup seen[r],
         \A u \in People : roomOf'[u] # NoRoom =>
           /\ roomOf'[u] \in Rooms
           /\ \/ u \in inside'[roomOf'[u]]
              \/ Going(u, inside[roomOf'[u]], feed[roomOf'[u]], 0)
  PROVE  Told'
<1>1. ASSUME NEW p, NEW r \in Rooms,
             p \in inside'[r] \/ Going(p, inside[r], feed[r], 0)
      PROVE  Going(p, inside'[r], feed'[r], 0)
  BY <1>1 DEF Going
<1>2. \A r \in Rooms : \A p \in seen'[r] : Going(p, inside'[r], feed'[r], 0)
  BY <1>1 DEF Told
<1>3. \A r \in Rooms : InOrder(inside'[r], feed'[r])
  BY InOrderGrows DEF Told
<1> QED BY <1>1, <1>2, <1>3 DEF Told

\* A step that delivers an event of room r.
LEMMA DeliveredTold ==
  ASSUME Inv, Told, NEW r \in Rooms, Deliver(r),
         \A s \in Rooms : inside[s] \subseteq inside'[s],
         said' = {}, main' # Idle => main'.user \in inside'[main'.room],
         \A s \in Rooms : \A p \in seen'[s] :
           \/ p \in inside'[s]
           \/ p \in seen[s] /\ ~(s = r /\ Head(feed[r]).kind = "leave" /\ Head(feed[r]).who = p),
         \A u \in People : roomOf'[u] # NoRoom =>
           /\ roomOf'[u] \in Rooms
           /\ \/ Going(u, inside[roomOf'[u]], feed[roomOf'[u]], 0)
                 /\ ~(roomOf'[u] = r /\ Head(feed[r]).kind = "leave" /\ Head(feed[r]).who = u)
              \/ roomOf'[u] = r /\ Going(u, inside[r], feed[r], 1)
  PROVE  Told'
<1> DEFINE e == Head(feed[r])
<1>1. /\ feed \in [Rooms -> Seq(Event)] /\ feed[r] # <<>>
      /\ feed' = [feed EXCEPT ![r] = Tail(@)]
  BY DEF Deliver, Inv, TypeOK
<1>2. /\ \A s \in Rooms : feed'[s] = IF s = r THEN Tail(feed[r]) ELSE feed[s]
      /\ feed[r] \in Seq(Event)
  BY <1>1
<1>3. ASSUME NEW p, NEW s \in Rooms, Going(p, inside[s], feed[s], 0),
             ~(s = r /\ e.kind = "leave" /\ e.who = p)
      PROVE  Going(p, inside'[s], feed'[s], 0)
  <2>1. Going(p, inside[s], feed'[s], 0)
    BY <1>1, <1>2, <1>3, HeadGoing
  <2> QED BY <2>1, GoingGrows
<1>4. ASSUME NEW p, Going(p, inside[r], feed[r], 1)
      PROVE  Going(p, inside'[r], feed'[r], 0)
  <2>1. Going(p, inside[r], feed[r], 0 + 1)
    BY <1>4
  <2>2. Going(p, inside[r], feed'[r], 0)
    BY <1>1, <1>2, <2>1, TailGoing
  <2> QED BY <2>2, GoingGrows
<1>5. ASSUME NEW s \in Rooms PROVE InOrder(inside'[s], feed'[s])
  <2>1. InOrder(inside[s], feed[s])
    BY DEF Told
  <2>2. InOrder(inside[s], feed'[s])
    BY <1>1, <1>2, <2>1, TailInOrder
  <2> QED BY <2>2, InOrderGrows
<1> HIDE DEF e
<1>6. ASSUME NEW s \in Rooms, NEW p \in seen'[s] PROVE Going(p, inside'[s], feed'[s], 0)
  <2>1. CASE p \in inside'[s]
    BY <2>1 DEF Going
  <2>2. CASE p \in seen[s] /\ ~(s = r /\ e.kind = "leave" /\ e.who = p)
    BY <1>3, <2>2 DEF Told
  <2> QED BY <2>1, <2>2 DEF e
<1>7. ASSUME NEW u \in People, roomOf'[u] # NoRoom
      PROVE  Going(u, inside'[roomOf'[u]], feed'[roomOf'[u]], 0)
  BY <1>3, <1>4, <1>7 DEF e
<1> QED BY <1>5, <1>6, <1>7 DEF Told

\* Somebody inside writes or leaves.
LEMMA SentTold ==
  ASSUME Inv, Told, NEW r \in Rooms, NEW p \in inside[r], NEW kind \in {"message", "leave"},
         Happened(r, kind, p, p),
         inside' = IF kind = "leave" THEN [inside EXCEPT ![r] = @ \ {p}] ELSE inside,
         kind = "leave" => main.room # r,
         UNCHANGED <<seen, said, roomOf, main>>
  PROVE  Told'
<1> DEFINE e == [kind |-> kind, who |-> p, by |-> p]
<1>1. /\ feed \in [Rooms -> Seq(Event)] /\ inside \in [Rooms -> SUBSET People]
      /\ feed' = [feed EXCEPT ![r] = Append(@, e)]
  BY DEF Happened, Inv, TypeOK
<1>2. e \in Event /\ e.kind = kind /\ e.who = p /\ e.by = p
  BY <1>1 DEF Event
<1> HIDE DEF e
<1>3. \A s \in Rooms :
        /\ feed'[s] = IF s = r THEN Append(feed[r], e) ELSE feed[s]
        /\ inside'[s] = IF s = r /\ kind = "leave" THEN inside[r] \ {p} ELSE inside[s]
        /\ feed[s] \in Seq(Event) /\ 0 <= Len(feed[s])
  BY <1>1
<1>4. ASSUME NEW q, NEW s \in Rooms, Going(q, inside[s], feed[s], 0)
      PROVE  Going(q, inside'[s], feed'[s], 0)
  <2>1. CASE s # r
    BY <1>3, <1>4, <2>1
  <2>2. CASE s = r
    <3>1. /\ Going(q, inside[r], Append(feed[r], e), 0)
          /\ e.kind = "leave" => Going(q, inside[r] \ {e.who}, Append(feed[r], e), 0)
      BY <1>2, <1>3, <1>4, <2>2, AppendGoing
    <3> QED BY <1>2, <1>3, <2>2, <3>1
  <2> QED BY <2>1, <2>2
<1>5. ASSUME NEW s \in Rooms PROVE InOrder(inside'[s], feed'[s])
  <2>1. InOrder(inside[s], feed[s])
    BY DEF Told
  <2>2. CASE s # r
    BY <1>3, <2>1, <2>2
  <2>3. CASE s = r
    <3>1. /\ e.kind = "message" => InOrder(inside[r], Append(feed[r], e))
          /\ e.kind = "leave" => InOrder(inside[r] \ {e.who}, Append(feed[r], e))
      BY <1>2, <1>3, <2>1, <2>3, AppendInOrder
    <3> QED BY <1>2, <1>3, <2>3, <3>1
  <2> QED BY <2>2, <2>3
<1>6. main' # Idle => main'.user \in inside'[main'.room]
  BY <1>3, MainFacts DEF Told
<1>7. \A s \in Rooms : \A q \in seen'[s] : Going(q, inside'[s], feed'[s], 0)
  BY <1>4 DEF Told
<1>8. ASSUME NEW u \in People, roomOf'[u] # NoRoom
      PROVE  Going(u, inside'[roomOf'[u]], feed'[roomOf'[u]], 0)
  <2>1. roomOf'[u] = roomOf[u] /\ roomOf[u] \in Rooms
    BY <1>8 DEF Inv, TypeOK
  <2> QED BY <1>4, <1>8, <2>1 DEF Told
<1> QED BY <1>5, <1>6, <1>7, <1>8 DEF Told

\* A new room has nobody but those it is made with.
LEMMA MakeFacts ==
  ASSUME Inv, NEW r \in Rooms, NEW by, NEW user, NEW people, Make(r, by, user, people)
  PROVE  /\ inside'[r] = people /\ inside[r] = {} /\ seen'[r] = people
         /\ \A s \in Rooms : s # r => inside'[s] = inside[s] /\ seen'[s] = seen[s]
         /\ \A s \in Rooms : inside[s] \subseteq inside'[s]
         /\ UNCHANGED said
BY DEF Inv, TypeOK, Fresh, Witnessed, Make

LEMMA HappeningTold ==
  ASSUME Inv, Told, Calm, Happening PROVE Told'
<1>0. \A u \in People : roomOf[u] # NoRoom =>
        roomOf[u] \in Rooms /\ Going(u, inside[roomOf[u]], feed[roomOf[u]], 0)
  BY DEF Inv, TypeOK, Told
<1>1. ASSUME NEW r \in Rooms, NEW by, NEW user, NEW people, Make(r, by, user, people),
             UNCHANGED <<feed, roomOf, main>>
      PROVE  Told'
  <2>1. /\ \A s \in Rooms : inside[s] \subseteq inside'[s]
        /\ \A s \in Rooms : seen'[s] \subseteq inside'[s] \cup seen[s]
        /\ said' = {}
    BY <1>1, MakeFacts DEF Told
  <2>2. main' # Idle => main'.user \in inside'[main'.room]
    BY <1>1, <2>1, MainFacts DEF Told
  <2> QED BY <1>0, <1>1, <2>1, <2>2, SteadyTold
<1>2. ASSUME NEW p \in People, NEW r \in Rooms, Writes(p, r) PROVE Told'
  BY <1>2, SentTold DEF Writes, client
<1>3. ASSUME NEW p \in People, NEW r \in Rooms, Leaves(p, r) PROVE Told'
  <2>1. /\ p \in inside[r] /\ Happened(r, "leave", p, p) /\ main.room # r
        /\ inside' = [inside EXCEPT ![r] = @ \ {p}]
        /\ UNCHANGED <<seen, said, roomOf, main>>
    BY <1>3 DEF Leaves, Calm, client
  <2> QED BY <2>1, SentTold
<1> QED BY <1>1, <1>2, <1>3 DEF Happening, UserMakes, TicketMade, Kicked, Invited, Calm

\* Who is alone with the bot, as far as the client knows.
LEMMA PrivateGoing ==
  ASSUME Told, NEW u, NEW r \in Private(u), Private(u) \subseteq Rooms
  PROVE  Going(u, inside[r], feed[r], 0) /\ u \in seen[r]
BY DEF Told, Private

LEMMA HandlingTold ==
  ASSUME Inv, Told, Calm, NEW r \in Rooms, Handling(r) PROVE Told'
<1> DEFINE e == Head(feed[r])
<1>0. ASSUME Deliver(r)
      PROVE  /\ r \in Made /\ e.who \in People /\ e.kind # "invite"
             /\ e.kind = "message" => Going(e.who, inside[r], feed[r], 1)
             /\ e.kind = "leave" => e.by = e.who
  <2>1. feed[r] \in Seq(Event) /\ feed[r] # <<>> /\ r \in Made
    BY <1>0 DEF Deliver, MayDeliver, Inv, TypeOK
  <2>2. e = feed[r][1] /\ 1 \in DOMAIN feed[r] /\ e \in Event
    BY <2>1, TailFacts
  <2>3. e.who \in People
    BY <2>2 DEF Event
  <2>4. InOrder(inside[r], feed[r])
    BY DEF Told
  <2> HIDE DEF e
  <2> QED BY <2>1, <2>2, <2>3, <2>4 DEF InOrder
<1>r. \A u \in People : roomOf[u] # NoRoom =>
        roomOf[u] \in Rooms /\ Going(u, inside[roomOf[u]], feed[roomOf[u]], 0)
  BY DEF Inv, TypeOK, Told
<1>m. main # Idle => main.user \in inside[main.room]
  BY DEF Told
<1>1. CASE RelayFromUser(r)
  <2>1. /\ Deliver(r) /\ e.kind = "message" /\ roomOf' = [roomOf EXCEPT ![e.who] = r]
        /\ said' = {} /\ UNCHANGED <<inside, seen, main>>
    BY <1>1 DEF RelayFromUser, Calm, Told
  <2>2. Going(e.who, inside[r], feed[r], 1) /\ e.who \in People
    BY <1>0, <2>1
  <2> HIDE DEF e
  <2>3. \A u \in People : roomOf'[u] = IF u = e.who THEN r ELSE roomOf[u]
    BY <2>1, <2>2 DEF Inv, TypeOK
  <2> QED BY <1>r, <1>m, <2>1, <2>2, <2>3, DeliveredTold DEF e
<1>2. CASE AnswerTo(r)
  <2>1. /\ Deliver(r) /\ e.kind = "message" /\ about[r] \in Users /\ about[r] \in People
        /\ said' = {} /\ UNCHANGED <<inside, seen, main>>
    BY <1>2, Distinct DEF AnswerTo, IsTicketRoom, client, Inv, TypeOK, Told
  <2>2. \/ UNCHANGED roomOf
        \/ \E x \in Private(about[r]) : roomOf' = [roomOf EXCEPT ![about[r]] = x]
    BY <1>2 DEF AnswerTo
  <2>3. \A x \in Private(about[r]) : x \in Rooms /\ Going(about[r], inside[x], feed[x], 0)
    BY PrivateGoing, PrivateBeen, <2>1
  <2> HIDE DEF e
  <2>4. \A u \in People : roomOf'[u] # NoRoom =>
          roomOf'[u] \in Rooms /\ Going(u, inside[roomOf'[u]], feed[roomOf'[u]], 0)
    BY <1>r, <2>1, <2>2, <2>3 DEF Inv, TypeOK
  <2> QED BY <1>m, <2>1, <2>4, DeliveredTold DEF e
<1>3. CASE MemberLeft(r)
  <2>1. /\ Deliver(r) /\ e.kind = "leave"
        /\ seen' = [seen EXCEPT ![r] = @ \ {e.who}]
        /\ roomOf' = [p \in DOMAIN roomOf |->
                        IF p = e.by /\ roomOf[p] = r THEN NoRoom ELSE roomOf[p]]
        /\ said' = {} /\ UNCHANGED <<inside, main>>
    BY <1>3 DEF MemberLeft, Told
  <2>2. e.by = e.who
    BY <1>0, <2>1
  <2> HIDE DEF e
  <2>3. \A s \in Rooms : \A p \in seen'[s] : p \in seen[s] /\ ~(s = r /\ e.who = p)
    BY <2>1 DEF Inv, TypeOK
  <2>4. \A u \in People : roomOf'[u] # NoRoom =>
          roomOf'[u] = roomOf[u] /\ ~(roomOf[u] = r /\ e.who = u)
    BY <2>1, <2>2 DEF Inv, TypeOK
  <2> QED BY <1>r, <1>m, <2>1, <2>3, <2>4, DeliveredTold DEF e
<1>4. CASE MemberInvited(r)
  BY <1>0, <1>4 DEF MemberInvited
<1>5. ASSUME NEW new \in Rooms, AnswerMakes(r, new) PROVE Told'
  <2>1. /\ Deliver(r) /\ e.kind = "message" /\ Make(new, Bot, NoOne, {about[r]})
        /\ main' = [user |-> about[r], room |-> new] /\ UNCHANGED roomOf
    BY <1>5 DEF AnswerMakes
  <2>2. /\ inside'[new] = {about[r]}
        /\ \A s \in Rooms : inside[s] \subseteq inside'[s]
        /\ \A s \in Rooms : \A p \in seen'[s] : p \in inside'[s] \/ p \in seen[s]
        /\ said' = {}
    BY <2>1, MakeFacts DEF Told
  <2>3. main'.user \in inside'[main'.room]
    BY <2>1, <2>2
  <2> HIDE DEF e
  <2> QED BY <1>r, <2>1, <2>2, <2>3, DeliveredTold DEF e
<1> QED BY <1>1, <1>2, <1>3, <1>4, <1>5 DEF Handling

LEMMA SetupTold ==
  ASSUME Inv, Told, NEW u \in Users, NEW new \in Rooms, Setup(u, new) PROVE Told'
<1>0. u \in People
  BY Distinct
<1>r. \A p \in People : roomOf[p] # NoRoom =>
        roomOf[p] \in Rooms /\ Going(p, inside[roomOf[p]], feed[roomOf[p]], 0)
  BY DEF Inv, TypeOK, Told
<1>1. ASSUME NEW x \in Private(u), roomOf' = [roomOf EXCEPT ![u] = x],
             UNCHANGED <<server, client, main>>
      PROVE  Told'
  <2>1. x \in Rooms /\ Going(u, inside[x], feed[x], 0)
    BY <1>0, PrivateBeen, PrivateGoing
  <2>2. \A p \in People : roomOf'[p] = IF p = u THEN x ELSE roomOf[p]
    BY <1>0, <1>1 DEF Inv, TypeOK
  <2> QED BY <1>r, <1>1, <2>1, <2>2, SteadyTold DEF server, client, Told
<1>2. CASE /\ IsIdle /\ Make(new, Bot, NoOne, {u}) /\ roomOf' = [roomOf EXCEPT ![u] = new]
           /\ UNCHANGED <<feed, main>>
  <2>1. /\ inside'[new] = {u}
        /\ \A s \in Rooms : inside[s] \subseteq inside'[s]
        /\ \A s \in Rooms : seen'[s] \subseteq inside'[s] \cup seen[s]
        /\ said' = {} /\ main' = Idle
    BY <1>2, MakeFacts DEF Told, IsIdle
  <2>2. \A p \in People : roomOf'[p] = IF p = u THEN new ELSE roomOf[p]
    BY <1>0, <1>2 DEF Inv, TypeOK
  <2> QED BY <1>r, <1>2, <2>1, <2>2, SteadyTold
<1> QED BY <1>1, <1>2 DEF Setup

LEMMA NextTold == Inv /\ (Calm => Told) /\ [Next]_vars => (Calm => Told)'
<1> SUFFICES ASSUME Inv, Calm => Told, [Next]_vars, Calm' PROVE Told'
  OBVIOUS
<1>0. Calm /\ Told
  BY DEF Calm, Next, vars
<1>r. \A u \in People : roomOf[u] # NoRoom =>
        roomOf[u] \in Rooms /\ Going(u, inside[roomOf[u]], feed[roomOf[u]], 0)
  BY <1>0 DEF Inv, TypeOK, Told
<1>1. ASSUME NEW r \in Rooms, Learn(r) PROVE Told'
  BY <1>0, <1>r, <1>1, SteadyTold DEF Learn, server, Told
<1>2. CASE Synced
  <2>1. /\ main.user \in inside[main.room] /\ main.user \in People /\ main.room \in Rooms
        /\ roomOf' = [roomOf EXCEPT ![main.user] = main.room] /\ main' = Idle
        /\ UNCHANGED <<server, client>>
    BY <1>0, <1>2, MainFacts, Distinct DEF Synced, IsIdle, Told
  <2>2. \A p \in People : roomOf'[p] = IF p = main.user THEN main.room ELSE roomOf[p]
    BY <2>1 DEF Inv, TypeOK
  <2> QED BY <1>0, <1>r, <2>1, <2>2, SteadyTold DEF server, client, Told
<1>3. CASE UNCHANGED vars
  BY <1>0, <1>3 DEF vars, state, server, client, Told
<1> QED
  BY <1>0, <1>1, <1>2, <1>3, HappeningTold, HandlingTold, SetupTold
  DEF Next, Step, Replayed, Told, Crash, Calm

\* What is meant for a user goes to a room the user is in, or has left unheard,
\* however the events of rooms are delivered: where people only write, leave and
\* are answered.
THEOREM RoomsOfMembers == Spec => []InsideOrLeaving
<1>1. Init => (Calm => Told)
  BY Distinct DEF Init, Told, InOrder
<1>2. Inv /\ (Calm => Told) => InsideOrLeaving
  BY DEF Told, InsideOrLeaving, InsideOrUnheard, Going, Inv, TypeOK
<1> QED BY <1>1, <1>2, NextTold, InvAlways, PTL DEF Spec
===============================================================================
