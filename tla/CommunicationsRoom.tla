------------------------- MODULE CommunicationsRoom -------------------------
(***************************************************************************)
(* The communications room of a user, Users.room_id: where the answers of  *)
(* staff go.  It is written when the user writes, when the user leaves,    *)
(* when staff answer a user who has none, by `!setupcommunicationsroom`,   *)
(* and by invitations of others; and people come and go meanwhile.         *)
(*                                                                         *)
(* The homeserver has who is inside each room; the client learns of it     *)
(* event by event, and each event runs its callback.  What happened in a   *)
(* room and was not delivered yet is `feed`.                               *)
(***************************************************************************)
EXTENDS Naturals, Sequences, FiniteSets

CONSTANTS
  Users,     \* people who ask for help
  Staff,     \* people who are invited to ticket rooms; some may be users too
  Bot,
  Rooms,     \* bound: rooms ever made
  MaxFeed,   \* bound: events of a room that are not delivered
  Worlds     \* what happens besides writing, leaving and answering, in each
             \* behaviour one of several sets

People == Users \cup Staff
NoRoom == "no room"
NoOne == "no one"

ASSUME CommunicationsRoomAssumption ==
  /\ Bot \notin People /\ NoOne \notin People \cup {Bot}
  /\ NoRoom \notin Rooms
  /\ IsFiniteSet(People) /\ MaxFeed \in Nat \ {0}
  /\ Worlds \subseteq SUBSET {"kick", "invite", "replay", "early leave", "crash"}

\* `who` joins, leaves or writes; `by` sends the event: whoever kicks or
\* invites `who`, or `who`.
Event == [kind : {"message", "leave", "invite"}, who : People, by : People \cup {Bot}]

\* The sync loop is idle, or it handles a message of staff, has made `room` for
\* `user`, and syncs that room before it writes the row.
Idle == [user |-> NoOne, room |-> NoRoom]
Work == [user : Users, room : Rooms] \cup {Idle}

VARIABLES
  world,     \* what happens in this behaviour; it never changes
  creator,   \* who made a room, or NoOne
  about,     \* the user of the ticket a room belongs to, or NoOne
  inside,    \* who else than the bot is joined or invited
  feed,      \* what was not delivered
  known,     \* client.rooms
  seen,      \* who is joined or invited as far as the client knows
  said,      \* messages that may be handled again: <<user, room>>
  roomOf,    \* Users.room_id, NoRoom also without a row
  main,      \* what the sync loop does
  been       \* history: who was ever inside

server == <<creator, about, inside, feed, been>>
client == <<known, seen, said>>
state == <<server, client, roomOf, main>>
vars == <<world, state>>

TypeOK ==
  /\ world \in Worlds
  /\ creator \in [Rooms -> People \cup {Bot, NoOne}]
  /\ about \in [Rooms -> Users \cup {NoOne}]
  /\ inside \in [Rooms -> SUBSET People] /\ been \in [Rooms -> SUBSET People]
  /\ feed \in [Rooms -> Seq(Event)]
  /\ known \subseteq Rooms
  /\ seen \in [Rooms -> SUBSET People]
  /\ said \subseteq People \X Rooms
  /\ roomOf \in [People \cup {Bot} -> Rooms \cup {NoRoom}]
  /\ main \in Work

Init ==
  /\ world \in Worlds
  /\ creator = [r \in Rooms |-> NoOne] /\ about = [r \in Rooms |-> NoOne]
  /\ inside = [r \in Rooms |-> {}] /\ been = [r \in Rooms |-> {}]
  /\ feed = [r \in Rooms |-> <<>>]
  /\ known = {} /\ seen = [r \in Rooms |-> {}] /\ said = {}
  /\ roomOf = [p \in People \cup {Bot} |-> NoRoom]
  /\ main = Idle

Made == {r \in Rooms : creator[r] # NoOne}
IsTicketRoom(r) == about[r] # NoOne
IsIdle == main = Idle

-----------------------------------------------------------------------------
(* What people do.                                                         *)

\* A room is made with some people inside or invited.  The first sync that
\* brings the room has them as its state; what comes later is its timeline.
Make(r, by, user, people) ==
  /\ r \notin Made
  /\ creator' = [creator EXCEPT ![r] = by]
  /\ about' = [about EXCEPT ![r] = user]
  /\ inside' = [inside EXCEPT ![r] = people]
  /\ been' = [been EXCEPT ![r] = people]
  /\ seen' = [seen EXCEPT ![r] = people]
  /\ UNCHANGED <<known, said>>

Happened(r, kind, who, by) ==
  /\ Len(feed[r]) < MaxFeed
  /\ feed' = [feed EXCEPT ![r] = Append(@, [kind |-> kind, who |-> who, by |-> by])]

\* A user invites the bot, which joins.
UserMakes(u, r) ==
  /\ Make(r, u, NoOne, {u})
  /\ UNCHANGED <<feed, roomOf, main>>

\* A ticket of user u is raised, or a chat started, and staff are in its room.
TicketMade(u, r, people) ==
  /\ people # {} /\ people \subseteq Staff
  /\ Make(r, Bot, u, people)
  /\ UNCHANGED <<feed, roomOf, main>>

Writes(p, r) ==
  /\ p \in inside[r]
  /\ Happened(r, "message", p, p)
  /\ UNCHANGED <<creator, about, inside, been, client, roomOf, main>>

Leaves(p, r) ==
  /\ p \in inside[r]
  /\ main.room = r => "early leave" \in world
  /\ inside' = [inside EXCEPT ![r] = @ \ {p}]
  /\ Happened(r, "leave", p, p)
  /\ UNCHANGED <<creator, about, been, client, roomOf, main>>

\* Whoever made a room may kick others from it; the bot does so in ticket rooms.
Kicked(p, by, r) ==
  /\ "kick" \in world
  /\ p \in inside[r] /\ by = creator[r] /\ by # p
  /\ IF by = Bot THEN IsTicketRoom(r) ELSE by \in inside[r]
  /\ inside' = [inside EXCEPT ![r] = @ \ {p}]
  /\ Happened(r, "leave", p, by)
  /\ UNCHANGED <<creator, about, been, client, roomOf, main>>

Invited(p, by, r) ==
  /\ "invite" \in world
  /\ p \notin inside[r] /\ by \in inside[r]
  /\ inside' = [inside EXCEPT ![r] = @ \cup {p}]
  /\ been' = [been EXCEPT ![r] = @ \cup {p}]
  /\ Happened(r, "invite", p, by)
  /\ UNCHANGED <<creator, about, client, roomOf, main>>

-----------------------------------------------------------------------------
(* The callbacks.                                                          *)

\* The client knows a room from the first sync after it was made; while main
\* syncs a room it has just made, only of that one.
MayDeliver(r) == r \in Made /\ (IsIdle \/ main.room = r)

Learn(r) ==
  /\ MayDeliver(r) /\ r \notin known
  /\ known' = known \cup {r}
  /\ UNCHANGED <<server, seen, said, roomOf, main>>

\* Mutant: any room with one other member.
PrivateOfAnyone(u) == {r \in known : Cardinality(seen[r]) = 1}

\* find_private_msg: a room with the bot and the user alone.  The loop takes the
\* first of client.rooms, which may be any.
Private(u) == {r \in known : seen[r] = {u}}

Deliver(r) ==
  /\ MayDeliver(r) /\ r \in known /\ feed[r] # <<>>
  /\ feed' = [feed EXCEPT ![r] = Tail(@)]

\* setup_relay: whoever writes outside the ticket rooms is a user.  A message that was saved
\* or queued may be handled again.
RelayFromUser(r) ==
  LET u == Head(feed[r]).who
  IN  /\ Deliver(r) /\ Head(feed[r]).kind = "message"
      /\ ~IsTicketRoom(r)
      /\ roomOf' = [roomOf EXCEPT ![u] = r]
      /\ said' = IF "replay" \in world THEN said \cup {<<u, r>>} ELSE said
      /\ UNCHANGED <<creator, about, inside, been, known, seen, main>>

Replayed(u, r) ==
  /\ IsIdle /\ <<u, r>> \in said /\ r \in known
  /\ roomOf' = [roomOf EXCEPT ![u] = r]
  /\ UNCHANGED <<server, client, main>>

\* find_communications_room, of what staff have written in the room of a ticket.
\* Nothing changes if the user has a room, the ticket is not current, or the
\* homeserver refuses a new room.
AnswerTo(r) ==
  LET u == about[r]
  IN  /\ Deliver(r) /\ Head(feed[r]).kind = "message"
      /\ IsTicketRoom(r)
      /\ \/ UNCHANGED roomOf
         \/ /\ roomOf[u] = NoRoom
            /\ \E x \in Private(u) : roomOf' = [roomOf EXCEPT ![u] = x]
      /\ UNCHANGED <<creator, about, inside, been, client, main>>

\* setup_communications_room: the new room is synced before the row is written.
AnswerMakes(r, new) ==
  LET u == about[r]
  IN  /\ IsIdle
      /\ Deliver(r) /\ Head(feed[r]).kind = "message"
      /\ IsTicketRoom(r) /\ roomOf[u] = NoRoom /\ Private(u) = {}
      /\ Make(new, Bot, NoOne, {u})
      /\ main' = [user |-> u, room |-> new]
      /\ UNCHANGED roomOf

Synced ==
  /\ ~IsIdle
  /\ roomOf' = [roomOf EXCEPT ![main.user] = main.room]
  /\ main' = Idle
  /\ UNCHANGED <<server, client>>

\* `!setupcommunicationsroom`, which does not sync.
Setup(u, new) ==
  /\ IsIdle
  /\ \/ /\ \E r \in Private(u) : roomOf' = [roomOf EXCEPT ![u] = r]
        /\ UNCHANGED <<server, client>>
     \/ /\ Private(u) = {}
        /\ Make(new, Bot, NoOne, {u})
        /\ roomOf' = [roomOf EXCEPT ![u] = new]
        /\ UNCHANGED feed
  /\ UNCHANGED main

\* Mutant: the row is kept.
MemberLeftKeeps(r) ==
  LET e == Head(feed[r])
  IN  /\ Deliver(r) /\ e.kind = "leave"
      /\ seen' = [seen EXCEPT ![r] = @ \ {e.who}]
      /\ UNCHANGED <<creator, about, inside, been, known, said, roomOf, main>>

\* member, of one who has left: it is the row of the sender that is looked up,
\* also when the sender has kicked someone.
MemberLeft(r) ==
  LET e == Head(feed[r])
  IN  /\ Deliver(r) /\ e.kind = "leave"
      /\ seen' = [seen EXCEPT ![r] = @ \ {e.who}]
      /\ roomOf' = [p \in DOMAIN roomOf |->
                      IF p = e.by /\ roomOf[p] = r THEN NoRoom ELSE roomOf[p]]
      /\ UNCHANGED <<creator, about, inside, been, known, said, main>>

\* member, of an invitation: the room becomes that of whoever has made it, who
\* gets a row if there is none.
MemberInvited(r) ==
  LET e == Head(feed[r])
  IN  /\ Deliver(r) /\ e.kind = "invite"
      /\ seen' = [seen EXCEPT ![r] = @ \cup {e.who}]
      /\ roomOf' = [p \in DOMAIN roomOf |->
                      IF p = creator[r] THEN r ELSE roomOf[p]]
      /\ UNCHANGED <<creator, about, inside, been, known, said, main>>

\* The process ends, and starts with a full sync.  The token of a sync is stored
\* before its events are handled, so that they may be lost, of some rooms.
Crash ==
  /\ "crash" \in world
  /\ \E lost \in SUBSET Rooms :
       /\ feed' = [r \in Rooms |-> IF r \in lost THEN <<>> ELSE feed[r]]
       /\ seen' = [r \in Rooms |-> IF r \in lost THEN inside[r] ELSE seen[r]]
  /\ known' = {} /\ main' = Idle
  /\ UNCHANGED <<creator, about, inside, been, said, roomOf>>

-----------------------------------------------------------------------------
Happening ==
  \/ \E u \in Users, r \in Rooms : UserMakes(u, r)
  \/ \E u \in Users, r \in Rooms, people \in SUBSET Staff : TicketMade(u, r, people)
  \/ \E p \in People, r \in Rooms : Writes(p, r) \/ Leaves(p, r)
  \/ \E p \in People, by \in People \cup {Bot}, r \in Rooms :
       Kicked(p, by, r) \/ Invited(p, by, r)

Handling(r) ==
  \/ RelayFromUser(r) \/ AnswerTo(r) \/ MemberLeft(r) \/ MemberInvited(r)
  \/ \E new \in Rooms : AnswerMakes(r, new)

Step ==
  \/ Happening
  \/ \E r \in Rooms : Learn(r) \/ Handling(r)
  \/ Synced
  \/ \E p \in People, r \in Rooms : Replayed(p, r)
  \/ \E u \in Users, r \in Rooms : Setup(u, r)
  \/ Crash

Next == Step /\ UNCHANGED world

Spec == Init /\ [][Next]_vars

\* The sync brings every room and every event of it at last, and is answered.
Fairness ==
  /\ WF_state(Synced)
  /\ \A r \in Rooms : WF_state(Learn(r)) /\ SF_state(Handling(r))
FairSpec == Spec /\ Fairness

-----------------------------------------------------------------------------
(* Properties.                                                             *)

Calm == world = {}

\* A user's communications room is one the user is in, or the bot is still to
\* hear that the user has left it (member, setup_relay, find_private_msg): as long
\* as people do no more than write and leave.
InsideOrUnheard ==
  \A u \in People : roomOf[u] # NoRoom =>
    \/ u \in inside[roomOf[u]]
    \/ \E i \in DOMAIN feed[roomOf[u]] :
         LET e == feed[roomOf[u]][i] IN e.kind = "leave" /\ e.who = u
InsideOrLeaving == Calm => InsideOrUnheard

\* What is meant for a user never goes to a room in which the user has never
\* been, whoever is kicked, invited or crashes.
EverInside ==
  \A u \in People : roomOf[u] # NoRoom => u \in been[roomOf[u]]

\* The bot does not go on answering to a room that its user has left, as long as
\* people do no more than write and leave.
Forgotten ==
  \A u \in People, r \in Rooms :
    Calm /\ roomOf[u] = r /\ u \notin inside[r] ~> roomOf[u] # r

\* "Find if we already have a common room with user (Which is not a ticket
\* room)": a communications room is not the room of a ticket.
NoTicketRoom ==
  \A u \in People : roomOf[u] # NoRoom => ~IsTicketRoom(roomOf[u])
=============================================================================
