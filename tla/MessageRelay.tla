---------------------------- MODULE MessageRelay ----------------------------
(***************************************************************************)
(* Where a user's messages go, and where staff's answers go.  A message a  *)
(* user writes to the bot is relayed to the room of the user's current     *)
(* ticket, else of the current chat, else to the management room; what the *)
(* management room gets is also saved, and copied to the room of the       *)
(* ticket that staff raise for the user.  For an unknown room a message    *)
(* gets a task, which handles it again from the start when the room is     *)
(* known (RelayQueue has the details of the queue).  Nothing takes a task  *)
(* back: a message may have several, and rows in IncomingEvents besides.   *)
(*                                                                         *)
(* TicketDesk and ChatDesk have the details of tickets and chats, and      *)
(* CommunicationsRoom has what a message does to the room for the answers. *)
(* Main is the sync loop, which handles one thing after another; gRPC      *)
(* calls close and reopen tickets while it awaits.                         *)
(***************************************************************************)
EXTENDS Naturals, Sequences, FiniteSets

CONSTANTS
  Users,       \* rows of Users
  NoUser,
  Messages,    \* events that users write
  Others,      \* redactions and calls among them: neither texts nor media
  NoMessage,
  MaxTickets,  \* bound: tickets ever raised
  Management, ChatRoom, Nowhere,  \* destinations besides the ticket rooms
  Worlds       \* what happens beside messages and tickets, one of several sets

ASSUME MessageRelayAssumption ==
  /\ NoUser \notin Users /\ NoMessage \notin Messages /\ Others \subseteq Messages
  /\ Management \notin Nat /\ ChatRoom \notin Nat /\ Management # ChatRoom
  /\ Nowhere \notin Nat \cup {Management, ChatRoom}
  /\ MaxTickets \in Nat
  /\ Worlds \subseteq SUBSET {"chats", "grpc", "failure", "disconnect", "midcrash"}

Tickets == 1..MaxTickets
NoTicket == 0
Places == Tickets \cup {Management, ChatRoom}

\* A room the bot has created becomes known with a sync.
Room == {"none", "unknown", "known"}

\* What Main does: relay a message to a place; and for a ticket it has raised,
\* create the room and copy the saved rows that are still to do.
Work == [at : {"idle", "creating", "copying", "fetching", "relaying"},
         msg : Messages \cup {NoMessage}, to : Places \cup {Nowhere},
         ticket : Tickets \cup {NoTicket}, todo : [Messages -> Nat]]
Idle == [at |-> "idle", msg |-> NoMessage, to |-> Nowhere, ticket |-> NoTicket,
         todo |-> [m \in Messages |-> 0]]

VARIABLES
  world,    \* what happens in this behaviour; it never changes
  status,   \* Tickets.status
  owner,    \* Tickets.user_id
  room,     \* Tickets.ticket_room_id, and whether the client knows it
  current,  \* Users.current_ticket_id
  chat,     \* Users.current_chat_room_id, and whether the client knows it
  writer,   \* who wrote each message
  saved,    \* IncomingEvents: the number of rows each message has
  waiting,  \* rooms_pending: the number of tasks a message has for a place
  sent,     \* the places each message was sent to, its clones, in their order
  pairs,    \* EventPairs: a row <<m, n>> ties m to its n-th clone
  main      \* what Main does

desk == <<status, owner, room, current, chat>>
events == <<writer, saved, waiting, pairs, sent>>
state == <<desk, events, main>>
vars == <<world, state>>

\* Do staff open chats?  Do gRPC calls close and reopen tickets?  May requests
\* fail, rooms stay unknown, and the process crash at an await?  May it crash
\* between two rows too?  May the connection be lost?
Chats == "chats" \in world
GrpcActs == "grpc" \in world
MayFail == "failure" \in world
MidCrash == MayFail /\ "midcrash" \in world
Disconnects == "disconnect" \in world

TypeOK ==
  /\ world \in Worlds
  /\ status \in [Tickets -> {"none", "open", "closed"}]
  /\ owner \in [Tickets -> Users \cup {NoUser}]
  /\ room \in [Tickets -> Room] /\ chat \in [Users -> Room]
  /\ current \in [Users -> Tickets \cup {NoTicket}]
  /\ writer \in [Messages -> Users \cup {NoUser}]
  /\ saved \in [Messages -> Nat] /\ waiting \in [Messages -> [Places -> Nat]]
  /\ sent \in [Messages -> Seq(Places)] /\ pairs \subseteq Messages \X Nat
  /\ main \in Work

Init ==
  /\ world \in Worlds
  /\ status = [t \in Tickets |-> "none"] /\ owner = [t \in Tickets |-> NoUser]
  /\ room = [t \in Tickets |-> "none"] /\ chat = [u \in Users |-> "none"]
  /\ current = [u \in Users |-> NoTicket]
  /\ writer = [m \in Messages |-> NoUser]
  /\ saved = [m \in Messages |-> 0] /\ waiting = [m \in Messages |-> [p \in Places |-> 0]]
  /\ sent = [m \in Messages |-> <<>>] /\ pairs = {}
  /\ main = Idle

IsIdle == main.at = "idle"

\* The process has ended: the rows stay, the queue is lost, and the client learns
\* the rooms again.
Restarted ==
  /\ waiting' = [m \in Messages |-> [p \in Places |-> 0]]
  /\ room' = [t \in Tickets |-> IF room[t] = "none" THEN "none" ELSE "unknown"]
  /\ chat' = [u \in Users |-> IF chat[u] = "none" THEN "none" ELSE "unknown"]
  /\ main' = Idle

-----------------------------------------------------------------------------
(* A message of a user.                                                    *)

\* setup_relay
Route(u) ==
  IF current[u] # NoTicket THEN current[u]
  ELSE IF chat[u] # "none" THEN ChatRoom
  ELSE Management

\* Does the client know the room?
Reachable(u, p) ==
  CASE p \in Tickets -> room[p] = "known"
    [] p = ChatRoom -> chat[u] = "known"
    [] OTHER -> TRUE

\* relay_from_user, up to the await of the request that sends the message: one for
\* the management room gets a row, and one for an unknown room a task besides those
\* there are.  Main then goes on with work.
RelayFromUser(m, u, tasks, work) ==
  LET p == Route(u)
  IN  /\ saved' = [saved EXCEPT ![m] = IF p = Management THEN @ + 1 ELSE @]
      /\ IF Reachable(u, p)
         THEN /\ main' = [work EXCEPT !.at = "relaying", !.msg = m, !.to = p]
              /\ waiting' = tasks
         ELSE /\ main' = work
              /\ waiting' = [tasks EXCEPT ![m][p] = @ + 1]

Write(m, u) ==
  /\ IsIdle
  /\ writer[m] = NoUser
  /\ writer' = [writer EXCEPT ![m] = u]
  /\ RelayFromUser(m, u, waiting, Idle)
  /\ UNCHANGED <<desk, pairs, sent>>

\* After a message: the next one to copy, or nothing.
Resumed ==
  IF main.ticket = NoTicket
  THEN Idle
  ELSE [main EXCEPT !.at = "copying", !.msg = NoMessage, !.to = Nowhere]

\* The homeserver took the message, and the pair is stored; a redaction or a call
\* has none.  The process may end in between, or the answer be lost.
Relayed ==
  /\ main.at = "relaying"
  /\ sent' = [sent EXCEPT ![main.msg] = Append(@, main.to)]
  /\ \/ /\ main.msg \notin Others
        /\ pairs' = pairs \cup {<<main.msg, Len(sent[main.msg]) + 1>>}
     \/ /\ main.msg \in Others \/ MayFail \/ Disconnects
        /\ UNCHANGED pairs
  /\ main' = Resumed
  /\ UNCHANGED <<desk, writer, saved, waiting>>

\* The homeserver refuses.  What a redaction redacts may have no clone, and the
\* management room hears of few calls.
RelayFailed ==
  /\ main.at = "relaying"
  /\ MayFail \/ main.msg \in Others
  /\ main' = Resumed
  /\ UNCHANGED <<desk, events>>

\* Mutant: a task stays in the queue.
WithoutNone(m, p) == waiting

\* The tasks without one of those that the message has for the place.
Without(m, p) == [waiting EXCEPT ![m][p] = @ - 1]

\* The room a task is for is known: the message is handled again.
Replay(m, p) ==
  /\ IsIdle
  /\ waiting[m][p] > 0 /\ Reachable(writer[m], p)
  /\ RelayFromUser(m, writer[m], Without(m, p), Idle)
  /\ UNCHANGED <<desk, writer, pairs, sent>>

\* 300 seconds have passed.
Expire(m, p) ==
  /\ MayFail /\ IsIdle
  /\ waiting[m][p] > 0 /\ ~Reachable(writer[m], p)
  /\ waiting' = Without(m, p)
  /\ UNCHANGED <<desk, writer, saved, pairs, sent, main>>

-----------------------------------------------------------------------------
(* Raising a ticket.                                                       *)

Unused(t) == status[t] = "none" /\ \A s \in Tickets : s < t => status[s] # "none"

Raise(u, t) ==
  /\ IsIdle /\ Unused(t)
  /\ status' = [status EXCEPT ![t] = "open"]
  /\ owner' = [owner EXCEPT ![t] = u]
  /\ current' = [current EXCEPT ![u] = t]
  /\ main' = [Idle EXCEPT !.at = "creating", !.ticket = t]
  /\ UNCHANGED <<room, chat, events>>

\* Between the row of the ticket and that of the user.
CrashInRaise(u, t) ==
  /\ MidCrash /\ IsIdle /\ Unused(t)
  /\ status' = [status EXCEPT ![t] = "open"]
  /\ owner' = [owner EXCEPT ![t] = u]
  /\ Restarted
  /\ UNCHANGED <<current, writer, saved, pairs, sent>>

\* Mutant: the saved messages are not read.
RoomCreatedReadsNothing ==
  /\ main.at = "creating"
  /\ \E r \in {"unknown", "known"} : room' = [room EXCEPT ![main.ticket] = r]
  /\ main' = [main EXCEPT !.at = "copying"]
  /\ UNCHANGED <<status, owner, current, chat, events>>

\* The room is there, and _copy_incoming_events reads what is saved.
RoomCreated ==
  /\ main.at = "creating"
  /\ \E r \in {"unknown", "known"} : room' = [room EXCEPT ![main.ticket] = r]
  /\ main' = [main EXCEPT !.at = "copying",
                          !.todo = [m \in Messages |->
                            IF writer[m] = owner[main.ticket] THEN saved[m] ELSE 0]]
  /\ UNCHANGED <<status, owner, current, chat, events>>

RoomRefused ==
  /\ MayFail
  /\ main.at = "creating"
  /\ main' = Idle
  /\ UNCHANGED <<desk, events>>

\* Mutant: the pairs stay.
CopyNextKeepsPairs(m) ==
  /\ main.at = "copying" /\ main.todo[m] > 0
  /\ main' = [main EXCEPT !.at = "fetching", !.msg = m, !.todo[m] = @ - 1]
  /\ UNCHANGED <<desk, writer, saved, waiting, pairs, sent>>

\* The pairs of the message are deleted, and the event is fetched again.
CopyNext(m) ==
  /\ main.at = "copying" /\ main.todo[m] > 0
  /\ pairs' = {x \in pairs : x[1] # m}
  /\ main' = [main EXCEPT !.at = "fetching", !.msg = m, !.todo[m] = @ - 1]
  /\ UNCHANGED <<desk, writer, saved, waiting, sent>>

\* A redaction or a call is left out.  If the client knows the room, another
\* event is handled like a new one, else it gets a task for the room.
Fetched ==
  LET m == main.msg
      t == main.ticket
  IN  /\ main.at = "fetching"
      /\ \/ /\ m \in Others
            /\ main' = Resumed
            /\ UNCHANGED <<events>>
         \/ /\ m \notin Others /\ room[t] = "known"
            /\ RelayFromUser(m, writer[m], waiting, Resumed)
            /\ UNCHANGED <<writer, pairs, sent>>
         \/ /\ m \notin Others /\ room[t] # "known"
            /\ waiting' = [waiting EXCEPT ![m][t] = @ + 1]
            /\ main' = Resumed
            /\ UNCHANGED <<writer, saved, pairs, sent>>
      /\ UNCHANGED desk

FetchFailed ==
  /\ MayFail
  /\ main.at = "fetching"
  /\ main' = Resumed
  /\ UNCHANGED <<desk, events>>

\* Everything that is saved of the user is deleted.
CopyDone ==
  /\ main.at = "copying" /\ \A m \in Messages : main.todo[m] = 0
  /\ saved' = [m \in Messages |-> IF writer[m] = owner[main.ticket] THEN 0 ELSE saved[m]]
  /\ main' = Idle
  /\ UNCHANGED <<desk, writer, waiting, pairs, sent>>

-----------------------------------------------------------------------------
(* Tickets, chats and rooms.                                               *)

\* What the commands ask before they change anything.
Closable(t) == status[t] = "open"
Reopenable(t) == status[t] = "closed" /\ current[owner[t]] = NoTicket

\* Mutant: the user's current ticket stays.
CloseKeepsCurrent(t) ==
  /\ IsIdle \/ GrpcActs
  /\ Closable(t)
  /\ status' = [status EXCEPT ![t] = "closed"]
  /\ UNCHANGED <<owner, room, current, chat, events, main>>

Close(t) ==
  /\ IsIdle \/ GrpcActs
  /\ Closable(t)
  /\ status' = [status EXCEPT ![t] = "closed"]
  /\ current' = [current EXCEPT ![owner[t]] = IF @ = t THEN NoTicket ELSE @]
  /\ UNCHANGED <<owner, room, chat, events, main>>

\* Mutant: the update of Users names no user.
ReopenForAll(t) ==
  /\ IsIdle \/ GrpcActs
  /\ Reopenable(t)
  /\ status' = [status EXCEPT ![t] = "open"]
  /\ current' = [u \in Users |-> t]
  /\ UNCHANGED <<owner, room, chat, events, main>>

Reopen(t) ==
  /\ IsIdle \/ GrpcActs
  /\ Reopenable(t)
  /\ status' = [status EXCEPT ![t] = "open"]
  /\ current' = [current EXCEPT ![owner[t]] = t]
  /\ UNCHANGED <<owner, room, chat, events, main>>

\* Between the status and the user's current ticket.
CrashInCommand(t) ==
  /\ MidCrash /\ (IsIdle \/ GrpcActs)
  /\ \/ Closable(t) /\ status' = [status EXCEPT ![t] = "closed"]
     \/ Reopenable(t) /\ status' = [status EXCEPT ![t] = "open"]
  /\ Restarted
  /\ UNCHANGED <<owner, current, writer, saved, pairs, sent>>

OpenChat(u) ==
  /\ Chats /\ IsIdle
  /\ chat[u] = "none"
  /\ chat' = [chat EXCEPT ![u] = "unknown"]
  /\ UNCHANGED <<status, owner, room, current, events, main>>

CloseChat(u) ==
  /\ IsIdle
  /\ chat[u] # "none"
  /\ chat' = [chat EXCEPT ![u] = "none"]
  /\ UNCHANGED <<status, owner, room, current, events, main>>

\* A sync brings the state of a room the bot has created.
Learn ==
  /\ IsIdle
  /\ \/ \E t \in Tickets : room[t] = "unknown" /\ room' = [room EXCEPT ![t] = "known"]
                           /\ UNCHANGED chat
     \/ \E u \in Users : chat[u] = "unknown" /\ chat' = [chat EXCEPT ![u] = "known"]
                         /\ UNCHANGED room
  /\ UNCHANGED <<status, owner, current, events, main>>

\* The connection is lost in a request.  The exception ends what Main does, and
\* the loop logs in again with all it remembers; what waits goes on waiting.
Disconnect ==
  /\ Disconnects /\ ~IsIdle
  /\ main' = Idle
  /\ UNCHANGED <<desk, events>>

Crash ==
  /\ MayFail
  /\ Restarted
  /\ UNCHANGED <<status, owner, current, writer, saved, pairs, sent>>

-----------------------------------------------------------------------------
Copying ==
  \/ RoomCreated \/ RoomRefused
  \/ \E m \in Messages : CopyNext(m)
  \/ Fetched \/ FetchFailed \/ CopyDone

Step ==
  \/ \E m \in Messages, u \in Users : Write(m, u)
  \/ Relayed \/ RelayFailed
  \/ \E m \in Messages, p \in Places : Replay(m, p) \/ Expire(m, p)
  \/ \E u \in Users, t \in Tickets : Raise(u, t) \/ CrashInRaise(u, t)
  \/ Copying
  \/ \E t \in Tickets : Close(t) \/ Reopen(t) \/ CrashInCommand(t)
  \/ \E u \in Users : OpenChat(u) \/ CloseChat(u)
  \/ Learn
  \/ Disconnect
  \/ Crash

Next == Step /\ UNCHANGED world

Spec == Init /\ [][Next]_vars

-----------------------------------------------------------------------------
(* Properties.                                                             *)

\* A ticket room only ever sees messages of the user the ticket was raised
\* for, whatever closes, reopens, fails, is lost or crashes while a message is on
\* its way.
OwnTicketOnly ==
  \A m \in Messages : \A n \in DOMAIN sent[m] :
    sent[m][n] \in Tickets => owner[sent[m][n]] = writer[m]

\* "Delete old paired events to prevent original message being tied to different
\* clones" (_copy_incoming_events): a message has one clone at most to which
\* replies, edits and redactions apply, for EventPair.get_event_pair takes any
\* row it finds.
TiedOnce == \A x, y \in pairs : x[1] = y[1] => x = y

\* A copy comes to its end, and deletes the rows it has read, or the process ends
\* and the tasks are lost; and no gRPC call has the rows saved again that a crash
\* leaves.
CopiesEnd == ~Disconnects /\ ~(GrpcActs /\ MayFail)
OnePair == CopiesEnd => TiedOnce

\* A text or media that only the management room has seen is saved for the
\* ticket that will be raised, or waits for a room: while staff commands come one
\* by one and nothing fails.
Kept ==
  IsIdle => \A m \in Messages \ Others : writer[m] # NoUser =>
    \/ saved[m] > 0
    \/ \E p \in Places : waiting[m][p] > 0
    \/ \E n \in DOMAIN sent[m] : sent[m][n] # Management
KeptForTicket == ~GrpcActs /\ ~MayFail /\ ~Disconnects => Kept

\* "Closes the ticket ... (no longer transmits communications to the ticket
\* room)": what is sent to a ticket room is sent while the ticket is open, whatever
\* fails, is lost or crashes at an await, as long as tickets are closed by
\* commands.
SentWhileOpen ==
  \A m \in Messages :
    LET n == Len(sent[m]) + 1
    IN  n \in DOMAIN sent'[m] /\ sent'[m][n] \in Tickets => status[sent'[m][n]] = "open"
SentToOpenTicket == [][~GrpcActs /\ ~MidCrash => SentWhileOpen]_vars

\* What staff see of a message, and what its pair leads to, as RelayContract has
\* it: queues, copies, failures and restarts are hidden.
Shown == {x \in Messages \X Places : \E n \in DOMAIN sent[x[1]] : sent[x[1]][n] = x[2]}

Link(m) ==
  IF \E n \in DOMAIN sent[m] : <<m, n>> \in pairs
  THEN sent[m][CHOOSE n \in DOMAIN sent[m] : <<m, n>> \in pairs] ELSE Nowhere

Contract == INSTANCE RelayContract WITH
  Elsewhere <- {Management, ChatRoom},
  writer <- [m \in Messages |-> IF CopiesEnd THEN writer[m] ELSE NoUser],
  owner <- [t \in Tickets |-> IF CopiesEnd THEN owner[t] ELSE NoUser],
  shown <- IF CopiesEnd THEN Shown ELSE {},
  link <- [m \in Messages |-> IF CopiesEnd THEN Link(m) ELSE Nowhere]

\* The relay implements the contract, whatever closes, reopens, fails or crashes
\* while messages wait, are on their way or are copied.
ImplementsContract == Contract!Spec

\* May staff write to the user from the room? (handle_ticket_message,
\* handle_chat_message)
MayAnswer(u, p) ==
  CASE p \in Tickets ->
         owner[p] = u /\ status[p] # "closed" /\ current[u] = p /\ chat[u] = "none"
    [] p = ChatRoom -> chat[u] # "none" /\ current[u] = NoTicket
    [] OTHER -> FALSE

\* The room that gets a user's messages is one from which staff can answer.
AnswerWhereAsked ==
  \A u \in Users : Route(u) # Management => MayAnswer(u, Route(u))
=============================================================================
