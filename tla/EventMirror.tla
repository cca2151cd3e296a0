----------------------------- MODULE EventMirror -----------------------------
(***************************************************************************)
(* What is written in one room and its clones in others: texts, media,     *)
(* replies, edits and redactions.  EventPairs links an event to its clone, *)
(* so that a reply, an edit or a redaction of the one is sent as a reply,  *)
(* an edit or a redaction of the other; the table messages links what the  *)
(* management room sees to where `!reply` sends the answer.                *)
(*                                                                         *)
(* The rooms' timelines are one sequence, log, whose positions are the     *)
(* event ids.  People append to it at any time; the sync loop handles the  *)
(* events of each room in their order, one after another.  Communications  *)
(* rooms, tickets and the queue are as in MessageRelay, which has more of  *)
(* their failures; a chat room is relayed like the room of a ticket.       *)
(***************************************************************************)
EXTENDS Integers, Sequences, FiniteSets

CONSTANTS
  Users,
  MaxTickets,   \* bound: tickets ever raised
  MaxChannels,  \* bound: direct rooms of a user with the bot
  MaxPosts,     \* bound: events written by people
  MaxCalmPosts, \* the same where nothing goes wrong
  Desk,         \* the support team, whose rooms are numbered like the tickets
  Worlds        \* what happens beside texts in a behaviour, one of several sets

ASSUME EventMirrorAssumption ==
  /\ MaxTickets \in Nat /\ MaxChannels \in Nat \ {0}
  /\ MaxPosts \in Nat /\ MaxCalmPosts \in Nat /\ MaxPosts <= MaxCalmPosts
  /\ Desk \notin Users
  /\ Worlds \subseteq
       SUBSET {"disorder", "late room", "slow room", "second ticket", "close",
               "failure", "second room", "media"}

Tickets == 1..MaxTickets
NoTicket == 0
Channels == Users \X (1..MaxChannels)
UserOf(c) == c[1]

\* The management room, and the room of each ticket.
Management == <<Desk, 0>>
TicketRoom(t) == <<Desk, t>>
TicketOf(p) == p[2]
TicketRooms == {TicketRoom(t) : t \in Tickets}
Places == Channels \cup TicketRooms \cup {Management}

\* An event: "answer" is a message of staff that begins with !reply.  `ref` is
\* what it replies to, edits or redacts; `from` is the event a clone of the
\* bot was made of.  No event has the id 0.
Event == [room : Places, by : {"user", "staff", "bot"},
          kind : {"text", "media", "answer"},
          rel : {"none", "reply", "edit", "redaction"},
          ref : Nat, from : Nat]

\* A request under way: the clone of `ev` to be sent, with its reference.
Request == [ev : Nat, kind : {"text", "media"}, to : Places, ref : Nat]
NoRequest == [ev |-> 0, kind |-> "text", to |-> Management, ref |-> 0]

\* What the sync loop does besides that: it copies the saved events that are
\* to do to a ticket's room, or drains the queue of the room.
Work == [stage : {"idle", "copying", "draining"}, ticket : Tickets \cup {NoTicket},
         todo : SUBSET Nat, out : Request]
Idle == [stage |-> "idle", ticket |-> NoTicket, todo |-> {}, out |-> NoRequest]

\* A queued event, and whether it will be handled as a text or as media.
Task == [ev : Nat, kind : {"text", "media"}]
Row == [event : Nat, management : Nat, room : Places]

VARIABLES
  world,     \* what happens in this behaviour; it never changes
  log,       \* the events of all rooms
  gone,      \* the events that are redacted
  handled,   \* the events of people that were handled
  pairs,     \* EventPairs: <<event, clone>>
  messages,  \* the table messages
  saved,     \* IncomingEvents
  queue,     \* rooms_pending of the ticket rooms
  known,     \* the ticket rooms the client knows
  encrypted, \* client.encrypted_rooms, which the client stores
  status,    \* Tickets.status
  owner,     \* Tickets.user_id
  current,   \* Users.current_ticket_id
  dm,        \* Users.room_id
  main       \* what the sync loop does

server == <<log, gone>>
rows == <<pairs, messages, saved>>
desk == <<status, owner, current>>
state == <<server, handled, rows, queue, known, encrypted, desk, dm, main>>
vars == <<world, state>>

\* Does the SELECT of the saved events keep their order?  Does the client know a
\* new ticket room at once, or may that take 300 seconds and more, and the room be
\* without encryption?  Are tickets closed and reopened?  May requests fail, and
\* the process crash?  What do users send, and where?
Ordered == "disorder" \notin world
Prompt == "late room" \notin world
Slow == "slow room" \in world
Closes == "close" \in world
MayFail == "failure" \in world
Kinds == {"text"} \cup ({"media"} \cap world)
RoomsOf(u) == {<<u, n>> : n \in IF "second room" \in world THEN 1..MaxChannels ELSE {1}}
Calm == world \subseteq {"second room"}

TypeOK ==
  /\ world \in Worlds
  /\ log \in Seq(Event)
  /\ gone \subseteq 1..Len(log) /\ handled \subseteq 1..Len(log)
  /\ pairs \subseteq Nat \X Nat /\ messages \subseteq Row /\ saved \subseteq Nat
  /\ queue \in [Tickets -> Seq(Task)]
  /\ known \subseteq Tickets /\ encrypted \subseteq Tickets
  /\ status \in [Tickets -> {"none", "open", "closed"}]
  /\ owner \in [Tickets -> Users \cup {Desk}]
  /\ current \in [Users -> Tickets \cup {NoTicket}]
  /\ dm \in [Users -> Channels]
  /\ main \in Work

Init ==
  /\ world \in Worlds
  /\ log = <<>> /\ gone = {} /\ handled = {}
  /\ pairs = {} /\ messages = {} /\ saved = {}
  /\ queue = [t \in Tickets |-> <<>>] /\ known = {} /\ encrypted = {}
  /\ status = [t \in Tickets |-> "none"] /\ owner = [t \in Tickets |-> Desk]
  /\ current = [u \in Users |-> NoTicket]
  /\ dm = [u \in Users |-> <<u, 1>>]
  /\ main = Idle

Ids == 1..Len(log)
Posts == {e \in Ids : log[e].by # "bot"}
IsClone(x) == log[x].by = "bot"
IsRedaction(e) == log[e].rel = "redaction"
IsIdle == main = Idle
NoRequestOut == main.out = NoRequest

-----------------------------------------------------------------------------
(* What people write.                                                      *)

\* The ids that events of people may have, a bound that is never reached: each of
\* the posts before is cloned when it is handled and in each copy.
MessageIds == 1..((MaxCalmPosts - 1) * (2 + MaxTickets) + 1)

\* May the event be the target?  People edit and redact what they wrote
\* themselves, and reply to anything in the room.
Refers(by, room, rel, ref) ==
  CASE rel = "none" -> ref = 0
    [] rel = "reply" -> ref \in Ids /\ log[ref].room = room
    [] OTHER -> /\ ref \in Ids \ gone
                /\ log[ref].room = room /\ log[ref].by = by
                /\ log[ref].rel \in {"none", "reply"}

\* An event reaches the homeserver, which applies a redaction at once.
Post(by, room, kind, rel, ref) ==
  /\ Cardinality(Posts) < IF Calm THEN MaxCalmPosts ELSE MaxPosts
  /\ Len(log) + 1 \in MessageIds
  /\ Refers(by, room, rel, ref)
  /\ log' = Append(log, [room |-> room, by |-> by, kind |-> kind, rel |-> rel,
                         ref |-> ref, from |-> 0])
  /\ gone' = IF rel = "redaction" THEN gone \cup {ref} ELSE gone
  /\ UNCHANGED <<handled, rows, queue, known, encrypted, desk, dm, main>>

UserPosts(c) ==
  \/ \E kind \in Kinds : Post("user", c, kind, "none", 0)
  \/ \E rel \in {"reply", "edit", "redaction"}, ref \in Ids :
       /\ log[ref].kind = "text" \/ rel # "edit"
       /\ Post("user", c, "text", rel, ref)

StaffPosts(t) ==
  /\ status[t] # "none"
  /\ \/ Post("staff", TicketRoom(t), "text", "none", 0)
     \/ \E rel \in {"reply", "edit", "redaction"}, ref \in Ids :
          Post("staff", TicketRoom(t), "text", rel, ref)

\* Staff answer what the bot has relayed, or edit an answer.
StaffAnswers ==
  \E ref \in Ids :
    \/ IsClone(ref) /\ Post("staff", Management, "answer", "reply", ref)
    \/ Post("staff", Management, "answer", "edit", ref)

-----------------------------------------------------------------------------
(* Relaying an event.                                                      *)

\* get_related: a pair of the event, as its clone if the bot has sent it; the
\* query takes any row.
Counterparts(r) ==
  IF IsClone(r) THEN {p[1] : p \in {q \in pairs : q[2] = r}}
                ELSE {p[2] : p \in {q \in pairs : q[1] = r}}

\* Mutant: a reference that has no counterpart is sent as it is.
ReferencesKept(e, kind) ==
  LET found == Counterparts(log[e].ref)
  IN  IF kind = "media" \/ log[e].rel = "none" THEN {0}
      ELSE IF found = {} THEN {log[e].ref} ELSE found

\* The reference of the clone: none for media, or when the related event has no
\* pair or cannot be fetched.
References(e, kind) ==
  LET found == Counterparts(log[e].ref)
  IN  IF kind = "media" \/ log[e].rel = "none" THEN {0}
      ELSE IF found = {} \/ MayFail THEN found \cup {0} ELSE found

Known(p) == p \in TicketRooms => TicketOf(p) \in known

\* setup_relay: the room of the current ticket, or the management room.
Route(u) == TicketRoom(current[u])

\* Mutant: what waits is forgotten.
ForwardForgets(e, kind, to, work, q) ==
  /\ queue' = q
  /\ IF Known(to)
     THEN \E ref \in References(e, kind) :
            main' = IF IsRedaction(e) /\ ref = 0 THEN work
                    ELSE [work EXCEPT !.out =
                           [ev |-> e, kind |-> kind, to |-> to, ref |-> ref]]
     ELSE main' = work

\* forward_message_to_room up to the request; q is the queue so far, and the
\* sync loop goes on with work.  A redaction of what has no clone is dropped.
\* What waits for a room is queued with the method for texts.
Forward(e, kind, to, work, q) ==
  IF Known(to)
  THEN /\ queue' = q
       /\ \E ref \in References(e, kind) :
            main' = IF IsRedaction(e) /\ ref = 0 THEN work
                    ELSE [work EXCEPT !.out =
                           [ev |-> e, kind |-> kind, to |-> to, ref |-> ref]]
  ELSE /\ queue' = [q EXCEPT ![TicketOf(to)] = Append(@, [ev |-> e, kind |-> "text"])]
       /\ main' = work

\* relay_from_user
RelayFromUser(e, kind, work, q) ==
  LET c == log[e].room
      u == UserOf(c)
  IN  /\ dm' = [dm EXCEPT ![u] = c]
      /\ saved' = IF Route(u) = Management THEN saved \cup {e} ELSE saved
      /\ Forward(e, kind, Route(u), work, q)

\* handle_ticket_room_message
RelayFromStaff(e, kind, work, q) ==
  LET t == TicketOf(log[e].room)
      u == owner[t]
  IN  /\ IF status[t] = "open" /\ current[u] = t
         THEN Forward(e, kind, dm[u], work, q)
         ELSE main' = work /\ queue' = q
      /\ UNCHANGED <<dm, saved>>

\* handle_management_room_message: an answer goes to the room of the row of
\* what it replies to, and the edit of an answer to that of the answer.
RelayAnswer(e, work) ==
  /\ \/ \E row \in messages :
          /\ row.management = log[e].ref
          /\ main' = [work EXCEPT !.out = [ev |-> e, kind |-> "text",
                                           to |-> row.room, ref |-> row.event]]
     \/ /\ \A row \in messages : row.management # log[e].ref
        /\ main' = work
  /\ UNCHANGED <<dm, saved, queue>>

\* Message.process: by the room the event is in.
Process(e, kind, work, q) ==
  CASE log[e].room \in Channels -> RelayFromUser(e, kind, work, q)
    [] log[e].room \in TicketRooms -> RelayFromStaff(e, kind, work, q)
    [] OTHER -> RelayAnswer(e, work)

\* The events of a room come in their order.
NextOfRoom(e) ==
  /\ e \in Posts \ handled
  /\ \A f \in Posts \ handled : log[f].room = log[e].room => e <= f

Handle(e) ==
  /\ IsIdle /\ NextOfRoom(e)
  /\ handled' = handled \cup {e}
  /\ Process(e, IF log[e].kind = "answer" THEN "text" ELSE log[e].kind, Idle, queue)
  /\ UNCHANGED <<server, pairs, messages, known, encrypted, desk>>

\* An event that was redacted before the sync came has no callback.
HandleRedacted(e) ==
  /\ IsIdle /\ NextOfRoom(e) /\ e \in gone
  /\ handled' = handled \cup {e}
  /\ UNCHANGED <<server, rows, queue, known, encrypted, desk, dm, main>>

-----------------------------------------------------------------------------
(* The request is answered.                                                *)

Clone(out) ==
  [room |-> out.to, by |-> "bot", kind |-> out.kind,
   rel |-> IF out.ref = 0 THEN "none" ELSE log[out.ev].rel,
   ref |-> out.ref, from |-> out.ev]

\* event_id and management_event_id are unique; a second row of an event that
\* was copied is refused, and the old one stays.
Insert(row) ==
  IF \A r \in messages : r.event # row.event /\ r.management # row.management
  THEN messages \cup {row} ELSE messages

\* Mutant: the room of the clone instead of that of the writer.
StoredRowOfClone(out, x) ==
  IF log[out.ev].kind = "answer"
  THEN [event |-> x, management |-> out.ev, room |-> out.to]
  ELSE [event |-> out.ev, management |-> x, room |-> out.to]

\* What is stored of a clone x.  An answer is stored the other way round.  For
\* a text the room is that of its writer, for media that of the clone.
StoredRow(out, x) ==
  IF log[out.ev].kind = "answer"
  THEN [event |-> x, management |-> out.ev, room |-> out.to]
  ELSE [event |-> out.ev, management |-> x,
        room |-> IF out.kind = "media" THEN out.to ELSE log[out.ev].room]

Requesting == ~NoRequestOut /\ ~IsRedaction(main.out.ev)
Returned == main' = [main EXCEPT !.out = NoRequest]

\* The clone has an id: its pair and its row are stored.
Sent ==
  LET out == main.out
      x == Len(log) + 1
  IN  /\ Requesting
      /\ log' = Append(log, Clone(out))
      /\ pairs' = IF log[out.ev].kind = "answer" THEN pairs
                  ELSE pairs \cup {<<out.ev, x>>}
      /\ messages' = Insert(StoredRow(out, x))
      /\ Returned
      /\ UNCHANGED <<gone, handled, saved, queue, known, encrypted, desk, dm>>

\* The homeserver redacts an event of the room that is named, and no other.
Redacted ==
  LET out == main.out
  IN  /\ ~NoRequestOut /\ IsRedaction(out.ev)
      /\ gone' = IF log[out.ref].room = out.to THEN gone \cup {out.ref} ELSE gone
      /\ Returned
      /\ UNCHANGED <<log, handled, rows, queue, known, encrypted, desk, dm>>

RequestFailed ==
  /\ MayFail /\ ~NoRequestOut
  /\ Returned
  /\ UNCHANGED <<server, handled, rows, queue, known, encrypted, desk, dm>>

-----------------------------------------------------------------------------
(* Raising a ticket, and the copy of what is saved.                        *)

\* Mutant: the id of the ticket is stored as its user.
RaiseSwapped(u, t) ==
  /\ IsIdle
  /\ status[t] = "none" /\ \A s \in Tickets : s < t => status[s] # "none"
  /\ "second ticket" \in world \/ \A s \in Tickets : owner[s] # u
  /\ status' = [status EXCEPT ![t] = "open"]
  /\ owner' = [owner EXCEPT ![t] = t]
  /\ current' = [current EXCEPT ![u] = t]
  /\ known' = IF Prompt THEN known \cup {t} ELSE known
  /\ encrypted' = IF Prompt THEN encrypted \cup {t} ELSE encrypted
  /\ main' = [Idle EXCEPT !.stage = "copying", !.ticket = t,
                          !.todo = {e \in saved : UserOf(log[e].room) = u}]
  /\ UNCHANGED <<server, handled, rows, queue, dm>>

\* _raise_ticket, whose room is created at once.
Raise(u, t) ==
  /\ IsIdle
  /\ status[t] = "none" /\ \A s \in Tickets : s < t => status[s] # "none"
  /\ "second ticket" \in world \/ \A s \in Tickets : owner[s] # u
  /\ status' = [status EXCEPT ![t] = "open"]
  /\ owner' = [owner EXCEPT ![t] = u]
  /\ current' = [current EXCEPT ![u] = t]
  /\ known' = IF Prompt THEN known \cup {t} ELSE known
  /\ encrypted' = IF Prompt THEN encrypted \cup {t} ELSE encrypted
  /\ main' = [Idle EXCEPT !.stage = "copying", !.ticket = t,
                          !.todo = {e \in saved : UserOf(log[e].room) = u}]
  /\ UNCHANGED <<server, handled, rows, queue, dm>>

\* What the SELECT may return next.
MayComeNext(e) == e \in main.todo /\ (Ordered => \A f \in main.todo : e <= f)

\* Mutant: the pair stays.
CopyNextKeepsPair(e) ==
  /\ main.stage = "copying" /\ NoRequestOut /\ MayComeNext(e)
  /\ e \notin gone /\ ~IsRedaction(e)
  /\ Process(e, log[e].kind, [main EXCEPT !.todo = @ \ {e}], queue)
  /\ UNCHANGED <<server, handled, pairs, messages, known, encrypted, desk>>

\* The homeserver has an event that is neither redacted nor a redaction.
CopyNext(e) ==
  LET t == main.ticket
      work == [main EXCEPT !.todo = @ \ {e}]
  IN  /\ main.stage = "copying" /\ NoRequestOut /\ MayComeNext(e)
      /\ e \notin gone /\ ~IsRedaction(e)
      /\ pairs' = {p \in pairs : p[1] # e}
      /\ IF t \in known
         THEN Process(e, log[e].kind, work, queue)
         ELSE /\ queue' = [queue EXCEPT ![t] =
                             Append(@, [ev |-> e, kind |-> log[e].kind])]
              /\ main' = work
              /\ UNCHANGED <<dm, saved>>
      /\ UNCHANGED <<server, handled, messages, known, encrypted, desk>>

\* It has not, or the request fails: the pair is gone nevertheless.
CopySkips(e) ==
  /\ main.stage = "copying" /\ NoRequestOut /\ MayComeNext(e)
  /\ MayFail \/ e \in gone \/ IsRedaction(e)
  /\ pairs' = {p \in pairs : p[1] # e}
  /\ main' = [main EXCEPT !.todo = @ \ {e}]
  /\ UNCHANGED <<server, handled, messages, saved, queue, known, encrypted, desk, dm>>

CopyDone ==
  /\ main.stage = "copying" /\ NoRequestOut /\ main.todo = {}
  /\ saved' = {e \in saved : UserOf(log[e].room) # owner[main.ticket]}
  /\ main' = Idle
  /\ UNCHANGED <<server, handled, pairs, messages, queue, known, encrypted, desk, dm>>

-----------------------------------------------------------------------------
(* What the client learns of the room of a ticket, and check_awaited.       *)

\* A sync brings the state of the room, its encryption with it if it has any.
Learn(t) ==
  /\ IsIdle /\ status[t] # "none" /\ t \notin known
  /\ known' = known \cup {t}
  /\ \/ encrypted' = encrypted \cup {t}
     \/ Slow /\ UNCHANGED encrypted
  /\ UNCHANGED <<server, handled, rows, queue, desk, dm, main>>

Encrypt(t) ==
  /\ Slow /\ IsIdle /\ t \in known \ encrypted
  /\ encrypted' = encrypted \cup {t}
  /\ UNCHANGED <<server, handled, rows, queue, known, desk, dm, main>>

Ready(t) == t \in known /\ t \in encrypted

Drain(t) ==
  /\ IsIdle /\ Ready(t) /\ queue[t] # <<>>
  /\ main' = [Idle EXCEPT !.stage = "draining", !.ticket = t]
  /\ UNCHANGED <<server, handled, rows, queue, known, encrypted, desk, dm>>

\* The first n tasks of a room are 300 seconds old.
Overdue(t, n) == Slow /\ IsIdle /\ ~Ready(t) /\ n \in 1..Len(queue[t])

\* The notice of a task that is dropped names the body of the event, and a
\* redaction has none.
CannotExpire(t, n) == \E i \in 1..n : IsRedaction(queue[t][i].ev)

Expire(t, n) ==
  /\ Overdue(t, n) /\ ~CannotExpire(t, n)
  /\ queue' = [queue EXCEPT ![t] = SubSeq(@, n + 1, Len(@))]
  /\ UNCHANGED <<server, handled, rows, known, encrypted, desk, dm, main>>

\* The event is handled again as it was when it was queued.  The method for
\* texts raises on a redaction, which has no body, and the task is dropped.
DrainNext ==
  LET t == main.ticket
      task == Head(queue[t])
      rest == [queue EXCEPT ![t] = Tail(@)]
  IN  /\ main.stage = "draining" /\ NoRequestOut /\ queue[t] # <<>>
      /\ IF IsRedaction(task.ev)
         THEN queue' = rest /\ UNCHANGED <<dm, saved, main>>
         ELSE Process(task.ev, task.kind, main, rest)
      /\ UNCHANGED <<server, handled, pairs, messages, known, encrypted, desk>>

DrainDone ==
  /\ main.stage = "draining" /\ NoRequestOut /\ queue[main.ticket] = <<>>
  /\ main' = Idle
  /\ UNCHANGED <<server, handled, rows, queue, known, encrypted, desk, dm>>

-----------------------------------------------------------------------------
(* Closing and reopening, by gRPC calls at any time.                       *)

Close(t) ==
  /\ Closes /\ status[t] = "open"
  /\ status' = [status EXCEPT ![t] = "closed"]
  /\ current' = [current EXCEPT ![owner[t]] = IF @ = t THEN NoTicket ELSE @]
  /\ UNCHANGED <<server, handled, rows, queue, known, encrypted, owner, dm, main>>

Reopen(t) ==
  /\ Closes /\ status[t] = "closed" /\ current[owner[t]] = NoTicket
  /\ status' = [status EXCEPT ![t] = "open"]
  /\ current' = [current EXCEPT ![owner[t]] = t]
  /\ UNCHANGED <<server, handled, rows, queue, known, encrypted, owner, dm, main>>

\* The process ends, perhaps when the homeserver has the clone and the pair is
\* not stored; events of a sync that was not through are not seen again.  That
\* a task cannot be dropped ends it too.
Crash ==
  /\ MayFail \/ \E t \in Tickets : \E n \in 1..Len(queue[t]) :
                 Overdue(t, n) /\ CannotExpire(t, n)
  /\ \/ UNCHANGED log
     \/ Requesting /\ log' = Append(log, Clone(main.out))
  /\ \E lost \in SUBSET (Posts \ handled) : handled' = handled \cup lost
  /\ queue' = [t \in Tickets |-> <<>>]
  /\ known' = IF Prompt THEN known ELSE {}
  /\ main' = Idle
  /\ UNCHANGED <<gone, rows, encrypted, desk, dm>>

-----------------------------------------------------------------------------
Posting ==
  \/ \E u \in Users : \E c \in RoomsOf(u) : UserPosts(c)
  \/ \E t \in Tickets : StaffPosts(t)
  \/ StaffAnswers

Relaying ==
  \/ \E e \in Ids : Handle(e) \/ HandleRedacted(e)
  \/ Sent \/ Redacted \/ RequestFailed

Copying == CopyDone \/ \E e \in Ids : CopyNext(e) \/ CopySkips(e)

Draining == DrainNext \/ DrainDone \/ \E t \in Tickets : Drain(t)

Waiting ==
  \E t \in Tickets :
    Learn(t) \/ Encrypt(t) \/ \E n \in 1..Len(queue[t]) : Expire(t, n)

Step ==
  \/ Posting \/ Relaying \/ Copying \/ Draining
  \/ \E u \in Users, t \in Tickets : Raise(u, t)
  \/ Waiting
  \/ \E t \in Tickets : Close(t) \/ Reopen(t)
  \/ Crash

Next == Step /\ UNCHANGED world

Spec == Init /\ [][Next]_vars

\* The sync loop goes on, and requests are answered.
Fairness == WF_state(Relaying) /\ WF_state(Copying) /\ WF_state(Draining)
FairSpec == Spec /\ Fairness

-----------------------------------------------------------------------------
(* Properties.                                                             *)

Clones == {x \in Ids : IsClone(x)}

Corresponds(a, b) == log[a].from = b \/ log[b].from = a

\* A clone refers to the counterpart of what its original refers to, whatever
\* was copied, dropped, replayed or lost in between (get_related).
RefersToCounterpart ==
  \A x \in Clones : log[x].ref # 0 =>
    Corresponds(log[x].ref, log[log[x].from].ref)

\* What a clone replies to or edits is in the room of the clone, where Matrix
\* resolves it, as long as a user's messages come from one room, go to one
\* place at a time and were copied there in their order, without failures.
WithinRoom ==
  \A x \in Clones : log[x].ref # 0 => log[log[x].ref].room = log[x].room
RefersWithinRoom == world \subseteq {"late room"} => WithinRoom

\* When everything is handled, the place that now gets a user's messages does
\* not show what the user has taken back, if nothing goes wrong on the way.
NothingShown ==
  IsIdle /\ Posts \subseteq handled /\ (\A t \in Tickets : queue[t] = <<>>) =>
    \A x \in Clones \ gone :
      LET m == log[x].from IN
      m \in gone /\ log[m].room \in Channels =>
        log[x].room # Route(UserOf(log[m].room))
TakenBack == Calm => NothingShown

\* An answer goes to the room in which its addressee has written what staff
\* answer ("Send back to original sender"), whatever goes wrong: if that was a
\* text.
ReachWriters(kinds) ==
  \A x \in Clones :
    LET answer == log[log[x].from] IN
    answer.kind = "answer" /\ answer.rel = "reply" /\ log[answer.ref].kind \in kinds =>
      log[x].room = log[log[answer.ref].from].room
AnswerReachesWriter == ReachWriters({"text"})

\* The same of texts and media.
AnyAnswerReachesWriter == ReachWriters({"text", "media"})

\* What a user writes arrives somewhere at last, unless it is taken back ("Add the
\* task to the room queue to be sent when room is loaded"): if the client learns of
\* every ticket room and its encryption within 300 seconds, and no request fails.
FirstArrived(n) ==
  \A e \in Posts :
    Cardinality({f \in Posts : f <= e}) <= n /\ log[e].by = "user" /\ log[e].rel = "none" =>
      e \in gone \/ \E x \in Clones : log[x].from = e
ArrivesAtLast ==
  (\A t \in Tickets : status[t] # "none" ~> Ready(t)) =>
    \A n \in 1..MaxCalmPosts :
      Cardinality(Posts) >= n /\ ~MayFail /\ ~Slow ~> FirstArrived(n)

\* The messages of users, and where staff see them.
IsFromUser(m) == m \in Ids /\ log[m].by = "user"
Shown == {<<log[x].from, log[x].room>> : x \in {y \in Clones : IsFromUser(log[y].from)}}
Link(m) ==
  IF IsFromUser(m) /\ \E p \in pairs : p[1] = m
  THEN log[(CHOOSE p \in pairs : p[1] = m)[2]].room ELSE Desk

Contract == INSTANCE RelayContract WITH
  NoUser <- Desk, Nowhere <- Desk,
  Messages <- MessageIds,
  Tickets <- TicketRooms, Elsewhere <- {Management},
  writer <- [m \in MessageIds |-> IF IsFromUser(m) THEN UserOf(log[m].room) ELSE Desk],
  owner <- [p \in TicketRooms |-> owner[TicketOf(p)]],
  shown <- Shown,
  link <- [m \in MessageIds |-> Link(m)]

\* Replies, edits, redactions, copies, replays and crashes keep the contract: a
\* message is shown again only after its pair is deleted.
ImplementsContract == Contract!Spec

\* Media arrive as media.
MediaStayMedia ==
  \A x \in Clones : log[log[x].from].kind = "media" => log[x].kind = "media"
=============================================================================
