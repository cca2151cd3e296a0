-------------------------- MODULE EventMirrorProofs --------------------------
(***************************************************************************)
(* What holds of clones for every set of users, and every number of        *)
(* tickets, rooms and posts, whatever is lost, reordered or replayed.      *)
(***************************************************************************)
EXTENDS EventMirror, TLAPS

Linked(a, b) == a \in Ids /\ b \in Ids /\ Corresponds(a, b)

\* If `a` is an answer to a text, the room is the one the text came from.
ToWriter(a, room) ==
  log[a].kind = "answer" /\ log[a].rel = "reply" /\ log[log[a].ref].kind = "text" =>
    room = log[log[log[a].ref].from].room

\* Where answers are written, and what they are answers to.
AnswersInPlace ==
  \A e \in Ids :
    /\ log[e].room = Management => ~IsRedaction(e)
    /\ log[e].kind = "answer" =>
         /\ log[e].by = "staff" /\ log[e].room = Management
         /\ log[e].rel = "reply" => log[e].ref \in Ids /\ IsClone(log[e].ref)

ClonesSound ==
  \A x \in Ids : IsClone(x) =>
    /\ log[x].from \in Ids
    /\ log[x].ref # 0 => Linked(log[x].ref, log[log[x].from].ref)
    /\ ToWriter(log[x].from, log[x].room)

\* The rows link an event and its clone, and know where the answers go.
RowsSound ==
  /\ \A p \in pairs : Linked(p[1], p[2]) /\ log[p[2]].from = p[1]
  /\ \A row \in messages :
       /\ Linked(row.event, row.management)
       /\ IsClone(row.management) /\ log[row.management].kind = "text" =>
            row.room = log[log[row.management].from].room

\* A ticket has a user; what is saved was written in a channel.
RaisedForUser == \A t \in Tickets : status[t] # "none" => owner[t] \in Users
SavedFirst == \A e \in saved \cup main.todo : e \in Ids /\ log[e].room \in Channels
QueuedFirst ==
  \A t \in Tickets : \A i \in 1..Len(queue[t]) : queue[t][i].ev \in Ids

\* The request under way is for a clone that will be sound.
MainSound ==
  /\ main.stage # "idle" => main.ticket \in Tickets
  /\ main.out # NoRequest =>
       /\ main.out.ev \in Ids
       /\ main.out.ref # 0 => Linked(main.out.ref, log[main.out.ev].ref)
       /\ IsRedaction(main.out.ev) => main.out.ref # 0
       /\ ToWriter(main.out.ev, main.out.to)

Inv ==
  /\ TypeOK /\ AnswersInPlace /\ ClonesSound /\ RowsSound
  /\ RaisedForUser /\ SavedFirst /\ QueuedFirst /\ MainSound

-----------------------------------------------------------------------------
(* Facts about rooms, the log and what the sync loop does.                 *)

LEMMA BoundFacts ==
  /\ MaxTickets \in Nat /\ MaxChannels \in Nat /\ MaxChannels # 0
  /\ Desk \notin Users
BY EventMirrorAssumption

LEMMA OneChannel == 1 \in 1..MaxChannels
<1>1. MaxChannels \in Nat /\ MaxChannels # 0
  BY BoundFacts
<1> QED BY <1>1

LEMMA PlaceFacts ==
  /\ Management \in Places /\ Management \notin Channels /\ Management \notin TicketRooms
  /\ Channels \subseteq Places /\ TicketRooms \subseteq Places
  /\ \A p \in Places : p \in Channels \/ p \in TicketRooms \/ p = Management
  /\ \A c \in Channels : UserOf(c) \in Users
  /\ \A t \in Tickets : TicketRoom(t) \in TicketRooms
  /\ \A p \in TicketRooms : TicketOf(p) \in Tickets /\ p \notin Channels
<1>1. Management \notin Channels /\ \A c \in Channels : UserOf(c) \in Users
  BY BoundFacts DEF Channels, Management, UserOf
<1>2. \A t \in Tickets : TicketRoom(t) \in TicketRooms
  BY DEF TicketRooms
<1>3. \A t \in Tickets : TicketOf(TicketRoom(t)) = t /\ TicketRoom(t) # Management
  <2> SUFFICES ASSUME NEW t \in Tickets
               PROVE  TicketOf(TicketRoom(t)) = t /\ TicketRoom(t) # Management
    OBVIOUS
  <2>1. TicketOf(TicketRoom(t)) = t
    BY DEF TicketRoom, TicketOf
  <2>2. TicketOf(Management) = 0
    BY DEF Management, TicketOf
  <2>3. t # 0
    BY BoundFacts DEF Tickets
  <2> QED BY <2>1, <2>2, <2>3
<1>4. Management \notin TicketRooms /\ \A p \in TicketRooms : TicketOf(p) \in Tickets
  BY <1>3 DEF TicketRooms
<1>5. \A p \in TicketRooms : UserOf(p) = Desk
  BY DEF TicketRooms, TicketRoom, UserOf
<1> QED BY <1>1, <1>2, <1>4, <1>5, BoundFacts DEF Places

LEMMA RoomFacts ==
  ASSUME NEW u \in Users, NEW c \in RoomsOf(u)
  PROVE  c \in Channels /\ c \in Places /\ c # Management
<1>1. PICK n \in IF "second room" \in world THEN 1..MaxChannels ELSE {1} : c = <<u, n>>
  BY DEF RoomsOf
<1>2. n \in 1..MaxChannels
  BY <1>1, OneChannel
<1>3. c \in Channels
  BY <1>1, <1>2 DEF Channels
<1> QED BY <1>3, PlaceFacts

LEMMA IdleFacts ==
  /\ Idle \in Work /\ Idle.stage = "idle" /\ Idle.todo = {} /\ Idle.out = NoRequest
  /\ NoRequest \in Request
BY PlaceFacts DEF Idle, Work, NoRequest, Request

\* The log grows, and what it has stays.
LEMMA Grows ==
  ASSUME TypeOK, NEW v \in Event, log' = Append(log, v)
  PROVE  /\ log' \in Seq(Event)
         /\ Len(log) + 1 \in Ids' /\ Len(log) + 1 \notin Ids /\ log'[Len(log) + 1] = v
         /\ Ids' = Ids \cup {Len(log) + 1}
         /\ \A e \in Ids : log'[e] = log[e]
BY DEF TypeOK, Ids

\* What is linked stays linked, and an answer keeps its destination.
LEMMA LinkedStays ==
  ASSUME Ids \subseteq Ids', \A e \in Ids : log'[e] = log[e],
         NEW a, NEW b, Linked(a, b)
  PROVE  Linked(a, b)'
BY DEF Linked, Corresponds

LEMMA ToWriterStays ==
  ASSUME AnswersInPlace, ClonesSound, \A e \in Ids : log'[e] = log[e],
         NEW a \in Ids, NEW room
  PROVE  ToWriter(a, room)' <=> ToWriter(a, room)
BY DEF ToWriter, AnswersInPlace, ClonesSound, IsClone

\* What the rows and the requests say of the log stays true when it grows.
LEMMA RowsStay ==
  ASSUME Inv, Ids \subseteq Ids', \A e \in Ids : log'[e] = log[e],
         NEW row \in messages
  PROVE  /\ Linked(row.event, row.management)'
         /\ IsClone(row.management)' /\ log'[row.management].kind = "text" =>
              row.room = log'[log'[row.management].from].room
<1>1. Linked(row.event, row.management)
  BY DEF Inv, RowsSound
<1>2. row.management \in Ids
  BY <1>1 DEF Linked
<1> QED BY <1>1, <1>2, LinkedStays DEF Inv, RowsSound, ClonesSound, IsClone

\* Nothing is appended, and rows are deleted only.
LEMMA LogStays ==
  ASSUME Inv, UNCHANGED <<log, messages>>, pairs' \subseteq pairs
  PROVE  AnswersInPlace' /\ ClonesSound' /\ RowsSound'
<1>1. AnswersInPlace' /\ ClonesSound'
  BY DEF Inv, AnswersInPlace, ClonesSound, ToWriter, Linked, Corresponds, Ids, IsClone,
     IsRedaction
<1>2. RowsSound'
  BY DEF Inv, RowsSound, Linked, Corresponds, Ids, IsClone
<1> QED BY <1>1, <1>2

\* A step that appends nothing to the log, and at most takes rows, requests and
\* work away.
LEMMA QuietStep ==
  ASSUME Inv, UNCHANGED <<log, messages, owner>>, TypeOK',
         \A t \in Tickets : status'[t] # "none" => status[t] # "none",
         pairs' \subseteq pairs, saved' \subseteq saved,
         \A t \in Tickets : queue'[t] \in {queue[t], <<>>},
         main'.todo \subseteq saved \cup main.todo,
         main'.stage # "idle" => main'.ticket \in Tickets,
         main'.out \in {main.out, NoRequest}
  PROVE  Inv'
<1>1. AnswersInPlace' /\ ClonesSound' /\ RowsSound'
  BY LogStays
<1>2. RaisedForUser' /\ SavedFirst'
  BY DEF Inv, RaisedForUser, SavedFirst, Ids
<1>3. QueuedFirst'
  BY DEF Inv, QueuedFirst, Ids
<1>4. MainSound'
  BY DEF Inv, MainSound, ToWriter, Linked, Corresponds, Ids, IsRedaction
<1> QED BY <1>1, <1>2, <1>3, <1>4 DEF Inv

\* People write: the log grows by an event that is no clone.
LEMMA PostStep ==
  ASSUME Inv, UNCHANGED world,
         NEW by \in {"user", "staff"}, NEW room \in Places,
         NEW kind \in {"text", "media", "answer"},
         NEW rel \in {"none", "reply", "edit", "redaction"},
         NEW ref \in Ids \cup {0},
         Post(by, room, kind, rel, ref),
         room = Management => rel # "redaction",
         kind = "answer" =>
           /\ by = "staff" /\ room = Management
           /\ rel = "reply" => ref \in Ids /\ IsClone(ref)
  PROVE  Inv'
<1> DEFINE v == [room |-> room, by |-> by, kind |-> kind, rel |-> rel,
                 ref |-> ref, from |-> 0]
           n == Len(log) + 1
<1>1. v \in Event /\ log' = Append(log, v)
  BY DEF Event, Ids, Post
<1>2. /\ log' \in Seq(Event) /\ n \in Ids' /\ n \notin Ids /\ log'[n] = v
      /\ Ids' = Ids \cup {n} /\ \A e \in Ids : log'[e] = log[e]
  BY <1>1, Grows DEF Inv
<1>3. /\ gone' \subseteq Ids'
      /\ UNCHANGED <<handled, pairs, messages, saved, queue, known, encrypted, status, owner, current,
                     dm, main>>
  BY <1>2 DEF Post, Refers, rows, desk, Inv, TypeOK, Ids
<1>4. /\ log'[n].room = room /\ log'[n].by = by /\ log'[n].kind = kind /\ log'[n].rel = rel
      /\ log'[n].ref = ref
  BY <1>2
<1> HIDE DEF v, n
<1>5. TypeOK'
  BY <1>2, <1>3 DEF Inv, TypeOK, Ids
<1>6. AnswersInPlace'
  BY <1>2, <1>4 DEF Inv, AnswersInPlace, IsRedaction, IsClone
<1>7. ClonesSound'
  BY <1>2, <1>4, LinkedStays, ToWriterStays DEF Inv, ClonesSound, IsClone
<1>8. RowsSound'
  BY <1>2, <1>3, RowsStay, LinkedStays DEF Inv, RowsSound, Linked, IsClone
<1>9. RaisedForUser' /\ SavedFirst' /\ QueuedFirst'
  BY <1>2, <1>3 DEF Inv, RaisedForUser, SavedFirst, QueuedFirst
<1>10. MainSound'
  BY <1>2, <1>3, LinkedStays, ToWriterStays DEF Inv, MainSound, IsRedaction
<1> QED BY <1>5, <1>6, <1>7, <1>8, <1>9, <1>10 DEF Inv

LEMMA PostingStep ==
  ASSUME Inv, UNCHANGED world, Posting PROVE Inv'
<1>1. ASSUME NEW u \in Users, NEW c \in RoomsOf(u), UserPosts(c) PROVE Inv'
  <2>1. c \in Channels /\ c \in Places /\ c # Management
    BY RoomFacts
  <2>2. Kinds \subseteq {"text", "media"}
    BY DEF Kinds
  <2> QED BY <1>1, <2>1, <2>2, PostStep DEF UserPosts
<1>2. ASSUME NEW t \in Tickets, StaffPosts(t) PROVE Inv'
  <2>1. TicketRoom(t) \in Places /\ TicketRoom(t) # Management
    BY PlaceFacts
  <2> QED BY <1>2, <2>1, PostStep DEF StaffPosts
<1>3. CASE StaffAnswers
  BY <1>3, PlaceFacts, PostStep DEF StaffAnswers
<1> QED BY <1>1, <1>2, <1>3 DEF Posting

-----------------------------------------------------------------------------
(* An event is relayed.                                                    *)

LEMMA CounterpartFacts ==
  ASSUME Inv, NEW r, NEW c \in Counterparts(r)
  PROVE  Linked(c, r) /\ c \in Nat
<1>1. \A p \in pairs : /\ Linked(p[1], p[2]) /\ Linked(p[2], p[1])
                       /\ p[1] \in Nat /\ p[2] \in Nat
  BY DEF Inv, TypeOK, RowsSound, Linked, Corresponds
<1> QED BY <1>1 DEF Counterparts

LEMMA RouteFacts == ASSUME Inv, NEW u \in Users PROVE Route(u) \in Places
<1>1. CASE current[u] \in Tickets
  BY <1>1, PlaceFacts DEF Route
<1>2. CASE current[u] = NoTicket
  BY <1>2, PlaceFacts DEF Route, NoTicket, TicketRoom, Management
<1> QED BY <1>1, <1>2 DEF Inv, TypeOK

\* Work that can be gone on with: nothing is requested.
Sound(work) ==
  /\ work \in Work /\ work.out = NoRequest
  /\ work.stage # "idle" => work.ticket \in Tickets
  /\ \A f \in work.todo : f \in Ids /\ log[f].room \in Channels

SoundQueue(q) ==
  /\ q \in [Tickets -> Seq(Task)]
  /\ \A t \in Tickets : \A i \in 1..Len(q[t]) : q[t][i].ev \in Ids

LEMMA QueueGrows ==
  ASSUME UNCHANGED log, NEW q, SoundQueue(q), NEW t \in Tickets, NEW task \in Task,
         task.ev \in Ids, queue' = [q EXCEPT ![t] = Append(@, task)]
  PROVE  queue' \in [Tickets -> Seq(Task)] /\ QueuedFirst'
<1>1. queue' \in [Tickets -> Seq(Task)]
  BY DEF SoundQueue
<1>2. ASSUME NEW s \in Tickets, NEW i \in 1..Len(queue'[s])
      PROVE  queue'[s][i].ev \in Ids
  <2>1. CASE s # t
    BY <1>2, <2>1 DEF SoundQueue
  <2>2. CASE s = t
    <3>1. queue'[s] = Append(q[t], task) /\ q[t] \in Seq(Task)
      BY <2>2 DEF SoundQueue
    <3>2. CASE i = Len(q[t]) + 1
      BY <3>1, <3>2
    <3>3. CASE i \in 1..Len(q[t])
      BY <3>1, <3>3 DEF SoundQueue
    <3> QED BY <1>2, <3>1, <3>2, <3>3
  <2> QED BY <2>1, <2>2
<1> QED BY <1>1, <1>2 DEF QueuedFirst, Ids

LEMMA WorkGoesOn ==
  ASSUME Inv, UNCHANGED log, NEW work, Sound(work), main' = work
  PROVE  main' \in Work /\ main'.todo = work.todo /\ MainSound'
BY DEF Sound, MainSound

LEMMA RequestSound ==
  ASSUME Inv, UNCHANGED log, NEW work, Sound(work), NEW e \in Ids,
         NEW kind \in {"text", "media"}, NEW to \in Places, NEW ref \in Nat,
         main' = [work EXCEPT !.out = [ev |-> e, kind |-> kind, to |-> to, ref |-> ref]],
         ref # 0 => Linked(ref, log[e].ref),
         IsRedaction(e) => ref # 0,
         ToWriter(e, to)
  PROVE  main' \in Work /\ main'.todo = work.todo /\ MainSound'
<1> DEFINE out == [ev |-> e, kind |-> kind, to |-> to, ref |-> ref]
<1>1. out \in Request /\ out.ev = e /\ out.to = to /\ out.ref = ref
  BY DEF Request, Ids
<1> HIDE DEF out
<1>2. /\ main' \in Work /\ main'.out = out /\ main'.todo = work.todo
      /\ main'.stage = work.stage /\ main'.ticket = work.ticket
  BY <1>1 DEF Sound, Work, out
<1>3. MainSound'
  BY <1>1, <1>2 DEF Sound, MainSound, Linked, Corresponds, ToWriter, IsRedaction, Ids
<1> QED BY <1>2, <1>3

LEMMA ForwardSound ==
  ASSUME Inv, UNCHANGED log, NEW work, Sound(work), NEW q, SoundQueue(q), NEW e \in Ids,
         NEW kind \in {"text", "media"}, NEW to \in Places, log[e].kind # "answer",
         Forward(e, kind, to, work, q)
  PROVE  /\ main' \in Work /\ main'.todo = work.todo /\ MainSound'
         /\ queue' \in [Tickets -> Seq(Task)] /\ QueuedFirst'
<1>1. CASE Known(to)
  <2>1. PICK ref \in References(e, kind) :
          main' = IF IsRedaction(e) /\ ref = 0 THEN work
                  ELSE [work EXCEPT !.out = [ev |-> e, kind |-> kind, to |-> to, ref |-> ref]]
    BY <1>1 DEF Forward
  <2>2. ref \in Nat /\ (ref # 0 => Linked(ref, log[e].ref))
    BY CounterpartFacts DEF References
  <2>3. ToWriter(e, to)
    BY DEF ToWriter
  <2>4. main' \in Work /\ main'.todo = work.todo /\ MainSound'
    BY <2>1, <2>2, <2>3, WorkGoesOn, RequestSound
  <2>5. queue' = q
    BY <1>1 DEF Forward
  <2> QED BY <2>4, <2>5 DEF SoundQueue, QueuedFirst, Ids
<1>2. CASE ~Known(to)
  <2> DEFINE t == TicketOf(to)
             task == [ev |-> e, kind |-> "text"]
  <2>1. t \in Tickets
    BY <1>2, PlaceFacts DEF Known
  <2>2. main' = work /\ queue' = [q EXCEPT ![t] = Append(@, task)]
    BY <1>2 DEF Forward
  <2>3. task \in Task /\ task.ev = e
    BY DEF Task, Ids
  <2> HIDE DEF t, task
  <2>4. queue' \in [Tickets -> Seq(Task)] /\ QueuedFirst'
    BY <2>1, <2>2, <2>3, QueueGrows
  <2> QED BY <2>2, <2>4, WorkGoesOn
<1> QED BY <1>1, <1>2

LEMMA ProcessStep ==
  ASSUME Inv, UNCHANGED <<world, server, messages, status, owner, current>>,
         handled' \subseteq Ids, known' \subseteq Tickets, encrypted' \subseteq Tickets,
         pairs' \subseteq pairs,
         NEW work, Sound(work), NEW q, SoundQueue(q), NEW e \in Ids,
         NEW kind \in {"text", "media"},
         Process(e, kind, work, q)
  PROVE  Inv'
<1> DEFINE r == log[e].room
<1>1. log[e].kind = "answer" => r = Management
  BY DEF Inv, AnswersInPlace
<1>2. UNCHANGED log
  BY DEF server
<1>3. /\ main' \in Work /\ main'.todo = work.todo /\ MainSound'
      /\ queue' \in [Tickets -> Seq(Task)] /\ QueuedFirst'
      /\ dm' \in [Users -> Channels] /\ saved' \subseteq saved \cup {e}
      /\ r \notin Channels => saved' = saved
  <2>1. CASE r \in Channels
    <3>1. /\ UserOf(r) \in Users /\ Route(UserOf(r)) \in Places /\ log[e].kind # "answer"
      BY <1>1, <2>1, PlaceFacts, RouteFacts
    <3>2. /\ dm' = [dm EXCEPT ![UserOf(r)] = r] /\ saved' \subseteq saved \cup {e}
          /\ Forward(e, kind, Route(UserOf(r)), work, q)
      <4>1. r \notin TicketRooms
        BY <2>1, PlaceFacts
      <4> QED BY <2>1, <4>1 DEF Process, RelayFromUser
    <3>3. dm' \in [Users -> Channels]
      BY <2>1, <3>1, <3>2 DEF Inv, TypeOK
    <3> QED BY <1>2, <2>1, <3>1, <3>2, <3>3, ForwardSound
  <2>2. CASE r \in TicketRooms
    <3> DEFINE t == TicketOf(r)
               u == owner[t]
    <3>1. t \in Tickets /\ r \notin Channels /\ log[e].kind # "answer"
      BY <1>1, <2>2, PlaceFacts
    <3>2. /\ UNCHANGED <<dm, saved>>
          /\ \/ status[t] = "open" /\ Forward(e, kind, dm[u], work, q)
             \/ main' = work /\ queue' = q
      BY <2>2, <3>1 DEF Process, RelayFromStaff
    <3>3. status[t] = "open" => dm[u] \in Places
      BY <3>1, PlaceFacts DEF Inv, TypeOK, RaisedForUser
    <3>4. main' = work /\ queue' = q =>
            /\ main' \in Work /\ main'.todo = work.todo /\ MainSound'
            /\ queue' \in [Tickets -> Seq(Task)] /\ QueuedFirst'
      BY <1>2, WorkGoesOn DEF SoundQueue, QueuedFirst, Ids
    <3> QED BY <1>2, <3>1, <3>2, <3>3, <3>4, ForwardSound DEF Inv, TypeOK
  <2>3. CASE r = Management
    <3>1. UNCHANGED <<dm, saved, queue>> /\ r \notin Channels
      BY <2>3, PlaceFacts DEF Process, RelayAnswer
    <3>2. main' \in Work /\ main'.todo = work.todo /\ MainSound'
      <4>1. CASE main' = work
        BY <1>2, <4>1, WorkGoesOn
      <4>2. ASSUME NEW row \in messages, row.management = log[e].ref,
                   main' = [work EXCEPT !.out = [ev |-> e, kind |-> "text",
                                                 to |-> row.room, ref |-> row.event]]
            PROVE  main' \in Work /\ main'.todo = work.todo /\ MainSound'
        <5>1. /\ row.room \in Places /\ row.event \in Nat /\ Linked(row.event, log[e].ref)
          BY <4>2 DEF Inv, TypeOK, Row, RowsSound
        <5>2. ~IsRedaction(e)
          BY <2>3 DEF Inv, AnswersInPlace
        <5>3. ToWriter(e, row.room)
          BY <4>2 DEF Inv, AnswersInPlace, RowsSound, ToWriter
        <5> QED BY <1>2, <4>2, <5>1, <5>2, <5>3, RequestSound
      <4> QED BY <2>3, <3>1, <4>1, <4>2, PlaceFacts DEF Process, RelayAnswer
    <3> QED BY <1>2, <3>1, <3>2 DEF Inv, TypeOK, QueuedFirst, Ids
  <2>4. r \in Places
    <3>1. log[e] \in Event
      BY DEF Inv, TypeOK, Ids
    <3> QED BY <3>1 DEF Event
  <2> QED BY <2>1, <2>2, <2>3, <2>4, PlaceFacts
<1>4. saved' \in SUBSET Nat /\ \A f \in saved' : f \in Ids /\ log[f].room \in Channels
  BY <1>3 DEF Inv, TypeOK, SavedFirst, Ids
<1> HIDE DEF r
<1>5. TypeOK'
  BY <1>2, <1>3, <1>4 DEF Inv, TypeOK, server, Ids
<1>6. AnswersInPlace' /\ ClonesSound' /\ RowsSound'
  BY <1>2, LogStays
<1>7. RaisedForUser' /\ SavedFirst'
  BY <1>2, <1>3, <1>4 DEF Inv, RaisedForUser, SavedFirst, Sound, Ids
<1> QED BY <1>3, <1>5, <1>6, <1>7 DEF Inv

\* The event of a post that was not handled.
LEMMA HandleStep ==
  ASSUME Inv, UNCHANGED world, NEW e \in Ids, Handle(e) PROVE Inv'
<1>1. /\ UNCHANGED <<server, pairs, messages, known, encrypted, desk>> /\ handled' = handled \cup {e}
      /\ Process(e, IF log[e].kind = "answer" THEN "text" ELSE log[e].kind, Idle, queue)
  BY DEF Handle
<1>2. (IF log[e].kind = "answer" THEN "text" ELSE log[e].kind) \in {"text", "media"}
  <2>1. log[e] \in Event
    BY DEF Inv, TypeOK, Ids
  <2> QED BY <2>1 DEF Event
<1>3. Sound(Idle) /\ SoundQueue(queue)
  BY IdleFacts DEF Sound, SoundQueue, Inv, TypeOK, QueuedFirst
<1>4. handled' \subseteq Ids /\ known' \subseteq Tickets /\ encrypted' \subseteq Tickets
  BY <1>1 DEF Inv, TypeOK, Ids
<1> QED BY <1>1, <1>2, <1>3, <1>4, ProcessStep DEF desk

LEMMA CopyNextStep ==
  ASSUME Inv, UNCHANGED world, NEW e \in Ids, CopyNext(e) PROVE Inv'
<1> DEFINE t == main.ticket
           work == [main EXCEPT !.todo = @ \ {e}]
<1>1. /\ main.stage = "copying" /\ main.out = NoRequest /\ e \in main.todo
      /\ pairs' \subseteq pairs /\ UNCHANGED <<server, handled, messages, known, encrypted, desk>>
      /\ \/ Process(e, log[e].kind, work, queue)
         \/ /\ queue' = [queue EXCEPT ![t] = Append(@, [ev |-> e, kind |-> log[e].kind])]
            /\ main' = work /\ UNCHANGED <<dm, saved>>
  BY DEF CopyNext, NoRequestOut, MayComeNext
<1>2. log[e].room \in Channels /\ t \in Tickets /\ main \in Work
  BY <1>1 DEF Inv, TypeOK, SavedFirst, MainSound
<1>3. log[e].kind \in {"text", "media"}
  <2>1. log[e] \in Event /\ log[e].kind # "answer"
    BY <1>2, PlaceFacts DEF Inv, TypeOK, Ids, AnswersInPlace
  <2> QED BY <2>1 DEF Event
<1>4. /\ work \in Work /\ work.out = main.out /\ work.todo = main.todo \ {e}
      /\ work.ticket = t /\ work.stage = main.stage
  BY <1>2 DEF Work
<1> HIDE DEF t, work
<1>5. Sound(work) /\ SoundQueue(queue)
  BY <1>1, <1>2, <1>4 DEF Sound, SoundQueue, Inv, TypeOK, QueuedFirst, SavedFirst
<1>6. handled' \subseteq Ids /\ known' \subseteq Tickets /\ encrypted' \subseteq Tickets
  BY <1>1 DEF Inv, TypeOK, Ids
<1>7. CASE Process(e, log[e].kind, work, queue)
  BY <1>1, <1>3, <1>5, <1>6, <1>7, ProcessStep DEF desk
<1>8. CASE /\ queue' = [queue EXCEPT ![t] = Append(@, [ev |-> e, kind |-> log[e].kind])]
           /\ main' = work /\ UNCHANGED <<dm, saved>>
  <2> DEFINE task == [ev |-> e, kind |-> log[e].kind]
  <2>1. task \in Task /\ task.ev = e
    BY <1>3 DEF Task, Ids
  <2>2. queue' = [queue EXCEPT ![t] = Append(@, task)]
    BY <1>8
  <2> HIDE DEF task
  <2>3. UNCHANGED log
    BY <1>1 DEF server
  <2>4. queue' \in [Tickets -> Seq(Task)] /\ QueuedFirst'
    BY <1>2, <1>5, <2>1, <2>2, <2>3, QueueGrows
  <2>5. main' \in Work /\ main'.todo \subseteq main.todo /\ MainSound'
    BY <1>4, <1>5, <1>8, <2>3, WorkGoesOn
  <2>6. TypeOK'
    BY <1>1, <1>8, <2>4, <2>5 DEF Inv, TypeOK, server, desk, Ids
  <2>7. AnswersInPlace' /\ ClonesSound' /\ RowsSound'
    BY <1>1, <2>3, LogStays
  <2>8. RaisedForUser' /\ SavedFirst'
    BY <1>1, <1>8, <2>3, <2>5 DEF Inv, RaisedForUser, SavedFirst, Ids, desk
  <2> QED BY <2>4, <2>5, <2>6, <2>7, <2>8 DEF Inv
<1> QED BY <1>1, <1>7, <1>8

LEMMA TailFacts ==
  ASSUME NEW s \in Seq(Task), s # <<>>, NEW i \in 1..Len(Tail(s))
  PROVE  Tail(s)[i] = s[i + 1] /\ i + 1 \in 1..Len(s)
<1>1. Len(s) \in Nat \ {0} /\ Len(Tail(s)) = Len(s) - 1
  OBVIOUS
<1> QED BY <1>1

LEMMA DrainNextStep ==
  ASSUME Inv, UNCHANGED world, DrainNext PROVE Inv'
<1> DEFINE t == main.ticket
           task == Head(queue[t])
           rest == [queue EXCEPT ![t] = Tail(@)]
<1>1. /\ main.stage = "draining" /\ main.out = NoRequest /\ queue[t] # <<>>
      /\ UNCHANGED <<server, handled, pairs, messages, known, encrypted, desk>>
      /\ \/ queue' = rest /\ UNCHANGED <<dm, saved, main>>
         \/ Process(task.ev, task.kind, main, rest)
  BY DEF DrainNext, NoRequestOut
<1>2. t \in Tickets /\ queue[t] \in Seq(Task)
  BY <1>1 DEF Inv, TypeOK, MainSound
<1>3. task = queue[t][1] /\ 1 \in 1..Len(queue[t]) /\ task \in Task
  BY <1>1, <1>2
<1>4. task.ev \in Ids /\ task.kind \in {"text", "media"}
  BY <1>2, <1>3 DEF Inv, QueuedFirst, Task
<1>5. SoundQueue(rest)
  <2>1. rest \in [Tickets -> Seq(Task)]
    BY <1>1, <1>2 DEF Inv, TypeOK
  <2>2. ASSUME NEW s \in Tickets, NEW i \in 1..Len(rest[s]) PROVE rest[s][i].ev \in Ids
    <3>1. CASE s # t
      BY <2>2, <3>1 DEF Inv, TypeOK, QueuedFirst
    <3>2. CASE s = t
      <4>1. rest[s] = Tail(queue[t])
        BY <1>2, <3>2 DEF Inv, TypeOK
      <4>2. rest[s][i] = queue[t][i + 1] /\ i + 1 \in 1..Len(queue[t])
        BY <1>1, <1>2, <2>2, <4>1, TailFacts
      <4> QED BY <1>2, <4>2 DEF Inv, QueuedFirst
    <3> QED BY <3>1, <3>2
  <2> QED BY <2>1, <2>2 DEF SoundQueue
<1> HIDE DEF t, task, rest
<1>6. Sound(main)
  BY <1>1 DEF Sound, Inv, TypeOK, MainSound, SavedFirst
<1>7. handled' \subseteq Ids /\ known' \subseteq Tickets /\ encrypted' \subseteq Tickets
  BY <1>1 DEF Inv, TypeOK, Ids
<1>8. CASE Process(task.ev, task.kind, main, rest)
  BY <1>1, <1>4, <1>5, <1>6, <1>7, <1>8, ProcessStep DEF desk
<1>9. CASE queue' = rest /\ UNCHANGED <<dm, saved, main>>
  <2>1. UNCHANGED log
    BY <1>1 DEF server
  <2>2. queue' \in [Tickets -> Seq(Task)] /\ QueuedFirst'
    BY <1>5, <1>9, <2>1 DEF SoundQueue, QueuedFirst, Ids
  <2>3. TypeOK'
    BY <1>1, <1>9, <2>2 DEF Inv, TypeOK, server, desk, Ids
  <2>4. AnswersInPlace' /\ ClonesSound' /\ RowsSound'
    BY <1>1, <2>1, LogStays
  <2>5. MainSound'
    BY <1>6, <1>9, <2>1, WorkGoesOn
  <2>6. RaisedForUser' /\ SavedFirst'
    BY <1>1, <1>9, <2>1 DEF Inv, RaisedForUser, SavedFirst, Ids, desk
  <2> QED BY <2>2, <2>3, <2>4, <2>5, <2>6 DEF Inv
<1> QED BY <1>1, <1>8, <1>9

-----------------------------------------------------------------------------
(* A request is answered.                                                  *)

\* The log grows by a clone whose reference and room are sound.
LEMMA CloneSound ==
  ASSUME Inv, NEW v \in Event, log' = Append(log, v),
         v.by = "bot", v.kind # "answer", v.rel # "redaction", v.from \in Ids,
         v.ref # 0 => Linked(v.ref, log[v.from].ref), ToWriter(v.from, v.room)
  PROVE  AnswersInPlace' /\ ClonesSound'
<1>1. PICK n : n = Len(log) + 1
  OBVIOUS
<1>2. /\ n \in Ids' /\ n \notin Ids /\ log'[n] = v
      /\ Ids' = Ids \cup {n} /\ \A e \in Ids : log'[e] = log[e]
  BY <1>1, Grows DEF Inv
<1>3. ASSUME NEW x \in Ids'
      PROVE  /\ log'[x].room = Management => log'[x].rel # "redaction"
             /\ log'[x].kind = "answer" =>
                  /\ log'[x].by = "staff" /\ log'[x].room = Management
                  /\ log'[x].rel = "reply" =>
                       log'[x].ref \in Ids' /\ log'[log'[x].ref].by = "bot"
  <2>1. CASE x \in Ids
    <3>1. /\ log[x].room = Management => log[x].rel # "redaction"
          /\ log[x].kind = "answer" =>
               /\ log[x].by = "staff" /\ log[x].room = Management
               /\ log[x].rel = "reply" => log[x].ref \in Ids /\ log[log[x].ref].by = "bot"
      BY <2>1 DEF Inv, AnswersInPlace, IsRedaction, IsClone
    <3> QED BY <1>2, <2>1, <3>1
  <2>2. CASE x = n
    BY <1>2, <2>2
  <2> QED BY <1>2, <2>1, <2>2
<1>4. ASSUME NEW x \in Ids', log'[x].by = "bot"
      PROVE  /\ log'[x].from \in Ids'
             /\ log'[x].ref # 0 => Linked(log[x].ref, log[log[x].from].ref)'
             /\ ToWriter(log[x].from, log[x].room)'
  <2>1. CASE x \in Ids
    BY <1>2, <1>4, <2>1, LinkedStays, ToWriterStays DEF Inv, ClonesSound, IsClone
  <2>2. CASE x = n
    <3>1. v.ref # 0 => Linked(v.ref, log[v.from].ref)'
      BY <1>2, LinkedStays
    <3>2. ToWriter(v.from, v.room)'
      BY <1>2, ToWriterStays DEF Inv
    <3> QED BY <1>2, <2>2, <3>1, <3>2
  <2> QED BY <1>2, <2>1, <2>2
<1> QED BY <1>3, <1>4 DEF AnswersInPlace, ClonesSound, IsClone, IsRedaction

\* What is requested, and the clone that comes of it.
LEMMA RequestFacts ==
  ASSUME Inv, Requesting, NEW v, v = Clone(main.out)
  PROVE  /\ main.out.ev \in Ids /\ log[main.out.ev] \in Event
         /\ v \in Event /\ v.by = "bot" /\ v.kind = main.out.kind /\ v.room = main.out.to
         /\ v.kind # "answer" /\ v.rel # "redaction" /\ v.from = main.out.ev
         /\ v.ref # 0 => Linked(v.ref, log[v.from].ref)
         /\ ToWriter(v.from, v.room)
<1>1. PICK out \in Request : out = main.out
  BY DEF Inv, TypeOK, Work
<1>2. /\ out.ev \in Ids /\ ~IsRedaction(out.ev)
      /\ out.ref # 0 => Linked(out.ref, log[out.ev].ref)
      /\ ToWriter(out.ev, out.to)
  BY <1>1 DEF Requesting, NoRequestOut, Inv, MainSound
<1>3. log[out.ev] \in Event
  BY <1>2 DEF Inv, TypeOK, Ids
<1>4. v = [room |-> out.to, by |-> "bot", kind |-> out.kind,
           rel |-> IF out.ref = 0 THEN "none" ELSE log[out.ev].rel,
           ref |-> out.ref, from |-> out.ev]
  BY <1>1 DEF Clone
<1>5. v \in Event
  BY <1>2, <1>3, <1>4 DEF Event, Request, Ids
<1> QED BY <1>1, <1>2, <1>3, <1>4, <1>5 DEF IsRedaction, Request

\* The clone has an id: its pair and its row are stored.
LEMMA SentStep ==
  ASSUME Inv, UNCHANGED world, Sent PROVE Inv'
<1>1. PICK v, out, ev, n, row :
        /\ v = Clone(main.out) /\ out = main.out /\ ev = out.ev /\ n = Len(log) + 1
        /\ row = StoredRow(out, n)
  OBVIOUS
<1>2. /\ Requesting /\ log' = Append(log, v)
      /\ pairs' \subseteq pairs \cup {<<ev, n>>} /\ messages' \subseteq messages \cup {row}
      /\ main' = [main EXCEPT !.out = NoRequest]
      /\ UNCHANGED <<gone, handled, saved, queue, known, encrypted, desk, dm>>
  BY <1>1 DEF Sent, Insert, Returned
<1>3. /\ out \in Request /\ ev \in Ids /\ log[ev] \in Event /\ v \in Event /\ v.by = "bot"
      /\ v.kind = out.kind /\ v.room = out.to /\ v.from = ev
      /\ v.kind # "answer" /\ v.rel # "redaction"
      /\ v.ref # 0 => Linked(v.ref, log[v.from].ref)
      /\ ToWriter(v.from, v.room)
  BY <1>1, <1>2, RequestFacts DEF Inv, TypeOK, Work
<1>4. /\ log' \in Seq(Event) /\ n \in Ids' /\ n \notin Ids /\ log'[n] = v
      /\ Ids' = Ids \cup {n} /\ \A e \in Ids : log'[e] = log[e] /\ n \in Nat
  <2>1. n \in Nat
    BY <1>1 DEF Inv, TypeOK
  <2> QED BY <1>1, <1>2, <1>3, <2>1, Grows DEF Inv
<1>5. AnswersInPlace' /\ ClonesSound'
  BY <1>2, <1>3, CloneSound
<1>6. main' \in Work /\ main'.out = NoRequest /\ main'.stage = main.stage
      /\ main'.ticket = main.ticket /\ main'.todo = main.todo
  BY <1>2, IdleFacts DEF Inv, TypeOK, Work
<1>7. row \in Row /\ Linked(row.event, row.management)'
      /\ (log'[row.management].by = "bot" /\ log'[row.management].kind = "text" =>
            row.room = log'[log'[row.management].from].room)
  <2>1. CASE log[ev].kind = "answer"
    <3>1. row = [event |-> n, management |-> ev, room |-> out.to]
      BY <1>1, <2>1 DEF StoredRow
    <3>2. log[ev].by = "staff"
      BY <1>3, <2>1 DEF Inv, AnswersInPlace
    <3> QED BY <1>3, <1>4, <3>1, <3>2 DEF Row, Request, Linked, Corresponds, Ids
  <2>2. CASE log[ev].kind # "answer"
    <3>1. row = [event |-> ev, management |-> n,
                 room |-> IF out.kind = "media" THEN out.to ELSE log[ev].room]
      BY <1>1, <2>2 DEF StoredRow
    <3>2. row \in Row
      BY <1>3, <1>4, <3>1 DEF Row, Request, Event, Ids
    <3> QED BY <1>3, <1>4, <3>1, <3>2 DEF Linked, Corresponds
  <2> QED BY <2>1, <2>2
<1>8. RowsSound'
  <2>1. ASSUME NEW p \in pairs' PROVE Linked(p[1], p[2])' /\ log'[p[2]].from = p[1]
    <3>1. CASE p = <<ev, n>>
      BY <1>3, <1>4, <3>1 DEF Linked, Corresponds
    <3>2. CASE p \in pairs
      BY <1>4, <3>2, LinkedStays DEF Inv, RowsSound, Linked
    <3> QED BY <1>2, <2>1, <3>1, <3>2
  <2>2. ASSUME NEW r \in messages'
        PROVE  /\ Linked(r.event, r.management)'
               /\ log'[r.management].by = "bot" /\ log'[r.management].kind = "text" =>
                    r.room = log'[log'[r.management].from].room
    BY <1>2, <1>4, <1>7, <2>2, RowsStay DEF IsClone
  <2> QED BY <2>1, <2>2 DEF RowsSound, IsClone
<1>9. pairs' \subseteq Nat \X Nat /\ messages' \subseteq Row
  BY <1>2, <1>3, <1>4, <1>7 DEF Inv, TypeOK, Ids
<1>10. TypeOK'
  BY <1>2, <1>4, <1>6, <1>9 DEF Inv, TypeOK, desk, Ids
<1>11. RaisedForUser' /\ SavedFirst' /\ QueuedFirst' /\ MainSound'
  BY <1>2, <1>4, <1>6 DEF Inv, RaisedForUser, SavedFirst, QueuedFirst, MainSound, desk
<1> QED BY <1>5, <1>8, <1>10, <1>11 DEF Inv

-----------------------------------------------------------------------------
(* The other actions, and the theorems.                                    *)

LEMMA RelayingStep ==
  ASSUME Inv, UNCHANGED world, Relaying PROVE Inv'
<1>0. main \in Work
  BY DEF Inv, TypeOK
<1>1. ASSUME NEW e \in Ids, HandleRedacted(e) PROVE Inv'
  <2>1. /\ handled' = handled \cup {e}
        /\ UNCHANGED <<server, rows, queue, known, encrypted, desk, dm, main>>
    BY <1>1 DEF HandleRedacted
  <2>2. TypeOK'
    BY <2>1 DEF Inv, TypeOK, server, rows, desk, Ids
  <2> QED BY <2>1, <2>2, QuietStep DEF server, rows, desk, Inv, MainSound
<1>2. CASE Redacted
  <2>1. /\ main.out # NoRequest /\ IsRedaction(main.out.ev)
        /\ gone' \subseteq gone \cup {main.out.ref} /\ main' = [main EXCEPT !.out = NoRequest]
        /\ UNCHANGED <<log, handled, rows, queue, known, encrypted, desk, dm>>
    BY <1>2 DEF Redacted, NoRequestOut, Returned
  <2>2. main.out.ref \in Ids
    BY <2>1 DEF Inv, MainSound, Linked
  <2>3. /\ main' \in Work /\ main'.out = NoRequest /\ main'.todo = main.todo
        /\ main'.stage = main.stage /\ main'.ticket = main.ticket
    BY <1>0, <2>1, IdleFacts DEF Work
  <2>4. TypeOK'
    BY <2>1, <2>2, <2>3 DEF Inv, TypeOK, rows, desk, Ids
  <2> QED BY <2>1, <2>3, <2>4, QuietStep DEF rows, desk, Inv, MainSound
<1>3. CASE RequestFailed
  <2>1. /\ main' = [main EXCEPT !.out = NoRequest]
        /\ UNCHANGED <<server, handled, rows, queue, known, encrypted, desk, dm>>
    BY <1>3 DEF RequestFailed, Returned
  <2>2. /\ main' \in Work /\ main'.out = NoRequest /\ main'.todo = main.todo
        /\ main'.stage = main.stage /\ main'.ticket = main.ticket
    BY <1>0, <2>1, IdleFacts DEF Work
  <2>3. TypeOK'
    BY <2>1, <2>2 DEF Inv, TypeOK, server, rows, desk, Ids
  <2> QED BY <2>1, <2>2, <2>3, QuietStep DEF server, rows, desk, Inv, MainSound
<1> QED BY <1>1, <1>2, <1>3, HandleStep, SentStep DEF Relaying

LEMMA CopyingStep ==
  ASSUME Inv, UNCHANGED world, Copying PROVE Inv'
<1>0. main \in Work
  BY DEF Inv, TypeOK
<1>1. CASE CopyDone
  <2>1. /\ saved' \subseteq saved /\ main' = Idle
        /\ UNCHANGED <<server, handled, pairs, messages, queue, known, encrypted, desk, dm>>
    BY <1>1 DEF CopyDone
  <2>2. TypeOK'
    BY <2>1, IdleFacts DEF Inv, TypeOK, server, desk, Ids
  <2> QED BY <2>1, <2>2, IdleFacts, QuietStep DEF server, desk
<1>2. ASSUME NEW e \in Ids, CopySkips(e) PROVE Inv'
  <2>1. /\ pairs' \subseteq pairs /\ main' = [main EXCEPT !.todo = @ \ {e}]
        /\ UNCHANGED <<server, handled, messages, saved, queue, known, encrypted, desk, dm>>
    BY <1>2 DEF CopySkips
  <2>2. /\ main' \in Work /\ main'.out = main.out /\ main'.todo \subseteq main.todo
        /\ main'.stage = main.stage /\ main'.ticket = main.ticket
    BY <1>0, <2>1 DEF Work
  <2>3. TypeOK'
    BY <2>1, <2>2 DEF Inv, TypeOK, server, desk, Ids
  <2> QED BY <2>1, <2>2, <2>3, QuietStep DEF server, desk, Inv, MainSound
<1> QED BY <1>1, <1>2, CopyNextStep DEF Copying

LEMMA DrainingStep ==
  ASSUME Inv, UNCHANGED world, Draining PROVE Inv'
<1>1. CASE DrainDone
  <2>1. main' = Idle /\ UNCHANGED <<server, handled, rows, queue, known, encrypted, desk, dm>>
    BY <1>1 DEF DrainDone
  <2>2. TypeOK'
    BY <2>1, IdleFacts DEF Inv, TypeOK, server, rows, desk, Ids
  <2> QED BY <2>1, <2>2, IdleFacts, QuietStep DEF server, rows, desk
<1>2. ASSUME NEW t \in Tickets, Drain(t) PROVE Inv'
  <2>1. /\ main' = [Idle EXCEPT !.stage = "draining", !.ticket = t]
        /\ UNCHANGED <<server, handled, rows, queue, known, encrypted, desk, dm>>
    BY <1>2 DEF Drain
  <2>2. /\ main' \in Work /\ main'.out = NoRequest /\ main'.todo = {} /\ main'.ticket = t
    BY <2>1, IdleFacts DEF Work
  <2>3. TypeOK'
    BY <2>1, <2>2 DEF Inv, TypeOK, server, rows, desk, Ids
  <2> QED BY <2>1, <2>2, <2>3, QuietStep DEF server, rows, desk
<1> QED BY <1>1, <1>2, DrainNextStep DEF Draining

\* The first n tasks of a ticket are dropped.
LEMMA SuffixFacts ==
  ASSUME NEW s \in Seq(Task), NEW n \in 1..Len(s)
  PROVE  /\ SubSeq(s, n + 1, Len(s)) \in Seq(Task)
         /\ Len(SubSeq(s, n + 1, Len(s))) = Len(s) - n
         /\ \A i \in 1..(Len(s) - n) : SubSeq(s, n + 1, Len(s))[i] = s[i + n]
OBVIOUS

LEMMA ExpireFacts ==
  ASSUME Inv, NEW t \in Tickets, NEW n \in 1..Len(queue[t]), Expire(t, n)
  PROVE  /\ queue' \in [Tickets -> Seq(Task)]
         /\ UNCHANGED <<server, handled, rows, known, encrypted, desk, dm, main>>
         /\ \A s \in Tickets : \A i \in 1..Len(queue'[s]) :
              \/ s # t /\ i \in 1..Len(queue[s]) /\ queue'[s][i] = queue[s][i]
              \/ s = t /\ i + n \in 1..Len(queue[t]) /\ queue'[s][i] = queue[t][i + n]
<1>1. /\ queue \in [Tickets -> Seq(Task)]
      /\ queue' = [queue EXCEPT ![t] = SubSeq(@, n + 1, Len(@))]
      /\ UNCHANGED <<server, handled, rows, known, encrypted, desk, dm, main>>
  BY DEF Expire, Inv, TypeOK
<1>2. queue[t] \in Seq(Task) /\ queue'[t] = SubSeq(queue[t], n + 1, Len(queue[t]))
  BY <1>1
<1>3. /\ queue'[t] \in Seq(Task)
      /\ Len(queue'[t]) = Len(queue[t]) - n
      /\ \A i \in 1..(Len(queue[t]) - n) : queue'[t][i] = queue[t][i + n]
  BY <1>2, SuffixFacts
<1>4. \A s \in Tickets \ {t} : queue'[s] = queue[s]
  BY <1>1
<1>5. ASSUME NEW i \in 1..Len(queue'[t])
      PROVE  i + n \in 1..Len(queue[t]) /\ queue'[t][i] = queue[t][i + n]
  <2>1. Len(queue[t]) \in Nat
    BY <1>2
  <2> QED BY <1>3, <2>1
<1> QED BY <1>1, <1>3, <1>4, <1>5

LEMMA ExpireStep ==
  ASSUME Inv, UNCHANGED world, NEW t \in Tickets, NEW n \in 1..Len(queue[t]), Expire(t, n)
  PROVE  Inv'
<1>1. /\ queue' \in [Tickets -> Seq(Task)]
      /\ UNCHANGED <<server, handled, rows, known, encrypted, desk, dm, main>>
  BY ExpireFacts
<1>2. TypeOK'
  BY <1>1 DEF Inv, TypeOK, server, rows, desk, Ids
<1>3. AnswersInPlace' /\ ClonesSound' /\ RowsSound'
  BY <1>1, LogStays DEF server, rows
<1>4. RaisedForUser' /\ SavedFirst' /\ MainSound'
  BY <1>1 DEF Inv, RaisedForUser, SavedFirst, MainSound, ToWriter, Linked, Corresponds, Ids,
     IsRedaction, server, rows, desk
<1>5. \A s \in Tickets : \A i \in 1..Len(queue'[s]) :
        \E j \in 1..Len(queue[s]) : queue'[s][i] = queue[s][j]
  BY ExpireFacts
<1>6. QueuedFirst'
  <2>1. Ids' = Ids /\ log' = log
    BY <1>1 DEF server, Ids
  <2>2. ASSUME NEW s \in Tickets, NEW i \in 1..Len(queue'[s]) PROVE queue'[s][i].ev \in Ids
    <3>1. PICK j \in 1..Len(queue[s]) : queue'[s][i] = queue[s][j]
      BY <1>5
    <3>2. queue[s][j].ev \in Ids
      BY DEF Inv, QueuedFirst
    <3> QED BY <3>1, <3>2
  <2> QED BY <2>1, <2>2 DEF QueuedFirst
<1> QED BY <1>2, <1>3, <1>4, <1>6 DEF Inv

\* The rows of tickets, and what the client knows.
LEMMA DeskStep ==
  ASSUME Inv, UNCHANGED world,
         \/ \E u \in Users, t \in Tickets : Raise(u, t)
         \/ Waiting \/ \E t \in Tickets : Close(t) \/ Reopen(t)
  PROVE  Inv'
<1>1. ASSUME NEW u \in Users, NEW t \in Tickets, Raise(u, t) PROVE Inv'
  <2>1. /\ status' = [status EXCEPT ![t] = "open"] /\ owner' = [owner EXCEPT ![t] = u]
        /\ current' = [current EXCEPT ![u] = t] /\ known' \subseteq known \cup {t}
        /\ encrypted' \subseteq encrypted \cup {t}
        /\ main' = [Idle EXCEPT !.stage = "copying", !.ticket = t,
                                !.todo = {e \in saved : UserOf(log[e].room) = u}]
        /\ UNCHANGED <<server, handled, rows, queue, dm>>
    BY <1>1 DEF Raise
  <2>2. /\ main' \in Work /\ main'.out = NoRequest /\ main'.todo \subseteq saved
        /\ main'.ticket = t
    BY <2>1, IdleFacts DEF Work, Inv, TypeOK
  <2>3. TypeOK'
    <3>1. /\ known' \subseteq Tickets /\ encrypted' \subseteq Tickets
          /\ status' \in [Tickets -> {"none", "open", "closed"}]
          /\ owner' \in [Tickets -> Users \cup {Desk}]
          /\ current' \in [Users -> Tickets \cup {NoTicket}]
      BY <2>1 DEF Inv, TypeOK
    <3> QED BY <2>1, <2>2, <3>1 DEF Inv, TypeOK, server, rows, Ids
  <2>4. RaisedForUser' /\ SavedFirst' /\ QueuedFirst'
    BY <2>1, <2>2 DEF Inv, TypeOK, RaisedForUser, SavedFirst, QueuedFirst, server, rows, Ids
  <2>5. AnswersInPlace' /\ ClonesSound' /\ RowsSound'
    BY <2>1, LogStays DEF server, rows
  <2>6. MainSound'
    BY <2>2 DEF MainSound
  <2> QED BY <2>3, <2>4, <2>5, <2>6 DEF Inv
<1>2. ASSUME NEW t \in Tickets, Learn(t) \/ Encrypt(t) PROVE Inv'
  <2>1. /\ known' \subseteq known \cup {t} /\ encrypted' \subseteq encrypted \cup {t}
        /\ UNCHANGED <<server, handled, rows, queue, desk, dm, main>>
    BY <1>2 DEF Learn, Encrypt
  <2>2. TypeOK'
    BY <2>1 DEF Inv, TypeOK, server, rows, desk, Ids
  <2> QED BY <2>1, <2>2, QuietStep DEF server, rows, desk, Inv, MainSound
<1>3. ASSUME NEW t \in Tickets, Close(t) \/ Reopen(t) PROVE Inv'
  <2>1. /\ status[t] # "none"
        /\ status' \in {[status EXCEPT ![t] = "closed"], [status EXCEPT ![t] = "open"]}
        /\ current' \in {[current EXCEPT ![owner[t]] = IF @ = t THEN NoTicket ELSE @],
                         [current EXCEPT ![owner[t]] = t]}
        /\ UNCHANGED <<server, handled, rows, queue, known, encrypted, owner, dm, main>>
    BY <1>3 DEF Close, Reopen
  <2>2. owner[t] \in Users
    BY <2>1 DEF Inv, RaisedForUser
  <2>3. TypeOK'
    BY <2>1, <2>2 DEF Inv, TypeOK, server, rows, Ids
  <2>4. \A s \in Tickets : status'[s] # "none" => status[s] # "none"
    BY <2>1 DEF Inv, TypeOK
  <2> QED BY <2>1, <2>3, <2>4, QuietStep DEF server, rows, Inv, MainSound
<1> QED BY <1>1, <1>2, <1>3, ExpireStep DEF Waiting

LEMMA CrashStep ==
  ASSUME Inv, UNCHANGED world, Crash PROVE Inv'
<1>1. /\ queue' = [t \in Tickets |-> <<>>] /\ known' \subseteq known /\ main' = Idle
      /\ handled' \subseteq Ids
      /\ UNCHANGED <<gone, rows, encrypted, desk, dm>>
  BY DEF Crash, Posts, Inv, TypeOK, Ids
<1>2. CASE UNCHANGED log
  <2>1. TypeOK'
    BY <1>1, <1>2, IdleFacts DEF Inv, TypeOK, rows, desk, Ids
  <2> QED BY <1>1, <1>2, <2>1, IdleFacts, QuietStep DEF rows, desk
<1>3. CASE Requesting /\ log' = Append(log, Clone(main.out))
  <2>1. PICK v : v = Clone(main.out)
    OBVIOUS
  <2>2. v \in Event /\ log' = Append(log, v) /\ AnswersInPlace' /\ ClonesSound'
    BY <1>3, <2>1, RequestFacts, CloneSound
  <2>3. log' \in Seq(Event) /\ Ids \subseteq Ids' /\ \A e \in Ids : log'[e] = log[e]
    BY <2>2, Grows DEF Inv
  <2>4. TypeOK'
    <3>1. gone' \subseteq 1..Len(log') /\ handled' \subseteq 1..Len(log')
      BY <1>1, <2>3 DEF Inv, TypeOK, Ids
    <3>2. queue' \in [Tickets -> Seq(Task)] /\ known' \subseteq Tickets
          /\ encrypted' \subseteq Tickets /\ main' \in Work
      BY <1>1, IdleFacts DEF Inv, TypeOK
    <3> QED BY <1>1, <2>3, <3>1, <3>2 DEF Inv, TypeOK, rows, desk
  <2>5. RowsSound'
    BY <1>1, <2>3, RowsStay, LinkedStays DEF Inv, RowsSound, Linked, IsClone, rows
  <2>6. RaisedForUser' /\ SavedFirst' /\ QueuedFirst' /\ MainSound'
    BY <1>1, <2>3, IdleFacts
       DEF Inv, RaisedForUser, SavedFirst, QueuedFirst, MainSound, rows, desk
  <2> QED BY <2>2, <2>4, <2>5, <2>6 DEF Inv
<1> QED BY <1>2, <1>3 DEF Crash

LEMMA InitInv == Init => Inv
<1> SUFFICES ASSUME Init PROVE Inv
  OBVIOUS
<1>1. Ids = {} /\ log \in Seq(Event)
  BY DEF Init, Ids
<1>2. TypeOK
  <2>1. dm \in [Users -> Channels]
    BY OneChannel DEF Init, Channels
  <2> QED BY <1>1, <2>1, IdleFacts DEF Init, TypeOK, Ids
<1>3. AnswersInPlace /\ ClonesSound /\ RowsSound
  BY <1>1 DEF Init, AnswersInPlace, ClonesSound, RowsSound
<1>4. RaisedForUser /\ SavedFirst /\ QueuedFirst /\ MainSound
  BY IdleFacts DEF Init, RaisedForUser, SavedFirst, QueuedFirst, MainSound
<1> QED BY <1>2, <1>3, <1>4 DEF Inv

LEMMA NextInv == Inv /\ [Next]_vars => Inv'
<1> SUFFICES ASSUME Inv, [Next]_vars PROVE Inv'
  OBVIOUS
<1>0. UNCHANGED world
  BY DEF Next, vars
<1>1. CASE UNCHANGED vars
  <2>1. TypeOK'
    BY <1>1 DEF Inv, TypeOK, vars, state, server, rows, desk
  <2> QED BY <1>1, <2>1, QuietStep DEF vars, state, server, rows, desk, Inv, MainSound
<1> QED
  BY <1>0, <1>1, PostingStep, RelayingStep, CopyingStep, DrainingStep, DeskStep, CrashStep
     DEF Next, Step

\* Inv holds in every state: each row, request and clone stands for what was written.
THEOREM InvAlways == Spec => []Inv
BY InitInv, NextInv, PTL DEF Spec

\* The mirror keeps its types.
THEOREM TypeCorrect == Spec => []TypeOK
<1>1. Inv => TypeOK
  BY DEF Inv
<1> QED BY <1>1, InvAlways, PTL

\* A clone refers to the counterpart of what its original refers to, whatever is
\* copied, dropped, replayed or lost in between.
THEOREM RightReference == Spec => []RefersToCounterpart
<1>1. Inv => RefersToCounterpart
  BY DEF Inv, ClonesSound, RefersToCounterpart, Linked, Clones
<1> QED BY <1>1, InvAlways, PTL

\* The answer to a text goes to the room the text came from, whatever is
\* copied, closed, lost or reordered between the two.
THEOREM RightAddressee == Spec => []AnswerReachesWriter
<1>1. Inv => AnswerReachesWriter
  BY DEF Inv, ClonesSound, AnswerReachesWriter, ReachWriters, ToWriter, Clones
<1> QED BY <1>1, InvAlways, PTL

-----------------------------------------------------------------------------
(* Each event has one pair at most, and waits once at most.                *)

FromUsers == {e \in Posts : log[e].by = "user"}
Unpaired(e) == \A p \in pairs : p[1] # e
Waits(q, e) == \E t \in Tickets : \E i \in 1..Len(q[t]) : q[t][i].ev = e
Distinct(q) ==
  \A s, t \in Tickets : \A i \in 1..Len(q[s]), j \in 1..Len(q[t]) :
    q[s][i].ev = q[t][j].ev => s = t /\ i = j

\* Whose event the sync loop copies.
Copied(e) == main.stage = "copying" /\ UserOf(log[e].room) = owner[main.ticket]

\* Who owns a ticket, and what people post.
Owned ==
  /\ \A t \in Tickets : status[t] = "none" => owner[t] = Desk
  /\ \A u \in Users : current[u] # NoTicket => owner[current[u]] = u
Posted ==
  \A e \in Posts : e \in MessageIds /\ (log[e].by = "user" <=> log[e].room \in Channels)

PairedOnce == \A p, q \in pairs : p[1] = q[1] => p = q
NewUnseen == \A e \in Posts \ handled : Unpaired(e) /\ e \notin saved /\ ~Waits(queue, e)
CopiedApart ==
  /\ saved \subseteq FromUsers /\ main.todo \subseteq saved
  /\ \A e \in main.todo : Copied(e) /\ ~Waits(queue, e)

\* What waits is unpaired, and not saved unless its copy is not over.
WaitsOnce ==
  /\ Distinct(queue)
  /\ \A e \in Ids : Waits(queue, e) =>
       e \in FromUsers /\ Unpaired(e) /\ e # main.out.ev /\ (e \in saved => Copied(e))

\* What is requested is unpaired; a user's message goes to a ticket of the user.
RequestedOnce ==
  main.out # NoRequest =>
    /\ main.out.ev \in Posts \cap handled /\ Unpaired(main.out.ev)
    /\ main.out.ev \in FromUsers =>
         /\ main.out.to \in TicketRooms \cup {Management}
         /\ main.out.to \in TicketRooms =>
              owner[TicketOf(main.out.to)] = UserOf(log[main.out.ev].room)

Once == PairedOnce /\ NewUnseen /\ CopiedApart /\ WaitsOnce /\ RequestedOnce
OnceInv == Inv /\ Owned /\ Posted /\ Once

\* What was posted by whom does not change.
LEMMA PostsStay ==
  ASSUME Ids \subseteq Ids', \A e \in Ids : log'[e] = log[e]
  PROVE  /\ \A e \in Ids : /\ e \in Posts' <=> e \in Posts
                           /\ e \in FromUsers' <=> e \in FromUsers
         /\ Posts \subseteq Posts' /\ FromUsers \subseteq FromUsers'
         /\ FromUsers \subseteq Posts /\ Posts \subseteq Ids
BY DEF Posts, FromUsers

\* A step that at most takes pairs, requests and work away.
LEMMA Settles ==
  ASSUME OnceInv, Inv', Ids \subseteq Ids', \A e \in Ids : log'[e] = log[e],
         handled \subseteq handled', pairs' \subseteq pairs, saved' \subseteq saved,
         \A t \in Tickets : queue'[t] \in {queue[t], <<>>}, owner' = owner,
         main'.out \in {main.out, NoRequest}, main'.todo \subseteq main.todo \cap saved',
         \A e \in main'.todo : Copied(e)',
         \A e \in Ids : Waits(queue', e) /\ e \in saved' => Copied(e)'
  PROVE  Once'
<1>1. \A e : Waits(queue', e) => Waits(queue, e)
  BY DEF Waits
<1>2. \A e : Unpaired(e) => Unpaired(e)'
  BY DEF Unpaired
<1>3. PairedOnce'
  BY DEF OnceInv, Once, PairedOnce
<1>4. ASSUME NEW e \in Posts' \ handled'
      PROVE  Unpaired(e)' /\ e \notin saved' /\ ~Waits(queue', e)
  <2>1. CASE e \in Ids
    BY <1>1, <1>2, <1>4, <2>1, PostsStay DEF OnceInv, Once, NewUnseen
  <2>2. CASE e \notin Ids
    <3>1. Unpaired(e)
      BY <2>2 DEF OnceInv, Inv, RowsSound, Linked, Unpaired
    <3>2. e \notin saved
      BY <2>2 DEF OnceInv, Inv, SavedFirst
    <3>3. ~Waits(queue, e)
      BY <2>2 DEF OnceInv, Inv, QueuedFirst, Waits
    <3> QED BY <1>1, <1>2, <3>1, <3>2, <3>3
  <2> QED BY <2>1, <2>2
<1>5. CopiedApart'
  BY <1>1, PostsStay DEF OnceInv, Once, CopiedApart
<1>6. Distinct(queue')
  BY DEF OnceInv, Once, WaitsOnce, Distinct
<1>7. ASSUME NEW e \in Ids', Waits(queue', e)
      PROVE  /\ e \in FromUsers' /\ Unpaired(e)' /\ e # main'.out.ev
             /\ e \in saved' => Copied(e)'
  <2>1. e \in Ids /\ e # 0
    BY <1>1, <1>7 DEF OnceInv, Inv, QueuedFirst, Waits, Ids
  <2> QED BY <1>1, <1>2, <1>7, <2>1, PostsStay DEF OnceInv, Once, WaitsOnce, NoRequest
<1>8. RequestedOnce'
  BY <1>2, PostsStay DEF OnceInv, Once, RequestedOnce, FromUsers
<1> QED BY <1>3, <1>4, <1>5, <1>6, <1>7, <1>8 DEF Once, NewUnseen, WaitsOnce
\* A task is queued, or the first one is taken.
Added(r, q, t, task) == r = [q EXCEPT ![t] = Append(@, task)]
Taken(r, q, t) == r = [q EXCEPT ![t] = Tail(@)]

LEMMA QueueAppended ==
  ASSUME NEW q, SoundQueue(q), Distinct(q), NEW task \in Task, ~Waits(q, task.ev),
         NEW t \in Tickets, NEW r, Added(r, q, t, task)
  PROVE  Distinct(r) /\ \A f : Waits(r, f) => Waits(q, f) \/ f = task.ev
<1>1. \A s \in Tickets : q[s] \in Seq(Task)
  BY DEF SoundQueue
<1>2. /\ Len(r[t]) = Len(q[t]) + 1 /\ r[t][Len(q[t]) + 1] = task
      /\ \A i \in 1..Len(q[t]) : r[t][i] = q[t][i]
      /\ \A s \in Tickets \ {t} : r[s] = q[s]
  BY <1>1 DEF SoundQueue, Added
<1>3. ASSUME NEW s \in Tickets, NEW i \in 1..Len(r[s])
      PROVE  \/ i \in 1..Len(q[s]) /\ r[s][i] = q[s][i]
             \/ s = t /\ i = Len(q[t]) + 1 /\ r[s][i] = task
  BY <1>1, <1>2, <1>3
<1>4. \A s \in Tickets : \A i \in 1..Len(q[s]) : q[s][i].ev # task.ev
  BY DEF Waits
<1>5. Distinct(r)
  <2> SUFFICES ASSUME NEW s \in Tickets, NEW v \in Tickets,
                      NEW i \in 1..Len(r[s]), NEW j \in 1..Len(r[v]), r[s][i].ev = r[v][j].ev
               PROVE  s = v /\ i = j
    BY DEF Distinct
  <2>1. /\ \/ i \in 1..Len(q[s]) /\ r[s][i] = q[s][i]
           \/ s = t /\ i = Len(q[t]) + 1 /\ r[s][i] = task
        /\ \/ j \in 1..Len(q[v]) /\ r[v][j] = q[v][j]
           \/ v = t /\ j = Len(q[t]) + 1 /\ r[v][j] = task
    BY <1>3
  <2>2. CASE i \in 1..Len(q[s]) /\ r[s][i] = q[s][i] /\ j \in 1..Len(q[v]) /\ r[v][j] = q[v][j]
    <3>1. q[s][i].ev = q[v][j].ev
      BY <2>2
    <3> QED BY <2>2, <3>1 DEF Distinct
  <2>3. ~(i \in 1..Len(q[s]) /\ r[s][i] = q[s][i] /\ r[v][j] = task)
    BY <1>4
  <2>4. ~(j \in 1..Len(q[v]) /\ r[v][j] = q[v][j] /\ r[s][i] = task)
    BY <1>4
  <2> QED BY <2>1, <2>2, <2>3, <2>4
<1>6. ASSUME NEW f, Waits(r, f) PROVE Waits(q, f) \/ f = task.ev
  BY <1>3, <1>6 DEF Waits
<1> QED BY <1>5, <1>6

LEMMA QueueOnce ==
  ASSUME NEW q, SoundQueue(q), Distinct(q), NEW e \in Ids, ~Waits(q, e), NEW r,
         r = q \/ \E t \in Tickets : Added(r, q, t, [ev |-> e, kind |-> "text"])
  PROVE  Distinct(r) /\ \A f : Waits(r, f) => Waits(q, f) \/ (f = e /\ r # q)
<1>1. PICK task : task = [ev |-> e, kind |-> "text"]
  OBVIOUS
<1>2. task \in Task /\ task.ev = e
  BY <1>1 DEF Task, Ids
<1>3. CASE r # q
  BY <1>1, <1>2, <1>3, QueueAppended
<1> QED BY <1>3

LEMMA QueueTaken ==
  ASSUME NEW q, SoundQueue(q), Distinct(q), NEW t \in Tickets, q[t] # <<>>,
         NEW r, Taken(r, q, t)
  PROVE  /\ Distinct(r) /\ ~Waits(r, Head(q[t]).ev)
         /\ \A f : Waits(r, f) => Waits(q, f)
<1>1. q[t] \in Seq(Task) /\ Head(q[t]) = q[t][1] /\ 1 \in 1..Len(q[t])
  BY DEF SoundQueue
<1>2. r[t] = Tail(q[t]) /\ \A s \in Tickets \ {t} : r[s] = q[s]
  BY DEF SoundQueue, Taken
<1>3. \A i \in 1..Len(r[t]) : r[t][i] = q[t][i + 1] /\ i + 1 \in 1..Len(q[t])
  BY <1>1, <1>2, TailFacts
<1>4. ASSUME NEW s \in Tickets, NEW i \in 1..Len(r[s])
      PROVE  \/ s # t /\ i \in 1..Len(q[s]) /\ r[s][i] = q[s][i]
             \/ s = t /\ i + 1 \in 1..Len(q[t]) /\ r[s][i] = q[s][i + 1]
  BY <1>2, <1>3, <1>4
<1>5. Distinct(r)
  <2> SUFFICES ASSUME NEW s \in Tickets, NEW v \in Tickets,
                      NEW i \in 1..Len(r[s]), NEW j \in 1..Len(r[v]), r[s][i].ev = r[v][j].ev
               PROVE  s = v /\ i = j
    BY DEF Distinct
  <2>1. PICK k \in 1..Len(q[s]) : q[s][k] = r[s][i] /\ k = IF s = t THEN i + 1 ELSE i
    BY <1>4
  <2>2. PICK l \in 1..Len(q[v]) : q[v][l] = r[v][j] /\ l = IF v = t THEN j + 1 ELSE j
    BY <1>4
  <2>3. q[s][k].ev = q[v][l].ev
    BY <2>1, <2>2
  <2>4. s = v /\ k = l
    BY <2>3 DEF Distinct
  <2> QED BY <2>1, <2>2, <2>4
<1>6. ASSUME NEW f, Waits(r, f) PROVE Waits(q, f) /\ f # Head(q[t]).ev
  <2>1. PICK s \in Tickets : \E i \in 1..Len(r[s]) : r[s][i].ev = f
    BY <1>6 DEF Waits
  <2>2. PICK i \in 1..Len(r[s]) : r[s][i].ev = f
    BY <2>1
  <2>3. PICK k \in 1..Len(q[s]) : q[s][k] = r[s][i] /\ k = IF s = t THEN i + 1 ELSE i
    BY <1>4
  <2>4. Waits(q, f)
    BY <2>2, <2>3 DEF Waits
  <2>5. s = t => k # 1
    BY <2>3
  <2>6. f # q[t][1].ev
    BY <1>1, <2>2, <2>3, <2>5 DEF Distinct
  <2> QED BY <1>1, <2>4, <2>6
<1> QED BY <1>5, <1>6

\* What Message.process may do beside nothing: save the event, request its clone
\* and queue it.
Outcome(e, work, q) ==
  /\ saved \subseteq saved' /\ saved' \subseteq saved \cup {e}
  /\ saved' # saved => log[e].room \in Channels
  /\ main'.stage = work.stage /\ main'.ticket = work.ticket /\ main'.todo = work.todo
  /\ \/ main'.out = NoRequest
     \/ /\ main'.out.ev = e
        /\ log[e].room \in Channels => main'.out.to = Route(UserOf(log[e].room))
  /\ \/ queue' = q
     \/ queue' = queue /\ log[e].room \notin Channels
     \/ /\ log[e].room \in Channels /\ main'.out = NoRequest /\ saved' = saved
        /\ \E t \in Tickets : Added(queue', q, t, [ev |-> e, kind |-> "text"])

LEMMA Processed ==
  ASSUME OnceInv, NEW work \in Work, work.out = NoRequest, NEW q, NEW e \in Ids,
         NEW kind \in {"text", "media"}, Process(e, kind, work, q)
  PROVE  Outcome(e, work, q)
<1> DEFINE r == log[e].room
<1>1. ASSUME NEW to, Forward(e, kind, to, work, q)
      PROVE  /\ main'.stage = work.stage /\ main'.ticket = work.ticket /\ main'.todo = work.todo
             /\ \/ main'.out = NoRequest
                \/ main'.out.ev = e /\ main'.out.to = to
             /\ \/ queue' = q
                \/ /\ to \in TicketRooms /\ TicketOf(to) \in Tickets /\ main'.out = NoRequest
                   /\ Added(queue', q, TicketOf(to), [ev |-> e, kind |-> "text"])
  <2>1. CASE Known(to)
    <3>1. PICK ref : main' = IF IsRedaction(e) /\ ref = 0 THEN work
                             ELSE [work EXCEPT !.out = [ev |-> e, kind |-> kind, to |-> to,
                                                        ref |-> ref]]
      BY <1>1, <2>1 DEF Forward
    <3> QED BY <1>1, <2>1, <3>1 DEF Forward, Work
  <2>2. CASE ~Known(to)
    BY <1>1, <2>2, PlaceFacts DEF Forward, Known, Added
  <2> QED BY <2>1, <2>2
<1>2. CASE r \in Channels
  <2>1. /\ saved' = IF Route(UserOf(r)) = Management THEN saved \cup {e} ELSE saved
        /\ Forward(e, kind, Route(UserOf(r)), work, q)
    BY <1>2, PlaceFacts DEF Process, RelayFromUser
  <2>2. Route(UserOf(r)) \in TicketRooms => saved' = saved
    BY <2>1, PlaceFacts
  <2> QED BY <1>1, <1>2, <2>1, <2>2 DEF Outcome
<1>3. CASE r \in TicketRooms
  <2>1. /\ r \notin Channels /\ saved' = saved
        /\ \/ /\ Forward(e, kind, dm[owner[TicketOf(r)]], work, q)
              /\ status[TicketOf(r)] = "open"
           \/ main' = work /\ queue' = q
    BY <1>3, PlaceFacts DEF Process, RelayFromStaff
  <2>2. status[TicketOf(r)] = "open" => dm[owner[TicketOf(r)]] \notin TicketRooms
    BY <1>3, PlaceFacts DEF OnceInv, Inv, TypeOK, RaisedForUser
  <2> QED BY <1>1, <2>1, <2>2 DEF Outcome
<1>4. CASE r \notin Channels /\ r \notin TicketRooms
  <2>1. /\ UNCHANGED <<saved, queue>>
        /\ \/ \E row : main' = [work EXCEPT !.out = [ev |-> e, kind |-> "text",
                                                  to |-> row.room, ref |-> row.event]]
           \/ main' = work
    BY <1>4 DEF Process, RelayAnswer
  <2> QED BY <1>4, <2>1 DEF Work, Outcome
<1> QED BY <1>2, <1>3, <1>4
\* An event that neither waits nor has a pair is relayed.
LEMMA ProcessOnce ==
  ASSUME OnceInv, Inv', UNCHANGED <<log, owner>>, main.out = NoRequest,
         NEW e \in Posts, e \in handled', handled \subseteq handled',
         pairs' \subseteq pairs, Unpaired(e)', e \in saved => Copied(e),
         NEW work \in Work, work.out = NoRequest, work.stage = main.stage,
         work.ticket = main.ticket, work.todo \subseteq main.todo, e \notin work.todo,
         NEW q, SoundQueue(q), Distinct(q), ~Waits(q, e), \A f : Waits(q, f) => Waits(queue, f),
         q = queue \/ log[e].room \in Channels,
         NEW kind \in {"text", "media"}, Process(e, kind, work, q)
  PROVE  Once'
<1>0. Outcome(e, work, q)
  BY Processed DEF Posts
<1>1. /\ saved \subseteq saved' /\ saved' \subseteq saved \cup {e}
      /\ saved' # saved => log[e].room \in Channels
      /\ main'.stage = work.stage /\ main'.ticket = work.ticket /\ main'.todo = work.todo
      /\ \/ main'.out = NoRequest
         \/ /\ main'.out.ev = e
            /\ log[e].room \in Channels => main'.out.to = Route(UserOf(log[e].room))
      /\ \/ queue' = q
         \/ /\ log[e].room \in Channels /\ main'.out = NoRequest /\ saved' = saved
            /\ \E t \in Tickets : Added(queue', q, t, [ev |-> e, kind |-> "text"])
  BY <1>0 DEF Outcome
<1>2. /\ Posts' = Posts /\ FromUsers' = FromUsers /\ Ids' = Ids /\ Posts \subseteq Ids
      /\ \A f : Copied(f) => Copied(f)'
      /\ \A f : Unpaired(f) => Unpaired(f)'
  BY <1>1 DEF Posts, FromUsers, Ids, Copied, Unpaired
<1>3. log[e].room \in Channels <=> e \in FromUsers
  BY DEF OnceInv, Posted, FromUsers
<1>4. Distinct(queue') /\ \A f : Waits(queue', f) => Waits(q, f) \/ (f = e /\ queue' # q)
  <2>1. e \in Ids
    BY DEF Posts
  <2>2. queue' = q \/ \E t \in Tickets : Added(queue', q, t, [ev |-> e, kind |-> "text"])
    BY <1>1
  <2> QED BY <2>1, <2>2, QueueOnce
<1>5. PairedOnce'
  BY DEF OnceInv, Once, PairedOnce
<1>6. ASSUME NEW f \in Posts' \ handled'
      PROVE  Unpaired(f)' /\ f \notin saved' /\ ~Waits(queue', f)
  BY <1>1, <1>2, <1>4, <1>6 DEF OnceInv, Once, NewUnseen
<1>7. CopiedApart'
  <2>1. saved' \subseteq FromUsers' /\ main'.todo \subseteq saved'
    BY <1>1, <1>2, <1>3 DEF OnceInv, Once, CopiedApart
  <2>2. \A f \in main'.todo : Copied(f)' /\ ~Waits(queue', f)
    BY <1>1, <1>2, <1>4 DEF OnceInv, Once, CopiedApart
  <2> QED BY <2>1, <2>2 DEF CopiedApart
<1>8. ASSUME NEW f \in Ids', Waits(queue', f)
      PROVE  /\ f \in FromUsers' /\ Unpaired(f)' /\ f # main'.out.ev
             /\ f \in saved' => Copied(f)'
  <2>1. CASE Waits(q, f)
    <3>1. f \in FromUsers /\ Unpaired(f) /\ (f \in saved => Copied(f)) /\ f # e /\ f # 0
      BY <1>2, <1>8, <2>1 DEF OnceInv, Once, WaitsOnce, Ids
    <3> QED BY <1>1, <1>2, <3>1 DEF NoRequest
  <2>2. CASE f = e /\ queue' # q
    BY <1>1, <1>2, <1>3, <2>2 DEF NoRequest, Ids
  <2> QED BY <1>4, <1>8, <2>1, <2>2
<1>9. RequestedOnce'
  <2> SUFFICES ASSUME main'.out # NoRequest
               PROVE  /\ main'.out.ev \in Posts \cap handled' /\ Unpaired(main.out.ev)'
                      /\ main'.out.ev \in FromUsers =>
                           /\ main'.out.to \in TicketRooms \cup {Management}
                           /\ main'.out.to \in TicketRooms =>
                                owner[TicketOf(main'.out.to)] = UserOf(log[main'.out.ev].room)
    BY <1>2 DEF RequestedOnce
  <2>1. main'.out.ev = e
    BY <1>1
  <2>2. ASSUME e \in FromUsers
        PROVE  /\ main'.out.to \in TicketRooms \cup {Management}
               /\ main'.out.to \in TicketRooms =>
                    owner[TicketOf(main'.out.to)] = UserOf(log[e].room)
    <3>1. PICK u \in Users : u = UserOf(log[e].room)
      BY <1>3, <2>2, PlaceFacts
    <3>2. main'.out.to = TicketRoom(current[u])
      BY <1>1, <1>3, <2>2, <3>1 DEF Route
    <3>3. CASE current[u] = NoTicket
      BY <3>2, <3>3, PlaceFacts DEF TicketRoom, Management, NoTicket
    <3>4. CASE current[u] \in Tickets
      <4>1. owner[current[u]] = u
        BY <3>4, BoundFacts DEF OnceInv, Owned, Tickets, NoTicket
      <4>2. TicketOf(TicketRoom(current[u])) = current[u]
        BY DEF TicketOf, TicketRoom
      <4> QED BY <3>1, <3>2, <3>4, <4>1, <4>2, PlaceFacts
    <3> QED BY <3>3, <3>4 DEF OnceInv, Inv, TypeOK
  <2>3. Unpaired(main.out.ev)'
    BY <2>1 DEF Unpaired
  <2> QED BY <2>1, <2>2, <2>3
<1> QED BY <1>4, <1>5, <1>6, <1>7, <1>8, <1>9 DEF Once, NewUnseen, WaitsOnce

LEMMA HandleOnce ==
  ASSUME OnceInv, Inv', NEW e \in Ids, Handle(e) PROVE Once'
<1>1. /\ main = Idle /\ e \in Posts \ handled
      /\ UNCHANGED <<server, pairs, messages, known, encrypted, desk>>
      /\ handled' = handled \cup {e}
      /\ Process(e, IF log[e].kind = "answer" THEN "text" ELSE log[e].kind, Idle, queue)
  BY DEF Handle, IsIdle, NextOfRoom
<1>2. (IF log[e].kind = "answer" THEN "text" ELSE log[e].kind) \in {"text", "media"}
  <2>1. log[e] \in Event
    BY DEF OnceInv, Inv, TypeOK, Ids
  <2> QED BY <2>1 DEF Event
<1>3. /\ SoundQueue(queue) /\ Distinct(queue) /\ ~Waits(queue, e) /\ e \notin saved
      /\ Unpaired(e)'
  BY <1>1 DEF SoundQueue, OnceInv, Inv, TypeOK, QueuedFirst, Once, WaitsOnce, NewUnseen,
     Unpaired
<1> QED BY <1>1, <1>2, <1>3, IdleFacts, ProcessOnce DEF server, desk

LEMMA DrainNextOnce ==
  ASSUME OnceInv, Inv', DrainNext PROVE Once'
<1>1. PICK t, task, rest :
        t = main.ticket /\ task = Head(queue[t]) /\ rest = [queue EXCEPT ![t] = Tail(@)]
  OBVIOUS
<1>2. /\ main.stage = "draining" /\ main.out = NoRequest /\ queue[t] # <<>>
      /\ UNCHANGED <<server, handled, pairs, messages, known, encrypted, desk>>
      /\ \/ queue' = rest /\ UNCHANGED <<dm, saved, main>>
         \/ Process(task.ev, task.kind, main, rest)
  BY <1>1 DEF DrainNext, NoRequestOut
<1>3. t \in Tickets /\ main \in Work
  BY <1>1, <1>2 DEF OnceInv, Inv, TypeOK, MainSound
<1>4. SoundQueue(queue) /\ Distinct(queue)
  BY DEF SoundQueue, OnceInv, Inv, TypeOK, QueuedFirst, Once, WaitsOnce
<1>5. Distinct(rest) /\ ~Waits(rest, task.ev) /\ \A f : Waits(rest, f) => Waits(queue, f)
  <2>1. queue[t] # <<>> /\ Taken(rest, queue, t) /\ task = Head(queue[t])
    BY <1>1, <1>2 DEF Taken
  <2> QED BY <1>3, <1>4, <2>1, QueueTaken
<1>6. /\ task.ev \in Ids /\ Waits(queue, task.ev) /\ task.kind \in {"text", "media"}
  <2>1. queue[t] \in Seq(Task)
    BY <1>3, <1>4 DEF SoundQueue
  <2>2. task = queue[t][1] /\ 1 \in 1..Len(queue[t]) /\ task \in Task
    BY <1>1, <1>2, <2>1
  <2> QED BY <1>3, <1>4, <2>2 DEF Task, Waits, SoundQueue
<1>7. /\ task.ev \in FromUsers /\ Unpaired(task.ev) /\ task.ev \notin saved
      /\ task.ev \in Posts \cap handled /\ task.ev \notin main.todo
      /\ log[task.ev].room \in Channels
  BY <1>2, <1>6 DEF OnceInv, Once, WaitsOnce, Copied, FromUsers, NewUnseen, CopiedApart, Posted
<1>8. CASE queue' = rest /\ UNCHANGED <<dm, saved, main>>
  <2>1. /\ UNCHANGED <<log, owner, pairs, handled>>
        /\ Posts' = Posts /\ FromUsers' = FromUsers /\ Ids' = Ids
        /\ \A f : (Copied(f)' <=> Copied(f)) /\ (Unpaired(f)' <=> Unpaired(f))
    BY <1>2, <1>8 DEF server, desk, Posts, FromUsers, Ids, Copied, Unpaired
  <2>2. PairedOnce' /\ RequestedOnce'
    BY <1>8, <2>1 DEF OnceInv, Once, PairedOnce, RequestedOnce, Unpaired
  <2>3. NewUnseen'
    BY <1>5, <1>8, <2>1 DEF OnceInv, Once, NewUnseen
  <2>4. CopiedApart'
    BY <1>5, <1>8, <2>1 DEF OnceInv, Once, CopiedApart
  <2>5. WaitsOnce'
    BY <1>5, <1>8, <2>1 DEF OnceInv, Once, WaitsOnce
  <2> QED BY <2>2, <2>3, <2>4, <2>5 DEF Once
<1>9. CASE Process(task.ev, task.kind, main, rest)
  <2>1. UNCHANGED <<log, owner, pairs, handled>> /\ Unpaired(task.ev)'
    BY <1>2, <1>7 DEF server, desk, Unpaired
  <2>2. SoundQueue(rest)
    <3>1. rest \in [Tickets -> Seq(Task)]
      BY <1>1, <1>2, <1>3, <1>4 DEF SoundQueue
    <3>2. \A f : Waits(rest, f) => f \in Ids
      BY <1>4, <1>5 DEF SoundQueue, Waits
    <3> QED BY <3>1, <3>2 DEF SoundQueue, Waits
  <2> QED BY <1>2, <1>3, <1>5, <1>6, <1>7, <1>9, <2>1, <2>2, ProcessOnce
<1> QED BY <1>2, <1>8, <1>9
LEMMA CopyNextOnce ==
  ASSUME OnceInv, Inv', NEW e \in Ids, CopyNext(e) PROVE Once'
<1>1. PICK t, work : t = main.ticket /\ work = [main EXCEPT !.todo = @ \ {e}]
  OBVIOUS
<1>2. /\ main.stage = "copying" /\ main.out = NoRequest /\ e \in main.todo
      /\ pairs' = {p \in pairs : p[1] # e}
      /\ UNCHANGED <<server, handled, messages, known, encrypted, desk>>
      /\ \/ Process(e, log[e].kind, work, queue)
         \/ /\ queue' = [queue EXCEPT ![t] = Append(@, [ev |-> e, kind |-> log[e].kind])]
            /\ main' = work /\ UNCHANGED <<dm, saved>>
  BY <1>1 DEF CopyNext, NoRequestOut, MayComeNext
<1>3. main \in Work /\ t \in Tickets /\ log[e].room \in Channels
  BY <1>1, <1>2 DEF OnceInv, Inv, TypeOK, MainSound, SavedFirst
<1>4. log[e].kind \in {"text", "media"}
  <2>1. log[e] \in Event /\ log[e].kind # "answer"
    BY <1>3, PlaceFacts DEF OnceInv, Inv, TypeOK, Ids, AnswersInPlace
  <2> QED BY <2>1 DEF Event
<1>5. /\ work \in Work /\ work.out = NoRequest /\ work.todo = main.todo \ {e}
      /\ work.ticket = main.ticket /\ work.stage = main.stage
  BY <1>1, <1>2, <1>3 DEF Work
<1>6. /\ SoundQueue(queue) /\ Distinct(queue) /\ ~Waits(queue, e) /\ Copied(e)
      /\ e \in saved /\ e \in FromUsers
  BY <1>2 DEF SoundQueue, OnceInv, Inv, TypeOK, QueuedFirst, Once, WaitsOnce, CopiedApart
<1>7. e \in Posts /\ e \in handled /\ Unpaired(e)' /\ pairs' \subseteq pairs
  BY <1>2, <1>6 DEF OnceInv, Once, NewUnseen, FromUsers, Unpaired
<1>8. UNCHANGED <<log, owner, handled>>
  BY <1>2 DEF server, desk
<1>9. CASE Process(e, log[e].kind, work, queue)
  BY <1>2, <1>4, <1>5, <1>6, <1>7, <1>8, <1>9, ProcessOnce
<1>10. CASE /\ queue' = [queue EXCEPT ![t] = Append(@, [ev |-> e, kind |-> log[e].kind])]
            /\ main' = work /\ UNCHANGED <<dm, saved>>
  <2>1. PICK task : task = [ev |-> e, kind |-> log[e].kind]
    OBVIOUS
  <2>2. task \in Task /\ task.ev = e /\ Added(queue', queue, t, task)
    BY <1>4, <1>10, <2>1 DEF Task, Added, Ids
  <2>3. Distinct(queue') /\ \A f : Waits(queue', f) => Waits(queue, f) \/ f = e
    BY <1>3, <1>6, <2>2, QueueAppended
  <2>4. /\ Posts' = Posts /\ FromUsers' = FromUsers /\ Ids' = Ids /\ Posts \subseteq Ids
        /\ \A f : (Copied(f)' <=> Copied(f)) /\ (Unpaired(f) => Unpaired(f)')
    BY <1>5, <1>7, <1>8, <1>10 DEF Posts, FromUsers, Ids, Copied, Unpaired
  <2>5. PairedOnce' /\ RequestedOnce'
    BY <1>2, <1>5, <1>7, <1>10 DEF OnceInv, Once, PairedOnce, RequestedOnce
  <2>6. NewUnseen'
    BY <1>7, <1>8, <1>10, <2>3, <2>4 DEF OnceInv, Once, NewUnseen
  <2>7. CopiedApart'
    BY <1>5, <1>10, <2>3, <2>4 DEF OnceInv, Once, CopiedApart
  <2>8. WaitsOnce'
    <3> SUFFICES ASSUME NEW f \in Ids, Waits(queue', f)
                 PROVE  /\ f \in FromUsers /\ Unpaired(f)' /\ f # main'.out.ev
                        /\ f \in saved' => Copied(f)'
      BY <2>3, <2>4 DEF WaitsOnce
    <3>1. CASE Waits(queue, f)
      BY <1>2, <1>5, <1>10, <2>4, <3>1 DEF OnceInv, Once, WaitsOnce
    <3>2. CASE f = e
      BY <1>2, <1>5, <1>6, <1>7, <1>10, <2>4, <3>2 DEF NoRequest, Ids
    <3> QED BY <2>3, <3>1, <3>2
  <2> QED BY <2>5, <2>6, <2>7, <2>8 DEF Once
<1> QED BY <1>2, <1>9, <1>10

\* The clone is stored: its original has no other pair, and does not wait.
LEMMA SentOnce ==
  ASSUME OnceInv, Inv', Sent PROVE Once'
<1>1. PICK v, n, e : v = Clone(main.out) /\ n = Len(log) + 1 /\ e = main.out.ev
  OBVIOUS
<1>2. /\ Requesting /\ log' = Append(log, v) /\ pairs \subseteq pairs'
      /\ pairs' \subseteq pairs \cup {<<e, n>>}
      /\ main' = [main EXCEPT !.out = NoRequest]
      /\ UNCHANGED <<gone, handled, saved, queue, known, encrypted, desk, dm>>
  BY <1>1 DEF Sent, Returned
<1>3. v \in Event /\ v.by = "bot"
  BY <1>1, <1>2, RequestFacts DEF OnceInv
<1>4. /\ log'[n] = v /\ Ids' = Ids \cup {n} /\ n \notin Ids /\ \A x \in Ids : log'[x] = log[x]
  BY <1>1, <1>2, <1>3, Grows DEF OnceInv, Inv
<1>5. /\ main'.out = NoRequest /\ main'.stage = main.stage /\ main'.ticket = main.ticket
      /\ main'.todo = main.todo
  BY <1>2 DEF OnceInv, Inv, TypeOK, Work
<1>6. Posts' = Posts /\ FromUsers' = FromUsers
  BY <1>3, <1>4 DEF Posts, FromUsers
<1>7. e \in Posts \cap handled /\ Unpaired(e) /\ ~Waits(queue, e)
  BY <1>1, <1>2 DEF OnceInv, Once, RequestedOnce, WaitsOnce, Requesting, NoRequestOut, Posts
<1>8. \A f : Unpaired(f) /\ f # e => Unpaired(f)'
  BY <1>2 DEF Unpaired
<1>9. PairedOnce'
  BY <1>2, <1>7 DEF OnceInv, Once, PairedOnce, Unpaired
<1>10. NewUnseen'
  BY <1>2, <1>6, <1>7, <1>8 DEF OnceInv, Once, NewUnseen
<1>11. \A f \in Ids : Copied(f) => Copied(f)'
  BY <1>2, <1>4, <1>5 DEF Copied, desk
<1>12. CopiedApart'
  BY <1>2, <1>5, <1>6, <1>11 DEF OnceInv, Once, CopiedApart, FromUsers, Posts
<1>13. WaitsOnce'
  <2> SUFFICES ASSUME NEW f \in Ids', Waits(queue, f)
               PROVE  f \in FromUsers /\ Unpaired(f)' /\ f # 0 /\ (f \in saved => Copied(f)')
    BY <1>2, <1>5, <1>6 DEF OnceInv, Once, WaitsOnce, NoRequest
  <2>1. f \in Ids /\ f # 0
    BY DEF OnceInv, Inv, QueuedFirst, Waits, Ids
  <2> QED BY <1>7, <1>8, <1>11, <2>1 DEF OnceInv, Once, WaitsOnce
<1>14. RequestedOnce'
  BY <1>5 DEF RequestedOnce
<1> QED BY <1>9, <1>10, <1>12, <1>13, <1>14 DEF Once

LEMMA RaiseOnce ==
  ASSUME OnceInv, Inv', NEW u \in Users, NEW t \in Tickets, Raise(u, t)
  PROVE  Once' /\ Owned' /\ Posted'
<1>1. /\ main = Idle /\ status[t] = "none"
      /\ status' = [status EXCEPT ![t] = "open"] /\ owner' = [owner EXCEPT ![t] = u]
      /\ current' = [current EXCEPT ![u] = t]
      /\ main' = [Idle EXCEPT !.stage = "copying", !.ticket = t,
                              !.todo = {e \in saved : UserOf(log[e].room) = u}]
      /\ UNCHANGED <<server, handled, rows, queue, dm>>
  BY DEF Raise, IsIdle
<1>2. /\ main'.stage = "copying" /\ main'.ticket = t /\ main'.out = NoRequest
      /\ main'.todo = {e \in saved : UserOf(log[e].room) = u}
  BY <1>1, IdleFacts DEF Idle
<1>3. owner'[t] = u
  BY <1>1 DEF OnceInv, Inv, TypeOK
<1>4. /\ UNCHANGED <<log, pairs, saved, queue, handled>>
      /\ Posts' = Posts /\ FromUsers' = FromUsers /\ Ids' = Ids
      /\ \A e : Unpaired(e)' <=> Unpaired(e)
  BY <1>1 DEF server, rows, Posts, FromUsers, Ids, Unpaired
<1>5. \A e \in Ids : Waits(queue, e) => e \notin saved
  BY <1>1, IdleFacts DEF OnceInv, Once, WaitsOnce, Copied
<1>6. PairedOnce' /\ NewUnseen' /\ RequestedOnce'
  BY <1>2, <1>4 DEF OnceInv, Once, PairedOnce, NewUnseen, RequestedOnce
<1>7. CopiedApart'
  <2>1. \A e \in main'.todo : e \in saved /\ UserOf(log[e].room) = u /\ e \in Ids
    BY <1>2 DEF OnceInv, Inv, SavedFirst
  <2> QED BY <1>2, <1>3, <1>4, <1>5, <2>1 DEF OnceInv, Once, CopiedApart, Copied
<1>8. WaitsOnce'
  BY <1>2, <1>4, <1>5 DEF OnceInv, Once, WaitsOnce, NoRequest, Ids
<1>9. Owned'
  <2>1. owner[t] = Desk /\ Desk \notin Users
    BY <1>1, BoundFacts DEF OnceInv, Owned
  <2>2. \A s \in Tickets : status'[s] = "none" => owner'[s] = Desk
    BY <1>1 DEF OnceInv, Owned, Inv, TypeOK
  <2>3. ASSUME NEW w \in Users, current'[w] # NoTicket PROVE owner'[current'[w]] = w
    <3>1. CASE w = u
      BY <1>1, <1>3, <3>1 DEF OnceInv, Inv, TypeOK
    <3>2. CASE w # u
      <4>1. current'[w] = current[w] /\ owner[current[w]] = w /\ current[w] \in Tickets
        BY <1>1, <2>3, <3>2 DEF OnceInv, Owned, Inv, TypeOK
      <4> QED BY <1>1, <2>1, <4>1 DEF OnceInv, Inv, TypeOK
    <3> QED BY <3>1, <3>2
  <2> QED BY <2>2, <2>3 DEF Owned
<1>10. Posted'
  BY <1>4 DEF OnceInv, Posted, Posts
<1> QED BY <1>6, <1>7, <1>8, <1>9, <1>10 DEF Once
\* People write: a new event is neither handled, saved, queued nor paired.
LEMMA PostOnce ==
  ASSUME OnceInv, Inv', NEW by \in {"user", "staff"}, NEW room \in Places, NEW kind, NEW rel,
         NEW ref,
         by = "user" <=> room \in Channels, Post(by, room, kind, rel, ref)
  PROVE  Once' /\ Owned' /\ Posted'
<1>1. PICK v, n : /\ n = Len(log) + 1
                  /\ v = [room |-> room, by |-> by, kind |-> kind, rel |-> rel, ref |-> ref,
                          from |-> 0]
  OBVIOUS
<1>2. /\ n \in MessageIds /\ log' = Append(log, v)
      /\ UNCHANGED <<handled, pairs, messages, saved, queue, known, encrypted, status, owner, current,
                     dm, main>>
  BY <1>1 DEF Post, rows, desk
<1>3. log'[n] = v /\ Ids' = Ids \cup {n} /\ n \notin Ids /\ \A e \in Ids : log'[e] = log[e]
  BY <1>1, <1>2 DEF OnceInv, Inv, TypeOK, Ids
<1>4. Posts' \subseteq Posts \cup {n}
  BY <1>3 DEF Posts
<1>5. /\ Ids \subseteq Ids' /\ handled \subseteq handled' /\ pairs' \subseteq pairs
      /\ saved' \subseteq saved /\ owner' = owner /\ main' = main
      /\ \A t \in Tickets : queue'[t] \in {queue[t], <<>>}
  BY <1>2, <1>3
<1>6. \A e \in Ids : Copied(e) => Copied(e)'
  BY <1>2, <1>3 DEF Copied
<1>7. \A e \in main.todo : e \in Ids /\ e \in saved /\ Copied(e)
  BY DEF OnceInv, Inv, SavedFirst, Once, CopiedApart
<1>8. \A e \in Ids : Waits(queue, e) /\ e \in saved => Copied(e)
  BY DEF OnceInv, Once, WaitsOnce
<1>9. Once'
  BY <1>2, <1>3, <1>5, <1>6, <1>7, <1>8, Settles
<1>10. Owned'
  BY <1>2 DEF OnceInv, Owned
<1>11. ASSUME NEW e \in Posts'
       PROVE  e \in MessageIds /\ (log'[e].by = "user" <=> log'[e].room \in Channels)
  <2>1. CASE e = n
    <3>1. log'[e].by = by /\ log'[e].room = room
      BY <1>1, <1>3, <2>1
    <3> QED BY <1>2, <2>1, <3>1
  <2>2. CASE e \in Posts
    BY <1>3, <2>2 DEF OnceInv, Posted, Posts
  <2> QED BY <1>4, <1>11, <2>1, <2>2
<1> QED BY <1>9, <1>10, <1>11 DEF Posted

LEMMA PostingOnce ==
  ASSUME OnceInv, Inv', Posting PROVE Once' /\ Owned' /\ Posted'
<1>1. ASSUME NEW u \in Users, NEW c \in RoomsOf(u), UserPosts(c)
      PROVE  Once' /\ Owned' /\ Posted'
  <2>1. c \in Channels /\ c \in Places
    BY RoomFacts
  <2> QED BY <1>1, <2>1, PostOnce DEF UserPosts
<1>2. ASSUME NEW t \in Tickets, StaffPosts(t) PROVE Once' /\ Owned' /\ Posted'
  <2>1. TicketRoom(t) \in Places /\ TicketRoom(t) \notin Channels
    BY PlaceFacts
  <2> QED BY <1>2, <2>1, PostOnce DEF StaffPosts
<1>3. CASE StaffAnswers
  BY <1>3, PlaceFacts, PostOnce DEF StaffAnswers
<1> QED BY <1>1, <1>2, <1>3 DEF Posting

\* A step after which the sync loop does what it did, or nothing, and the log is
\* as it was.
LEMMA QuietOnce ==
  ASSUME OnceInv, Inv', UNCHANGED <<log, owner>>, handled \subseteq handled',
         pairs' \subseteq pairs,
         saved' \subseteq saved, \A t \in Tickets : queue'[t] \in {queue[t], <<>>},
         main'.out \in {main.out, NoRequest}, main'.todo \subseteq main.todo,
         \/ main'.stage = main.stage /\ main'.ticket = main.ticket /\ saved' = saved
         \/ /\ main.stage # "copying" \/ \A e \in saved' : ~Copied(e)
            /\ main'.todo = {}
  PROVE  Once' /\ Posted'
<1>1. Ids' = Ids /\ \A e \in Ids : log'[e] = log[e]
  BY DEF Ids
<1>2. \A e : Waits(queue', e) => Waits(queue, e)
  BY DEF Waits
<1>3. \A e \in Ids : Waits(queue, e) /\ e \in saved => Copied(e)
  BY DEF OnceInv, Once, WaitsOnce
<1>4. \A e \in main.todo : Copied(e) /\ e \in saved
  BY DEF OnceInv, Once, CopiedApart
<1>5. /\ \A e \in main'.todo : Copied(e)' /\ e \in saved'
      /\ \A e \in Ids : Waits(queue', e) /\ e \in saved' => Copied(e)'
  BY <1>2, <1>3, <1>4 DEF Copied
<1>6. Once'
  BY <1>1, <1>5, Settles
<1>7. Posted'
  BY <1>1 DEF OnceInv, Posted, Posts
<1> QED BY <1>6, <1>7

LEMMA OwnedStays ==
  ASSUME OnceInv, UNCHANGED desk PROVE Owned'
BY DEF OnceInv, Owned, desk

LEMMA RelayingOnce ==
  ASSUME OnceInv, Inv', Relaying PROVE Once' /\ Owned' /\ Posted'
<1>0. main \in Work
  BY DEF OnceInv, Inv, TypeOK
<1>1. ASSUME NEW e \in Ids, Handle(e) PROVE Once' /\ Owned' /\ Posted'
  <2>1. UNCHANGED <<log, desk>>
    BY <1>1 DEF Handle, server
  <2>2. Posted'
    BY <2>1 DEF OnceInv, Posted, Posts, Ids
  <2> QED BY <1>1, <2>1, <2>2, HandleOnce, OwnedStays
<1>2. ASSUME NEW e \in Ids, HandleRedacted(e) PROVE Once' /\ Owned' /\ Posted'
  <2>1. /\ handled \subseteq handled'
        /\ UNCHANGED <<log, gone, pairs, messages, saved, queue, known, encrypted, desk, dm, main>>
    BY <1>2 DEF HandleRedacted, server, rows
  <2> QED BY <2>1, OwnedStays, QuietOnce DEF desk
<1>3. CASE Sent
  <2>1. log' = Append(log, Clone(main.out)) /\ Requesting /\ UNCHANGED desk
    BY <1>3 DEF Sent
  <2>2. PICK v : v = Clone(main.out)
    OBVIOUS
  <2>3. v \in Event /\ v.by = "bot" /\ log' = Append(log, v)
    BY <2>1, <2>2, RequestFacts DEF OnceInv
  <2>4. Posted'
    BY <2>3, Grows DEF OnceInv, Inv, Posted, Posts
  <2> QED BY <1>3, <2>1, <2>4, SentOnce, OwnedStays
<1>4. CASE Redacted \/ RequestFailed
  <2>1. /\ main' = [main EXCEPT !.out = NoRequest]
        /\ UNCHANGED <<log, handled, pairs, messages, saved, queue, known, encrypted, desk, dm>>
    BY <1>4 DEF Redacted, RequestFailed, Returned, server, rows
  <2>2. /\ main'.out = NoRequest /\ main'.todo = main.todo
        /\ main'.stage = main.stage /\ main'.ticket = main.ticket
    BY <1>0, <2>1 DEF Work
  <2> QED BY <2>1, <2>2, OwnedStays, QuietOnce DEF desk
<1> QED BY <1>1, <1>2, <1>3, <1>4 DEF Relaying

LEMMA CopyingOnce ==
  ASSUME OnceInv, Inv', Copying PROVE Once' /\ Owned' /\ Posted'
<1>0. main \in Work
  BY DEF OnceInv, Inv, TypeOK
<1>1. CASE CopyDone
  <2>1. /\ saved' = {e \in saved : UserOf(log[e].room) # owner[main.ticket]} /\ main' = Idle
        /\ main.todo = {}
        /\ UNCHANGED <<log, gone, handled, pairs, messages, queue, known, encrypted, desk, dm>>
    BY <1>1 DEF CopyDone, server
  <2>2. saved' \subseteq saved /\ \A e \in saved' : ~Copied(e)
    BY <2>1 DEF Copied
  <2> QED BY <2>1, <2>2, IdleFacts, OwnedStays, QuietOnce DEF desk
<1>2. ASSUME NEW e \in Ids, CopySkips(e) PROVE Once' /\ Owned' /\ Posted'
  <2>1. /\ pairs' \subseteq pairs /\ main' = [main EXCEPT !.todo = @ \ {e}]
        /\ UNCHANGED <<log, gone, handled, messages, saved, queue, known, encrypted, desk, dm>>
    BY <1>2 DEF CopySkips, server
  <2>2. /\ main'.out = main.out /\ main'.todo \subseteq main.todo
        /\ main'.stage = main.stage /\ main'.ticket = main.ticket
    BY <1>0, <2>1 DEF Work
  <2> QED BY <2>1, <2>2, OwnedStays, QuietOnce DEF desk
<1>3. ASSUME NEW e \in Ids, CopyNext(e) PROVE Once' /\ Owned' /\ Posted'
  <2>1. UNCHANGED <<log, desk>>
    BY <1>3 DEF CopyNext, server
  <2>2. Posted'
    BY <2>1 DEF OnceInv, Posted, Posts, Ids
  <2> QED BY <1>3, <2>1, <2>2, CopyNextOnce, OwnedStays
<1> QED BY <1>1, <1>2, <1>3 DEF Copying

LEMMA DrainingOnce ==
  ASSUME OnceInv, Inv', Draining PROVE Once' /\ Owned' /\ Posted'
<1>1. CASE DrainDone
  <2>1. /\ main' = Idle /\ main.stage = "draining"
        /\ UNCHANGED <<log, gone, handled, pairs, messages, saved, queue, known, encrypted, desk, dm>>
    BY <1>1 DEF DrainDone, server, rows
  <2> QED BY <2>1, IdleFacts, OwnedStays, QuietOnce DEF desk
<1>2. ASSUME NEW t \in Tickets, Drain(t) PROVE Once' /\ Owned' /\ Posted'
  <2>1. /\ main = Idle /\ main' = [Idle EXCEPT !.stage = "draining", !.ticket = t]
        /\ UNCHANGED <<log, gone, handled, pairs, messages, saved, queue, known, encrypted, desk, dm>>
    BY <1>2 DEF Drain, IsIdle, server, rows
  <2>2. main'.out = NoRequest /\ main'.todo = {} /\ main.stage = "idle"
    BY <2>1, IdleFacts DEF Work
  <2> QED BY <2>1, <2>2, OwnedStays, QuietOnce DEF desk
<1>3. CASE DrainNext
  <2>1. UNCHANGED <<log, desk>>
    BY <1>3 DEF DrainNext, server
  <2>2. Posted'
    BY <2>1 DEF OnceInv, Posted, Posts, Ids
  <2> QED BY <1>3, <2>1, <2>2, DrainNextOnce, OwnedStays
<1> QED BY <1>1, <1>2, <1>3 DEF Draining

LEMMA DeskOnce ==
  ASSUME OnceInv, Inv', NEW t \in Tickets, Learn(t) \/ Encrypt(t) \/ Close(t) \/ Reopen(t)
  PROVE  Once' /\ Owned' /\ Posted'
<1>1. /\ UNCHANGED <<log, gone, handled, pairs, messages, saved, queue, dm, main, owner>>
      /\ \A s \in Tickets : status'[s] = "none" => status[s] = "none"
      /\ \A u \in Users : \/ current'[u] \in {NoTicket, current[u]}
                          \/ current'[u] = t /\ u = owner[t]
  BY DEF Learn, Encrypt, Close, Reopen, desk, server, rows, OnceInv, Inv, TypeOK
<1>2. Owned'
  BY <1>1 DEF OnceInv, Owned
<1> QED BY <1>1, <1>2, QuietOnce

LEMMA ExpireOnce ==
  ASSUME OnceInv, NEW t \in Tickets, NEW n \in 1..Len(queue[t]), Expire(t, n)
  PROVE  Once' /\ Owned' /\ Posted'
<1>1. /\ UNCHANGED <<log, gone, handled, pairs, messages, saved, status, owner, current, main>>
      /\ Ids' = Ids /\ Posts' = Posts /\ FromUsers' = FromUsers
  BY ExpireFacts DEF OnceInv, server, rows, desk, Ids, Posts, FromUsers
<1>2. ASSUME NEW s \in Tickets, NEW i \in 1..Len(queue'[s])
      PROVE  \E k \in 1..Len(queue[s]) :
               queue'[s][i] = queue[s][k] /\ k = IF s = t THEN i + n ELSE i
  BY ExpireFacts DEF OnceInv
<1>3. \A e : Waits(queue', e) => Waits(queue, e)
  BY <1>2 DEF Waits
<1>4. Distinct(queue')
  <2> SUFFICES ASSUME NEW s \in Tickets, NEW v \in Tickets, NEW i \in 1..Len(queue'[s]),
                      NEW j \in 1..Len(queue'[v]), queue'[s][i].ev = queue'[v][j].ev
               PROVE  s = v /\ i = j
    BY DEF Distinct
  <2>1. PICK k \in 1..Len(queue[s]) :
          queue'[s][i] = queue[s][k] /\ k = IF s = t THEN i + n ELSE i
    BY <1>2
  <2>2. PICK l \in 1..Len(queue[v]) :
          queue'[v][j] = queue[v][l] /\ l = IF v = t THEN j + n ELSE j
    BY <1>2
  <2>3. s = v /\ k = l
    BY <2>1, <2>2 DEF OnceInv, Once, WaitsOnce, Distinct
  <2> QED BY <2>1, <2>2, <2>3
<1>5. PairedOnce' /\ RequestedOnce'
  BY <1>1 DEF OnceInv, Once, PairedOnce, RequestedOnce, Unpaired
<1>6. NewUnseen' /\ CopiedApart' /\ WaitsOnce'
  BY <1>1, <1>3, <1>4 DEF OnceInv, Once, NewUnseen, CopiedApart, WaitsOnce, Unpaired, Copied
<1>7. Owned' /\ Posted'
  BY <1>1 DEF OnceInv, Owned, Posted
<1> QED BY <1>5, <1>6, <1>7 DEF Once

LEMMA CrashOnce ==
  ASSUME OnceInv, Inv', Crash PROVE Once' /\ Owned' /\ Posted'
<1>1. /\ handled \subseteq handled' /\ queue' = [t \in Tickets |-> <<>>] /\ main' = Idle
      /\ UNCHANGED <<pairs, messages, saved, status, owner, current, dm>>
  BY DEF Crash, rows, desk
<1>2. Ids \subseteq Ids' /\ (\A e \in Ids : log'[e] = log[e]) /\ Posts' = Posts
  <2>1. CASE UNCHANGED log
    BY <2>1 DEF Ids, Posts
  <2>2. CASE Requesting /\ log' = Append(log, Clone(main.out))
    <3>1. PICK v : v = Clone(main.out)
      OBVIOUS
    <3>2. v \in Event /\ v.by = "bot" /\ log' = Append(log, v)
      BY <2>2, <3>1, RequestFacts DEF OnceInv
    <3> QED BY <3>2, Grows DEF OnceInv, Inv, Posts
  <2> QED BY <2>1, <2>2 DEF Crash
<1>3. \A e : ~Waits(queue', e)
  BY <1>1 DEF Waits
<1>4. Once'
  BY <1>1, <1>2, <1>3, IdleFacts, Settles
<1>5. Owned' /\ Posted'
  BY <1>1, <1>2 DEF OnceInv, Owned, Posted, Posts
<1> QED BY <1>4, <1>5

LEMMA InitOnce == Init => OnceInv
<1> SUFFICES ASSUME Init PROVE OnceInv
  OBVIOUS
<1>1. Inv
  BY InitInv
<1>2. Ids = {}
  BY DEF Init, Ids
<1>3. \A e : ~Waits(queue, e)
  BY DEF Init, Waits
<1>4. Owned /\ Posted
  BY <1>2 DEF Init, Owned, Posted, Posts
<1>5. Once
  <2>1. Distinct(queue)
    BY DEF Init, Distinct
  <2> QED BY <1>2, <1>3, <2>1, IdleFacts
          DEF Init, Once, PairedOnce, NewUnseen, CopiedApart, WaitsOnce, RequestedOnce, Posts
<1> QED BY <1>1, <1>4, <1>5 DEF OnceInv

LEMMA NextOnce == OnceInv /\ [Next]_vars => OnceInv'
<1> SUFFICES ASSUME OnceInv, [Next]_vars PROVE OnceInv'
  OBVIOUS
<1>1. Inv'
  BY NextInv DEF OnceInv
<1>2. CASE UNCHANGED vars
  <2>1. UNCHANGED <<log, gone, handled, pairs, messages, saved, queue, dm, main, desk, owner>>
    BY <1>2 DEF vars, state, server, rows, desk
  <2> QED BY <1>1, <2>1, QuietOnce, OwnedStays DEF OnceInv
<1>3. CASE Next
  BY <1>1, <1>3, PostingOnce, RelayingOnce, CopyingOnce, DrainingOnce, RaiseOnce, DeskOnce,
     ExpireOnce, CrashOnce
     DEF Next, Step, Waiting, OnceInv
<1> QED BY <1>2, <1>3

\* OnceInv holds in every state: nothing people write is handled twice, and the ids stay
\* below their bound.
THEOREM OnceAlways == Spec => []OnceInv
BY InitOnce, NextOnce, PTL DEF Spec
-----------------------------------------------------------------------------
(* The mirror implements RelayContract.                                    *)

Writer(m) == IF IsFromUser(m) THEN UserOf(log[m].room) ELSE Desk

LEMMA LinkFacts ==
  ASSUME OnceInv, NEW m
  PROVE  /\ Unpaired(m) => Link(m) = Desk
         /\ \A p \in pairs : p[1] = m /\ IsFromUser(m) => Link(m) = log[p[2]].room
BY DEF OnceInv, Once, PairedOnce, Unpaired, Link

\* The link of a message whose pairs stay is the same.
LEMMA LinkStays ==
  ASSUME OnceInv, \A e \in Ids : log'[e] = log[e], NEW m, IsFromUser(m)' <=> IsFromUser(m),
         UNCHANGED {p \in pairs : p[1] = m}
  PROVE  Link(m)' = Link(m)
<1>1. \A p : (p \in pairs /\ p[1] = m) <=> (p \in pairs' /\ p[1] = m)
  OBVIOUS
<1>2. CASE ~IsFromUser(m) \/ \A p \in pairs : p[1] # m
  BY <1>1, <1>2 DEF Link
<1>3. CASE IsFromUser(m) /\ \E p \in pairs : p[1] = m
  <2>1. PICK p \in pairs : p[1] = m
    BY <1>3
  <2>2. \A q : (q \in pairs' /\ q[1] = m) <=> q = p
    BY <1>1, <2>1 DEF OnceInv, Once, PairedOnce
  <2>3. Link(m) = log[p[2]].room
    BY <1>3, <2>1, LinkFacts
  <2>4. Link(m)' = log'[p[2]].room
    BY <1>3, <2>2 DEF Link
  <2>5. p[2] \in Ids
    BY <2>1 DEF OnceInv, Inv, RowsSound, Linked
  <2> QED BY <2>3, <2>4, <2>5
<1> QED BY <1>2, <1>3

\* A step that shows nothing, and neither makes nor cuts a pair of a user's
\* message, is a stutter of the contract.
LEMMA Hidden ==
  ASSUME OnceInv, Ids \subseteq Ids', \A e \in Ids : log'[e] = log[e], owner' = owner,
         \A x \in Ids' \ Ids : ~IsFromUser(x)',
         \A m : IsFromUser(m) => UNCHANGED {p \in pairs : p[1] = m},
         \A x \in Ids' \ Ids : IsClone(x)' => ~IsFromUser(log[x].from)'
  PROVE  UNCHANGED Contract!contract
<1>1. \A m : IsFromUser(m)' <=> IsFromUser(m)
  BY DEF IsFromUser
<1>2. \A m : Writer(m)' = Writer(m)
  BY <1>1 DEF Writer, IsFromUser
<1>3. \A m : Link(m)' = Link(m)
  <2> SUFFICES ASSUME NEW m PROVE Link(m)' = Link(m)
    OBVIOUS
  <2>1. CASE IsFromUser(m)
    BY <1>1, <2>1, LinkStays
  <2>2. CASE ~IsFromUser(m)
    BY <1>1, <2>2 DEF Link
  <2> QED BY <2>1, <2>2
<1>4. Shown' = Shown
  BY <1>1 DEF Shown, Clones, IsClone
<1> QED BY <1>2, <1>3, <1>4 DEF Contract!contract, Writer
LEMMA WriteMaps ==
  ASSUME OnceInv, NEW c \in Channels, NEW kind, NEW rel, NEW ref,
         Post("user", c, kind, rel, ref)
  PROVE  Contract!Next
<1>1. PICK v, n : /\ n = Len(log) + 1
                  /\ v = [room |-> c, by |-> "user", kind |-> kind, rel |-> rel, ref |-> ref,
                          from |-> 0]
  OBVIOUS
<1>2. n \in MessageIds /\ log' = Append(log, v) /\ UNCHANGED <<pairs, owner>>
  BY <1>1 DEF Post, rows, desk
<1>3. log'[n] = v /\ Ids' = Ids \cup {n} /\ n \notin Ids /\ \A e \in Ids : log'[e] = log[e]
  BY <1>1, <1>2 DEF OnceInv, Inv, TypeOK, Ids
<1>4. v.by = "user" /\ v.room = c
  BY <1>1
<1>5. \A m : IsFromUser(m)' <=> IsFromUser(m) \/ m = n
  BY <1>3, <1>4 DEF IsFromUser
<1>6. \A m : Writer(m)' = IF m = n THEN UserOf(c) ELSE Writer(m)
  BY <1>3, <1>4, <1>5 DEF Writer, IsFromUser
<1>7. Writer(n) = Desk /\ UserOf(c) \in Users
  BY <1>3, PlaceFacts DEF Writer, IsFromUser
<1>8. Shown' = Shown
  <2>1. Clones' = Clones /\ n \notin Clones
    BY <1>3, <1>4 DEF Clones, IsClone
  <2>2. \A x \in Clones : log[x].from \in Ids
    BY DEF OnceInv, Inv, ClonesSound, Clones
  <2> QED BY <1>3, <1>5, <2>1, <2>2 DEF Shown, Clones
<1>9. \A m : Link(m)' = Link(m)
  <2> SUFFICES ASSUME NEW m PROVE Link(m)' = Link(m)
    OBVIOUS
  <2>1. CASE m = n
    <3>1. \A p \in pairs : p[1] # n
      BY <1>3 DEF OnceInv, Inv, RowsSound, Linked
    <3> QED BY <1>2, <2>1, <3>1 DEF Link
  <2>2. CASE m # n
    BY <1>2, <1>3, <1>5, <2>2, LinkStays
  <2> QED BY <2>1, <2>2
<1>10. Contract!Write(n, UserOf(c))
  <2>1. [m \in MessageIds |-> Writer(m)]' =
           [[m \in MessageIds |-> Writer(m)] EXCEPT ![n] = UserOf(c)]
    BY <1>6
  <2> QED BY <1>2, <1>7, <1>8, <1>9, <2>1 DEF Contract!Write, Writer
<1> QED BY <1>2, <1>7, <1>10 DEF Contract!Next

LEMMA RaiseMaps ==
  ASSUME OnceInv, NEW u \in Users, NEW t \in Tickets, Raise(u, t)
  PROVE  Contract!Next
<1>1. /\ owner[t] = Desk /\ owner' = [owner EXCEPT ![t] = u] /\ UNCHANGED <<log, pairs>>
  BY DEF Raise, OnceInv, Owned, server, rows
<1>2. \A m : Writer(m)' = Writer(m) /\ Link(m)' = Link(m)
  BY <1>1 DEF Writer, Link, IsFromUser, Ids
<1>3. Shown' = Shown
  BY <1>1 DEF Shown, Clones, IsClone, IsFromUser, Ids
<1>4. TicketRoom(t) \in TicketRooms /\ TicketOf(TicketRoom(t)) = t
  BY PlaceFacts DEF TicketRoom, TicketOf
<1>5. \A p \in TicketRooms :
        owner'[TicketOf(p)] = IF p = TicketRoom(t) THEN u ELSE owner[TicketOf(p)]
  <2> SUFFICES ASSUME NEW p \in TicketRooms
               PROVE  owner'[TicketOf(p)] = IF p = TicketRoom(t) THEN u ELSE owner[TicketOf(p)]
    OBVIOUS
  <2>1. PICK s \in Tickets : p = TicketRoom(s)
    BY DEF TicketRooms
  <2>2. TicketOf(p) = s
    BY <2>1 DEF TicketRoom, TicketOf
  <2> QED BY <1>1, <1>4, <2>1, <2>2 DEF OnceInv, Inv, TypeOK
<1>6. [p \in TicketRooms |-> owner[TicketOf(p)]]'
        = [[p \in TicketRooms |-> owner[TicketOf(p)]] EXCEPT ![TicketRoom(t)] = u]
  BY <1>5
<1>7. Contract!Raise(u, TicketRoom(t))
  BY <1>1, <1>2, <1>3, <1>4, <1>6 DEF Contract!Raise, Writer
<1> QED BY <1>4, <1>7 DEF Contract!Next

\* A clone of a user's message is shown, and the pair is stored or lost.
LEMMA ShowMaps ==
  ASSUME OnceInv, OnceInv', Requesting, IsFromUser(main.out.ev),
         log' = Append(log, Clone(main.out)),
         owner' = owner, pairs' \in {pairs, pairs \cup {<<main.out.ev, Len(log) + 1>>}}
  PROVE  Contract!Next
<1>1. PICK v, n, m, p : /\ v = Clone(main.out) /\ n = Len(log) + 1
                        /\ m = main.out.ev /\ p = main.out.to
  OBVIOUS
<1>2. v \in Event /\ v.by = "bot" /\ v.room = p /\ v.from = m /\ m \in Ids
  BY <1>1, RequestFacts DEF OnceInv
<1>3. /\ log'[n] = v /\ Ids' = Ids \cup {n} /\ n \notin Ids /\ n \in Ids'
      /\ \A x \in Ids : log'[x] = log[x]
  BY <1>1, <1>2, Grows DEF OnceInv, Inv
<1>4. /\ m \in FromUsers /\ Unpaired(m) /\ p \in TicketRooms \cup {Management}
      /\ p \in TicketRooms => owner[TicketOf(p)] = UserOf(log[m].room)
  <2>1. m \in FromUsers
    BY <1>1 DEF IsFromUser, FromUsers, Posts
  <2> QED BY <1>1, <2>1 DEF OnceInv, Once, RequestedOnce, Requesting, NoRequestOut
<1>5. m \in MessageIds /\ log[m].room \in Channels
  BY <1>4 DEF OnceInv, Posted, FromUsers
<1>6. \A k : IsFromUser(k)' <=> IsFromUser(k)
  BY <1>2, <1>3 DEF IsFromUser
<1>7. \A k : Writer(k)' = Writer(k)
  BY <1>3, <1>6 DEF Writer, IsFromUser
<1>8. Writer(m) = UserOf(log[m].room) /\ Writer(m) # Desk /\ Link(m) = Desk
  <2>1. Link(m) = Desk
    BY <1>4, LinkFacts
  <2> QED BY <1>1, <1>5, <2>1, PlaceFacts, BoundFacts DEF Writer
<1>9. Shown' = Shown \cup {<<m, p>>}
  <2>1. Clones' = Clones \cup {n}
    BY <1>2, <1>3 DEF Clones, IsClone
  <2>2. \A x \in Clones : x \in Ids /\ log'[x] = log[x]
    BY <1>3 DEF Clones
  <2>3. IsFromUser(v.from) /\ v.from = m /\ v.room = p /\ log'[n] = v
    BY <1>1, <1>2, <1>3
  <2>4. ASSUME NEW s PROVE s \in Shown' <=> s \in Shown \/ s = <<m, p>>
    BY <1>6, <2>1, <2>2, <2>3 DEF Shown
  <2> QED BY <2>4
<1>10. \A k : k # m => Link(k)' = Link(k)
  <2> SUFFICES ASSUME NEW k, k # m PROVE Link(k)' = Link(k)
    OBVIOUS
  <2>1. {q \in pairs : q[1] = k}' = {q \in pairs : q[1] = k}
    BY <1>1
  <2> QED BY <1>3, <1>6, <2>1, LinkStays
<1>11. Link(m)' \in {Link(m), p}
  <2>1. CASE pairs' = pairs
    BY <1>3, <1>6, <2>1, LinkStays
  <2>2. CASE pairs' = pairs \cup {<<m, n>>}
    <3>1. \A q : (q \in pairs' /\ q[1] = m) <=> q = <<m, n>>
      BY <1>4, <2>2 DEF Unpaired
    <3>2. PICK q : q = <<m, n>>
      OBVIOUS
    <3>3. (CHOOSE r \in pairs' : r[1] = m) = q /\ \E r \in pairs' : r[1] = m
      BY <3>1, <3>2
    <3>4. Link(m)' = log'[q[2]].room
      BY <1>1, <1>6, <3>3 DEF Link
    <3>5. q[2] = n
      BY <3>2
    <3> QED BY <1>2, <1>3, <3>4, <3>5
  <2> QED BY <1>1, <2>1, <2>2
<1>12. \/ [k \in MessageIds |-> Link(k)]' = [[k \in MessageIds |-> Link(k)] EXCEPT ![m] = p]
       \/ [k \in MessageIds |-> Link(k)]' = [k \in MessageIds |-> Link(k)]
  BY <1>10, <1>11
<1>13. Contract!Show(m, p)
  BY <1>4, <1>5, <1>7, <1>8, <1>9, <1>12 DEF Contract!Show, Writer
<1> QED BY <1>4, <1>5, <1>13 DEF Contract!Next

LEMMA UnlinkMaps ==
  ASSUME OnceInv, NEW e \in Ids, UNCHANGED <<log, owner>>, pairs' = {p \in pairs : p[1] # e}
  PROVE  Contract!Next \/ UNCHANGED Contract!contract
<1>1. CASE ~IsFromUser(e)
  <2>1. \A m : IsFromUser(m) => {p \in pairs : p[1] = m}' = {p \in pairs : p[1] = m}
    BY <1>1
  <2> QED BY <2>1, Hidden DEF Ids
<1>2. CASE IsFromUser(e)
  <2>1. e \in MessageIds
    BY <1>2 DEF OnceInv, Posted, IsFromUser, Posts
  <2>2. \A m : IsFromUser(m)' <=> IsFromUser(m)
    BY DEF IsFromUser, Ids
  <2>3. \A m : Link(m)' = IF m = e THEN Desk ELSE Link(m)
    <3> SUFFICES ASSUME NEW m PROVE Link(m)' = IF m = e THEN Desk ELSE Link(m)
      OBVIOUS
    <3>1. CASE m = e
      BY <3>1 DEF Link
    <3>2. CASE m # e
      <4>1. {p \in pairs : p[1] = m}' = {p \in pairs : p[1] = m}
        BY <3>2
      <4> QED BY <2>2, <3>2, <4>1, LinkStays
    <3> QED BY <3>1, <3>2
  <2>4. [m \in MessageIds |-> Link(m)]' = [[m \in MessageIds |-> Link(m)] EXCEPT ![e] = Desk]
    BY <2>3
  <2>5. (\A m : Writer(m)' = Writer(m)) /\ Shown' = Shown
    BY <2>2 DEF Writer, Shown, Clones, IsClone, Ids
  <2>6. Contract!Unlink(e)
    BY <2>4, <2>5 DEF Contract!Unlink, Writer
  <2> QED BY <2>1, <2>6 DEF Contract!Next
<1> QED BY <1>1, <1>2
LEMMA MirrorMaps ==
  OnceInv /\ OnceInv' /\ [Next]_vars => [Contract!Next]_(Contract!contract)
<1> SUFFICES ASSUME OnceInv, OnceInv', [Next]_vars
             PROVE  Contract!Next \/ UNCHANGED Contract!contract
  OBVIOUS
<1>1. ASSUME UNCHANGED <<log, pairs, owner>> PROVE UNCHANGED Contract!contract
  BY <1>1, Hidden DEF Ids
<1>2. ASSUME NEW room, NEW kind, NEW rel, NEW ref, Post("staff", room, kind, rel, ref)
      PROVE  UNCHANGED Contract!contract
  <2>1. PICK v, n : /\ n = Len(log) + 1
                    /\ v = [room |-> room, by |-> "staff", kind |-> kind, rel |-> rel, ref |-> ref,
                            from |-> 0]
    OBVIOUS
  <2>2. log' = Append(log, v) /\ UNCHANGED <<pairs, owner>> /\ v.by = "staff"
    BY <1>2, <2>1 DEF Post, rows, desk
  <2>3. log'[n] = v /\ Ids' = Ids \cup {n} /\ \A e \in Ids : log'[e] = log[e]
    BY <2>1, <2>2 DEF OnceInv, Inv, TypeOK, Ids
  <2>4. \A x \in Ids' \ Ids : ~IsFromUser(x)' /\ ~IsClone(x)'
    BY <2>2, <2>3 DEF IsFromUser, IsClone
  <2> QED BY <2>2, <2>3, <2>4, Hidden
<1>3. ASSUME Requesting, log' = Append(log, Clone(main.out)), owner' = owner,
             pairs' \in {pairs, pairs \cup {<<main.out.ev, Len(log) + 1>>}}
      PROVE  Contract!Next \/ UNCHANGED Contract!contract
  <2>1. CASE IsFromUser(main.out.ev)
    BY <1>3, <2>1, ShowMaps
  <2>2. CASE ~IsFromUser(main.out.ev)
    <3>1. PICK v, n : v = Clone(main.out) /\ n = Len(log) + 1
      OBVIOUS
    <3>2. v \in Event /\ v.by = "bot" /\ v.from = main.out.ev /\ v.from \in Ids
      BY <1>3, <3>1, RequestFacts DEF OnceInv
    <3>3. log'[n] = v /\ Ids' = Ids \cup {n} /\ \A e \in Ids : log'[e] = log[e]
      BY <1>3, <3>1, <3>2, Grows DEF OnceInv, Inv
    <3>4. \A x \in Ids' \ Ids : ~IsFromUser(x)' /\ ~IsFromUser(log[x].from)'
      BY <2>2, <3>2, <3>3 DEF IsFromUser
    <3>5. \A m : IsFromUser(m) => {p \in pairs : p[1] = m}' = {p \in pairs : p[1] = m}
      BY <1>3, <2>2
    <3> QED BY <1>3, <3>3, <3>4, <3>5, Hidden
  <2> QED BY <2>1, <2>2
<1>4. CASE Posting
  <2>1. ASSUME NEW u \in Users, NEW c \in RoomsOf(u), UserPosts(c) PROVE Contract!Next
    BY <2>1, RoomFacts, WriteMaps DEF UserPosts
  <2>2. CASE (\E t \in Tickets : StaffPosts(t)) \/ StaffAnswers
    BY <1>2, <2>2 DEF StaffPosts, StaffAnswers
  <2> QED BY <1>4, <2>1, <2>2 DEF Posting
<1>5. CASE Sent
  BY <1>3, <1>5 DEF Sent, desk
<1>6. CASE Crash
  BY <1>1, <1>3, <1>6 DEF Crash, rows, desk
<1>7. ASSUME NEW e \in Ids, CopyNext(e) \/ CopySkips(e)
      PROVE  Contract!Next \/ UNCHANGED Contract!contract
  BY <1>7, UnlinkMaps DEF CopyNext, CopySkips, server, desk
<1>8. CASE \/ Redacted \/ RequestFailed \/ CopyDone \/ Draining
           \/ \E e \in Ids : Handle(e) \/ HandleRedacted(e)
           \/ Waiting \/ \E t \in Tickets : Close(t) \/ Reopen(t)
           \/ UNCHANGED vars
  BY <1>1, <1>8 DEF Redacted, RequestFailed, CopyDone, Draining, DrainNext, DrainDone, Drain,
     Handle, HandleRedacted, Waiting, Learn, Encrypt, Expire, Close, Reopen, vars, state,
     server, rows, desk
<1> QED BY <1>4, <1>5, <1>6, <1>7, <1>8, RaiseMaps DEF Next, Step, Relaying, Copying

\* Replies, edits, redactions, copies, replays and crashes keep the contract of the
\* relay: a user's message is shown again only after its pair is deleted, and in
\* a ticket only of that user.
THEOREM MirrorImplementsContract == Spec => ImplementsContract
<1>1. Init => Contract!Init
  <2> SUFFICES ASSUME Init PROVE Contract!Init
    OBVIOUS
  <2>1. Ids = {} /\ pairs = {}
    BY DEF Init, Ids
  <2>2. \A m : Writer(m) = Desk /\ Link(m) = Desk
    BY <2>1 DEF Writer, Link, IsFromUser
  <2>3. Shown = {}
    BY <2>1 DEF Shown, Clones
  <2>4. \A p \in TicketRooms : owner[TicketOf(p)] = Desk
    BY PlaceFacts DEF Init
  <2> QED BY <2>2, <2>3, <2>4 DEF Contract!Init, Writer
<1> QED BY <1>1, OnceAlways, MirrorMaps, PTL DEF Spec, ImplementsContract, Contract!Spec
-----------------------------------------------------------------------------
(* What people post, and whose clones are where.                           *)

WriterOf(m) == UserOf(log[m].room)

\* A post refers to an earlier event of its room; what is redacted, a person
\* wrote; all that people write in the management room are answers.
Backward ==
  \A e \in Posts :
    /\ log[e].ref < e
    /\ log[e].ref # 0 => log[e].ref \in Ids /\ log[log[e].ref].room = log[e].room
    /\ IsRedaction(e) =>
         /\ log[e].ref \in Posts /\ log[e].kind # "media"
         /\ log[log[e].ref].by = log[e].by /\ ~IsRedaction(log[e].ref)
    /\ log[e].room = Management => log[e].kind = "answer"

\* A user's messages are seen in the management room and in tickets of the user.
Addressed ==
  \A x \in Clones :
    /\ log[x].from \in Posts
    /\ log[x].from \in FromUsers =>
         /\ log[x].room \in TicketRooms \cup {Management}
         /\ log[x].room \in TicketRooms => owner[TicketOf(log[x].room)] = WriterOf(log[x].from)

PlacedInv == OnceInv /\ Backward /\ Addressed

\* What a post adds to the log.
PostedBy(by, room, kind, rel, ref) ==
  /\ by \in {"user", "staff"} /\ room \in Places /\ (by = "user" <=> room \in Channels)
  /\ rel = "redaction" => kind # "media"
  /\ room = Management => kind = "answer"
  /\ "media" \notin world => kind # "media"
  /\ by = "user" /\ "second room" \notin world => room = <<UserOf(room), 1>>
  /\ Post(by, room, kind, rel, ref)

LEMMA PostingCases ==
  ASSUME Posting
  PROVE  \E by, room, kind, rel, ref : PostedBy(by, room, kind, rel, ref)
<1>1. ASSUME NEW u \in Users, NEW c \in RoomsOf(u), UserPosts(c)
      PROVE  \E by, room, kind, rel, ref : PostedBy(by, room, kind, rel, ref)
  <2>1. c \in Channels /\ c \in Places /\ c # Management
    BY RoomFacts
  <2>2. "second room" \notin world => c = <<UserOf(c), 1>>
    <3> SUFFICES ASSUME "second room" \notin world PROVE c = <<UserOf(c), 1>>
      OBVIOUS
    <3>1. c = <<u, 1>>
      BY DEF RoomsOf
    <3> QED BY <3>1 DEF UserOf
  <2>3. "media" \notin world => Kinds = {"text"}
    BY DEF Kinds
  <2>4. CASE \E kind \in Kinds : Post("user", c, kind, "none", 0)
    BY <2>1, <2>2, <2>3, <2>4 DEF PostedBy
  <2>5. CASE \E rel \in {"reply", "edit", "redaction"}, ref \in Ids :
               Post("user", c, "text", rel, ref)
    BY <2>1, <2>2, <2>5 DEF PostedBy
  <2> QED BY <1>1, <2>4, <2>5 DEF UserPosts
<1>2. ASSUME NEW t \in Tickets, StaffPosts(t)
      PROVE  \E by, room, kind, rel, ref : PostedBy(by, room, kind, rel, ref)
  <2>1. /\ TicketRoom(t) \in Places /\ TicketRoom(t) \notin Channels
        /\ TicketRoom(t) # Management
    BY PlaceFacts
  <2> QED BY <1>2, <2>1 DEF StaffPosts, PostedBy
<1>3. CASE StaffAnswers
  BY <1>3, PlaceFacts DEF StaffAnswers, PostedBy
<1> QED BY <1>1, <1>2, <1>3 DEF Posting

\* What comes of it.
LEMMA PostedFacts ==
  ASSUME Inv, NEW by, NEW room, NEW kind, NEW rel, NEW ref, PostedBy(by, room, kind, rel, ref)
  PROVE  \E n : /\ n = Len(log) + 1 /\ n \notin Ids /\ n \in Nat
                /\ Ids' = Ids \cup {n} /\ \A e \in Ids : log'[e] = log[e] /\ e < n
                /\ Posts' = Posts \cup {n} /\ Clones' = Clones
                /\ log'[n].by = by /\ log'[n].room = room /\ log'[n].kind = kind
                /\ log'[n].rel = rel /\ log'[n].ref = ref
                /\ gone' = IF rel = "redaction" THEN gone \cup {ref} ELSE gone
                /\ UNCHANGED <<handled, pairs, messages, saved, queue, known, encrypted, status, owner,
                               current, dm, main>>
<1>1. PICK v, n : /\ n = Len(log) + 1
                  /\ v = [room |-> room, by |-> by, kind |-> kind, rel |-> rel, ref |-> ref,
                          from |-> 0]
  OBVIOUS
<1>2. /\ log' = Append(log, v) /\ by # "bot"
      /\ gone' = IF rel = "redaction" THEN gone \cup {ref} ELSE gone
      /\ UNCHANGED <<handled, pairs, messages, saved, queue, known, encrypted, status, owner, current,
                     dm, main>>
  BY <1>1 DEF PostedBy, Post, rows, desk
<1>3. /\ log'[n] = v /\ Ids' = Ids \cup {n} /\ n \notin Ids /\ n \in Nat
      /\ \A e \in Ids : log'[e] = log[e] /\ e < n
  BY <1>1, <1>2 DEF Inv, TypeOK, Ids
<1>4. v.by = by /\ v.room = room /\ v.kind = kind /\ v.rel = rel /\ v.ref = ref
  BY <1>1
<1>5. Posts' = Posts \cup {n} /\ Clones' = Clones
  BY <1>2, <1>3, <1>4 DEF Posts, Clones, IsClone
<1> QED BY <1>1, <1>2, <1>3, <1>4, <1>5

\* The log grows by the clone that was requested.
LEMMA ClonedFacts ==
  ASSUME OnceInv, Requesting, log' = Append(log, Clone(main.out))
  PROVE  \E n : /\ n = Len(log) + 1 /\ n \notin Ids /\ n \in Nat
                /\ Ids' = Ids \cup {n} /\ \A e \in Ids : log'[e] = log[e] /\ e < n
                /\ Posts' = Posts /\ Clones' = Clones \cup {n}
                /\ log'[n].by = "bot" /\ log'[n].room = main.out.to
                /\ log'[n].kind = main.out.kind
                /\ log'[n].ref = main.out.ref /\ log'[n].from = main.out.ev
<1>1. PICK v, n : n = Len(log) + 1 /\ v = Clone(main.out)
  OBVIOUS
<1>2. /\ v \in Event /\ v.by = "bot" /\ v.room = main.out.to /\ v.kind = main.out.kind
      /\ v.from = main.out.ev
  BY <1>1, RequestFacts DEF OnceInv
<1>3. v.ref = main.out.ref
  BY <1>1 DEF Clone
<1>4. /\ log'[n] = v /\ Ids' = Ids \cup {n} /\ n \notin Ids
      /\ \A e \in Ids : log'[e] = log[e]
  BY <1>1, <1>2, Grows DEF OnceInv, Inv
<1>5. n \in Nat /\ \A e \in Ids : e < n
  BY <1>1 DEF OnceInv, Inv, TypeOK, Ids
<1>6. Posts' = Posts /\ Clones' = Clones \cup {n}
  BY <1>2, <1>4 DEF Posts, Clones, IsClone
<1> QED BY <1>1, <1>2, <1>3, <1>4, <1>5, <1>6
LEMMA PlacedStays ==
  ASSUME PlacedInv, OnceInv', UNCHANGED log,
         \A t \in Tickets : owner[t] # Desk => owner'[t] = owner[t]
  PROVE  PlacedInv'
<1>1. Ids' = Ids /\ Posts' = Posts /\ FromUsers' = FromUsers /\ Clones' = Clones
  BY DEF Ids, Posts, FromUsers, Clones, IsClone
<1>2. Backward'
  BY <1>1 DEF PlacedInv, Backward, IsRedaction
<1>3. Addressed'
  <2> SUFFICES ASSUME NEW x \in Clones, log[x].from \in FromUsers, log[x].room \in TicketRooms
               PROVE  owner'[TicketOf(log[x].room)] = WriterOf(log[x].from)
    BY <1>1 DEF PlacedInv, Addressed, WriterOf
  <2>1. owner[TicketOf(log[x].room)] = WriterOf(log[x].from)
    BY DEF PlacedInv, Addressed
  <2>2. WriterOf(log[x].from) # Desk
    BY PlaceFacts, BoundFacts DEF PlacedInv, OnceInv, Posted, FromUsers, WriterOf
  <2>3. TicketOf(log[x].room) \in Tickets
    BY PlaceFacts
  <2> QED BY <2>1, <2>2, <2>3
<1> QED BY <1>2, <1>3 DEF PlacedInv

LEMMA PostPlaced ==
  ASSUME PlacedInv, OnceInv', NEW by, NEW room, NEW kind, NEW rel, NEW ref,
         PostedBy(by, room, kind, rel, ref)
  PROVE  PlacedInv'
<1>1. PICK n : /\ n = Len(log) + 1 /\ n \notin Ids /\ n \in Nat
               /\ Ids' = Ids \cup {n} /\ \A e \in Ids : log'[e] = log[e] /\ e < n
               /\ Posts' = Posts \cup {n} /\ Clones' = Clones
               /\ log'[n].by = by /\ log'[n].room = room /\ log'[n].kind = kind
               /\ log'[n].rel = rel /\ log'[n].ref = ref
               /\ owner' = owner
  BY PostedFacts DEF PlacedInv, OnceInv
<1>2. /\ rel = "none" => ref = 0
      /\ rel # "none" => ref \in Ids /\ log[ref].room = room
      /\ rel = "redaction" => log[ref].by = by /\ log[ref].rel # "redaction"
  BY DEF PostedBy, Post, Refers
<1>3. Posts \subseteq Ids /\ FromUsers' \cap Ids = FromUsers
  BY <1>1, PostsStay
<1>4. ASSUME NEW e \in Posts'
      PROVE  /\ log'[e].ref < e
             /\ log'[e].ref # 0 => log'[e].ref \in Ids' /\ log'[log'[e].ref].room = log'[e].room
             /\ log'[e].rel = "redaction" =>
                  /\ log'[e].ref \in Posts' /\ log'[e].kind # "media"
                  /\ log'[log'[e].ref].by = log'[e].by /\ log'[log'[e].ref].rel # "redaction"
             /\ log'[e].room = Management => log'[e].kind = "answer"
  <2>1. CASE e = n
    <3>1. ref < n
      BY <1>1, <1>2
    <3>2. rel = "redaction" => ref \in Posts
      BY <1>2 DEF PostedBy, Posts
    <3> QED BY <1>1, <1>2, <2>1, <3>1, <3>2 DEF PostedBy
  <2>2. CASE e \in Posts
    <3>1. /\ log[e].ref < e
          /\ log[e].ref # 0 => log[e].ref \in Ids /\ log[log[e].ref].room = log[e].room
          /\ log[e].rel = "redaction" =>
               /\ log[e].ref \in Posts /\ log[e].kind # "media"
               /\ log[log[e].ref].by = log[e].by /\ log[log[e].ref].rel # "redaction"
          /\ log[e].room = Management => log[e].kind = "answer"
      BY <2>2 DEF PlacedInv, Backward, IsRedaction
    <3> QED BY <1>1, <1>3, <2>2, <3>1
  <2> QED BY <1>1, <2>1, <2>2
<1>5. Addressed'
  <2> SUFFICES ASSUME NEW x \in Clones
               PROVE  /\ log'[x].from \in Posts'
                      /\ log'[x].from \in FromUsers' =>
                           /\ log'[x].room \in TicketRooms \cup {Management}
                           /\ log'[x].room \in TicketRooms =>
                                owner'[TicketOf(log'[x].room)] = UserOf(log'[log'[x].from].room)
    BY <1>1 DEF Addressed, WriterOf
  <2>1. x \in Ids /\ log[x].from \in Posts
    BY DEF PlacedInv, Addressed, Clones
  <2> QED BY <1>1, <1>3, <2>1 DEF PlacedInv, Addressed, WriterOf
<1> QED BY <1>4, <1>5 DEF PlacedInv, Backward, IsRedaction

LEMMA ClonePlaced ==
  ASSUME PlacedInv, OnceInv', Requesting, log' = Append(log, Clone(main.out)), owner' = owner
  PROVE  PlacedInv'
<1>1. PICK n : /\ n \notin Ids
               /\ Ids' = Ids \cup {n} /\ \A e \in Ids : log'[e] = log[e]
               /\ Posts' = Posts /\ Clones' = Clones \cup {n}
               /\ log'[n].room = main.out.to /\ log'[n].from = main.out.ev
  BY ClonedFacts DEF PlacedInv
<1>2. Posts \subseteq Ids /\ FromUsers' = FromUsers /\ FromUsers \subseteq Posts
  BY <1>1 DEF Posts, FromUsers
<1>3. Backward'
  <2> SUFFICES ASSUME NEW e \in Posts
               PROVE  /\ log'[e].ref < e
                      /\ log'[e].ref # 0 =>
                           log'[e].ref \in Ids' /\ log'[log'[e].ref].room = log'[e].room
                      /\ log'[e].rel = "redaction" =>
                           /\ log'[e].ref \in Posts /\ log'[e].kind # "media"
                           /\ log'[log'[e].ref].by = log'[e].by
                           /\ log'[log'[e].ref].rel # "redaction"
                      /\ log'[e].room = Management => log'[e].kind = "answer"
    BY <1>1 DEF Backward, IsRedaction
  <2>1. /\ log[e].ref < e
        /\ log[e].ref # 0 => log[e].ref \in Ids /\ log[log[e].ref].room = log[e].room
        /\ log[e].rel = "redaction" =>
             /\ log[e].ref \in Posts /\ log[e].kind # "media"
             /\ log[log[e].ref].by = log[e].by /\ log[log[e].ref].rel # "redaction"
        /\ log[e].room = Management => log[e].kind = "answer"
    BY DEF PlacedInv, Backward, IsRedaction
  <2> QED BY <1>1, <1>2, <2>1
<1>4. ASSUME NEW x \in Clones'
      PROVE  /\ log'[x].from \in Posts
             /\ log'[x].from \in FromUsers =>
                  /\ log'[x].room \in TicketRooms \cup {Management}
                  /\ log'[x].room \in TicketRooms =>
                       owner[TicketOf(log'[x].room)] = UserOf(log'[log'[x].from].room)
  <2>1. CASE x = n
    BY <1>1, <1>2, <2>1 DEF PlacedInv, OnceInv, Once, RequestedOnce, Requesting, NoRequestOut
  <2>2. CASE x \in Clones
    <3>1. x \in Ids
      BY <2>2 DEF Clones
    <3>2. /\ log[x].from \in Posts
          /\ log[x].from \in FromUsers =>
               /\ log[x].room \in TicketRooms \cup {Management}
               /\ log[x].room \in TicketRooms =>
                    owner[TicketOf(log[x].room)] = UserOf(log[log[x].from].room)
      BY <2>2 DEF PlacedInv, Addressed, WriterOf
    <3> QED BY <1>1, <1>2, <3>1, <3>2
  <2> QED BY <1>1, <2>1, <2>2
<1> QED BY <1>1, <1>2, <1>3, <1>4 DEF PlacedInv, Addressed, WriterOf

LEMMA PlacedNext == PlacedInv /\ [Next]_vars => PlacedInv'
<1> SUFFICES ASSUME PlacedInv, [Next]_vars PROVE PlacedInv'
  OBVIOUS
<1>0. OnceInv'
  BY NextOnce DEF PlacedInv
<1>1. CASE Posting
  BY <1>0, <1>1, PostingCases, PostPlaced
<1>2. CASE Sent
  BY <1>0, <1>2, ClonePlaced DEF Sent, desk
<1>3. CASE Crash
  BY <1>0, <1>3, PlacedStays, ClonePlaced DEF Crash, desk
<1>4. ASSUME NEW u \in Users, NEW t \in Tickets, Raise(u, t) PROVE PlacedInv'
  <2>1. UNCHANGED log /\ owner' = [owner EXCEPT ![t] = u] /\ owner[t] = Desk
    BY <1>4 DEF Raise, server, PlacedInv, OnceInv, Owned
  <2> QED BY <1>0, <2>1, PlacedStays
<1>5. CASE \/ Redacted \/ RequestFailed \/ CopyDone \/ Draining
           \/ \E e \in Ids : Handle(e) \/ HandleRedacted(e) \/ CopyNext(e) \/ CopySkips(e)
           \/ Waiting \/ \E t \in Tickets : Close(t) \/ Reopen(t)
           \/ UNCHANGED vars
  <2>1. ASSUME \/ Redacted \/ RequestFailed \/ CopyDone \/ DrainNext \/ DrainDone
               \/ UNCHANGED vars
        PROVE  UNCHANGED <<log, owner>>
    BY <2>1 DEF Redacted, RequestFailed, CopyDone, DrainNext, DrainDone, vars, state, server, desk
  <2>2. ASSUME NEW e \in Ids, Handle(e) \/ HandleRedacted(e) \/ CopyNext(e) \/ CopySkips(e)
        PROVE  UNCHANGED <<log, owner>>
    BY <2>2 DEF Handle, HandleRedacted, CopyNext, CopySkips, server, desk
  <2>3. ASSUME Waiting \/ \E t \in Tickets : Drain(t) \/ Close(t) \/ Reopen(t)
        PROVE  UNCHANGED <<log, owner>>
    BY <2>3 DEF Drain, Waiting, Learn, Encrypt, Expire, Close, Reopen, server, desk
  <2>4. UNCHANGED <<log, owner>>
    BY <1>5, <2>1, <2>2, <2>3 DEF Draining
  <2> QED BY <1>0, <2>4, PlacedStays
<1> QED BY <1>1, <1>2, <1>3, <1>4, <1>5 DEF Next, Step, Relaying, Copying

\* PlacedInv holds in every state: what is sent to a place may be shown there.
THEOREM PlacedAlways == Spec => []PlacedInv
<1>1. Init => PlacedInv
  BY InitOnce DEF Init, PlacedInv, Backward, Addressed, Posts, Clones, Ids
<1> QED BY <1>1, PlacedNext, PTL DEF Spec
-----------------------------------------------------------------------------
(* Where nothing goes wrong but that rooms are learnt of late.             *)

Tame == world \subseteq {"late room", "second room"}

\* A user holds the ticket raised for the user; what a user posts is paired with
\* what its present place shows, unless it will be copied there; media are out.
Held == \A u \in Users, t \in Tickets : current[u] = t <=> owner[t] = u
PairsPlaced ==
  \A p \in pairs :
    /\ p[1] \in Posts
    /\ p[1] \in FromUsers =>
         /\ log[p[2]].room = Route(WriterOf(p[1])) \/ p[1] \in main.todo
         /\ current[WriterOf(p[1])] = NoTicket => p[1] \in saved
RequestPlaced ==
  main.out.ev \in FromUsers =>
    /\ main.out.to = Route(WriterOf(main.out.ev))
    /\ current[WriterOf(main.out.ev)] = NoTicket => main.out.ev \in saved
TextQueue(q) == \A t \in Tickets : \A i \in 1..Len(q[t]) : q[t][i].kind = "text"
NoMedia ==
  (\A e \in Ids : log[e].kind # "media") /\ TextQueue(queue) /\ main.out.kind = "text"

TameInv == PlacedInv /\ (Tame => Held /\ PairsPlaced /\ RequestPlaced /\ NoMedia)

\* What Message.process decides: whether there is a request, for which room and
\* with which reference.
Decided(e, kind, work, q) ==
  LET r == log[e].room
      u == UserOf(r)
      w == owner[TicketOf(r)]
      out == main'.out
  IN  /\ Outcome(e, work, q)
      /\ out # NoRequest =>
           /\ IsRedaction(e) => out.ref # 0
           /\ \/ /\ r \in Channels /\ Known(Route(u)) /\ queue' = q
                 /\ out.ref \in References(e, kind) /\ out.kind = kind
              \/ /\ r \in TicketRooms /\ w \in Users /\ current[w] = TicketOf(r) /\ out.to = dm[w]
                 /\ out.ref \in References(e, kind) /\ out.kind = kind
              \/ /\ r = Management /\ out.kind = "text"
                 /\ \E row \in messages : /\ row.management = log[e].ref
                                          /\ out.to = row.room /\ out.ref = row.event
      /\ r \notin Channels => dm' = dm
      /\ r \in Channels =>
           /\ dm' = [dm EXCEPT ![u] = r]
           /\ Route(u) = Management => e \in saved'
           /\ Known(Route(u)) =>
                /\ queue' = q
                /\ out = NoRequest => IsRedaction(e) /\ 0 \in References(e, kind)

LEMMA Decides ==
  ASSUME OnceInv, NEW work \in Work, work.out = NoRequest, NEW q, NEW e \in Ids,
         NEW kind \in {"text", "media"}, Process(e, kind, work, q)
  PROVE  Decided(e, kind, work, q)
<1> DEFINE r == log[e].room
           u == UserOf(r)
           w == owner[TicketOf(r)]
<1>0. Outcome(e, work, q)
  BY Processed
<1>1. ASSUME NEW to, Forward(e, kind, to, work, q)
      PROVE  /\ main'.out # NoRequest =>
                  /\ IsRedaction(e) => main'.out.ref # 0
                  /\ Known(to) /\ queue' = q
                  /\ main'.out.to = to /\ main'.out.ref \in References(e, kind)
                  /\ main'.out.kind = kind
             /\ Known(to) =>
                  /\ queue' = q
                  /\ main'.out = NoRequest => IsRedaction(e) /\ 0 \in References(e, kind)
  <2>1. CASE Known(to)
    <3>1. PICK ref \in References(e, kind) :
            main' = IF IsRedaction(e) /\ ref = 0 THEN work
                    ELSE [work EXCEPT !.out = [ev |-> e, kind |-> kind, to |-> to, ref |-> ref]]
      BY <1>1, <2>1 DEF Forward
    <3>2. CASE IsRedaction(e) /\ ref = 0
      BY <1>1, <2>1, <3>1, <3>2 DEF Forward
    <3>3. CASE ~(IsRedaction(e) /\ ref = 0)
      <4>1. PICK out : out = [ev |-> e, kind |-> kind, to |-> to, ref |-> ref]
        OBVIOUS
      <4>2. main'.out = out
        BY <3>1, <3>3, <4>1 DEF Work
      <4>3. out.ev # 0 /\ out.to = to /\ out.ref = ref /\ out.kind = kind
        BY <4>1 DEF Ids
      <4>4. out # NoRequest
        BY <4>3 DEF NoRequest
      <4> QED BY <1>1, <2>1, <3>1, <3>3, <4>2, <4>3, <4>4 DEF Forward
    <3> QED BY <3>2, <3>3
  <2>2. CASE ~Known(to)
    BY <1>1, <2>2 DEF Forward
  <2> QED BY <2>1, <2>2
<1>2. CASE r \in Channels
  <2>1. /\ saved' = IF Route(u) = Management THEN saved \cup {e} ELSE saved
        /\ dm' = [dm EXCEPT ![u] = r]
        /\ Forward(e, kind, Route(u), work, q)
    BY <1>2, PlaceFacts DEF Process, RelayFromUser
  <2> QED BY <1>0, <1>1, <1>2, <2>1 DEF Decided
<1>3. CASE r \in TicketRooms
  <2>1. /\ r \notin Channels /\ dm' = dm
        /\ \/ /\ Forward(e, kind, dm[w], work, q)
              /\ status[TicketOf(r)] = "open" /\ current[w] = TicketOf(r)
           \/ main' = work
    BY <1>3, PlaceFacts DEF Process, RelayFromStaff
  <2>2. status[TicketOf(r)] = "open" => w \in Users
    BY <1>3, PlaceFacts DEF OnceInv, Inv, RaisedForUser
  <2> QED BY <1>0, <1>1, <1>3, <2>1, <2>2 DEF Decided
<1>4. CASE r \notin Channels /\ r \notin TicketRooms
  <2>1. r = Management
    <3>1. log[e] \in Event
      BY DEF OnceInv, Inv, TypeOK, Ids
    <3> QED BY <1>4, <3>1, PlaceFacts DEF Event
  <2>2. /\ dm' = dm
        /\ \/ main' = work
           \/ \E row \in messages :
                /\ row.management = log[e].ref
                /\ main' = [work EXCEPT !.out = [ev |-> e, kind |-> "text",
                                                to |-> row.room, ref |-> row.event]]
    BY <1>4 DEF Process, RelayAnswer
  <2>3. ASSUME main'.out # NoRequest
        PROVE  /\ IsRedaction(e) => main'.out.ref # 0
               /\ main'.out.kind = "text"
               /\ \E row \in messages : /\ row.management = log[e].ref
                                        /\ main'.out.to = row.room /\ main'.out.ref = row.event
    <3>1. PICK row \in messages :
            /\ row.management = log[e].ref
            /\ main' = [work EXCEPT !.out = [ev |-> e, kind |-> "text",
                                            to |-> row.room, ref |-> row.event]]
      BY <2>2, <2>3
    <3>2. /\ main'.out.kind = "text" /\ main'.out.to = row.room /\ main'.out.ref = row.event
      BY <3>1 DEF Work
    <3>3. ~IsRedaction(e)
      BY <2>1 DEF OnceInv, Inv, AnswersInPlace
    <3> QED BY <3>1, <3>2, <3>3
  <2> QED BY <1>0, <1>4, <2>1, <2>2, <2>3 DEF Decided
<1> QED BY <1>2, <1>3, <1>4
\* An event is processed: a new one, one that is copied, or one that waited.
Relays(e, kind, work, q) ==
  /\ main.out = NoRequest /\ e \in Posts
  /\ \/ main = Idle /\ NextOfRoom(e) /\ pairs' = pairs
     \/ /\ main.stage = "copying" /\ MayComeNext(e) /\ e \notin gone /\ ~IsRedaction(e)
        /\ pairs' = {p \in pairs : p[1] # e}
     \/ main.stage = "draining" /\ Waits(queue, e) /\ pairs' = pairs
  /\ work.stage = main.stage /\ work.ticket = main.ticket /\ work.todo = main.todo \ {e}
  /\ handled' = handled \cup {e} /\ Unpaired(e)'
  /\ UNCHANGED <<log, gone, messages, known, encrypted, status, owner, current>>
  /\ q \in [Tickets -> Seq(Task)] /\ (TextQueue(queue) => TextQueue(q))
  /\ q = queue \/ main.stage = "draining"
  /\ NoMedia => kind = "text"
  /\ IsRedaction(e) => kind # "media"
  /\ Decided(e, kind, work, q)

LEMMA HandleRelays ==
  ASSUME PlacedInv, NEW e \in Ids, Handle(e)
  PROVE  \E kind, work, q : Relays(e, kind, work, q)
<1>1. PICK kind : kind = IF log[e].kind = "answer" THEN "text" ELSE log[e].kind
  OBVIOUS
<1>2. /\ main = Idle /\ NextOfRoom(e) /\ handled' = handled \cup {e}
      /\ Process(e, kind, Idle, queue)
      /\ UNCHANGED <<log, gone, pairs, messages, known, encrypted, status, owner, current>>
  BY <1>1 DEF Handle, IsIdle, server, desk
<1>3. e \in Posts \ handled
  BY <1>2 DEF NextOfRoom
<1>4. kind \in {"text", "media"}
  <2>1. log[e] \in Event
    BY DEF PlacedInv, OnceInv, Inv, TypeOK, Ids
  <2> QED BY <1>1, <2>1 DEF Event
<1>5. Decided(e, kind, Idle, queue)
  BY <1>2, <1>4, IdleFacts, Decides DEF PlacedInv
<1>6. Unpaired(e)'
  BY <1>2, <1>3 DEF PlacedInv, OnceInv, Once, NewUnseen, Unpaired
<1>7. (NoMedia => kind = "text") /\ (IsRedaction(e) => kind # "media")
  BY <1>1, <1>3, <1>4 DEF NoMedia, PlacedInv, Backward
<1>8. queue \in [Tickets -> Seq(Task)]
  BY DEF PlacedInv, OnceInv, Inv, TypeOK
<1>9. Relays(e, kind, Idle, queue)
  BY <1>2, <1>3, <1>5, <1>6, <1>7, <1>8, IdleFacts DEF Relays
<1> QED BY <1>9

LEMMA CopyNextRelays ==
  ASSUME PlacedInv, NEW e \in Ids, CopyNext(e)
  PROVE  \/ \E kind, work, q : Relays(e, kind, work, q)
         \/ /\ queue' = [queue EXCEPT ![main.ticket] = Append(@, [ev |-> e, kind |-> log[e].kind])]
            /\ main.ticket \notin known
            /\ main' = [main EXCEPT !.todo = @ \ {e}] /\ UNCHANGED <<dm, saved>>
<1>1. PICK work : work = [main EXCEPT !.todo = @ \ {e}]
  OBVIOUS
<1>2. /\ main.stage = "copying" /\ main.out = NoRequest /\ MayComeNext(e) /\ e \in main.todo
      /\ e \notin gone /\ ~IsRedaction(e)
      /\ pairs' = {p \in pairs : p[1] # e}
      /\ UNCHANGED <<log, gone, handled, messages, known, encrypted, status, owner, current>>
      /\ \/ Process(e, log[e].kind, work, queue)
         \/ /\ queue' = [queue EXCEPT ![main.ticket] = Append(@, [ev |-> e, kind |-> log[e].kind])]
            /\ main.ticket \notin known
            /\ main' = work /\ UNCHANGED <<dm, saved>>
  BY <1>1 DEF CopyNext, NoRequestOut, MayComeNext, server, desk
<1>3. main \in Work /\ log[e].room \in Channels
  BY <1>2 DEF PlacedInv, OnceInv, Inv, TypeOK, SavedFirst
<1>4. log[e].kind \in {"text", "media"}
  <2>1. log[e] \in Event /\ log[e].kind # "answer"
    BY <1>3, PlaceFacts DEF PlacedInv, OnceInv, Inv, TypeOK, Ids, AnswersInPlace
  <2> QED BY <2>1 DEF Event
<1>5. /\ work \in Work /\ work.out = NoRequest /\ work.todo = main.todo \ {e}
      /\ work.ticket = main.ticket /\ work.stage = main.stage
  BY <1>1, <1>2, <1>3 DEF Work
<1>6. e \in Posts /\ e \in handled
  BY <1>2 DEF PlacedInv, OnceInv, Once, CopiedApart, NewUnseen, FromUsers
<1>7. Unpaired(e)' /\ (NoMedia => log[e].kind = "text")
  BY <1>2, <1>4 DEF Unpaired, NoMedia
<1>8. ASSUME Process(e, log[e].kind, work, queue) PROVE Relays(e, log[e].kind, work, queue)
  <2>1. Decided(e, log[e].kind, work, queue)
    BY <1>4, <1>5, <1>8, Decides DEF PlacedInv
  <2>2. handled' = handled \cup {e} /\ queue \in [Tickets -> Seq(Task)]
    BY <1>2, <1>6 DEF PlacedInv, OnceInv, Inv, TypeOK
  <2> QED BY <1>2, <1>5, <1>6, <1>7, <2>1, <2>2 DEF Relays
<1> QED BY <1>1, <1>2, <1>8

LEMMA DrainNextRelays ==
  ASSUME PlacedInv, DrainNext
  PROVE  \/ \E e, kind, work, q : Relays(e, kind, work, q)
         \/ /\ queue' = [queue EXCEPT ![main.ticket] = Tail(@)] /\ queue[main.ticket] # <<>>
            /\ main.ticket \in Tickets
            /\ UNCHANGED <<log, gone, handled, pairs, messages, known, encrypted, status, owner, current,
                           dm, saved, main>>
<1>1. PICK t, task, rest :
        t = main.ticket /\ task = Head(queue[t]) /\ rest = [queue EXCEPT ![t] = Tail(@)]
  OBVIOUS
<1>2. /\ main.stage = "draining" /\ main.out = NoRequest /\ queue[t] # <<>>
      /\ UNCHANGED <<log, gone, handled, pairs, messages, known, encrypted, status, owner, current>>
      /\ \/ queue' = rest /\ UNCHANGED <<dm, saved, main>>
         \/ Process(task.ev, task.kind, main, rest) /\ ~IsRedaction(task.ev)
  BY <1>1 DEF DrainNext, NoRequestOut, server, desk
<1>3. t \in Tickets /\ main \in Work /\ queue[t] \in Seq(Task)
  BY <1>1, <1>2 DEF PlacedInv, OnceInv, Inv, TypeOK, MainSound
<1>4. task = queue[t][1] /\ 1 \in 1..Len(queue[t]) /\ task \in Task
  BY <1>1, <1>2, <1>3
<1>5. /\ task.ev \in Ids /\ task.kind \in {"text", "media"} /\ Waits(queue, task.ev)
      /\ TextQueue(queue) => task.kind = "text"
  BY <1>3, <1>4 DEF PlacedInv, OnceInv, Inv, QueuedFirst, Task, Waits, TextQueue
<1>6. /\ task.ev \in Posts /\ task.ev \in handled
      /\ Unpaired(task.ev) /\ task.ev \notin main.todo
  BY <1>2, <1>5 DEF PlacedInv, OnceInv, Once, WaitsOnce, FromUsers, NewUnseen, CopiedApart
<1>7. TextQueue(queue) => TextQueue(rest)
  <2> SUFFICES ASSUME TextQueue(queue), NEW s \in Tickets, NEW i \in 1..Len(rest[s])
               PROVE  rest[s][i].kind = "text"
    BY DEF TextQueue
  <2>1. CASE s # t
    BY <1>1, <2>1 DEF PlacedInv, OnceInv, Inv, TypeOK, TextQueue
  <2>2. CASE s = t
    <3>1. rest[s] = Tail(queue[t])
      BY <1>1, <1>3, <2>2 DEF PlacedInv, OnceInv, Inv, TypeOK
    <3>2. rest[s][i] = queue[t][i + 1] /\ i + 1 \in 1..Len(queue[t])
      BY <1>2, <1>3, <3>1, TailFacts
    <3> QED BY <1>3, <3>2 DEF TextQueue
  <2> QED BY <2>1, <2>2
<1>8. ASSUME Process(task.ev, task.kind, main, rest), ~IsRedaction(task.ev)
      PROVE  Relays(task.ev, task.kind, main, rest)
  <2>1. Decided(task.ev, task.kind, main, rest)
    BY <1>2, <1>3, <1>5, <1>8, Decides DEF PlacedInv
  <2>2. /\ handled' = handled \cup {task.ev} /\ main.todo = main.todo \ {task.ev}
        /\ Unpaired(task.ev)'
    BY <1>2, <1>6 DEF Unpaired
  <2>3. NoMedia => task.kind = "text"
    BY <1>5 DEF NoMedia
  <2>4. rest \in [Tickets -> Seq(Task)]
    BY <1>1, <1>2, <1>3 DEF PlacedInv, OnceInv, Inv, TypeOK
  <2> QED BY <1>2, <1>5, <1>6, <1>7, <1>8, <2>1, <2>2, <2>3, <2>4 DEF Relays
<1> QED BY <1>1, <1>2, <1>3, <1>8

-----------------------------------------------------------------------------
(* The steps keep what holds where little goes wrong.                      *)

TameFacts == Held /\ PairsPlaced /\ RequestPlaced /\ NoMedia

LEMMA PairFacts ==
  ASSUME OnceInv, NEW p \in pairs
  PROVE  p[1] \in Ids /\ p[2] \in Ids
BY DEF OnceInv, Inv, RowsSound, Linked

LEMMA WriterFacts ==
  ASSUME OnceInv, NEW m \in FromUsers
  PROVE  /\ m \in Ids /\ m \in Posts /\ log[m].room \in Channels /\ WriterOf(m) \in Users
         /\ UserOf(log[m].room) = WriterOf(m)
BY PlaceFacts DEF OnceInv, Posted, FromUsers, Posts, WriterOf

\* The pairs that stay are where they were.
LEMMA PairsStay ==
  ASSUME PlacedInv, Held, PairsPlaced, UNCHANGED <<log, current, owner>>,
         pairs' \subseteq pairs,
         \A p \in pairs' : p[1] \in main.todo => p[1] \in main'.todo,
         \A m \in FromUsers \cap saved : current[WriterOf(m)] = NoTicket => m \in saved'
  PROVE  Held' /\ PairsPlaced'
<1>1. Held'
  BY DEF Held
<1>2. Posts' = Posts /\ FromUsers' = FromUsers
  BY DEF Posts, FromUsers, Ids
<1>3. ASSUME NEW p \in pairs'
      PROVE  /\ p[1] \in Posts
             /\ p[1] \in FromUsers =>
                  /\ log[p[2]].room = Route(WriterOf(p[1])) \/ p[1] \in main'.todo
                  /\ current[WriterOf(p[1])] = NoTicket => p[1] \in saved'
  BY <1>3 DEF PairsPlaced
<1> QED BY <1>1, <1>2, <1>3 DEF PairsPlaced, WriterOf, Route

LEMMA NothingOut ==
  ASSUME main'.out = NoRequest PROVE RequestPlaced'
<1>1. main'.out.ev = 0
  BY DEF NoRequest
<1>2. 0 \notin FromUsers'
  BY DEF FromUsers, Posts, Ids
<1> QED BY <1>1, <1>2 DEF RequestPlaced

LEMMA PostTame ==
  ASSUME PlacedInv, Tame, TameFacts, NEW by, NEW room, NEW kind, NEW rel, NEW ref,
         PostedBy(by, room, kind, rel, ref)
  PROVE  TameFacts'
<1>1. PICK n : /\ n \notin Ids /\ n \in Nat
               /\ Ids' = Ids \cup {n} /\ \A e \in Ids : log'[e] = log[e] /\ e < n
               /\ Posts' = Posts \cup {n}
               /\ log'[n].kind = kind
               /\ UNCHANGED <<pairs, saved, queue, owner, current, main>>
  BY PostedFacts DEF PlacedInv, OnceInv
<1>2. Held'
  BY <1>1 DEF TameFacts, Held
<1>3. FromUsers' \cap Ids = FromUsers /\ Posts \subseteq Ids /\ FromUsers \subseteq Ids
  BY <1>1, PostsStay
<1>4. PairsPlaced'
  <2> SUFFICES ASSUME NEW p \in pairs
               PROVE  /\ p[1] \in Posts'
                      /\ p[1] \in FromUsers' =>
                           /\ \/ log'[p[2]].room = TicketRoom(current[UserOf(log'[p[1]].room)])
                              \/ p[1] \in main.todo
                           /\ current[UserOf(log'[p[1]].room)] = NoTicket => p[1] \in saved
    BY <1>1 DEF PairsPlaced, Route, WriterOf
  <2>1. p[1] \in Ids /\ p[2] \in Ids
    BY PairFacts DEF PlacedInv
  <2> QED BY <1>1, <1>3, <2>1 DEF TameFacts, PairsPlaced, Route, WriterOf
<1>5. RequestPlaced'
  <2> SUFFICES ASSUME main.out.ev \in FromUsers'
               PROVE  /\ main.out.to = TicketRoom(current[UserOf(log'[main.out.ev].room)])
                      /\ current[UserOf(log'[main.out.ev].room)] = NoTicket => main.out.ev \in saved
    BY <1>1 DEF RequestPlaced, Route, WriterOf
  <2>1. CASE main.out = NoRequest
    <3>1. main.out.ev = 0 /\ 0 \notin Ids'
      BY <2>1 DEF NoRequest, Ids
    <3> QED BY <3>1 DEF FromUsers, Posts
  <2>2. CASE main.out # NoRequest
    <3>1. main.out.ev \in Ids
      BY <2>2 DEF PlacedInv, OnceInv, Inv, MainSound
    <3> QED BY <1>1, <1>3, <3>1 DEF TameFacts, RequestPlaced, Route, WriterOf
  <2> QED BY <2>1, <2>2
<1>6. NoMedia'
  <2>1. "media" \notin world /\ kind # "media"
    BY DEF Tame, PostedBy
  <2> QED BY <1>1, <2>1 DEF TameFacts, NoMedia, TextQueue
<1> QED BY <1>2, <1>4, <1>5, <1>6 DEF TameFacts

LEMMA SentTame ==
  ASSUME PlacedInv, TameFacts, Sent PROVE TameFacts'
<1>1. PICK n : /\ n = Len(log) + 1 /\ n \notin Ids
               /\ Ids' = Ids \cup {n} /\ \A e \in Ids : log'[e] = log[e]
               /\ Posts' = Posts
               /\ log'[n].room = main.out.to /\ log'[n].kind = main.out.kind
  BY ClonedFacts DEF PlacedInv, Sent
<1>2. /\ pairs' \subseteq pairs \cup {<<main.out.ev, n>>}
      /\ main' = [main EXCEPT !.out = NoRequest] /\ main.out # NoRequest
      /\ UNCHANGED <<saved, queue, owner, current>>
  BY <1>1 DEF Sent, desk, Returned, Requesting, NoRequestOut
<1>3. main'.out = NoRequest /\ main'.todo = main.todo
  BY <1>2 DEF PlacedInv, OnceInv, Inv, TypeOK, Work
<1>4. Held'
  BY <1>2 DEF TameFacts, Held
<1>5. FromUsers' = FromUsers /\ Posts \subseteq Ids /\ FromUsers \subseteq Ids
  BY <1>1 DEF Posts, FromUsers
<1>6. PairsPlaced'
  <2> SUFFICES ASSUME NEW p \in pairs'
               PROVE  /\ p[1] \in Posts
                      /\ p[1] \in FromUsers =>
                           /\ \/ log'[p[2]].room = TicketRoom(current[UserOf(log'[p[1]].room)])
                              \/ p[1] \in main.todo
                           /\ current[UserOf(log'[p[1]].room)] = NoTicket => p[1] \in saved
    BY <1>1, <1>2, <1>3, <1>5 DEF PairsPlaced, Route, WriterOf
  <2>1. CASE p \in pairs
    <3>1. p[1] \in Ids /\ p[2] \in Ids
      BY <2>1, PairFacts DEF PlacedInv
    <3> QED BY <1>1, <2>1, <3>1 DEF TameFacts, PairsPlaced, Route, WriterOf
  <2>2. CASE p = <<main.out.ev, n>>
    <3>1. p[1] = main.out.ev /\ p[2] = n
      BY <2>2
    <3>2. p[1] \in Posts
      BY <1>2, <3>1 DEF PlacedInv, OnceInv, Once, RequestedOnce
    <3> QED BY <1>1, <1>5, <3>1, <3>2 DEF TameFacts, RequestPlaced, Route, WriterOf
  <2> QED BY <1>2, <2>1, <2>2
<1>7. NoMedia' /\ RequestPlaced'
  BY <1>1, <1>2, <1>3, NothingOut DEF TameFacts, NoMedia, TextQueue, NoRequest
<1> QED BY <1>4, <1>6, <1>7 DEF TameFacts

LEMMA QueueText ==
  ASSUME PlacedInv, NEW q, TextQueue(q), NEW r, NEW t \in Tickets, NEW e,
         q \in [Tickets -> Seq(Task)], e \in Nat,
         Added(r, q, t, [ev |-> e, kind |-> "text"])
  PROVE  TextQueue(r)
<1> SUFFICES ASSUME NEW s \in Tickets, NEW i \in 1..Len(r[s])
             PROVE  r[s][i].kind = "text"
  BY DEF TextQueue
<1>1. PICK task : task = [ev |-> e, kind |-> "text"]
  OBVIOUS
<1>2. task \in Task /\ task.kind = "text"
  BY <1>1 DEF Task
<1>3. r = [q EXCEPT ![t] = Append(@, task)]
  BY <1>1 DEF Added
<1>4. CASE s # t
  BY <1>3, <1>4 DEF TextQueue
<1>5. CASE s = t
  <2>1. q[t] \in Seq(Task) /\ r[s] = Append(q[t], task)
    BY <1>3, <1>5
  <2>2. CASE i = Len(q[t]) + 1
    BY <1>2, <2>1, <2>2
  <2>3. CASE i \in 1..Len(q[t])
    BY <1>5, <2>1, <2>3 DEF TextQueue
  <2> QED BY <1>2, <2>1, <2>2, <2>3
<1> QED BY <1>4, <1>5

LEMMA RouteHome == ASSUME NEW u, current[u] = NoTicket PROVE Route(u) = Management
BY DEF Route, TicketRoom, NoTicket, Management

LEMMA RelaysTame ==
  ASSUME PlacedInv, TameFacts, NEW e, NEW kind, NEW work, NEW q, Relays(e, kind, work, q)
  PROVE  TameFacts'
<1>1. /\ main.out = NoRequest /\ e \in Posts /\ pairs' \subseteq pairs /\ Unpaired(e)'
      /\ UNCHANGED <<log, owner, current>> /\ kind = "text"
      /\ work.todo = main.todo \ {e} /\ q \in [Tickets -> Seq(Task)] /\ TextQueue(q)
      /\ Decided(e, kind, work, q) /\ Outcome(e, work, q)
  BY DEF Relays, TameFacts, NoMedia, Decided
<1>2. saved \subseteq saved' /\ main'.todo = main.todo \ {e}
  BY <1>1 DEF Outcome
<1>3. Held' /\ PairsPlaced'
  BY <1>1, <1>2, PairsStay DEF TameFacts, Unpaired
<1>4. RequestPlaced'
  <2>1. CASE main'.out = NoRequest
    BY <2>1, NothingOut
  <2>2. CASE main'.out # NoRequest /\ e \in FromUsers
    <3>1. /\ main'.out.ev = e /\ log[e].room \in Channels /\ UserOf(log[e].room) = WriterOf(e)
      BY <1>1, <2>2, WriterFacts DEF Outcome, PlacedInv
    <3>2. main'.out.to = Route(WriterOf(e))
      BY <1>1, <2>2, <3>1 DEF Outcome
    <3>3. current[WriterOf(e)] = NoTicket => e \in saved'
      BY <1>1, <3>1, RouteHome DEF Decided
    <3> QED BY <1>1, <3>1, <3>2, <3>3 DEF RequestPlaced, Route, WriterOf
  <2>3. CASE main'.out # NoRequest /\ e \notin FromUsers
    <3>1. main'.out.ev = e
      BY <1>1, <2>3 DEF Outcome
    <3> QED BY <1>1, <2>3, <3>1 DEF RequestPlaced, FromUsers, Posts, Ids
  <2> QED BY <2>1, <2>2, <2>3
<1>5. TextQueue(queue')
  <2>1. CASE queue' = q \/ queue' = queue
    BY <1>1, <2>1 DEF TameFacts, NoMedia
  <2>2. ASSUME NEW t \in Tickets, Added(queue', q, t, [ev |-> e, kind |-> "text"])
        PROVE  TextQueue(queue')
    <3>1. e \in Nat
      BY <1>1 DEF Posts, Ids
    <3> QED BY <1>1, <2>2, <3>1, QueueText
  <2> QED BY <1>1, <2>1, <2>2 DEF Outcome
<1>6. main'.out.kind = "text"
  <2>1. CASE main'.out = NoRequest
    BY <2>1 DEF NoRequest
  <2>2. CASE main'.out # NoRequest
    BY <1>1, <2>2 DEF Decided
  <2> QED BY <2>1, <2>2
<1>7. NoMedia'
  BY <1>1, <1>5, <1>6 DEF TameFacts, NoMedia, TextQueue, Ids
<1> QED BY <1>3, <1>4, <1>7 DEF TameFacts

LEMMA RaiseTame ==
  ASSUME PlacedInv, Tame, TameFacts, NEW u \in Users, NEW t \in Tickets, Raise(u, t)
  PROVE  TameFacts'
<1>1. /\ main = Idle /\ status[t] = "none" /\ \A s \in Tickets : owner[s] # u
      /\ owner' = [owner EXCEPT ![t] = u] /\ current' = [current EXCEPT ![u] = t]
      /\ main' = [Idle EXCEPT !.stage = "copying", !.ticket = t,
                              !.todo = {e \in saved : UserOf(log[e].room) = u}]
      /\ UNCHANGED <<log, pairs, saved, queue>>
  BY DEF Raise, Tame, IsIdle, server, rows
<1>2. /\ main.todo = {} /\ main'.out = NoRequest
      /\ main'.todo = {e \in saved : UserOf(log[e].room) = u}
  BY <1>1 DEF Idle
<1>3. /\ owner[t] = Desk /\ Desk \notin Users
      /\ current[u] = NoTicket /\ NoTicket \notin Tickets
      /\ owner' \in [Tickets -> Users \cup {Desk}] /\ owner'[t] = u /\ current'[u] = t
      /\ \A s \in Tickets \ {t} : owner'[s] = owner[s]
      /\ \A v \in Users \ {u} : current'[v] = current[v]
  <2>1. owner[t] = Desk /\ NoTicket \notin Tickets /\ Desk \notin Users
    BY <1>1, BoundFacts DEF PlacedInv, OnceInv, Owned, NoTicket, Tickets
  <2>2. current[u] = NoTicket
    BY <1>1 DEF TameFacts, Held, PlacedInv, OnceInv, Inv, TypeOK
  <2>3. /\ owner \in [Tickets -> Users \cup {Desk}]
        /\ current \in [Users -> Tickets \cup {NoTicket}]
    BY DEF PlacedInv, OnceInv, Inv, TypeOK
  <2> QED BY <1>1, <2>1, <2>2, <2>3
<1>4. Held'
  <2> SUFFICES ASSUME NEW v \in Users, NEW s \in Tickets PROVE current'[v] = s <=> owner'[s] = v
    BY DEF Held
  <2>1. CASE v = u /\ s = t
    BY <1>3, <2>1
  <2>2. CASE v = u /\ s # t
    BY <1>1, <1>3, <2>2
  <2>3. CASE v # u /\ s = t
    BY <1>3, <2>3 DEF TameFacts, Held
  <2>4. CASE v # u /\ s # t
    BY <1>3, <2>4 DEF TameFacts, Held
  <2> QED BY <2>1, <2>2, <2>3, <2>4
<1>5. PairsPlaced'
  <2>1. Posts' = Posts /\ FromUsers' = FromUsers
    BY <1>1 DEF Posts, FromUsers, Ids
  <2> SUFFICES ASSUME NEW p \in pairs, p[1] \in FromUsers
               PROVE  /\ \/ log[p[2]].room = TicketRoom(current'[WriterOf(p[1])])
                         \/ p[1] \in main'.todo
                      /\ current'[WriterOf(p[1])] = NoTicket => p[1] \in saved
    BY <1>1, <2>1 DEF PairsPlaced, Route, WriterOf, TameFacts
  <2>2. /\ log[p[2]].room = Route(WriterOf(p[1])) /\ WriterOf(p[1]) \in Users
        /\ current[WriterOf(p[1])] = NoTicket => p[1] \in saved
    BY <1>2, WriterFacts DEF TameFacts, PairsPlaced, PlacedInv
  <2>3. CASE WriterOf(p[1]) # u
    BY <1>3, <2>2, <2>3 DEF Route
  <2>4. CASE WriterOf(p[1]) = u
    BY <1>2, <1>3, <2>2, <2>4 DEF WriterOf
  <2> QED BY <2>3, <2>4
<1>6. RequestPlaced' /\ NoMedia'
  BY <1>1, <1>2, NothingOut DEF TameFacts, NoMedia, TextQueue, NoRequest, Ids
<1> QED BY <1>4, <1>5, <1>6 DEF TameFacts

\* What neither writes nor relays.
Quiet ==
  /\ pairs' \subseteq pairs
  /\ \A p \in pairs' : p[1] \in main.todo => p[1] \in main'.todo
  /\ \/ main'.out = NoRequest
     \/ main'.out = main.out /\ saved' = saved
  /\ \/ saved' = saved
     \/ /\ main.ticket \in Tickets
        /\ saved' = {e \in saved : UserOf(log[e].room) # owner[main.ticket]}
  /\ UNCHANGED <<log, owner, current, dm, messages>>
  /\ TextQueue(queue) => TextQueue(queue')

LEMMA QuietTame ==
  ASSUME PlacedInv, TameFacts, Quiet PROVE TameFacts'
<1>1. \A m \in FromUsers \cap saved : current[WriterOf(m)] = NoTicket => m \in saved'
  <2> SUFFICES ASSUME NEW m \in FromUsers, m \in saved, current[WriterOf(m)] = NoTicket,
                      main.ticket \in Tickets,
                      saved' = {e \in saved : UserOf(log[e].room) # owner[main.ticket]}
               PROVE  m \in saved'
    BY DEF Quiet
  <2>1. WriterOf(m) \in Users
    BY WriterFacts DEF PlacedInv
  <2>2. NoTicket \notin Tickets
    BY BoundFacts DEF NoTicket, Tickets
  <2>3. owner[main.ticket] # WriterOf(m)
    BY <2>1, <2>2 DEF TameFacts, Held
  <2> QED BY <2>3 DEF WriterOf
<1>2. Held' /\ PairsPlaced'
  BY <1>1, PairsStay DEF Quiet, TameFacts
<1>3. RequestPlaced' /\ main'.out.kind = "text"
  <2>1. CASE main'.out = NoRequest
    BY <2>1, NothingOut DEF NoRequest
  <2>2. CASE main'.out = main.out /\ saved' = saved
    <3>1. FromUsers' = FromUsers
      BY DEF Quiet, FromUsers, Posts, Ids
    <3> QED BY <2>2, <3>1 DEF Quiet, TameFacts, RequestPlaced, NoMedia, Route, WriterOf
  <2> QED BY <2>1, <2>2 DEF Quiet
<1>4. NoMedia'
  <2>1. TextQueue(queue') /\ log' = log /\ \A e \in Ids : log[e].kind # "media"
    BY DEF Quiet, TameFacts, NoMedia
  <2> QED BY <1>3, <2>1 DEF NoMedia, TextQueue, Ids
<1> QED BY <1>2, <1>3, <1>4 DEF TameFacts

LEMMA QuietCases ==
  ASSUME PlacedInv, TameFacts,
         \/ Redacted \/ CopyDone \/ DrainDone \/ UNCHANGED vars
         \/ \E e \in Ids : HandleRedacted(e) \/ CopySkips(e)
         \/ \E t \in Tickets : Learn(t) \/ Drain(t)
  PROVE  Quiet
<1>0. main \in Work
  BY DEF PlacedInv, OnceInv, Inv, TypeOK
<1>1. CASE Redacted
  <2>1. main' = [main EXCEPT !.out = NoRequest]
    BY <1>1 DEF Redacted, Returned
  <2>2. main'.out = NoRequest /\ main'.todo = main.todo
    BY <1>0, <2>1 DEF Work
  <2> QED BY <1>1, <2>2 DEF Quiet, Redacted, rows, desk
<1>2. CASE CopyDone
  <2>1. main.ticket \in Tickets /\ main' = Idle /\ main.todo = {}
    BY <1>2 DEF CopyDone, PlacedInv, OnceInv, Inv, MainSound
  <2> QED BY <1>2, <2>1, IdleFacts DEF Quiet, CopyDone, server, desk
<1>3. CASE DrainDone
  <2>1. main' = Idle /\ main.todo = {}
    BY <1>3 DEF DrainDone, PlacedInv, OnceInv, Once, CopiedApart, Copied
  <2> QED BY <1>3, <2>1, IdleFacts DEF Quiet, DrainDone, server, rows, desk
<1>4. CASE UNCHANGED vars
  BY <1>4 DEF Quiet, vars, state, server, rows, desk
<1>5. ASSUME NEW e \in Ids, HandleRedacted(e) PROVE Quiet
  BY <1>5 DEF Quiet, HandleRedacted, server, rows, desk
<1>6. ASSUME NEW e \in Ids, CopySkips(e) PROVE Quiet
  <2>1. /\ main' = [main EXCEPT !.todo = @ \ {e}] /\ main.out = NoRequest
        /\ pairs' = {p \in pairs : p[1] # e}
        /\ UNCHANGED <<log, messages, saved, queue, owner, current, dm>>
    BY <1>6 DEF CopySkips, NoRequestOut, server, desk
  <2>2. main'.out = NoRequest /\ main'.todo = main.todo \ {e}
    BY <1>0, <2>1 DEF Work
  <2> QED BY <2>1, <2>2 DEF Quiet
<1>7. ASSUME NEW t \in Tickets, Learn(t) PROVE Quiet
  BY <1>7 DEF Quiet, Learn, server, rows, desk
<1>8. ASSUME NEW t \in Tickets, Drain(t) PROVE Quiet
  <2>1. main' = [Idle EXCEPT !.stage = "draining", !.ticket = t] /\ main = Idle
    BY <1>8 DEF Drain, IsIdle
  <2>2. main'.out = NoRequest /\ main'.todo = {} /\ main.todo = {}
    BY <2>1 DEF Idle
  <2> QED BY <1>8, <2>2 DEF Quiet, Drain, server, rows, desk
<1> QED BY <1>1, <1>2, <1>3, <1>4, <1>5, <1>6, <1>7, <1>8

LEMMA CopyNextCases ==
  ASSUME PlacedInv, TameFacts, NEW e \in Ids, CopyNext(e)
  PROVE  Quiet \/ \E kind, work, q : Relays(e, kind, work, q)
<1>2. ASSUME /\ queue' = [queue EXCEPT ![main.ticket] =
                            Append(@, [ev |-> e, kind |-> log[e].kind])]
             /\ main.ticket \notin known
             /\ main' = [main EXCEPT !.todo = @ \ {e}] /\ UNCHANGED <<dm, saved>>
      PROVE  Quiet
  <2>1. /\ main.stage = "copying" /\ main.out = NoRequest /\ pairs' = {p \in pairs : p[1] # e}
        /\ UNCHANGED <<log, messages, owner, current>> /\ e \in main.todo
    BY DEF CopyNext, NoRequestOut, MayComeNext, server, desk
  <2>2. main \in Work /\ log[e].room \in Channels /\ queue \in [Tickets -> Seq(Task)]
    BY <2>1 DEF PlacedInv, OnceInv, Inv, TypeOK, SavedFirst
  <2>3. main'.out = NoRequest /\ main'.todo = main.todo \ {e} /\ main.ticket \in Tickets
    BY <1>2, <2>1, <2>2 DEF Work, PlacedInv, OnceInv, Inv, MainSound
  <2>4. log[e].kind = "text"
    <3>1. log[e] \in Event
      BY DEF PlacedInv, OnceInv, Inv, TypeOK, Ids
    <3>2. log[e].kind # "answer"
      BY <2>2, PlaceFacts DEF PlacedInv, OnceInv, Inv, AnswersInPlace
    <3>3. log[e].kind # "media"
      BY DEF TameFacts, NoMedia
    <3> QED BY <3>1, <3>2, <3>3 DEF Event
  <2>5. TextQueue(queue')
    <3>1. Added(queue', queue, main.ticket, [ev |-> e, kind |-> "text"])
      BY <1>2, <2>4 DEF Added
    <3>2. e \in Nat /\ TextQueue(queue)
      BY DEF Ids, TameFacts, NoMedia
    <3> QED BY <2>2, <2>3, <3>1, <3>2, QueueText
  <2> QED BY <1>2, <2>1, <2>3, <2>5 DEF Quiet
<1> QED BY <1>2, CopyNextRelays

LEMMA DrainNextCases ==
  ASSUME PlacedInv, TameFacts, DrainNext
  PROVE  Quiet \/ \E e, kind, work, q : Relays(e, kind, work, q)
<1>2. ASSUME /\ queue' = [queue EXCEPT ![main.ticket] = Tail(@)] /\ queue[main.ticket] # <<>>
             /\ main.ticket \in Tickets
             /\ UNCHANGED <<log, pairs, messages, owner, current, dm, saved, main>>
      PROVE  Quiet
  <2>1. TextQueue(queue')
    <3> SUFFICES ASSUME NEW s \in Tickets, NEW i \in 1..Len(queue'[s])
                 PROVE  queue'[s][i].kind = "text"
      BY DEF TextQueue
    <3>1. queue \in [Tickets -> Seq(Task)] /\ TextQueue(queue)
      BY DEF PlacedInv, OnceInv, Inv, TypeOK, TameFacts, NoMedia
    <3>2. CASE s # main.ticket
      BY <1>2, <3>1, <3>2 DEF TextQueue
    <3>3. CASE s = main.ticket
      <4>1. queue'[s] = Tail(queue[s]) /\ queue[s] \in Seq(Task) /\ queue[s] # <<>>
        BY <1>2, <3>1, <3>3
      <4>2. queue'[s][i] = queue[s][i + 1] /\ i + 1 \in 1..Len(queue[s])
        BY <4>1, TailFacts
      <4> QED BY <3>1, <4>2 DEF TextQueue
    <3> QED BY <3>2, <3>3
  <2> QED BY <1>2, <2>1 DEF Quiet
<1> QED BY <1>2, DrainNextRelays

LEMMA NextTame == TameInv /\ [Next]_vars => TameInv'
<1> SUFFICES ASSUME TameInv, [Next]_vars PROVE TameInv'
  OBVIOUS
<1>1. PlacedInv /\ PlacedInv' /\ world' = world
  BY PlacedNext DEF TameInv, Next, vars
<1> SUFFICES ASSUME Tame, TameFacts PROVE TameFacts'
  BY <1>1 DEF TameInv, TameFacts, Tame
<1>2. ~MayFail /\ ~Closes /\ ~Slow
  BY DEF Tame, MayFail, Closes, Slow
<1>3. CASE Posting
  BY <1>1, <1>3, PostingCases, PostTame
<1>4. CASE Sent
  BY <1>1, <1>4, SentTame
<1>5. ASSUME NEW e \in Ids, Handle(e) PROVE TameFacts'
  BY <1>1, <1>5, HandleRelays, RelaysTame
<1>6. ASSUME NEW e \in Ids, CopyNext(e) PROVE TameFacts'
  BY <1>1, <1>6, CopyNextCases, QuietTame, RelaysTame
<1>7. CASE DrainNext
  BY <1>1, <1>7, DrainNextCases, QuietTame, RelaysTame
<1>8. ASSUME NEW u \in Users, NEW t \in Tickets, Raise(u, t) PROVE TameFacts'
  BY <1>1, <1>8, RaiseTame
<1>9. CASE \/ Redacted \/ CopyDone \/ DrainDone \/ UNCHANGED vars
           \/ \E e \in Ids : HandleRedacted(e) \/ CopySkips(e)
           \/ \E t \in Tickets : Learn(t) \/ Drain(t)
  BY <1>1, <1>9, QuietCases, QuietTame
<1>10. ~RequestFailed /\ ~Crash /\ \A t \in Tickets : ~Close(t) /\ ~Reopen(t)
  BY <1>2 DEF RequestFailed, Crash, Overdue, Close, Reopen
<1>11. Waiting => \E t \in Tickets : Learn(t)
  BY <1>2 DEF Waiting, Encrypt, Expire, Overdue
<1> QED
  BY <1>3, <1>4, <1>5, <1>6, <1>7, <1>8, <1>9, <1>10, <1>11
     DEF Next, Step, Relaying, Copying, Draining

LEMMA InitTame == Init => TameInv
<1> SUFFICES ASSUME Init PROVE TameInv
  OBVIOUS
<1>1. PlacedInv
  BY InitOnce DEF Init, PlacedInv, Backward, Addressed, Posts, Clones, Ids
<1>2. Held
  <2>1. NoTicket \notin Tickets /\ Desk \notin Users
    BY BoundFacts DEF NoTicket, Tickets
  <2> QED BY <2>1 DEF Init, Held
<1>3. Ids = {} /\ pairs = {} /\ main = Idle /\ FromUsers = {}
  BY DEF Init, Ids, FromUsers, Posts
<1>4. PairsPlaced /\ RequestPlaced
  BY <1>3 DEF PairsPlaced, RequestPlaced
<1>5. NoMedia
  BY <1>3 DEF Init, NoMedia, TextQueue, Idle, NoRequest
<1> QED BY <1>1, <1>2, <1>4, <1>5 DEF TameInv

\* Where nothing goes wrong but late rooms, a user's pairs are where the user is read.
THEOREM TameAlways == Spec => []TameInv
BY InitTame, NextTame, PTL DEF Spec

-----------------------------------------------------------------------------
(* Users write in one room each: what a clone refers to is in its room.    *)

Steady == world \subseteq {"late room"}
First(u) == <<u, 1>>

\* The room of the user whose ticket the event of staff is written in.
ToHolder(e, room) ==
  /\ log[e].room \in TicketRooms /\ owner[TicketOf(log[e].room)] \in Users
  /\ room = First(owner[TicketOf(log[e].room)])

Homes ==
  /\ \A e \in FromUsers : log[e].room = First(WriterOf(e))
  /\ \A u \in Users : dm[u] = First(u)
RowsReturn == \A row \in messages : log[row.event].room = row.room
StaffPairs == \A p \in pairs : p[1] \notin FromUsers => ToHolder(p[1], log[p[2]].room)
RequestWithin ==
  main.out # NoRequest =>
    /\ main.out.ref # 0 => log[main.out.ref].room = main.out.to
    /\ log[main.out.ev].room \in TicketRooms => ToHolder(main.out.ev, main.out.to)

SteadyFacts == WithinRoom /\ Homes /\ RowsReturn /\ StaffPairs /\ RequestWithin
SteadyInv == TameInv /\ (Steady => SteadyFacts)

LEMMA HomeFacts ==
  /\ \A u \in Users : First(u) \in Channels /\ UserOf(First(u)) = u
  /\ \A p \in TicketRooms : TicketRoom(TicketOf(p)) = p
<1>1. \A u \in Users : First(u) \in Channels /\ UserOf(First(u)) = u
  BY OneChannel DEF First, Channels, UserOf
<1> QED BY <1>1 DEF TicketRooms, TicketRoom, TicketOf

\* What the events of a room refer to has its counterpart in the room that gets
\* the room's events.
LEMMA CounterpartWithin ==
  ASSUME PlacedInv, TameFacts, SteadyFacts, NEW e \in Posts, NEW to,
         NEW c \in Counterparts(log[e].ref),
         log[e].ref \notin main.todo,
         e \in FromUsers => to = Route(WriterOf(e)),
         e \notin FromUsers => ToHolder(e, to)
  PROVE  log[c].room = to
<1>1. PICK m : m = log[e].ref
  OBVIOUS
<1>2. c \in Ids /\ m \in Ids /\ m # 0
  <2>1. Linked(c, m)
    BY <1>1, CounterpartFacts DEF PlacedInv, OnceInv
  <2> QED BY <2>1 DEF Linked, Ids
<1>3. log[m].room = log[e].room
  BY <1>1, <1>2 DEF PlacedInv, Backward
<1>4. PICK p \in pairs : IF IsClone(m) THEN p[2] = m /\ p[1] = c ELSE p[1] = m /\ p[2] = c
  BY <1>1 DEF Counterparts
<1>5. p[1] \in Posts /\ p[1] \in Ids /\ p[2] \in Ids
  BY PairFacts DEF TameFacts, PairsPlaced, PlacedInv
<1>6. CASE IsClone(m)
  <2>1. m \in Clones /\ log[m].from = c /\ c \in Posts
    BY <1>2, <1>4, <1>5, <1>6 DEF Clones, PlacedInv, OnceInv, Inv, RowsSound
  <2>2. c \in FromUsers =>
          /\ log[m].room \in TicketRooms \cup {Management}
          /\ log[m].room \in TicketRooms => owner[TicketOf(log[m].room)] = WriterOf(c)
    BY <2>1 DEF PlacedInv, Addressed
  <2>3. c \notin FromUsers => ToHolder(c, log[m].room)
    BY <1>4, <1>6 DEF SteadyFacts, StaffPairs
  <2>4. CASE e \in FromUsers
    <3>1. log[m].room \in Channels /\ log[m].room = First(WriterOf(e)) /\ WriterOf(e) \in Users
      BY <1>3, <2>4, WriterFacts DEF SteadyFacts, Homes, PlacedInv
    <3>2. ToHolder(c, First(WriterOf(e)))
      BY <2>2, <2>3, <3>1, PlaceFacts
    <3>3. log[c].room \in TicketRooms /\ owner[TicketOf(log[c].room)] = WriterOf(e)
      BY <3>1, <3>2, HomeFacts DEF ToHolder
    <3>4. TicketOf(log[c].room) \in Tickets
      BY <3>3, PlaceFacts
    <3>5. current[WriterOf(e)] = TicketOf(log[c].room)
      BY <3>1, <3>3, <3>4 DEF TameFacts, Held
    <3> QED BY <2>4, <3>3, <3>5, HomeFacts DEF Route
  <2>5. CASE e \notin FromUsers
    <3>1. /\ log[m].room \in TicketRooms /\ owner[TicketOf(log[m].room)] \in Users
          /\ to = First(owner[TicketOf(log[m].room)])
      BY <1>3, <2>5 DEF ToHolder
    <3>2. c \in FromUsers
      <4> SUFFICES ASSUME c \notin FromUsers PROVE FALSE
        OBVIOUS
      <4>1. /\ log[m].room = First(owner[TicketOf(log[c].room)])
            /\ owner[TicketOf(log[c].room)] \in Users
        BY <2>3 DEF ToHolder
      <4> QED BY <3>1, <4>1, HomeFacts, PlaceFacts
    <3>3. to = First(WriterOf(c)) /\ log[c].room = First(WriterOf(c))
      BY <2>2, <3>1, <3>2 DEF SteadyFacts, Homes
    <3> QED BY <3>3
  <2> QED BY <2>4, <2>5
<1>7. CASE ~IsClone(m)
  <2>1. p[1] = m /\ p[2] = c /\ m \in Posts
    BY <1>4, <1>5, <1>7
  <2>2. CASE e \in FromUsers
    <3>1. m \in FromUsers /\ WriterOf(m) = WriterOf(e)
      BY <1>3, <2>1, <2>2, WriterFacts DEF PlacedInv, OnceInv, Posted, FromUsers, WriterOf
    <3> QED BY <1>1, <2>1, <2>2, <3>1 DEF TameFacts, PairsPlaced
  <2>3. CASE e \notin FromUsers
    <3>1. log[m].room \in TicketRooms /\ to = First(owner[TicketOf(log[m].room)])
      BY <1>3, <2>3 DEF ToHolder
    <3>2. m \notin FromUsers
      BY <3>1, PlaceFacts, WriterFacts DEF PlacedInv
    <3>3. ToHolder(m, log[c].room)
      BY <2>1, <3>2 DEF SteadyFacts, StaffPairs
    <3> QED BY <3>1, <3>3 DEF ToHolder
  <2> QED BY <2>2, <2>3
<1> QED BY <1>6, <1>7

\* Where the log, the owners and the rooms of users stay.
LEMMA SteadyStays ==
  ASSUME PlacedInv, SteadyFacts, UNCHANGED <<log, owner, dm, messages>>, pairs' \subseteq pairs
  PROVE  WithinRoom' /\ Homes' /\ RowsReturn' /\ StaffPairs'
<1>1. Ids' = Ids /\ Clones' = Clones /\ FromUsers' = FromUsers
  BY DEF Ids, Clones, IsClone, FromUsers, Posts
<1> QED
  BY <1>1 DEF SteadyFacts, WithinRoom, Homes, RowsReturn, StaffPairs, ToHolder, WriterOf, First

LEMMA RelaysSteady ==
  ASSUME PlacedInv, TameFacts, Steady, SteadyFacts,
         NEW e, NEW kind, NEW work, NEW q, Relays(e, kind, work, q)
  PROVE  SteadyFacts'
<1>1. /\ main.out = NoRequest /\ e \in Posts /\ e \in Ids /\ pairs' \subseteq pairs
      /\ UNCHANGED <<log, owner, current, messages>> /\ kind = "text"
      /\ Decided(e, kind, work, q) /\ Outcome(e, work, q)
  BY DEF Relays, TameFacts, NoMedia, Decided, Posts
<1>2. log[e].ref \notin main.todo
  <2>1. log[e].ref < e /\ Ordered
    BY <1>1 DEF PlacedInv, Backward, Steady, Ordered
  <2>2. CASE main.todo = {}
    BY <2>2
  <2>3. CASE main.todo # {}
    <3>1. main.stage = "copying"
      BY <2>3 DEF PlacedInv, OnceInv, Once, CopiedApart, Copied
    <3>2. MayComeNext(e)
      BY <3>1, IdleFacts DEF Relays
    <3>3. \A f \in main.todo : e <= f
      BY <2>1, <3>2 DEF MayComeNext
    <3>4. log[e].ref \in Nat /\ e \in Nat
      <4>1. log[e] \in Event
        BY <1>1 DEF PlacedInv, OnceInv, Inv, TypeOK, Ids
      <4> QED BY <1>1, <4>1 DEF Event, Ids
    <3> QED BY <2>1, <3>3, <3>4
  <2> QED BY <2>2, <2>3
<1>3. dm' = dm
  <2>1. CASE log[e].room \in Channels
    <3>1. e \in FromUsers
      BY <1>1, <2>1 DEF PlacedInv, OnceInv, Posted, FromUsers
    <3>2. dm' = [dm EXCEPT ![WriterOf(e)] = dm[WriterOf(e)]]
      BY <1>1, <2>1, <3>1, WriterFacts DEF Decided, SteadyFacts, Homes, PlacedInv
    <3> QED BY <3>2 DEF PlacedInv, OnceInv, Inv, TypeOK
  <2>2. CASE log[e].room \notin Channels
    BY <1>1, <2>2 DEF Decided
  <2> QED BY <2>1, <2>2
<1>4. WithinRoom' /\ Homes' /\ RowsReturn' /\ StaffPairs'
  BY <1>1, <1>3, SteadyStays
<1>5. ASSUME main'.out # NoRequest
      PROVE  /\ main'.out.ref # 0 => log[main'.out.ref].room = main'.out.to
             /\ log[e].room \in TicketRooms => ToHolder(e, main'.out.to)
  <2>1. main'.out.ev = e
    BY <1>1, <1>5 DEF Outcome
  <2>2. ASSUME main'.out.ref \in References(e, kind), main'.out.ref # 0
        PROVE  main'.out.ref \in Counterparts(log[e].ref)
    BY <2>2 DEF References, Steady, MayFail
  <2>3. CASE log[e].room \in Channels
    <3>1. e \in FromUsers /\ UserOf(log[e].room) = WriterOf(e)
      BY <1>1, <2>3 DEF PlacedInv, OnceInv, Posted, FromUsers, WriterOf
    <3>2. main'.out.to = Route(WriterOf(e)) /\ main'.out.ref \in References(e, kind)
      BY <1>1, <1>5, <2>3, <3>1, PlaceFacts DEF Outcome, Decided
    <3> QED BY <1>1, <1>2, <2>2, <2>3, <3>1, <3>2, CounterpartWithin, PlaceFacts
  <2>4. CASE log[e].room \in TicketRooms
    <3>1. e \notin FromUsers
      BY <2>4, WriterFacts, PlaceFacts DEF PlacedInv
    <3>2. /\ owner[TicketOf(log[e].room)] \in Users
          /\ main'.out.to = dm[owner[TicketOf(log[e].room)]]
          /\ main'.out.ref \in References(e, kind)
      BY <1>1, <1>5, <2>4, PlaceFacts DEF Decided
    <3>3. ToHolder(e, main'.out.to)
      BY <2>4, <3>2 DEF ToHolder, SteadyFacts, Homes
    <3> QED BY <1>1, <1>2, <2>2, <3>1, <3>2, <3>3, CounterpartWithin
  <2>5. CASE log[e].room \notin Channels /\ log[e].room \notin TicketRooms
    BY <1>1, <1>5, <2>5 DEF Decided, SteadyFacts, RowsReturn
  <2> QED BY <2>3, <2>4, <2>5
<1>6. RequestWithin'
  BY <1>1, <1>5 DEF RequestWithin, Outcome, ToHolder, First
<1> QED BY <1>4, <1>6 DEF SteadyFacts

LEMMA QuietSteady ==
  ASSUME PlacedInv, SteadyFacts, Quiet PROVE SteadyFacts'
<1>1. WithinRoom' /\ Homes' /\ RowsReturn' /\ StaffPairs'
  BY SteadyStays DEF Quiet
<1>2. RequestWithin'
  BY DEF Quiet, SteadyFacts, RequestWithin, ToHolder, First
<1> QED BY <1>1, <1>2 DEF SteadyFacts

LEMMA PostSteady ==
  ASSUME PlacedInv, Steady, SteadyFacts, NEW by, NEW room, NEW kind, NEW rel, NEW ref,
         PostedBy(by, room, kind, rel, ref)
  PROVE  SteadyFacts'
<1>1. PICK n : /\ n = Len(log) + 1 /\ n \notin Ids /\ n \in Nat
               /\ Ids' = Ids \cup {n} /\ \A e \in Ids : log'[e] = log[e] /\ e < n
               /\ Posts' = Posts \cup {n} /\ Clones' = Clones
               /\ log'[n].by = by /\ log'[n].room = room
               /\ UNCHANGED <<pairs, messages, owner, current, dm, main>>
  BY PostedFacts DEF PlacedInv, OnceInv
<1>3. FromUsers' \cap Ids = FromUsers /\ FromUsers \subseteq Ids
  BY <1>1, PostsStay
<1>4. WithinRoom'
  <2> SUFFICES ASSUME NEW x \in Clones, log'[x].ref # 0
               PROVE  log'[log'[x].ref].room = log'[x].room
    BY <1>1 DEF WithinRoom
  <2>1. x \in Ids /\ log[x].ref # 0 /\ log[x].ref \in Ids
    BY <1>1 DEF Clones, PlacedInv, OnceInv, Inv, ClonesSound, Linked
  <2> QED BY <1>1, <2>1 DEF SteadyFacts, WithinRoom
<1>5. Homes'
  <2>1. ASSUME NEW e \in FromUsers' PROVE log'[e].room = First(UserOf(log'[e].room))
    <3>1. CASE e \in Ids
      BY <1>1, <1>3, <3>1 DEF SteadyFacts, Homes, WriterOf
    <3>2. CASE e = n
      <4>1. by = "user" /\ "second room" \notin world
        BY <1>1, <2>1, <3>2 DEF FromUsers, Steady
      <4> QED BY <1>1, <3>2, <4>1 DEF PostedBy, First
    <3> QED BY <1>1, <2>1, <3>1, <3>2 DEF FromUsers, Posts
  <2> QED BY <1>1, <2>1 DEF SteadyFacts, Homes, WriterOf, First
<1>6. RowsReturn'
  <2>1. \A row \in messages : row.event \in Ids
    BY DEF PlacedInv, OnceInv, Inv, RowsSound, Linked
  <2> QED BY <1>1, <2>1 DEF SteadyFacts, RowsReturn
<1>7. StaffPairs'
  <2> SUFFICES ASSUME NEW p \in pairs, p[1] \notin FromUsers'
               PROVE  /\ log'[p[1]].room \in TicketRooms
                      /\ owner[TicketOf(log'[p[1]].room)] \in Users
                      /\ log'[p[2]].room = First(owner[TicketOf(log'[p[1]].room)])
    BY <1>1 DEF StaffPairs, ToHolder, First
  <2>1. p[1] \in Ids /\ p[2] \in Ids
    BY PairFacts DEF PlacedInv
  <2>2. ToHolder(p[1], log[p[2]].room)
    BY <1>3, <2>1 DEF SteadyFacts, StaffPairs
  <2>3. log'[p[2]].room = log[p[2]].room /\ log'[p[1]] = log[p[1]]
    BY <1>1, <2>1
  <2> QED BY <2>2, <2>3 DEF ToHolder
<1>8. RequestWithin'
  <2> SUFFICES ASSUME main.out # NoRequest
               PROVE  /\ main.out.ref # 0 => log'[main.out.ref].room = main.out.to
                      /\ log'[main.out.ev].room \in TicketRooms =>
                           ToHolder(main.out.ev, main.out.to)'
    BY <1>1 DEF RequestWithin
  <2>1. main.out.ev \in Ids /\ (main.out.ref # 0 => main.out.ref \in Ids)
    BY DEF PlacedInv, OnceInv, Inv, MainSound, Linked
  <2> QED BY <1>1, <2>1 DEF SteadyFacts, RequestWithin, ToHolder, First
<1> QED BY <1>4, <1>5, <1>6, <1>7, <1>8 DEF SteadyFacts

LEMMA SentSteady ==
  ASSUME PlacedInv, TameFacts, SteadyFacts, Sent PROVE SteadyFacts'
<1>1. PICK n : /\ n = Len(log) + 1 /\ n \notin Ids /\ n \in Nat
               /\ Ids' = Ids \cup {n} /\ \A e \in Ids : log'[e] = log[e]
               /\ Posts' = Posts /\ Clones' = Clones \cup {n}
               /\ log'[n].room = main.out.to /\ log'[n].ref = main.out.ref
  BY ClonedFacts DEF PlacedInv, Sent
<1>2. PICK out, row : out = main.out /\ row = StoredRow(out, n)
  OBVIOUS
<1>3. /\ pairs' = IF log[out.ev].kind = "answer" THEN pairs ELSE pairs \cup {<<out.ev, n>>}
      /\ messages' \subseteq messages \cup {row}
      /\ main' = [main EXCEPT !.out = NoRequest] /\ out # NoRequest
      /\ UNCHANGED <<owner, current, dm>>
  BY <1>1, <1>2 DEF Sent, Insert, desk, Returned, Requesting, NoRequestOut
<1>4. main'.out = NoRequest
  BY <1>3 DEF PlacedInv, OnceInv, Inv, TypeOK, Work
<1>5. /\ out.ev \in Posts /\ out.ev \in Ids /\ (out.ref # 0 => out.ref \in Ids)
      /\ out.ref # 0 => log[out.ref].room = out.to
      /\ log[out.ev].room \in TicketRooms => ToHolder(out.ev, out.to)
      /\ out.kind = "text"
  BY <1>2, <1>3 DEF PlacedInv, OnceInv, Inv, MainSound, Linked, Once, RequestedOnce,
     SteadyFacts, RequestWithin, TameFacts, NoMedia
<1>6. FromUsers' = FromUsers /\ FromUsers \subseteq Ids /\ Posts \subseteq Ids
  BY <1>1 DEF Posts, FromUsers
<1>7. WithinRoom'
  <2> SUFFICES ASSUME NEW x \in Clones', log'[x].ref # 0
               PROVE  log'[log'[x].ref].room = log'[x].room
    BY DEF WithinRoom
  <2>1. CASE x = n
    BY <1>1, <1>2, <1>5, <2>1
  <2>2. CASE x \in Clones
    <3>1. x \in Ids
      BY <2>2 DEF Clones
    <3>2. log[x].ref # 0 /\ log[x].ref \in Ids
      BY <1>1, <2>2, <3>1 DEF Clones, PlacedInv, OnceInv, Inv, ClonesSound, Linked
    <3> QED BY <1>1, <2>2, <3>1, <3>2 DEF SteadyFacts, WithinRoom
  <2> QED BY <1>1, <2>1, <2>2
<1>8. Homes'
  BY <1>1, <1>3, <1>6 DEF SteadyFacts, Homes, WriterOf, First
<1>9. RowsReturn'
  <2> SUFFICES ASSUME NEW r \in messages' PROVE log'[r.event].room = r.room
    BY DEF RowsReturn
  <2>1. CASE r \in messages
    <3>1. r.event \in Ids /\ log[r.event].room = r.room
      BY <2>1 DEF PlacedInv, OnceInv, Inv, RowsSound, Linked, SteadyFacts, RowsReturn
    <3> QED BY <1>1, <3>1
  <2>2. CASE r = row /\ log[out.ev].kind = "answer"
    <3>1. r = [event |-> n, management |-> out.ev, room |-> out.to]
      BY <1>2, <2>2 DEF StoredRow
    <3> QED BY <1>1, <1>2, <3>1
  <2>3. CASE r = row /\ log[out.ev].kind # "answer"
    <3>1. r = [event |-> out.ev, management |-> n, room |-> log[out.ev].room]
      BY <1>2, <1>5, <2>3 DEF StoredRow
    <3> QED BY <1>1, <1>5, <3>1
  <2> QED BY <1>3, <2>1, <2>2, <2>3
<1>10. StaffPairs'
  <2> SUFFICES ASSUME NEW p \in pairs', p[1] \notin FromUsers
               PROVE  /\ log'[p[1]].room \in TicketRooms
                      /\ owner[TicketOf(log'[p[1]].room)] \in Users
                      /\ log'[p[2]].room = First(owner[TicketOf(log'[p[1]].room)])
    BY <1>3, <1>6 DEF StaffPairs, ToHolder, First
  <2>1. CASE p \in pairs
    <3>1. p[1] \in Ids /\ p[2] \in Ids
      BY <2>1, PairFacts DEF PlacedInv
    <3> QED BY <1>1, <2>1, <3>1 DEF SteadyFacts, StaffPairs, ToHolder
  <2>2. CASE p = <<out.ev, n>> /\ log[out.ev].kind # "answer"
    <3>1. p[1] = out.ev /\ p[2] = n
      BY <2>2
    <3>2. log[out.ev].room \in TicketRooms
      <4>1. log[out.ev].room \in Places
        <5>1. log[out.ev] \in Event
          BY <1>5 DEF PlacedInv, OnceInv, Inv, TypeOK, Ids
        <5> QED BY <5>1 DEF Event
      <4>2. log[out.ev].room \notin Channels /\ log[out.ev].room # Management
        BY <1>5, <2>2, <3>1 DEF PlacedInv, OnceInv, Posted, FromUsers, Backward
      <4> QED BY <4>1, <4>2, PlaceFacts
    <3> QED BY <1>1, <1>2, <1>5, <3>1, <3>2 DEF ToHolder
  <2> QED BY <1>3, <2>1, <2>2
<1>11. RequestWithin'
  BY <1>4 DEF RequestWithin
<1> QED BY <1>7, <1>8, <1>9, <1>10, <1>11 DEF SteadyFacts

LEMMA RaiseSteady ==
  ASSUME PlacedInv, SteadyFacts, NEW u \in Users, NEW t \in Tickets, Raise(u, t)
  PROVE  SteadyFacts'
<1>1. /\ owner[t] = Desk /\ Desk \notin Users /\ owner' = [owner EXCEPT ![t] = u]
      /\ main'.out = NoRequest
      /\ UNCHANGED <<log, pairs, messages, dm>>
  BY BoundFacts DEF Raise, server, rows, PlacedInv, OnceInv, Owned, Idle
<1>2. \A e, room : ToHolder(e, room) => ToHolder(e, room)'
  <2>1. owner \in [Tickets -> Users \cup {Desk}]
    BY DEF PlacedInv, OnceInv, Inv, TypeOK
  <2> SUFFICES ASSUME NEW e, NEW room, ToHolder(e, room) PROVE ToHolder(e, room)'
    OBVIOUS
  <2>2. TicketOf(log[e].room) # t /\ TicketOf(log[e].room) \in Tickets
    BY <1>1, PlaceFacts DEF ToHolder
  <2> QED BY <1>1, <2>1, <2>2 DEF ToHolder, First
<1>3. FromUsers' = FromUsers /\ Clones' = Clones
  BY <1>1 DEF FromUsers, Posts, Clones, IsClone, Ids
<1>4. StaffPairs'
  BY <1>1, <1>2, <1>3 DEF SteadyFacts, StaffPairs
<1> QED
  BY <1>1, <1>3, <1>4 DEF SteadyFacts, WithinRoom, Homes, WriterOf, First, RowsReturn,
     RequestWithin

LEMMA NextSteady == SteadyInv /\ [Next]_vars => SteadyInv'
<1> SUFFICES ASSUME SteadyInv, [Next]_vars PROVE SteadyInv'
  OBVIOUS
<1>1. TameInv' /\ world' = world
  BY NextTame DEF SteadyInv, Next, vars
<1> SUFFICES ASSUME Steady, SteadyFacts PROVE SteadyFacts'
  BY <1>1 DEF SteadyInv, Steady
<1>2. PlacedInv /\ Tame /\ TameFacts
  BY DEF Steady, SteadyInv, Tame, TameInv, TameFacts
<1>3. ~MayFail /\ ~Closes /\ ~Slow
  BY <1>2 DEF Tame, MayFail, Closes, Slow
<1>4. CASE Posting
  BY <1>2, <1>4, PostingCases, PostSteady
<1>5. CASE Sent
  BY <1>2, <1>5, SentSteady
<1>6. ASSUME NEW e \in Ids, Handle(e) PROVE SteadyFacts'
  BY <1>2, <1>6, HandleRelays, RelaysSteady
<1>7. ASSUME NEW e \in Ids, CopyNext(e) PROVE SteadyFacts'
  BY <1>2, <1>7, CopyNextCases, QuietSteady, RelaysSteady
<1>8. CASE DrainNext
  BY <1>2, <1>8, DrainNextCases, QuietSteady, RelaysSteady
<1>9. ASSUME NEW u \in Users, NEW t \in Tickets, Raise(u, t) PROVE SteadyFacts'
  BY <1>2, <1>9, RaiseSteady
<1>10. CASE \/ Redacted \/ CopyDone \/ DrainDone \/ UNCHANGED vars
            \/ \E e \in Ids : HandleRedacted(e) \/ CopySkips(e)
            \/ \E t \in Tickets : Learn(t) \/ Drain(t)
  BY <1>2, <1>10, QuietCases, QuietSteady
<1>11. ~RequestFailed /\ ~Crash /\ \A t \in Tickets : ~Close(t) /\ ~Reopen(t)
  BY <1>3 DEF RequestFailed, Crash, Overdue, Close, Reopen
<1>12. Waiting => \E t \in Tickets : Learn(t)
  BY <1>3 DEF Waiting, Encrypt, Expire, Overdue
<1> QED
  BY <1>4, <1>5, <1>6, <1>7, <1>8, <1>9, <1>10, <1>11, <1>12
     DEF Next, Step, Relaying, Copying, Draining

\* What a clone replies to or edits is in the room of the clone, however late
\* the ticket rooms are learnt and whatever is copied and replayed meanwhile.
THEOREM ReferencesStayInRoom == Spec => []RefersWithinRoom
<1>1. Init => SteadyInv
  <2> SUFFICES ASSUME Init PROVE SteadyInv
    OBVIOUS
  <2>1. TameInv
    BY InitTame
  <2>2. Ids = {} /\ pairs = {} /\ messages = {} /\ main = Idle /\ FromUsers = {} /\ Clones = {}
    BY DEF Init, Ids, FromUsers, Posts, Clones
  <2>3. Homes
    BY <2>2 DEF Init, Homes, First
  <2> QED BY <2>1, <2>2, <2>3, IdleFacts DEF SteadyInv, SteadyFacts, WithinRoom, RowsReturn,
     StaffPairs, RequestWithin
<1>2. SteadyInv => RefersWithinRoom
  BY DEF SteadyInv, SteadyFacts, RefersWithinRoom, Steady
<1> QED BY <1>1, <1>2, NextSteady, PTL DEF Spec

-----------------------------------------------------------------------------
(* Nothing goes wrong: what a user takes back is taken back where it shows. *)

Retracts(r, m) == r \in FromUsers /\ IsRedaction(r) /\ log[r].ref = m
AtRoute(x, m) == x \in Clones /\ log[x].from = m /\ log[x].room = Route(WriterOf(m))

\* The client knows every ticket room, and nothing waits.
Empty == \A t \in Tickets : (status[t] # "none" => t \in known) /\ queue[t] = <<>>

\* The events of a room are handled in their order; clones are of handled events.
InOrder ==
  \A e, f \in Posts : log[e].room = log[f].room /\ f < e /\ e \in handled => f \in handled
FromHandled == \A x \in Clones : log[x].from \in handled

\* The pairs know all clones of a user's messages where the user is read now;
\* what will be copied there is not there yet.
PairsLead == \A p \in pairs : p[2] \in Clones
RoutePaired == \A m \in FromUsers, x \in Clones : AtRoute(x, m) => <<m, x>> \in pairs
TodoUnshown == main.out.ev \notin main.todo /\ \A m \in main.todo, x \in Clones : ~AtRoute(x, m)

\* What is redacted, its writer has retracted; the bot redacts clones alone.
GoneRetracted == \A m \in FromUsers : m \in gone <=> \E r \in Posts : Retracts(r, m)
RetractsClones ==
  main.out # NoRequest /\ IsRedaction(main.out.ev) => main.out.ref \in Clones

\* Once a redaction is handled, no clone of what it retracts is seen there, unless
\* the request to redact that clone is under way; and none will be made.
RetractedGone ==
  \A r \in handled, m \in FromUsers : Retracts(r, m) =>
    /\ main.out.ev # m
    /\ \A x \in Clones : AtRoute(x, m) =>
         x \in gone \/ (main.out.ev = r /\ main.out.ref = x)

CalmFacts ==
  /\ Empty /\ InOrder /\ FromHandled /\ PairsLead /\ RoutePaired /\ TodoUnshown
  /\ GoneRetracted /\ RetractsClones /\ RetractedGone
CalmInv == TameInv /\ (Calm => CalmFacts)

\* Who retracts a message has written it, later and in the same room.
LEMMA RetractFacts ==
  ASSUME PlacedInv, NEW r \in Posts, NEW m \in FromUsers, Retracts(r, m)
  PROVE  /\ r \in FromUsers /\ r \in Ids /\ m \in Ids /\ m \in Posts /\ m < r
         /\ log[m].room = log[r].room /\ WriterOf(r) = WriterOf(m) /\ ~IsRedaction(m)
<1>1. m \in Ids /\ m # 0 /\ m \in Posts /\ r \in Ids
  BY DEF FromUsers, Posts, Ids
<1> QED BY <1>1 DEF Retracts, PlacedInv, Backward, WriterOf

LEMMA NoIdZero == 0 \notin Ids /\ NoRequest.ev = 0 /\ FromUsers \subseteq Ids
BY DEF Ids, NoRequest, FromUsers, Posts

\* Nothing is requested, and the log, what is gone and the tickets stay.
LEMMA CalmStays ==
  ASSUME PlacedInv, CalmFacts, main.out = NoRequest, main'.todo \subseteq main.todo,
         pairs' \subseteq pairs, \A p \in pairs \ pairs' : p[1] \in main.todo,
         UNCHANGED <<log, gone, current, status, known, encrypted, queue, handled>>,
         \/ main'.out = NoRequest
         \/ /\ main'.out.ev \in Posts \ gone /\ main'.out.ev \notin main'.todo
            /\ ~IsRedaction(main'.out.ev)
  PROVE  CalmFacts'
<1>1. Posts' = Posts /\ FromUsers' = FromUsers /\ Clones' = Clones /\ Posts \subseteq Ids
  BY DEF Posts, FromUsers, Clones, IsClone, Ids
<1>2. Empty' /\ InOrder' /\ FromHandled' /\ PairsLead'
  BY <1>1 DEF CalmFacts, Empty, InOrder, FromHandled, PairsLead
<1>3. \A m, x : AtRoute(x, m)' <=> AtRoute(x, m)
  BY <1>1 DEF AtRoute, Route, WriterOf
<1>4. \A r, m : Retracts(r, m)' <=> Retracts(r, m)
  BY <1>1 DEF Retracts, IsRedaction
<1>5. RoutePaired'
  <2> SUFFICES ASSUME NEW m \in FromUsers, NEW x \in Clones, AtRoute(x, m)
               PROVE  <<m, x>> \in pairs'
    BY <1>1, <1>3 DEF RoutePaired
  <2>1. <<m, x>> \in pairs /\ m \notin main.todo
    BY DEF CalmFacts, RoutePaired, TodoUnshown
  <2> QED BY <2>1
<1>6. TodoUnshown'
  <2>1. 0 \notin main.todo
    BY NoIdZero DEF PlacedInv, OnceInv, Once, CopiedApart
  <2> QED BY <1>1, <1>3, <2>1, NoIdZero DEF CalmFacts, TodoUnshown
<1>7. GoneRetracted' /\ RetractsClones'
  BY <1>1, <1>4 DEF CalmFacts, GoneRetracted, RetractsClones, IsRedaction
<1>8. RetractedGone'
  <2> SUFFICES ASSUME NEW r \in handled, NEW m \in FromUsers, Retracts(r, m)
               PROVE  /\ main'.out.ev # m
                      /\ \A x \in Clones : AtRoute(x, m) => x \in gone
    BY <1>1, <1>3, <1>4 DEF RetractedGone
  <2>1. \A x \in Clones : AtRoute(x, m) => x \in gone
    BY NoIdZero DEF CalmFacts, RetractedGone, Retracts
  <2>2. m \in gone
    BY DEF CalmFacts, GoneRetracted, Retracts, FromUsers
  <2> QED BY <2>1, <2>2, NoIdZero
<1> QED BY <1>2, <1>5, <1>6, <1>7, <1>8 DEF CalmFacts

LEMMA KnownRoute ==
  ASSUME PlacedInv, CalmFacts, NEW u \in Users PROVE Known(Route(u))
<1> SUFFICES ASSUME Route(u) \in TicketRooms PROVE TicketOf(Route(u)) \in known
  BY DEF Known
<1>1. TicketOf(Route(u)) = current[u] /\ current[u] \in Tickets
  BY PlaceFacts DEF Route, TicketRoom, TicketOf
<1>2. owner[current[u]] = u /\ u # Desk
  BY <1>1, BoundFacts DEF PlacedInv, OnceInv, Owned, NoTicket, Tickets
<1>3. status[current[u]] # "none"
  BY <1>1, <1>2 DEF PlacedInv, OnceInv, Owned
<1> QED BY <1>1, <1>3 DEF CalmFacts, Empty

LEMMA HandleCalm ==
  ASSUME PlacedInv, TameFacts, Calm, CalmFacts, NEW e \in Ids, Handle(e) PROVE CalmFacts'
<1>1. PICK kind, work, q : Relays(e, kind, work, q)
  BY HandleRelays
<1>2. main = Idle /\ NextOfRoom(e)
  BY DEF Handle, IsIdle
<1>3. /\ main.out = NoRequest /\ main.todo = {} /\ q = queue /\ e \in Posts \ handled
      /\ pairs' = pairs /\ handled' = handled \cup {e} /\ kind = "text"
      /\ UNCHANGED <<log, gone, known, encrypted, status, owner, current>>
      /\ Decided(e, kind, work, q) /\ Outcome(e, work, q) /\ work.todo = {}
  BY <1>1, <1>2, IdleFacts DEF Relays, NextOfRoom, Decided, TameFacts, NoMedia
<1>4. Posts' = Posts /\ FromUsers' = FromUsers /\ Clones' = Clones /\ Posts \subseteq Ids
  BY <1>3 DEF Posts, FromUsers, Clones, IsClone, Ids
<1>5. \A m, x : AtRoute(x, m)' <=> AtRoute(x, m)
  BY <1>3, <1>4 DEF AtRoute, Route, WriterOf
<1>6. \A r, m : Retracts(r, m)' <=> Retracts(r, m)
  BY <1>3, <1>4 DEF Retracts, IsRedaction
<1>7. \A u \in Users : Known(Route(u))
  BY KnownRoute
<1>8. queue' = queue
  <2>1. CASE log[e].room \in Channels
    BY <1>3, <1>7, <2>1, PlaceFacts DEF Decided
  <2>2. CASE log[e].room \notin Channels
    BY <1>3, <2>2 DEF Outcome
  <2> QED BY <2>1, <2>2
<1>9. main'.todo = {} /\ (main'.out = NoRequest \/ main'.out.ev = e)
  BY <1>3 DEF Outcome
<1>10. Empty' /\ PairsLead' /\ RoutePaired' /\ GoneRetracted' /\ FromHandled'
  BY <1>3, <1>4, <1>5, <1>6, <1>8 DEF CalmFacts, Empty, PairsLead, RoutePaired, GoneRetracted,
     FromHandled
<1>11. InOrder'
  BY <1>2, <1>3, <1>4 DEF CalmFacts, InOrder, NextOfRoom, Ids
<1>12. TodoUnshown'
  BY <1>9 DEF TodoUnshown
<1>13. ASSUME IsRedaction(e), main'.out # NoRequest
       PROVE  main'.out.ref \in Counterparts(log[e].ref) /\ ~IsClone(log[e].ref)
  <2>1. log[e].room # Management /\ log[e].room \in Places
    <3>1. log[e] \in Event
      BY DEF PlacedInv, OnceInv, Inv, TypeOK, Ids
    <3> QED BY <1>13, <3>1 DEF Event, PlacedInv, OnceInv, Inv, AnswersInPlace
  <2>2. main'.out.ref \in References(e, kind) /\ main'.out.ref # 0
    BY <1>3, <1>13, <2>1 DEF Decided
  <2>3. ~IsClone(log[e].ref)
    BY <1>3, <1>13 DEF PlacedInv, Backward, Posts, IsClone
  <2> QED BY <2>2, <2>3 DEF References, Calm, MayFail
<1>14. RetractsClones'
  <2> SUFFICES ASSUME main'.out # NoRequest, IsRedaction(main'.out.ev)
               PROVE  main'.out.ref \in Clones
    BY <1>3, <1>4 DEF RetractsClones, IsRedaction
  <2>1. main'.out.ref \in Counterparts(log[e].ref) /\ ~IsClone(log[e].ref)
    BY <1>9, <1>13
  <2>2. PICK p \in pairs : main'.out.ref = p[2]
    BY <2>1 DEF Counterparts
  <2> QED BY <2>2 DEF CalmFacts, PairsLead
<1>15. ASSUME NEW r \in handled', NEW m \in FromUsers, Retracts(r, m)
       PROVE  /\ main'.out.ev # m
              /\ \A x \in Clones : AtRoute(x, m) =>
                   x \in gone \/ (main'.out.ev = r /\ main'.out.ref = x)
  <2>1. /\ r \in FromUsers /\ m \in Ids /\ m \in Posts /\ m < r /\ log[m].room = log[r].room
        /\ WriterOf(r) = WriterOf(m) /\ r \in Ids /\ r \in Posts
    BY <1>4, <1>15, RetractFacts DEF Retracts, FromUsers
  <2>2. CASE r \in handled
    <3>1. m # e
      BY <1>3, <2>1, <2>2 DEF CalmFacts, InOrder
    <3>2. \A x \in Clones : AtRoute(x, m) => x \in gone
      BY <1>3, <1>15, <2>1, <2>2, NoIdZero DEF CalmFacts, RetractedGone
    <3> QED BY <1>9, <2>1, <3>1, <3>2, NoIdZero
  <2>3. CASE r = e
    <3>1. m # e /\ log[e].ref = m /\ IsRedaction(e) /\ ~IsClone(m)
      BY <1>15, <2>1, <2>3 DEF Retracts, Ids, Posts, IsClone
    <3>2. ASSUME NEW x \in Clones, AtRoute(x, m) PROVE main'.out.ev = e /\ main'.out.ref = x
      <4>1. <<m, x>> \in pairs /\ x \in Ids
        BY <3>2 DEF CalmFacts, RoutePaired, Clones
      <4>2. \A p \in pairs : p[1] = m => p[2] = x
        BY <4>1 DEF PlacedInv, OnceInv, Once, PairedOnce
      <4>3. Counterparts(m) = {x}
        BY <3>1, <4>1, <4>2 DEF Counterparts
      <4>4. log[e].room \in Channels /\ UserOf(log[e].room) \in Users
        BY <2>1, <2>3, WriterFacts DEF PlacedInv
      <4>5. main'.out # NoRequest
        <5>1. 0 \notin References(e, kind)
          BY <1>3, <3>1, <4>1, <4>3, NoIdZero DEF References, Calm, MayFail, IsRedaction
        <5> QED BY <1>3, <1>7, <4>4, <5>1 DEF Decided
      <4> QED BY <1>9, <1>13, <3>1, <4>3, <4>5
    <3> QED BY <1>9, <2>1, <2>3, <3>1, <3>2, NoIdZero
  <2> QED BY <1>3, <2>2, <2>3
<1>16. RetractedGone'
  BY <1>3, <1>4, <1>5, <1>6, <1>15 DEF RetractedGone
<1> QED BY <1>10, <1>11, <1>12, <1>14, <1>16 DEF CalmFacts

LEMMA HandleRedactedCalm ==
  ASSUME PlacedInv, CalmFacts, NEW e \in Ids, HandleRedacted(e) PROVE CalmFacts'
<1>1. /\ main = Idle /\ NextOfRoom(e) /\ e \in gone /\ handled' = handled \cup {e}
      /\ e \in Posts \ handled
      /\ UNCHANGED <<log, gone, pairs, queue, known, encrypted, status, owner, current, main>>
  BY DEF HandleRedacted, NextOfRoom, IsIdle, server, rows, desk
<1>2. Posts' = Posts /\ FromUsers' = FromUsers /\ Clones' = Clones
  BY <1>1 DEF Posts, FromUsers, Clones, IsClone, Ids
<1>3. \A m, x : AtRoute(x, m)' <=> AtRoute(x, m)
  BY <1>1, <1>2 DEF AtRoute, Route, WriterOf
<1>4. \A r, m : Retracts(r, m)' <=> Retracts(r, m)
  BY <1>1, <1>2 DEF Retracts, IsRedaction
<1>5. /\ Empty' /\ PairsLead' /\ RoutePaired' /\ GoneRetracted' /\ FromHandled' /\ TodoUnshown'
      /\ RetractsClones'
  BY <1>1, <1>2, <1>3, <1>4 DEF CalmFacts, Empty, PairsLead, RoutePaired, GoneRetracted,
     FromHandled, TodoUnshown, RetractsClones, IsRedaction
<1>6. InOrder'
  BY <1>1, <1>2 DEF CalmFacts, InOrder, NextOfRoom, Posts, Ids
<1>7. RetractedGone'
  <2>1. ~\E m \in FromUsers : Retracts(e, m)
    <3> SUFFICES ASSUME NEW m \in FromUsers, Retracts(e, m) PROVE FALSE
      OBVIOUS
    <3>1. PICK r \in Posts : Retracts(r, e)
      BY <1>1 DEF CalmFacts, GoneRetracted, Retracts
    <3>2. ~IsRedaction(e)
      BY <3>1, RetractFacts DEF Retracts
    <3> QED BY <3>2 DEF Retracts
  <2> QED BY <1>1, <1>2, <1>3, <1>4, <2>1 DEF CalmFacts, RetractedGone
<1> QED BY <1>5, <1>6, <1>7 DEF CalmFacts

LEMMA CopyNextCalm ==
  ASSUME PlacedInv, CalmFacts, NEW e \in Ids, CopyNext(e) PROVE CalmFacts'
<1>1. /\ main.stage = "copying" /\ main.out = NoRequest /\ e \in main.todo
      /\ pairs' = {p \in pairs : p[1] # e}
      /\ e \notin gone /\ ~IsRedaction(e)
      /\ UNCHANGED <<log, gone, current, status, known, encrypted, handled>>
  BY DEF CopyNext, NoRequestOut, MayComeNext, server, desk
<1>2. e \in FromUsers /\ Copied(e)
  BY <1>1 DEF PlacedInv, OnceInv, Once, CopiedApart
<1>3. main.ticket \in known
  <2>1. owner[main.ticket] \in Users /\ main.ticket \in Tickets
    BY <1>1, <1>2, WriterFacts DEF Copied, PlacedInv, OnceInv, Inv, MainSound
  <2> QED BY <2>1, BoundFacts DEF CalmFacts, Empty, PlacedInv, OnceInv, Owned
<1>4. PICK kind, work, q : Relays(e, kind, work, q)
  BY <1>3, CopyNextRelays
<1>5. /\ q = queue /\ work.todo = main.todo \ {e}
      /\ Outcome(e, work, q) /\ Decided(e, kind, work, q)
  BY <1>1, <1>4 DEF Relays, Decided
<1>6. main'.todo = main.todo \ {e} /\ (main'.out = NoRequest \/ main'.out.ev = e)
  BY <1>5 DEF Outcome
<1>7. queue' = queue
  <2>1. /\ log[e].room \in Channels /\ UserOf(log[e].room) = owner[main.ticket]
        /\ owner[main.ticket] \in Users /\ main.ticket \in Tickets
    BY <1>1, <1>2, WriterFacts DEF Copied, PlacedInv, OnceInv, Inv, MainSound
  <2>2. Known(Route(UserOf(log[e].room)))
    BY <2>1, KnownRoute DEF PlacedInv
  <2> QED BY <1>5, <2>1, <2>2 DEF Decided
<1>8. e \in Posts
  BY <1>2 DEF FromUsers
<1> QED BY <1>1, <1>6, <1>7, <1>8, CalmStays

LEMMA CopySkipsCalm ==
  ASSUME PlacedInv, CalmFacts, NEW e \in Ids, CopySkips(e) PROVE CalmFacts'
<1>1. /\ main.out = NoRequest /\ e \in main.todo /\ main' = [main EXCEPT !.todo = @ \ {e}]
      /\ pairs' = {p \in pairs : p[1] # e}
      /\ UNCHANGED <<log, gone, current, status, known, encrypted, queue, handled>>
  BY DEF CopySkips, NoRequestOut, MayComeNext, server, desk
<1>2. main'.todo = main.todo \ {e} /\ main'.out = NoRequest
  BY <1>1 DEF PlacedInv, OnceInv, Inv, TypeOK, Work
<1> QED BY <1>1, <1>2, CalmStays

LEMMA CopyDoneCalm ==
  ASSUME PlacedInv, CalmFacts, CopyDone \/ DrainDone PROVE CalmFacts'
<1>1. /\ main.out = NoRequest /\ main' = Idle
      /\ UNCHANGED <<log, gone, pairs, current, status, known, encrypted, queue, handled>>
  BY DEF CopyDone, DrainDone, NoRequestOut, server, rows, desk
<1> QED BY <1>1, IdleFacts, CalmStays

LEMMA SentCalm ==
  ASSUME PlacedInv, CalmFacts, Sent PROVE CalmFacts'
<1>1. PICK n : /\ n = Len(log) + 1 /\ n \notin Ids /\ n \in Nat
               /\ Ids' = Ids \cup {n} /\ \A e \in Ids : log'[e] = log[e]
               /\ Posts' = Posts /\ Clones' = Clones \cup {n}
               /\ log'[n].from = main.out.ev
  BY ClonedFacts DEF PlacedInv, Sent
<1>2. /\ main.out # NoRequest /\ ~IsRedaction(main.out.ev)
      /\ pairs' = IF log[main.out.ev].kind = "answer" THEN pairs
                  ELSE pairs \cup {<<main.out.ev, n>>}
      /\ main' = [main EXCEPT !.out = NoRequest]
      /\ UNCHANGED <<gone, handled, queue, known, encrypted, status, owner, current>>
  BY <1>1 DEF Sent, desk, Returned, Requesting, NoRequestOut
<1>3. main'.out = NoRequest /\ main'.todo = main.todo
  BY <1>2 DEF PlacedInv, OnceInv, Inv, TypeOK, Work
<1>4. main.out.ev \in Posts \cap handled
  BY <1>2 DEF PlacedInv, OnceInv, Once, RequestedOnce
<1>5. /\ FromUsers' = FromUsers /\ FromUsers \subseteq Posts
      /\ Posts \subseteq Ids /\ Clones \subseteq Ids
  BY <1>1 DEF Posts, FromUsers, Clones
<1>6. \A m \in FromUsers, x \in Clones' : AtRoute(x, m)' =>
        \/ x \in Clones /\ AtRoute(x, m)
        \/ x = n /\ m = main.out.ev
  BY <1>1, <1>2, <1>5 DEF AtRoute, Route, WriterOf
<1>7. \A r \in Posts : \A m : Retracts(r, m)' <=> Retracts(r, m)
  BY <1>1, <1>5 DEF Retracts, IsRedaction
<1>8. Empty' /\ InOrder'
  BY <1>1, <1>2, <1>5 DEF CalmFacts, Empty, InOrder
<1>9. FromHandled' /\ PairsLead'
  <2>1. \A x \in Clones' : log'[x].from \in handled
    BY <1>1, <1>4, <1>5 DEF CalmFacts, FromHandled
  <2>2. \A p \in pairs' : p[2] \in Clones'
    BY <1>1, <1>2 DEF CalmFacts, PairsLead
  <2> QED BY <1>2, <2>1, <2>2 DEF FromHandled, PairsLead
<1>10. RoutePaired'
  <2> SUFFICES ASSUME NEW m \in FromUsers, NEW x \in Clones', AtRoute(x, m)'
               PROVE  <<m, x>> \in pairs'
    BY <1>5 DEF RoutePaired
  <2>1. CASE x \in Clones /\ AtRoute(x, m)
    BY <1>2, <2>1 DEF CalmFacts, RoutePaired
  <2>2. CASE x = n /\ m = main.out.ev
    <3>1. log[m].kind # "answer"
      BY <1>5 DEF FromUsers, PlacedInv, OnceInv, Inv, AnswersInPlace
    <3> QED BY <1>2, <2>2, <3>1
  <2> QED BY <1>6, <2>1, <2>2
<1>11. TodoUnshown'
  <2>1. main.todo \subseteq FromUsers /\ main.out.ev \notin main.todo
    BY DEF PlacedInv, OnceInv, Once, CopiedApart, CalmFacts, TodoUnshown
  <2> QED BY <1>3, <1>5, <1>6, <2>1, NoIdZero DEF CalmFacts, TodoUnshown
<1>12. GoneRetracted'
  BY <1>1, <1>2, <1>5, <1>7 DEF CalmFacts, GoneRetracted
<1>13. RetractsClones'
  BY <1>3 DEF RetractsClones
<1>14. RetractedGone'
  <2> SUFFICES ASSUME NEW r \in handled, NEW m \in FromUsers, Retracts(r, m)'
               PROVE  /\ main'.out.ev # m
                      /\ \A x \in Clones' : AtRoute(x, m)' => x \in gone
    BY <1>2, <1>5 DEF RetractedGone
  <2>1. r \in Posts /\ Retracts(r, m)
    <3>1. r \in Posts
      BY <1>5 DEF Retracts
    <3> QED BY <1>7, <3>1
  <2>2. main.out.ev # m /\ main.out.ev # r
    BY <1>2, <2>1 DEF CalmFacts, RetractedGone, Retracts
  <2>3. \A x \in Clones : AtRoute(x, m) => x \in gone
    BY <2>1, <2>2 DEF CalmFacts, RetractedGone
  <2> QED BY <1>3, <1>5, <1>6, <2>2, <2>3, NoIdZero
<1> QED BY <1>8, <1>9, <1>10, <1>11, <1>12, <1>13, <1>14 DEF CalmFacts

LEMMA RedactedCalm ==
  ASSUME PlacedInv, TameFacts, CalmFacts, Redacted PROVE CalmFacts'
<1>1. /\ main.out # NoRequest /\ IsRedaction(main.out.ev)
      /\ gone' = IF log[main.out.ref].room = main.out.to THEN gone \cup {main.out.ref} ELSE gone
      /\ main' = [main EXCEPT !.out = NoRequest]
      /\ UNCHANGED <<log, handled, pairs, queue, known, encrypted, status, owner, current>>
  BY DEF Redacted, NoRequestOut, Returned, rows, desk
<1>2. main'.out = NoRequest /\ main'.todo = main.todo
  BY <1>1 DEF PlacedInv, OnceInv, Inv, TypeOK, Work
<1>3. Posts' = Posts /\ FromUsers' = FromUsers /\ Clones' = Clones
  BY <1>1 DEF Posts, FromUsers, Clones, IsClone, Ids
<1>4. \A m, x : AtRoute(x, m)' <=> AtRoute(x, m)
  BY <1>1, <1>3 DEF AtRoute, Route, WriterOf
<1>5. \A r, m : Retracts(r, m)' <=> Retracts(r, m)
  BY <1>1, <1>3 DEF Retracts, IsRedaction
<1>6. Empty' /\ InOrder' /\ FromHandled' /\ PairsLead' /\ RoutePaired' /\ RetractsClones'
  BY <1>1, <1>2, <1>3, <1>4 DEF CalmFacts, Empty, InOrder, FromHandled, PairsLead, RoutePaired,
     RetractsClones
<1>7. TodoUnshown'
  <2>1. 0 \notin main.todo
    BY NoIdZero DEF PlacedInv, OnceInv, Once, CopiedApart
  <2> QED BY <1>2, <1>3, <1>4, <2>1, NoIdZero DEF CalmFacts, TodoUnshown
<1>8. GoneRetracted'
  <2>1. main.out.ref \notin FromUsers
    BY <1>1 DEF CalmFacts, RetractsClones, Clones, IsClone, FromUsers
  <2> QED BY <1>1, <1>3, <1>5, <2>1 DEF CalmFacts, GoneRetracted
<1>9. RetractedGone'
  <2> SUFFICES ASSUME NEW r \in handled, NEW m \in FromUsers, Retracts(r, m)
               PROVE  /\ main'.out.ev # m
                      /\ \A x \in Clones : AtRoute(x, m) => x \in gone'
    BY <1>1, <1>3, <1>4, <1>5 DEF RetractedGone
  <2>1. main'.out.ev # m
    BY <1>2, NoIdZero
  <2>2. ASSUME NEW x \in Clones, AtRoute(x, m) PROVE x \in gone'
    <3>1. CASE x \in gone
      BY <1>1, <3>1
    <3>2. CASE main.out.ev = r /\ main.out.ref = x
      <4>1. r \in FromUsers /\ WriterOf(r) = WriterOf(m)
        BY RetractFacts DEF Retracts, FromUsers
      <4>2. main.out.to = Route(WriterOf(m))
        BY <3>2, <4>1 DEF TameFacts, RequestPlaced
      <4> QED BY <1>1, <2>2, <3>2, <4>2 DEF AtRoute
    <3> QED BY <2>2, <3>1, <3>2 DEF CalmFacts, RetractedGone
  <2> QED BY <2>1, <2>2
<1> QED BY <1>6, <1>7, <1>8, <1>9 DEF CalmFacts

LEMMA RaiseCalm ==
  ASSUME PlacedInv, Calm, CalmFacts, NEW u \in Users, NEW t \in Tickets, Raise(u, t)
  PROVE  CalmFacts'
<1>1. /\ main = Idle /\ owner[t] = Desk /\ Desk \notin Users
      /\ status' = [status EXCEPT ![t] = "open"] /\ current' = [current EXCEPT ![u] = t]
      /\ known' = known \cup {t}
      /\ main' = [Idle EXCEPT !.stage = "copying", !.ticket = t,
                              !.todo = {e \in saved : UserOf(log[e].room) = u}]
      /\ UNCHANGED <<log, gone, handled, pairs, queue>>
  BY BoundFacts DEF Raise, Calm, Prompt, IsIdle, server, rows, PlacedInv, OnceInv, Owned
<1>2. /\ main.out = NoRequest /\ main'.out = NoRequest
      /\ main'.todo = {e \in saved : UserOf(log[e].room) = u}
  BY <1>1 DEF Idle
<1>3. /\ status \in [Tickets -> {"none", "open", "closed"}]
      /\ current \in [Users -> Tickets \cup {NoTicket}]
  BY DEF PlacedInv, OnceInv, Inv, TypeOK
<1>4. Posts' = Posts /\ FromUsers' = FromUsers /\ Clones' = Clones
  BY <1>1 DEF Posts, FromUsers, Clones, IsClone, Ids
<1>5. \A r, m : Retracts(r, m)' <=> Retracts(r, m)
  BY <1>1, <1>4 DEF Retracts, IsRedaction
<1>6. \A m \in FromUsers, x \in Clones : AtRoute(x, m)' => AtRoute(x, m) /\ WriterOf(m) # u
  <2> SUFFICES ASSUME NEW m \in FromUsers, NEW x \in Clones,
                      log[x].from = m, log[x].room = TicketRoom(current'[WriterOf(m)])
               PROVE  AtRoute(x, m) /\ WriterOf(m) # u
    BY <1>1, <1>4 DEF AtRoute, Route, WriterOf
  <2>1. WriterOf(m) \in Users
    BY WriterFacts DEF PlacedInv
  <2>2. WriterOf(m) # u
    <3> SUFFICES ASSUME WriterOf(m) = u PROVE FALSE
      OBVIOUS
    <3>1. log[x].room = TicketRoom(t)
      BY <1>1, <1>3
    <3>2. log[x].room \in TicketRooms /\ TicketOf(log[x].room) = t
      BY <3>1, PlaceFacts DEF TicketRoom, TicketOf
    <3>3. owner[t] = u
      BY <3>2 DEF PlacedInv, Addressed
    <3> QED BY <1>1, <3>3
  <2> QED BY <1>1, <1>3, <2>1, <2>2 DEF AtRoute, Route
<1>7. Empty'
  BY <1>1, <1>3 DEF CalmFacts, Empty
<1>8. /\ InOrder' /\ FromHandled' /\ PairsLead' /\ RoutePaired' /\ RetractsClones'
      /\ GoneRetracted'
  BY <1>1, <1>2, <1>4, <1>5, <1>6 DEF CalmFacts, InOrder, FromHandled, PairsLead, RoutePaired,
     RetractsClones, GoneRetracted
<1>9. saved \subseteq FromUsers
  BY DEF PlacedInv, OnceInv, Once, CopiedApart
<1>10. TodoUnshown'
  BY <1>2, <1>4, <1>6, <1>9, NoIdZero DEF TodoUnshown, WriterOf
<1>11. RetractedGone'
  <2> SUFFICES ASSUME NEW r \in handled, NEW m \in FromUsers, Retracts(r, m)
               PROVE  /\ main'.out.ev # m
                      /\ \A x \in Clones : AtRoute(x, m)' => x \in gone
    BY <1>1, <1>4, <1>5 DEF RetractedGone
  <2>1. \A x \in Clones : AtRoute(x, m) => x \in gone
    BY <1>2, NoIdZero DEF CalmFacts, RetractedGone, Retracts
  <2> QED BY <1>2, <1>6, <2>1, NoIdZero
<1> QED BY <1>7, <1>8, <1>10, <1>11 DEF CalmFacts

LEMMA PostCalm ==
  ASSUME PlacedInv, CalmFacts, NEW by, NEW room, NEW kind, NEW rel, NEW ref,
         PostedBy(by, room, kind, rel, ref)
  PROVE  CalmFacts'
<1>1. PICK n : /\ n = Len(log) + 1 /\ n \notin Ids /\ n \in Nat
               /\ Ids' = Ids \cup {n} /\ \A e \in Ids : log'[e] = log[e] /\ e < n
               /\ Posts' = Posts \cup {n} /\ Clones' = Clones
               /\ log'[n].by = by /\ log'[n].room = room
               /\ log'[n].rel = rel /\ log'[n].ref = ref
               /\ gone' = IF rel = "redaction" THEN gone \cup {ref} ELSE gone
               /\ UNCHANGED <<handled, pairs, queue, known, encrypted, status, current, main>>
  BY PostedFacts DEF PlacedInv, OnceInv
<1>2. rel = "redaction" => ref \in Ids /\ log[ref].by = by
  BY DEF PostedBy, Post, Refers
<1>3. /\ FromUsers' \cap Ids = FromUsers /\ FromUsers \subseteq Posts /\ Posts \subseteq Ids
      /\ Clones \subseteq Ids /\ handled \subseteq Ids /\ gone \subseteq Ids
  BY <1>1, PostsStay DEF Clones, PlacedInv, OnceInv, Inv, TypeOK, Ids
<1>4. \A x \in Clones : log[x].from \in Posts
  BY DEF PlacedInv, Addressed
<1>5. \A m \in FromUsers', x \in Clones : AtRoute(x, m)' => m \in FromUsers /\ AtRoute(x, m)
  <2> SUFFICES ASSUME NEW m \in FromUsers', NEW x \in Clones, log'[x].from = m,
                      log'[x].room = TicketRoom(current[UserOf(log'[m].room)])
               PROVE  m \in FromUsers /\ AtRoute(x, m)
    BY <1>1 DEF AtRoute, Route, WriterOf
  <2>1. x \in Ids /\ m \in Ids
    BY <1>1, <1>3, <1>4
  <2> QED BY <1>1, <1>3, <2>1 DEF AtRoute, Route, WriterOf
<1>6. \A r \in Ids : \A m : Retracts(r, m)' <=> Retracts(r, m)
  BY <1>1, <1>3 DEF Retracts, IsRedaction
<1>7. Empty'
  BY <1>1 DEF CalmFacts, Empty
<1>8. InOrder'
  <2> SUFFICES ASSUME NEW e \in Posts', NEW f \in Posts', log'[e].room = log'[f].room, f < e,
                      e \in handled
               PROVE  f \in handled
    BY <1>1 DEF InOrder
  <2>1. e \in Ids /\ e < n /\ e \in Nat
    BY <1>1, <1>3 DEF Ids
  <2>2. e \in Posts /\ f \in Posts
    BY <1>1, <2>1
  <2> QED BY <1>1, <1>3, <2>2 DEF CalmFacts, InOrder
<1>9. FromHandled' /\ PairsLead' /\ RoutePaired'
  <2>1. \A x \in Clones : log'[x].from \in handled
    BY <1>1, <1>3 DEF CalmFacts, FromHandled
  <2> QED BY <1>1, <1>5, <2>1 DEF CalmFacts, FromHandled, PairsLead, RoutePaired
<1>10. TodoUnshown'
  <2>1. main.todo \subseteq FromUsers
    BY DEF PlacedInv, OnceInv, Once, CopiedApart
  <2>2. FromUsers \subseteq FromUsers'
    BY <1>3
  <2> QED BY <1>1, <1>5, <2>1, <2>2 DEF CalmFacts, TodoUnshown
<1>11. GoneRetracted'
  <2> SUFFICES ASSUME NEW m \in FromUsers'
               PROVE  m \in gone' <=> \E r \in Posts' : Retracts(r, m)'
    BY DEF GoneRetracted
  <2>1. Retracts(n, m)' <=> by = "user" /\ rel = "redaction" /\ ref = m
    BY <1>1 DEF Retracts, IsRedaction, FromUsers
  <2>2. CASE m \in Ids
    <3>1. m \in FromUsers /\ log[m].by = "user"
      BY <1>3, <2>2 DEF FromUsers
    <3>2. m \in gone <=> \E r \in Posts : Retracts(r, m)
      BY <3>1 DEF CalmFacts, GoneRetracted
    <3> QED BY <1>1, <1>2, <1>3, <1>6, <2>1, <3>1, <3>2
  <2>3. CASE m = n
    <3>1. m \notin gone'
      BY <1>1, <1>2, <1>3, <2>3
    <3>2. ~Retracts(n, m)'
      BY <1>1, <1>2, <2>1, <2>3
    <3>3. ASSUME NEW r \in Posts PROVE ~Retracts(r, m)
      <4> SUFFICES ASSUME Retracts(r, m) PROVE FALSE
        OBVIOUS
      <4>1. m \in Posts
        BY DEF Retracts, PlacedInv, Backward
      <4> QED BY <1>1, <1>3, <2>3, <4>1
    <3> QED BY <1>1, <1>3, <1>6, <3>1, <3>2, <3>3
  <2> QED BY <1>1, <2>2, <2>3 DEF FromUsers, Posts
<1>12. RetractsClones'
  <2> SUFFICES ASSUME main.out # NoRequest, log'[main.out.ev].rel = "redaction"
               PROVE  main.out.ref \in Clones
    BY <1>1 DEF RetractsClones, IsRedaction
  <2>1. main.out.ev \in Ids
    BY DEF PlacedInv, OnceInv, Inv, MainSound
  <2> QED BY <1>1, <2>1 DEF CalmFacts, RetractsClones, IsRedaction
<1>13. RetractedGone'
  <2> SUFFICES ASSUME NEW r \in handled, NEW m \in FromUsers', Retracts(r, m)'
               PROVE  /\ main.out.ev # m
                      /\ \A x \in Clones : AtRoute(x, m)' =>
                           x \in gone' \/ (main.out.ev = r /\ main.out.ref = x)
    BY <1>1 DEF RetractedGone
  <2>1. Retracts(r, m) /\ r \in Posts
    BY <1>3, <1>6 DEF Retracts
  <2>2. m \in FromUsers
    <3>1. m \in Posts
      BY <2>1 DEF Retracts, PlacedInv, Backward
    <3> QED BY <1>3, <3>1
  <2>3. gone \subseteq gone'
    BY <1>1
  <2> QED BY <1>5, <2>1, <2>2, <2>3 DEF CalmFacts, RetractedGone
<1> QED BY <1>7, <1>8, <1>9, <1>10, <1>11, <1>12, <1>13 DEF CalmFacts

LEMMA OtherCalm ==
  ASSUME PlacedInv, CalmFacts,
         UNCHANGED vars \/ DrainNext \/ \E t \in Tickets : Learn(t) \/ Drain(t)
  PROVE  CalmFacts'
<1>1. CASE UNCHANGED vars
  <2>1. UNCHANGED <<log, gone, handled, pairs, queue, known, encrypted, status, current, main>>
    BY <1>1 DEF vars, state, server, rows, desk
  <2>2. Posts' = Posts /\ FromUsers' = FromUsers /\ Clones' = Clones
    BY <2>1 DEF Posts, FromUsers, Clones, IsClone, Ids
  <2>3. \A m, x : AtRoute(x, m)' <=> AtRoute(x, m)
    BY <2>1, <2>2 DEF AtRoute, Route, WriterOf
  <2>4. \A r, m : Retracts(r, m)' <=> Retracts(r, m)
    BY <2>1, <2>2 DEF Retracts, IsRedaction
  <2> QED BY <2>1, <2>2, <2>3, <2>4 DEF CalmFacts, Empty, InOrder, FromHandled, PairsLead,
     RoutePaired, TodoUnshown, GoneRetracted, RetractsClones, RetractedGone, IsRedaction
<1>2. CASE DrainNext
  BY <1>2 DEF DrainNext, CalmFacts, Empty, PlacedInv, OnceInv, Inv, MainSound
<1>3. CASE \E t \in Tickets : Learn(t) \/ Drain(t)
  BY <1>3 DEF Learn, Drain, CalmFacts, Empty
<1> QED BY <1>1, <1>2, <1>3

LEMMA NextCalm == CalmInv /\ [Next]_vars => CalmInv'
<1> SUFFICES ASSUME CalmInv, [Next]_vars PROVE CalmInv'
  OBVIOUS
<1>1. TameInv' /\ world' = world
  BY NextTame DEF CalmInv, Next, vars
<1> SUFFICES ASSUME Calm, CalmFacts PROVE CalmFacts'
  BY <1>1 DEF CalmInv, Calm
<1>2. PlacedInv /\ Tame /\ TameFacts
  BY DEF Calm, CalmInv, Tame, TameInv, TameFacts
<1>3. ~MayFail /\ ~Closes /\ ~Slow
  BY DEF Calm, MayFail, Closes, Slow
<1>4. CASE Posting
  BY <1>2, <1>4, PostingCases, PostCalm
<1>5. CASE Sent \/ Redacted
  BY <1>2, <1>5, SentCalm, RedactedCalm
<1>6. ASSUME NEW e \in Ids, Handle(e) \/ HandleRedacted(e) PROVE CalmFacts'
  BY <1>2, <1>6, HandleCalm, HandleRedactedCalm
<1>7. ASSUME NEW e \in Ids, CopyNext(e) \/ CopySkips(e) PROVE CalmFacts'
  BY <1>2, <1>7, CopyNextCalm, CopySkipsCalm
<1>8. CASE CopyDone \/ DrainDone
  BY <1>2, <1>8, CopyDoneCalm
<1>9. ASSUME NEW u \in Users, NEW t \in Tickets, Raise(u, t) PROVE CalmFacts'
  BY <1>2, <1>9, RaiseCalm
<1>10. CASE UNCHANGED vars \/ DrainNext \/ \E t \in Tickets : Learn(t) \/ Drain(t)
  BY <1>2, <1>10, OtherCalm
<1>11. ~RequestFailed /\ ~Crash /\ \A t \in Tickets : ~Close(t) /\ ~Reopen(t)
  BY <1>3 DEF RequestFailed, Crash, Overdue, Close, Reopen
<1>12. Waiting => \E t \in Tickets : Learn(t)
  BY <1>3 DEF Waiting, Encrypt, Expire, Overdue
<1> QED
  BY <1>4, <1>5, <1>6, <1>7, <1>8, <1>9, <1>10, <1>11, <1>12
     DEF Next, Step, Relaying, Copying, Draining

LEMMA CalmShowsNothing == CalmInv => TakenBack
<1> SUFFICES ASSUME CalmInv, Calm, IsIdle, Posts \subseteq handled,
                    NEW x \in Clones \ gone, NEW m, m = log[x].from,
                    m \in gone, log[m].room \in Channels,
                    log[x].room = Route(UserOf(log[m].room))
             PROVE  FALSE
  BY DEF TakenBack, NothingShown
<1>1. PlacedInv /\ CalmFacts /\ m \in Posts
  BY DEF CalmInv, TameInv, PlacedInv, Addressed
<1>2. m \in FromUsers /\ AtRoute(x, m)
  BY <1>1 DEF PlacedInv, OnceInv, Posted, FromUsers, AtRoute, WriterOf
<1>3. PICK r \in Posts : Retracts(r, m)
  BY <1>1, <1>2 DEF CalmFacts, GoneRetracted
<1>4. main.out.ev # r
  BY <1>3, IdleFacts, NoIdZero DEF IsIdle, Posts
<1> QED BY <1>1, <1>2, <1>3, <1>4 DEF CalmFacts, RetractedGone

\* When everything is handled, what a user has taken back is not shown where the
\* user's messages go, whether it was copied there or written there, if nothing
\* goes wrong.
THEOREM NothingTakenBackShows == Spec => []TakenBack
<1>1. Init => CalmInv
  <2> SUFFICES ASSUME Init PROVE CalmInv
    OBVIOUS
  <2>1. TameInv
    BY InitTame
  <2>2. /\ Ids = {} /\ pairs = {} /\ handled = {} /\ main = Idle /\ Posts = {} /\ FromUsers = {}
        /\ Clones = {}
    BY DEF Init, Ids, FromUsers, Posts, Clones
  <2>3. Empty
    BY DEF Init, Empty
  <2> QED
    BY <2>1, <2>2, <2>3, IdleFacts DEF CalmInv, CalmFacts, InOrder, FromHandled, PairsLead,
     RoutePaired, TodoUnshown, GoneRetracted, RetractsClones, RetractedGone
<1> QED BY <1>1, NextCalm, CalmShowsNothing, PTL DEF Spec
=============================================================================
