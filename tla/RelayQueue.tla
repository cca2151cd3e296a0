----------------------------- MODULE RelayQueue -----------------------------
(***************************************************************************)
(* rooms_pending: what the bot has to send to rooms it does not know yet.  *)
(* A message to such a room is queued under the room, with the event it    *)
(* came from; check_awaited, run after every sync and when a room turns    *)
(* encrypted, handles the event again once the room is known and           *)
(* encrypted, and drops what has waited for 300 seconds.                   *)
(*                                                                         *)
(* Only the sync loop touches the queue, so a step may span the awaits of  *)
(* a handler.  But handling a staff message again may create a room and    *)
(* sync, and that sync runs check_awaited inside check_awaited.            *)
(***************************************************************************)
EXTENDS Sequences, FiniteSets, Naturals, SequencesExt

CONSTANTS
  Rooms,
  NoRoom,
  Messages,   \* messages to relay to a room
  Welcomes,   \* welcome texts, queued by an invitation to a room
  Bodiless,   \* messages whose events have no body: redactions and calls
  Depth,      \* bound: runs of check_awaited inside one another
  Worlds      \* what happens beside the relay of messages, one of several sets

ASSUME RelayQueueAssumption ==
  /\ NoRoom \notin Rooms
  /\ Messages \cap Welcomes = {} /\ Bodiless \subseteq Messages
  /\ Depth \in Nat \ {0}
  /\ Worlds \subseteq SUBSET {"failure", "invite", "reroute", "nested"}

Tasks == Messages \cup Welcomes

\* Only "new" and "queued" tasks are still to be sent.
Fate == {"new", "queued", "sent", "failed", "dropped", "lost"}

\* A run of check_awaited: the keys it has visited, the size of the dictionary
\* when it began, its list to_delete, and the room whose tasks it executes
\* with those that are left.
Run == [seen : SUBSET Rooms, size : Nat, done : SUBSET Rooms,
        room : Rooms \cup {NoRoom}, left : Seq(Tasks)]

VARIABLES
  world,      \* what happens in this behaviour; it never changes
  known,      \* client.rooms
  forgotten,  \* rooms the bot has left and forgotten
  encrypted,  \* client.encrypted_rooms, which the client stores
  queue,      \* rooms_pending; a room without tasks is not a key
  fate,       \* what became of each task
  sends,      \* how often each task was sent: 0, 1, or 2 for more
  old,        \* tasks queued at least 300 seconds ago
  runs        \* the runs of check_awaited in progress, innermost first

rooms == <<known, forgotten, encrypted>>
tasks == <<queue, fate, sends, old>>
state == <<rooms, tasks, runs>>
vars == <<world, state>>

\* May a request fail, the process crash or a room be forgotten?  Is the bot
\* invited?  May a message handled again go to another unknown room?  How many
\* runs of check_awaited may be inside one another?
MayFail == "failure" \in world
Invites == "invite" \in world
Reroutes == "reroute" \in world
MaxRuns == IF "nested" \in world THEN Depth ELSE 1

Keys == {r \in Rooms : queue[r] # <<>>}
Ready(r) == r \in known /\ r \in encrypted
Queued(t, r) == t \in ToSet(queue[r])
Atop == Head(runs)
Between == runs = <<>>

TypeOK ==
  /\ world \in Worlds
  /\ known \subseteq Rooms /\ forgotten \subseteq Rooms /\ encrypted \subseteq Rooms
  /\ queue \in [Rooms -> Seq(Tasks)]
  /\ fate \in [Tasks -> Fate] /\ sends \in [Tasks -> 0..2]
  /\ old \subseteq Tasks
  /\ runs \in Seq(Run) /\ Len(runs) <= MaxRuns

Init ==
  /\ world \in Worlds
  /\ known = {} /\ forgotten = {} /\ encrypted = {}
  /\ queue = [r \in Rooms |-> <<>>]
  /\ fate = [t \in Tasks |-> "new"]
  /\ sends = [t \in Tasks |-> 0]
  /\ old = {}
  /\ runs = <<>>

Restart ==
  /\ known' = {} /\ queue' = [r \in Rooms |-> <<>>]
  /\ fate' = [t \in Tasks |-> IF fate[t] = "queued" THEN "lost" ELSE fate[t]]
  /\ old' = {} /\ runs' = <<>>
  /\ UNCHANGED <<forgotten, encrypted, sends>>

-----------------------------------------------------------------------------
(* Queueing, while the sync loop handles something else.                   *)

\* rooms_pending[r].append(task)
Enqueue(t, r) ==
  /\ queue' = [queue EXCEPT ![r] = Append(@, t)]
  /\ fate' = [fate EXCEPT ![t] = "queued"]
  /\ old' = old \ {t}

\* A message for a room the client does not know.
QueueMessage(m, r) ==
  /\ Between
  /\ m \in Messages /\ fate[m] = "new" /\ r \notin known
  /\ Enqueue(m, r)
  /\ UNCHANGED <<rooms, sends, runs>>

\* An invitation: the bot joins, and the welcome becomes the room's queue.
Invite(w, r) ==
  /\ Invites /\ Between
  /\ w \in Welcomes /\ fate[w] = "new" /\ r \notin known
  /\ queue' = [queue EXCEPT ![r] = <<w>>]
  /\ fate' = [fate EXCEPT ![w] = "queued"]
  /\ UNCHANGED <<rooms, sends, old, runs>>

-----------------------------------------------------------------------------
(* What the client learns, and time.                                       *)

Learn(r) ==
  /\ Between
  /\ r \notin known \cup forgotten
  /\ known' = known \cup {r}
  /\ UNCHANGED <<forgotten, encrypted, tasks, runs>>

Encrypt(r) ==
  /\ Between
  /\ r \in known /\ r \notin encrypted
  /\ encrypted' = encrypted \cup {r}
  /\ UNCHANGED <<known, forgotten, tasks, runs>>

\* room_forget, at the end of a deletion that a gRPC call may have asked for.
Forget(r) ==
  /\ MayFail
  /\ r \in known
  /\ known' = known \ {r} /\ forgotten' = forgotten \cup {r}
  /\ UNCHANGED <<encrypted, tasks, runs>>

\* 300 seconds pass.
TimePasses ==
  /\ old' = UNION {ToSet(queue[r]) : r \in Rooms}
  /\ old' # old
  /\ UNCHANGED <<rooms, queue, fate, sends, runs>>

Crash == MayFail /\ Restart

-----------------------------------------------------------------------------
(* check_awaited.                                                          *)

NewRun == [seen |-> {}, size |-> Cardinality(Keys), done |-> {},
           room |-> NoRoom, left |-> <<>>]

Continue(run) == runs' = <<run>> \o Tail(runs)

\* The caller goes on after the task it executes.
Caller == [runs[2] EXCEPT !.left = Tail(@)]

\* Mutant: the exception is logged and the process goes on.
RaiseSwallowed ==
  /\ runs' = IF Len(runs) = 1 THEN <<>> ELSE <<Caller>> \o Tail(Tail(runs))
  /\ UNCHANGED <<rooms, tasks>>

\* An exception leaves check_awaited.  The outermost run ends the process; an
\* inner one makes the task fail that its caller executes.
Raise ==
  IF Len(runs) = 1
  THEN Restart
  ELSE /\ runs' = <<Caller>> \o Tail(Tail(runs))
       /\ fate' = [fate EXCEPT ![Head(runs[2].left)] = "failed"]
       /\ UNCHANGED <<rooms, queue, sends, old>>

StartCheck ==
  /\ Between /\ Keys # {}
  /\ runs' = <<NewRun>>
  /\ UNCHANGED <<rooms, tasks>>

Iterating == ~Between /\ Atop.room = NoRoom
SizeChanged == Cardinality(Keys) # Atop.size
Unvisited == Keys \ Atop.seen

\* Python refuses to go on iterating over a dictionary of another size.
IterationFails == Iterating /\ SizeChanged /\ Raise

VisitReady(r) ==
  /\ Iterating /\ ~SizeChanged
  /\ r \in Unvisited /\ Ready(r)
  /\ Continue([Atop EXCEPT !.seen = @ \cup {r}, !.room = r, !.left = queue[r]])
  /\ UNCHANGED <<rooms, tasks>>

\* The notice names the sender and the body of the event: a welcome has neither,
\* a redaction or a call no body.
CannotExpire(t) == t \in Welcomes \cup Bodiless

\* live_tasks: the tasks of a list that are not old, in their order.
LiveTasks(list) ==
  LET live[n \in 0..Len(list)] ==   \* of the first n
        IF n = 0 THEN <<>>
        ELSE IF list[n] \in old THEN live[n - 1] ELSE Append(live[n - 1], list[n])
  IN  live[Len(list)]

\* The room cannot be sent to: its old tasks are dropped, up to one whose notice
\* cannot be written.
VisitWaiting(r) ==
  LET expired == ToSet(queue[r]) \cap old
      live == LiveTasks(queue[r])
  IN  /\ Iterating /\ ~SizeChanged
      /\ r \in Unvisited /\ ~Ready(r)
      /\ \/ /\ \E t \in expired : CannotExpire(t)
            /\ Raise
         \/ /\ ~\E t \in expired : CannotExpire(t)
            /\ queue' = [queue EXCEPT ![r] = IF live = <<>> THEN @ ELSE live]
            /\ fate' = [t \in Tasks |-> IF t \in expired THEN "dropped" ELSE fate[t]]
            /\ Continue([Atop EXCEPT !.seen = @ \cup {r},
                                     !.done = IF live = <<>> THEN @ \cup {r} ELSE @])
            /\ UNCHANGED <<rooms, sends, old>>

Executing(t) == ~Between /\ Atop.left # <<>> /\ t = Head(Atop.left)
\* Mutant: only the first task is executed.
ExecutedOne == [Atop EXCEPT !.left = <<>>]

Executed == [Atop EXCEPT !.left = Tail(@)]

Send(t) ==
  /\ fate' = [fate EXCEPT ![t] = "sent"]
  /\ sends' = [sends EXCEPT ![t] = IF @ = 2 THEN 2 ELSE @ + 1]

ExecuteSends(t) ==
  /\ Executing(t)
  /\ Send(t)
  /\ Continue(Executed)
  /\ UNCHANGED <<rooms, queue, old>>

\* The homeserver refuses, or the handler does not relay the message any
\* more: the ticket was closed, or the user has a chat meanwhile.
ExecuteFails(t) ==
  /\ MayFail
  /\ Executing(t)
  /\ fate' = [fate EXCEPT ![t] = "failed"]
  /\ Continue(Executed)
  /\ UNCHANGED <<rooms, queue, sends, old>>

\* Handled again, the message goes to another room (the user's current ticket
\* or communications room has changed) that is unknown as well.
ExecuteReroutes(t, r) ==
  /\ Reroutes
  /\ Executing(t) /\ t \in Messages
  /\ r \notin known
  /\ Enqueue(t, r)
  /\ Continue(Executed)
  /\ UNCHANGED <<rooms, sends>>

\* A staff message to a user who has left the communications room meanwhile:
\* setup_communications_room creates a room and syncs, and the encryption
\* event of the new room runs check_awaited.
ExecuteSyncs(t, r) ==
  /\ Executing(t) /\ t \in Messages
  /\ Len(runs) < MaxRuns
  /\ r \notin known \cup forgotten \cup encrypted \cup Keys
  /\ known' = known \cup {r}
  /\ runs' = <<NewRun>> \o runs
  /\ UNCHANGED <<forgotten, encrypted, tasks>>

\* Mutant: the room is not added to to_delete.
RoomDoneKeeps ==
  /\ ~Between /\ Atop.room # NoRoom /\ Atop.left = <<>>
  /\ Continue([Atop EXCEPT !.room = NoRoom])
  /\ UNCHANGED <<rooms, tasks>>

\* All tasks of the room are executed.
RoomDone ==
  /\ ~Between /\ Atop.room # NoRoom /\ Atop.left = <<>>
  /\ Continue([Atop EXCEPT !.room = NoRoom, !.done = @ \cup {Atop.room}])
  /\ UNCHANGED <<rooms, tasks>>

\* The keys in to_delete are deleted.  An inner run returns to its caller, which
\* sends the task it executes.
DeleteDone ==
  /\ queue' = [r \in Rooms |-> IF r \in Atop.done THEN <<>> ELSE queue[r]]
  /\ IF Len(runs) = 1
     THEN runs' = <<>> /\ UNCHANGED <<fate, sends>>
     ELSE /\ runs' = <<[Caller EXCEPT !.seen = @ \ Atop.done]>> \o Tail(Tail(runs))
          /\ Send(Head(runs[2].left))
  /\ UNCHANGED <<rooms, old>>

\* To delete a key that an inner run has deleted is an error.
Finish ==
  /\ Iterating /\ ~SizeChanged /\ Unvisited = {}
  /\ IF Atop.done \subseteq Keys THEN DeleteDone ELSE Raise

-----------------------------------------------------------------------------
Checking ==
  \/ IterationFails \/ RoomDone \/ Finish
  \/ \E r \in Rooms : VisitReady(r) \/ VisitWaiting(r)
  \/ \E t \in Tasks : ExecuteSends(t) \/ ExecuteFails(t)
  \/ \E t \in Tasks, r \in Rooms : ExecuteReroutes(t, r) \/ ExecuteSyncs(t, r)

Step ==
  \/ \E t \in Tasks, r \in Rooms : QueueMessage(t, r) \/ Invite(t, r)
  \/ \E r \in Rooms : Learn(r) \/ Encrypt(r) \/ Forget(r)
  \/ TimePasses
  \/ Crash
  \/ StartCheck
  \/ Checking

Next == Step /\ UNCHANGED world

Spec == Init /\ [][Next]_vars

\* Every sync runs check_awaited, every run goes on, and time passes.  What
\* the client learns of rooms depends on others.
Fairness == WF_state(StartCheck) /\ WF_state(Checking) /\ WF_state(TimePasses)

FairSpec == Spec /\ Fairness

-----------------------------------------------------------------------------
(* Properties.                                                             *)

\* Messages, with failures and crashes, and nothing else.
Plain == world \subseteq {"failure"}

\* Is the task in the queue, and no run is through with it?
Waits(t) ==
  \E r \in Rooms :
    /\ Queued(t, r)
    /\ \A i \in DOMAIN runs :
         r \notin runs[i].done /\ (runs[i].room = r => t \in ToSet(runs[i].left))

\* A task that was sent twice, or is neither in the queue nor accounted for, is
\* in no state of a mailbox.
StateOf(t) ==
  CASE sends[t] = 2 -> "repeated"
    [] sends[t] = 1 -> "sent"
    [] sends[t] = 0 /\ Waits(t) -> "waiting"
    [] sends[t] = 0 /\ ~Waits(t) -> IF fate[t] = "new" THEN "new"
                                    ELSE IF fate[t] = "queued" THEN "forgotten"
                                    ELSE "discarded"

Mailbox == INSTANCE TaskMailbox WITH
  state <- [t \in Tasks |-> IF Plain THEN StateOf(t) ELSE "new"]

\* Without runs inside one another the queue is a mailbox: nobody receives a
\* message twice, nothing is handled again that was refused or dropped, and
\* nothing leaves the dictionary with a room that was not handled.
ImplementsMailbox == Mailbox!Spec

\* A message that waits for a room is sent once the room is known and encrypted,
\* unless the request fails, the process ends or the room goes away again.
SentWhenReady ==
  \A t \in Tasks, r \in Rooms :
    Plain /\ Queued(t, r) /\ Ready(r)
      ~> sends[t] > 0 \/ fate[t] \in {"failed", "lost"} \/ ~Ready(r)

\* No task stays in the queue of a room for ever, whatever ends the runs.
QueueDrains ==
  \A t \in Tasks, r \in Rooms : Queued(t, r) ~> ~Queued(t, r)

\* A task that was queued and neither sent, refused nor dropped is in the
\* queue.
Accounted ==
  \A t \in Tasks : fate[t] = "queued" => \E r \in Rooms : Queued(t, r)

\* While nothing fails from outside, no queued message is lost with the process:
\* an expired task is dropped by itself.
NoneLost == \A t \in Messages : fate[t] # "lost"

\* "to be sent when room is loaded" (forward_message_to_room): knowing the
\* room is enough.
SentWhenLoaded ==
  \A t \in Tasks, r \in Rooms :
    Queued(t, r) /\ r \in known ~> sends[t] > 0
=============================================================================
