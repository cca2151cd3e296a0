# TLA+ of the Matrix support bot

The bot relays messages between users and a support team on Matrix.  What a
user writes goes to the management room, until staff raise a ticket or open a
chat for the user; then it goes to the room of that ticket or chat, and what
staff write there goes back to the user.  This directory holds TLA+ modules of
the bot's handlers, TLC configurations that check them on small instances, and
proofs that TLAPS checks.

## The system

One process runs two event loops.  The *sync loop* handles what every sync with
the homeserver brings, one callback after another; a callback that awaits the
homeserver holds up the next one, unless it syncs itself (`filtered_sync`).  The
*gRPC server* has a loop of its own, and hands each call as a coroutine to the
main loop (`run_coroutine_threadsafe`): such a coroutine runs whenever a
callback awaits something, and callbacks run while it awaits something.  Between
two awaits a coroutine runs alone.  Every SQL statement commits by itself.

| component | code | state | operations |
|---|---|---|---|
| tickets | `models/Ticket.py`, `models/User.py`, `bot_commands.py` | `Tickets`, `Users.current_ticket_id`, `Ticket.ticket_cache` | raise, close, reopen, delete, look up |
| chats | `models/Chat.py`, `bot_commands.py`, `callbacks.py` | `Chats`, `Users.current_chat_room_id`, `Chat.chat_cache`, `rooms_marked_for_deletion` | create, close, delete, look up, check the marked rooms |
| ticket room membership | `bot_commands.py`, `chat_functions.py` | `TicketsStaffRelation`, `TicketsSupportRelation`, the room's members | claim, claimfor, unassign, the kicks of a close, the invitations of a reopening |
| message relay | `handlers/`, `event_responses.py`, `message_responses.py`, `media_responses.py`, `redaction_responses.py` | `IncomingEvents`, `EventPairs`, `messages` | route, save, send, copy to a new ticket room, answer; replies, edits, redactions and media along the pairs |
| communications rooms | `MessagingHandler.py`, `callbacks.py`, `chat_functions.py`, `bot_commands.py` | `Users.room_id`, who is in a room as far as the client knows | a message, a leave, an invitation, an answer, `!setupcommunicationsroom` |
| pending rooms queue | `callbacks.py`, `event_responses.py` | `rooms_pending` | queue, welcome, `check_awaited` |
| storage and migrations | `storage.py`, `migrations/` | `migration_version`, the schema | initial setup, fifteen migrations |
| key recovery | `callbacks.py`, `storage.py` | `encrypted_events`, `received_events` | store, decrypt when the key comes, process once |
| gRPC server | `grpc_server/` | the calls under way | hand over, wait ten seconds, answer |
| main loop | `main.py` | the process, the sync token | sync, reconnect, end on any other exception |

How they meet: handlers of both loops share the cached ticket and chat objects
and the rows behind them; the relay reads the current ticket and chat that the
desks write, and the communications room to answer to; a message for a room the
client does not know goes through the queue back into the relay; a key that
arrives late hands old messages to the relay; an exception that leaves
`check_awaited` or `check_marked_deletion` ends the process, and with it the
queue and the marks.

What is hard: two coroutines between whose awaits the same ticket changes; a
check before an await and the write after it; dictionaries iterated across
awaits; a crash between two statements; invitations and kicks that fail or
overlap; messages handled twice (queued, copied, decrypted late); replies whose
counterpart is in another room by now; people who leave a room before the bot
hears of it; a connection that is lost in the middle of a handler, after which
the memory is what it was; a start that is cut off in the middle of a migration.
`PROJECT.json` lists these hazards at their lines, with the properties that
would catch each, or why none does.

## Modules

```
TicketLifecycle <= TicketDesk                   <- MCTicketDesk          TicketDeskProofs
                   ChatDesk                     <- MCChatDesk            ChatDeskProofs
                   TicketRoom                   <- MCTicketRoom          TicketRoomProofs
RelayContract   <= MessageRelay                 <- MCMessageRelay        MessageRelayProofs
RelayContract   <= EventMirror                  <- MCEventMirror         EventMirrorProofs
                   CommunicationsRoom           <- MCCommunicationsRoom  CommunicationsRoomProofs
TaskMailbox     <= RelayQueue                   <- MCRelayQueue          (MessageRelayProofs)
                   Migrations                   <- MCMigrations          MigrationsProofs
                   KeyRecovery                  <- MCKeyRecovery         KeyRecoveryProofs
```

`A <= B` means that B implements the abstract module A; the modules of a row
extend B.

An action is what a coroutine does from one await to the next.  A parameter `c`
or `p` is the coroutine: `Main`, the sync loop, or one of `GrpcCalls`.

**Worlds.**  Most modules have a variable `world` that is chosen in `Init` from
the constant `Worlds` and never changes.  It is a set of names of what else may
happen in that behaviour (failures, gRPC calls, lost connections, chats).  One
run can thus check a property in several small worlds, where the product of all
of them would be out of reach; and a property that the code does not keep in
some world names that world as its condition.  The proofs hold for all worlds.

**TicketLifecycle** (abstract) is what a ticket is to staff: raise, close,
reopen, delete, each in one step on the rows.  A second row that an operation
writes may stay unwritten (`cut`) if a crash may fall between two statements.

**TicketDesk** has the rows (`status`, `owner`, `room`, `current`), the cached
objects (`cache`) and the await of each coroutine (`pending`).  `Found` is
`Ticket.get_existing`, `SetStatus` is `Ticket.set_status`, which writes the row
and drops the cached object.  `Raise`/`RoomCreated`/`RoomRefused` are
`_raise_ticket` and `create_ticket_room` around its await, `StartDelete`/`FinishDelete`/
`LeaveFailed` are `delete_ticket_room` and `delete_room`; `Close` and `Reopen`
change all their rows before their first await.  `LookUp` stands for every
handler that only reads the ticket: it changes the cache.  `Crash` restarts the
process between two awaits, `CrashInRaise`, `CrashInClose` and `CrashInReopen`
between two statements (world "mid-crash").  It implements TicketLifecycle with
the rows as the mapping (the cache and the awaits are hidden).

**ChatDesk** is the same for chats, and has `rooms_marked_for_deletion`
(`marked`), what the client knows of the rooms (`known`, `occupied`) and the run
of `check_marked_deletion` in progress (`check`): `Iterate` goes to the next
await, `Raises` is where Python or the code raises, and the process restarts.
`Disconnect` (world "reconnect") is a connection error in a request of the sync
loop: the coroutine ends there, `main.py` logs in again, and memory stays.  A
room that is empty by then is marked, and nobody will start its check
(`LeftUnseen`).  `Forgets` is the second request of `delete_room`, whose failure is
only logged: the client then goes on knowing the room.

**TicketRoom** follows one ticket with a room: who is assigned, who is inside,
and the requests that each coroutine still has to make.  `Assign` writes the row
and is to invite; `Claim` and `Claimfor` say of whom.  `Return` and `TimeOut` are
`ThreadManager.wait_for`, which tells the call of an error if its command has ended
with one: only claims do (`Fails`), other commands log what was refused.  `excused` has those whom the homeserver refused to
kick or invite, and those who left of themselves.

**RelayContract** (abstract) is what the relay promises: a user's message is
shown in the management room, in a chat room or in a room of a ticket of that
user, and what staff quote leads to one place at most.

**MessageRelay** follows each message of a user through `setup_relay`, the queue,
`_copy_incoming_events` and the pairs, while tickets, chats and the client's rooms
change around it.  `saved` and `waiting` count, for the code never takes a task
back: a message can have several rows in IncomingEvents and several tasks in
`rooms_pending`, and a task that outlives the copy that queued it relays its message
once more.  `pairs` ties a message to the position of a clone in `sent`.  Redactions
and calls (`Others`) are relayed, but not copied, and have no pair.  `main` is what
the sync loop awaits.  Tickets change in one step, except in the world "midcrash",
where the process may end between two rows (`CrashInRaise`, `CrashInCommand`).

**EventMirror** has what people write to each other: the timelines of all rooms
are one sequence, `log`, and `handled`, `pairs`, `messages`, `saved` and `queue`
are what the bot keeps of it.  `Handle` takes the next event of a room through
`Process` (by whom and where it was written) to `Forward`, which queues it, saves
it, or asks for a clone with `ref` the counterpart of what its original refers
to; `Sent` and `Redacted` are the answers, with which the rows are written.
`Raise` starts the copy to a ticket's room (`CopyNext`), `Drain` the queue of one
(`DrainNext`), as soon as the client knows the room and its encryption (`Ready`).
In world "slow room" that may take more than 300 seconds, or the room may have no
encryption: what waits expires (`Expire`), and a redaction among it ends the process
(`CannotExpire`).  In world "disorder" the SELECT of the saved events, which has no
ORDER BY, returns them in any order.

**CommunicationsRoom** has who is in each room at the homeserver (`inside`), what
the client was not told yet (`feed`), and what it was told (`seen`).  `Deliver`
takes the next event of a room; `RelayFromUser`, `AnswerTo`, `MemberLeft` and
`MemberInvited` are the callbacks, `AnswerMakes` and `Setup` create a room, which
is synced (`Synced`) before its row is written.

**TaskMailbox** (abstract) is what a queue promises: a task that is put in is sent
once or discarded, and that is the end of it.

**RelayQueue** is `rooms_pending`.  A run of `check_awaited` is a record of the
keys visited, the size of the dictionary at its start, `to_delete`, and the
tasks of the room it is at; runs nest when a task syncs (`ExecuteSyncs`).
`fate` and `sends` are history variables.  Redactions and calls are `Bodiless`:
when they expire, the message that says so cannot be made.  (A call is queued as
the others are, by `forward_message_to_room`, with the time; the tuple without a time
in `call_event_message_responses.py:51` is never queued, since its line is reached
only if the room was found just before, at `event_responses.py:129`.)

**Migrations** runs `Storage.__init__` statement by statement.  Each migration is
the sequence of its statements, with the tables and what is added to them;
`Works` and `Apply` are what PostgreSQL makes of a statement, with the foreign keys
that keep a table from being dropped (`Referenced`).

**KeyRecovery** has the stored encrypted events, the processed event ids, and a
stack of callbacks: `message` awaits the state of the room before it asks
whether the event was processed, and relaying may sync, which runs further
callbacks inside.

The definitions marked *Mutant* are plausible bugs of the definition that
follows them; nothing uses them but the mutants that `PROJECT.json` lists.

## Runs

All runs pass but the three that are marked.  Sizes are distinct states.

| run | question | bounds | states |
|---|---|---|---|
| TicketDesk_concurrent | rows, cache and current tickets while three coroutines work and the process restarts, also between two statements; refinement of TicketLifecycle | 2 users, 3 tickets, the sync loop and 2 gRPC calls | 386,553 |
| TicketDesk_late_delete (**violated**) | are only closed tickets deleted? | 1 ticket, 1 gRPC call | |
| ChatDesk_concurrent | chats end, the current chat is open, the mark of a room in which the bot is alone drains as long as the connection is kept | 2 users, 2 chats, 1 gRPC call; with and without a lost connection | 38,594 |
| RelayQueue_tasks | refinement of TaskMailbox, a ready room is sent to, the queue drains | 2 rooms, 2 messages (one a redaction), 1 welcome, runs nested twice | 45,853 |
| MessageRelay_users | kept for the ticket, no other user's messages, nothing of a closed ticket, one pair, refinement of RelayContract | 2 users, a text and a redaction, 2 tickets; with chats, with failures and crashes (also between two rows), with lost connections, with gRPC calls | 347,597 |
| EventMirror_posts | does a clone refer to the right counterpart, is what was taken back gone, do answers reach the writer; refinement of RelayContract | 1 user, 2 tickets, 2 direct rooms, 2 posts (3 where nothing fails), 6 worlds | 113,080 |
| EventMirror_media_answer (**violated**) | does an answer to media reach the writer? | 1 user, 2 posts | |
| CommunicationsRoom_members | is a user's communications room one the user is in or has left unheard? | a user, and a user who is staff; 2 rooms, 1 event under way in each, 3 worlds | 83,483 |
| TicketRoom_commands | the assigned are inside, nobody else is | 2 staff, 2 support, one coroutine | 27,864 |
| TicketRoom_timeout (**violated**) | is a call that is told of success done? | 2 staff, 1 support, 1 gRPC call | |
| Migrations_crash | the schema is whole, rows survive, the bot serves | releases 3, 7, 11, 15; 2 crashes; a SELECT that may fail | 4,987 |
| KeyRecovery_nested | once, none lost, none stranded | 3 events, 2 sessions, nesting of 2 | 145,425 |

Why these bounds are enough for the questions: the hazards are between two
coroutines on one ticket, with a second ticket of the same or another user to
be confused with and a third to replace it; two messages suffice to overtake
each other, two rooms for a dictionary that changes under its iteration, and two
nested runs for one that deletes what the other iterates over.  Deeper nesting
repeats the same relation between a run and its caller.  An event and one that
refers to it are two posts, and a third refers to the second.  A
communications room needs a second one to be replaced by, and one event under
way in each to be late.  Of the migrations all are there, and the releases are
those between which tables are dropped (up to 3), rebuilt (6 to 8) and only
added.  `Watched` names the tables whose rows are followed.

What is bounded in the modules themselves: `MaxTickets`, `MaxChats`, `Rooms` (rows
and rooms ever made), `MaxChannels`, `MaxPosts` and `MaxCalmPosts`, `MaxFeed`,
`Depth`, `MaxCrashes`, and the counters `sends` and `handled`, which stop at 2,
which stands for "more than once".  `MessageIds` bounds the positions in the
timelines that a post may take; it is where the contract of EventMirror keeps its
messages, and no post ever comes near it (`Post` names it in its guard, so that
the proofs need not count the copies).

Deadlock is checked except for RelayQueue, EventMirror and CommunicationsRoom,
which really may stop: all messages are sent, all posts made, everybody has
left.

### Properties with a condition

The code does not keep everything a reader may expect.  Where it does not, a
property names the case, and an instance below shows what happens in it.

- `CurrentIsLive` and `LatestOpenIsCurrent` are about behaviours in which no crash
  falls between the two statements of a handler.  `CurrentIsLive` allows a deleted
  ticket, which TicketDesk_late_delete shows.
- `MarksDrain` is about rooms in which the bot sees itself alone, and behaviours in
  which the connection is kept: nobody has to leave a room, for a kick may be
  refused and those without a row are not kicked.  A room the bot failed to leave
  and a mark that the end of the process forgets count as drained.
- `KeptForTicket` and `SentToOpenTicket` are about behaviours without gRPC calls,
  which change a ticket while the sync loop awaits.  The former is also without
  failures, and about texts and media, for the copy leaves out redactions and
  calls; the latter is without crashes between the two rows of a close, after which
  messages go to the closed ticket (`setup_relay` does not look at its status).
- `OnePair` and the `ImplementsContract` of MessageRelay are about copies that come
  to their end (`CopiesEnd`).  A lost connection may leave both the tasks and the
  rows of a copy, and the next one pairs a message a second time; so may gRPC calls
  together with crashes.
- `ImplementsMailbox` and `SentWhenReady` are about the worlds in which nothing is
  rerouted or invited and runs do not nest; `QueueDrains` is about all.
- `InsideOrLeaving` and `Forgotten` are about behaviours in which people only write,
  leave and are answered; `EverInside` holds whatever else happens.
- `RefersWithinRoom` is about users with one direct room, tickets that stay open
  and a SELECT that keeps the order; `TakenBack` about the same with several
  rooms, all known at once; `AnswerReachesWriter` about answers to texts, and
  `ArrivesAtLast` about behaviours without failures in which the client learns of
  every ticket room and its encryption within 300 seconds.
- `AssignedAreInside` and `OnlyAssignedInside` except whom the homeserver refused
  to invite or kick, who left, and support users whom a call removed.

### Fairness

- *ChatDesk*: a request to the homeserver is answered (weak fairness of the steps
  after an await), for asyncio resumes every coroutine and the client has
  timeouts.  That somebody leaves a room, `LeaveFailed`, `Disconnect` and the crash
  are never obliged to happen.
- *RelayQueue*: every sync runs `check_awaited`, a run goes on, and time passes.
  That a room becomes known or encrypted depends on others, and is not assumed.
- *EventMirror*: the sync loop goes on and its requests are answered or refused.
  What becomes of rooms, tickets and the process is not assumed; `ArrivesAtLast`
  names what it needs of the rooms.
- *CommunicationsRoom*: a sync under way ends, every room the bot is in reaches the
  client, and every event of it is delivered.  The last two are what
  `sync_forever` does; the delivery is strongly fair because the loop is at times
  busy with another room.
- *Migrations*: somebody starts the process again (weak fairness of its steps),
  and a database that answers the SELECT again and again is believed at last.
- *KeyRecovery*: a callback that can go on does, and one that syncs inside its
  processing does not do so for ever.

### What the violated runs show

`TicketDesk_late_delete`: the sync loop begins to delete a closed ticket and
awaits the homeserver, a gRPC call reopens it, and the deletion sets the status
to deleted without another look.  The deleted ticket is its user's current one,
so that the user's messages go to a room the bot has left.  The code says the
"room must be in CLOSED state to be deleted" (`bot_commands.py:1293`).

`TicketRoom_timeout`: `wait_for` returns `None` when its time is up, and the
`except asyncio.TimeoutError` that answers "Timed out while closing ticket"
(`thread_manager.py:103`) is never reached; `None` is also what a command
returns that is done, so the call is told of success.  In the run a close is still
sending its notices, and the assigned staff are in the room.

`EventMirror_media_answer`: for a text the table `messages` gets the room the text
came from (`message_responses.py:204`), so that an answer can be sent "back to
original sender" (`message_responses.py:70`).  For media it gets the management
room (`media_responses.py:166`): the answer goes there.

### Instances kept beside the runs

These configurations are for looking at, one property each; all are violated,
and the counterexample is the point.

| configuration | what it shows |
|---|---|
| TicketDesk_half_closed | a crash between the two rows of a close leaves a closed ticket current; `!reopen` is then refused ("already has Ticket open") and `!close` ("already closed") |
| ChatDesk_grown | a marked chat may never be deleted: a gRPC close marks a room during the check, or a marked room is not known, the process ends and the marks are gone |
| ChatDesk_unwatched | after a lost connection a marked room may be empty, so that no leave will start its check |
| TicketRoom_overlap | a gRPC call unassigns somebody whom a command assigns again: the kick comes after the invitation |
| TicketRoom_removed_support | RemoveStaffFromTicket with a support user kicks the user and leaves the row: a reopening invites the user again |
| MessageRelay_closed_copy | a message saved again during the copy (the ticket was closed meanwhile) is deleted at its end |
| MessageRelay_leftover_task | the connection is lost in a copy: its tasks stay in the queue and its rows in the table, and with the copy for the next ticket a message is tied to two clones ("prevent original message being tied to different clones", `bot_commands.py:561`) |
| MessageRelay_two_rooms | a user with a ticket and a chat writes to a room from which nobody can answer |
| EventMirror_moved | after a close the edit of a message in the ticket's room is sent to the management room, and edits an event of another room; with the world `{"disorder"}` instead, saved events are copied in another order than they were written, and an edit comes before its text |
| EventMirror_overtaken | a redaction is handled before the message it redacts has left the queue: the message is shown for good |
| EventMirror_queued_media | media that waited in the queue arrive as a text with the name of the file |
| CommunicationsRoom_cut_off | the process ends in the middle of a sync whose token is stored: a leave is never handled; with the world `{"early leave"}` instead, a user who rejects the invitation before the client has seen the room is answered there for ever |
| CommunicationsRoom_staff_user | for a member of staff who is a user too, a ticket's room becomes the communications room (`chat_functions.py:259`) |
| RelayQueue_loaded | "to be sent when room is loaded" (`event_responses.py:136`): a room that is known but not encrypted is not sent to |
| RelayQueue_overwritten | an invitation overwrites what is queued for its room |
| RelayQueue_bodiless | a redaction that expires ends the process, and with it what is queued for other rooms |
| Migrations_halted | a start cut off after `CREATE TABLE migration_version` or in the middle of a migration that does not tolerate being repeated: no later start succeeds |

## Proofs

For every set of users, callers, rooms and messages, every number of rows, and
every choice of worlds.

**TicketDeskProofs.**  The inductive invariant is `Coherent`: the types; every
stored ticket has a user, and a coroutine that awaits a deletion works on a
stored ticket (`RowsOwned`); and a cached ticket has the status of its row
(`CacheTellsStatus`).  It is needed because the guards of the handlers read the
cached object: only with it does a guard say anything of the row.  From it
follow

- `TypeCorrect`, `CacheCoherent` and `DeletedStays`, for every step the desk can take;
- `RoutedTillClosed`: a user's messages leave a ticket only if that ticket is closed
  or a new one is raised.  It needs that a current ticket is its user's own, which
  is added to the invariant;
- `LatestOpenCurrent`: the last ticket of a user is current while it is open, where
  no crash falls between two statements.  It needs that the ids in use have no gap
  (`NoGap`), so that a ticket that is raised is later than all others;
- `CurrentLive`: no current ticket is closed, where no crash falls between two
  statements;
- `DeskImplementsLifecycle`: each action maps to one of the lifecycle or to a
  stutter;
- `CommandsDeleteClosed`: without gRPC calls only closed tickets are deleted.  The
  invariant says that while the bot leaves a room, the ticket stays closed.

**ChatDeskProofs.**  `Inv` has the types, that stored chats have users, the
coherence of the cache, what is known of the chat each coroutine works on
(`AllHandled`: who deletes works on a chat that is not current; who kicks, on one
that is over; who creates, on one without a row), that the marked rooms and
those of the check are of chats that are over, and `CurrentChatIsOpen`.  The last
needs the others: a chat ceases to be open in a close, which has just taken it
from its user, or in a deletion, which was checked before an await.  It yields
`TypeCorrect`, `CurrentChatOpen`, `MarkedOver`, `ChatCacheCoherent` and `ChatsEnd`.
Nothing is assumed of crashes: the order in which `close_chat` writes its two
rows makes them harmless, unlike that of `close_ticket`.

**MessageRelayProofs.**  `OwnTicketOnly` speaks of what was sent, but a message is
addressed long before.  `Inv` therefore says that a current ticket was raised for
its user (`Owned`), that nothing is saved, queued, copied or sent that was not
written (`WrittenFirst`), that what Main copies for a ticket was written by the
ticket's owner (`OfTicket`), that a request under way to a ticket's room is for a
message of that owner (`Addressed`), and that a pair leads to a clone (`Cloned`).
It yields `TypeCorrect` and `OwnTicket`, whatever overlaps, is lost or crashes.

`OneClone` (the property `OnePair`) and `RelayImplementsContract` are about the
behaviours of `CopiesEnd`: no connection is lost, so that a copy deletes the rows
it has read or ends with the process, which ends the tasks too; and gRPC calls and
failures do not meet. (MessageRelay_leftover_task shows what a lost connection
does.) There `Sole` holds of each message: one thing at most is about to show it,
which is a task, a row that the copy has read, or what Main has in hand; and then
the message has no pair. The copy keeps it so: `CopyNext` deletes the pairs before
it asks for the event, and `CopyDone` deletes the rows, so that no later copy
finds them beside the tasks.

`OpenTicketOnly` adds `ToOpen`: without a crash between two rows the current tickets
are open, and where only commands close tickets so is the one that Main relays to,
since Main is also what handles the commands.  `NoneForgotten` adds `Keeping`: a text or
media that was written is saved, queued, under way or relayed; and while saved messages
are copied, those not on the copy's list have been provided for, which is what
lets `CopyDone` delete all that the user has saved.

The same module proves of RelayQueue, of which it has an instance `Queue` (the
messages of MessageRelay wait in that queue), that it implements TaskMailbox:
`QueueImplementsMailbox`, for any rooms and tasks and lists of any length.  The
theorem is about the same worlds as the run: messages, failures, crashes, and no
run inside another (`Plain`).  `TidyQueue` says that there is one run at most; that
a task is in one list, once (`Apart`); that a run executes what is in the list of
a room it has visited and is not through with (`Orderly`); and that a task is
queued exactly if it is in a list and the run is not through with it, and sent
exactly if it was sent once (`Tracked`).  Without the part on the run, a task
could be executed that was sent before; without that on the lists, deleting one
room could take a task that waits for another.  What `live_tasks` collects
(`LiveTasks`) is a recursive function; `LiveFacts` says what it returns for a list of
any length, along a least counterexample (`Least`) in place of an induction.

**TicketRoomProofs.**  The rows change before the room does, so that the room is
right only when nobody is at work.  `RoomInv` says what the coroutine still has
to do: those who are assigned and outside are `Coming`, those inside and not
assigned are `Going`, and each stage of a handler has the people it should
(`HandlerAtWork`).  It holds for one coroutine at a time, which
`AssignedInside`, `InsideAssigned` and `ClosingEmpties` assume: TicketRoom_overlap
refutes the first of them for two.  `TypeCorrect` holds for any number.

**CommunicationsRoomProofs.**  `RoomsOfUsers` is `EverInside`: what is meant for a
user goes to a room in which the user has been.  `Inv` says that whatever the
client has seen or is to see, every message to be handled, and the room under
way are of people who were inside (`Witnessed`), and that a room that is not made
yet has no trace (`Fresh`).  `RoomsOfMembers` is `InsideOrLeaving`, where people only
write, leave and are answered.  It adds `Told`: whoever the client takes for a
member is one or will be heard to leave, and whoever writes and has left is heard
to leave afterwards, for the feed of a room keeps its order.

**EventMirrorProofs.**  `RightReference` and `RightAddressee` are
`RefersToCounterpart` and `AnswerReachesWriter`.  A reference is looked up when an
event is handled and used when its request is answered, with rows that copies
delete and crashes may not store.  `Inv` says that each row of EventPairs and of
messages links an event with a clone of it, which the log keeps for good
(`RowsSound`), that the request under way is for a clone whose reference and room
are right (`MainSound`), that staff answer only what the bot has sent
(`AnswersInPlace`), and of the clones that are sent the same as of the one under
way (`ClonesSound`).  What expires is a prefix of what waits for a room
(`ExpireFacts`), so the rest keeps its order.  The row of a text has the room of its writer, that of media
has not: `RightAddressee` is about texts.

The other theorems are each a layer on the one before:

- `OnceAlways` (`OnceInv`): a person's event has one pair at most, and is either
  not handled, saved or still to be copied, waiting in one queue once, requested,
  or paired (`Once`); a current ticket is its user's (`Owned`).  The parts need each
  other: a queued event must be unpaired for the request that follows not to make a
  second pair, and what is copied must have left the queue.
- `MirrorImplementsContract` maps every step to one of RelayContract.  It needs
  `PlacedInv`: what is sent of a user's is sent to the management room or to a
  ticket of the user (`Addressed`), and posts refer backwards in their room
  (`Backward`).  A copy is an `Unlink`, a request that is answered a `Show`, with
  or without its row; that a clone is shown only if its event has no pair is
  `Once`.
- `ReferencesStayInRoom` is `RefersWithinRoom`, where users write in one room and
  nothing is closed or fails.  A reference is right in its room only if the pairs
  are: `TameInv` says that a user's event is paired with what the place shows that
  now gets the user's messages, unless the copy is still to replace it
  (`PairsPlaced`), and that the request under way goes there (`RequestPlaced`);
  `SteadyFacts` add the way back, from the ticket's room to its holder.
- `NothingTakenBackShows` is `TakenBack`, where ticket rooms are known at once.
  `CalmFacts` say that a room's events are handled in order, that the pairs know
  every clone at the place where the user is read now (`RoutePaired`), and that once
  a redaction is handled each such clone is redacted or that request is under way
  (`RetractedGone`).  Without `TodoUnshown`, that what is to be copied is not there
  yet, a copy could bring back what was taken back before it.

**KeyRecoveryProofs.**  The callbacks are a stack of any depth.  `Inv` says of each
callback which event it has (`Sound`), that the processed events are those
marked (`OnceSeen`), that every event that arrived is a row, processed, or held by
a callback, and that what `room_key` still has to do is held further inside if it
is not (`AllKept`, by position in the stack), and that a row whose key has come
is on some list of `room_key` (`Awaited`).  It yields `Once`, `NoneLost` and
`NothingStranded`.

**MigrationsProofs.**  For any releases installed one after another, any number of
starts that are cut off, and a SELECT that may fail at any time.  What the
fifteen migrations consist of is read off them first (`Read1` to `Read15`), then
the one fact about their order that the rest needs (`Sanity`): after the third
migration tables are dropped by the sixth and the eighth only, and nothing before
touches what these drop.  `SchemaInv` says that a version in the database is the
only one and that all that the migrations up to it made is there (`VersionTrue`);
that the migrations go on from what is there, statement by statement, with the
version one behind them (`Migrating`); and that a start whose SELECT failed runs
from the first migration, where `CREATE TABLE messages` raises once the third is
done.  The last is what saves the data: such a start would run the DROPs of the
sixth and the eighth migration again.  It yields `TypeCorrect`, `WholeSchemaServed`
and, with `DataKept` (the version is beyond every migration that drops a table
with rows), `DataAlwaysSurvives`.  That one assumes `MessagesLater`: the second and
the third migration do drop `messages`, so that what a bot of release 1 or 2 wrote
there does not survive.

The assumptions are those of the modules on their constants, and the ones named.

Only model-checked: all liveness (the provers have no fairness).  Every safety
property of a passing run is a theorem.

## Not modelled

- Answers to a notice of the bot in the management room: the user is parsed from
  the quoted text.  `!message`, `!messageroom`, and the commands that show or set
  the state of a room.
- A call that is relayed at once: it takes the way of a text.  (One that is queued is
  among the tasks without a body of RelayQueue.)
- Uploading and downloading of files, and sharing of keys with staff who join.
- The rooms of chats are relayed and staffed like those of tickets, and are not
  followed a second time; in MessageRelay a chat is one place.
- Login, aliases, the position in the sync; the name, avatar and profile calls of
  the gRPC server, which only read.
- Staff and support as rows (they are fixed sets), labels, the configuration, the
  help.
- Two paths that cannot run as they are written: `chat_claimfor`
  (`bot_commands.py:1163` calls a method that Chat does not have), and the alias of
  a management room (`MessagingHandler.py:152`).
- SQLite, for which the later migrations are not written (SETUP.md says so).

## Plan

Done, in this order: TicketDesk with its lifecycle and proofs, ChatDesk with its
proofs, RelayQueue with its mailbox and its proof, MessageRelay with its contract and proofs,
TicketRoom with its proofs, Migrations, KeyRecovery, EventMirror and
CommunicationsRoom with their proofs; lost connections in the modules with
coroutines.

Next, to model: the rooms of chats with their members, the kicks of a close and
the marks together (TicketRoom and ChatDesk composed); the queue and the
communications rooms composed, for messages that are rerouted.

Next, to prove: how far a nested run of `check_awaited` keeps to the mailbox.
