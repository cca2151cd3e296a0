----------------------------- MODULE TicketDesk -----------------------------
(***************************************************************************)
(* The life of a support ticket: the Tickets and Users rows of the         *)
(* database, the ticket cache, and the coroutines that raise, close,       *)
(* reopen and delete tickets on one asyncio loop.  A coroutine runs        *)
(* undisturbed up to its next await, so an action is one await-free        *)
(* segment of a handler.  The database commits every statement, so a crash *)
(* may keep a prefix of the writes of a segment.                           *)
(*                                                                         *)
(* What a handler does after its last change of this state (notices, kicks *)
(* and invitations) is in TicketRoom.                                      *)
(***************************************************************************)
EXTENDS Integers

CONSTANTS
  Users,        \* users who have texted the bot (rows of Users)
  NoUser,       \* the owner of a row that has not been inserted yet
  MaxTickets,   \* bound: rows the Tickets table may hold
  Main,         \* the coroutine that handles staff commands one by one
  GrpcCalls,    \* the coroutines the gRPC server schedules, all concurrent
  Worlds        \* do crashes fall between two statements of one segment too
                \* ("mid-crash"), or at awaits only?

ASSUME TicketDeskAssumption ==
  /\ MaxTickets \in Nat
  /\ NoUser \notin Users
  /\ Main \notin GrpcCalls
  /\ Worlds \subseteq SUBSET {"mid-crash"}

Tickets == 1..MaxTickets
Callers == GrpcCalls \cup {Main}

NoTicket == 0

\* "none" is a row that has not been inserted yet.
Status == {"none", "open", "closed", "deleted"}

\* A cached Ticket object: the fields of the row as they were read or last
\* set on the object.  Which object it is matters to one reader only, the
\* raise that will set the room of the object it holds: "raised" says the
\* cached object is that one.
Entry == [status : Status, room : BOOLEAN, raised : BOOLEAN]
NoEntry == [status |-> "none", room |-> FALSE, raised |-> FALSE]

\* What a coroutine awaits, and the ticket its local variable holds.
Await == [at : {"idle", "creating", "leaving"}, ticket : Tickets \cup {NoTicket}]
Idle == [at |-> "idle", ticket |-> NoTicket]

VARIABLES
  world,    \* what happens in this behaviour; it never changes
  status,   \* Tickets.status of each row
  owner,    \* Tickets.user_id
  room,     \* is Tickets.user_room_id set?
  current,  \* Users.current_ticket_id
  cache,    \* Ticket.ticket_cache: the object cached for each ticket id
  pending   \* what each coroutine awaits

db == <<status, owner, room, current>>
vars == <<world, status, owner, room, current, cache, pending>>

MidCrash == "mid-crash" \in world

Exists(t) == status[t] # "none"

TypeOK ==
  /\ world \in Worlds
  /\ status \in [Tickets -> Status]
  /\ owner \in [Tickets -> Users \cup {NoUser}]
  /\ room \in [Tickets -> BOOLEAN]
  /\ current \in [Users -> Tickets \cup {NoTicket}]
  /\ cache \in [Tickets -> Entry]
  /\ pending \in [Callers -> Await]

Init ==
  /\ world \in Worlds
  /\ status = [t \in Tickets |-> "none"]
  /\ owner = [t \in Tickets |-> NoUser]
  /\ room = [t \in Tickets |-> FALSE]
  /\ current = [u \in Users |-> NoTicket]
  /\ cache = [t \in Tickets |-> NoEntry]
  /\ pending = [c \in Callers |-> Idle]

-----------------------------------------------------------------------------
(* Looking a ticket up and setting its status.                             *)

Cached(t) == cache[t].status # "none"

\* The object get_existing returns: the cached one, else the row, loaded.
Found(t) ==
  IF Cached(t)
  THEN cache[t]
  ELSE [status |-> status[t], room |-> room[t], raised |-> FALSE]

\* get_existing leaves the object it returns in the cache.
Remember(t) == cache' = [cache EXCEPT ![t] = Found(t)]

\* Mutant: the cached object stays.
SetStatusKeepsCache(t, new) ==
  status' = [status EXCEPT ![t] = new] /\ UNCHANGED cache

\* set_status writes the row and drops the ticket from the cache, whichever
\* object is there: the next reader loads the row.
SetStatus(t, new) ==
  /\ status' = [status EXCEPT ![t] = new]
  /\ cache' = [cache EXCEPT ![t] = NoEntry]

-----------------------------------------------------------------------------
(* Handlers.                                                               *)

Free(c) == pending[c] = Idle

\* INSERT ... RETURNING id: the ids grow, the status column defaults to open.
Unused(t) == ~Exists(t) /\ \A s \in Tickets : s < t => Exists(s)

Insert(t, u) ==
  /\ status' = [status EXCEPT ![t] = "open"]
  /\ owner' = [owner EXCEPT ![t] = u]
  /\ UNCHANGED room

\* Mutant: a user with a current ticket keeps it.
RaiseBehind(u, t) ==
  /\ Free(Main) /\ Unused(t)
  /\ Insert(t, u)
  /\ current' = [current EXCEPT ![u] = IF @ = NoTicket THEN t ELSE @]
  /\ cache' = [cache EXCEPT ![t] =
                 [status |-> "open", room |-> FALSE, raised |-> TRUE]]
  /\ pending' = [pending EXCEPT ![Main] = [at |-> "creating", ticket |-> t]]

\* _raise_ticket up to the await of the room: whatever the user's current
\* ticket is, the new one replaces it.
Raise(u, t) ==
  /\ Free(Main) /\ Unused(t)
  /\ Insert(t, u)
  /\ current' = [current EXCEPT ![u] = t]
  /\ cache' = [cache EXCEPT ![t] =
                 [status |-> "open", room |-> FALSE, raised |-> TRUE]]
  /\ pending' = [pending EXCEPT ![Main] = [at |-> "creating", ticket |-> t]]

\* The homeserver created the room: the object the raise holds and the row
\* get it; the object may not be the cached one any more.
RoomCreated(t) ==
  /\ pending[Main] = [at |-> "creating", ticket |-> t]
  /\ room' = [room EXCEPT ![t] = TRUE]
  /\ cache' = [cache EXCEPT ![t] =
                 IF @.raised THEN [@ EXCEPT !.room = TRUE, !.raised = FALSE] ELSE @]
  /\ pending' = [pending EXCEPT ![Main] = Idle]
  /\ UNCHANGED <<status, owner, current>>

\* The homeserver refused the room: the ticket stays open without one.
RoomRefused(t) ==
  /\ pending[Main] = [at |-> "creating", ticket |-> t]
  /\ cache' = [cache EXCEPT ![t] = [@ EXCEPT !.raised = FALSE]]
  /\ pending' = [pending EXCEPT ![Main] = Idle]
  /\ UNCHANGED db

Closable(t) == Exists(t) /\ Found(t).status = "open"

\* Mutant: the user's current ticket stays.
CloseKeepsCurrent(c, t) ==
  /\ Free(c) /\ Closable(t)
  /\ SetStatus(t, "closed")
  /\ UNCHANGED <<owner, room, current, pending>>

\* Mutant: whatever the user's current ticket is, it is cleared.
CloseClearsAny(c, t) ==
  /\ Free(c) /\ Closable(t)
  /\ SetStatus(t, "closed")
  /\ current' = [current EXCEPT ![owner[t]] = NoTicket]
  /\ UNCHANGED <<owner, room, pending>>

Close(c, t) ==
  /\ Free(c) /\ Closable(t)
  /\ SetStatus(t, "closed")
  /\ current' = [current EXCEPT ![owner[t]] = IF @ = t THEN NoTicket ELSE @]
  /\ UNCHANGED <<owner, room, pending>>

\* Mutants: one of the checks is missing.
ReopenableUnlessOpen(t) ==
  Exists(t) /\ current[owner[t]] = NoTicket /\ Found(t).status # "open"

ReopenableForAnyone(t) == Exists(t) /\ Found(t).status = "closed"

Reopenable(t) ==
  /\ Exists(t)
  /\ current[owner[t]] = NoTicket
  /\ Found(t).status = "closed"

Reopen(c, t) ==
  /\ Free(c) /\ Reopenable(t)
  /\ SetStatus(t, "open")
  /\ current' = [current EXCEPT ![owner[t]] = t]
  /\ UNCHANGED <<owner, room, pending>>

Deletable(t) == Exists(t) /\ Found(t).status = "closed" /\ Found(t).room

\* delete_ticket_room up to the await of room_leave; the bot found itself
\* alone in the room.
StartDelete(c, t) ==
  /\ Free(c) /\ Deletable(t)
  /\ Remember(t)
  /\ pending' = [pending EXCEPT ![c] = [at |-> "leaving", ticket |-> t]]
  /\ UNCHANGED db

\* The bot left and forgot the room: the status is set without another look.
FinishDelete(c, t) ==
  /\ pending[c] = [at |-> "leaving", ticket |-> t]
  /\ SetStatus(t, "deleted")
  /\ pending' = [pending EXCEPT ![c] = Idle]
  /\ UNCHANGED <<owner, room, current>>

LeaveFailed(c, t) ==
  /\ pending[c] = [at |-> "leaving", ticket |-> t]
  /\ pending' = [pending EXCEPT ![c] = Idle]
  /\ UNCHANGED <<db, cache>>

\* A handler that looks the ticket up and changes no row of it: a claim, an
\* unassignment, a message in the ticket room; a close, reopening or deletion
\* that is refused for the status, the user's current ticket, or the people
\* in the room.
LookUp(c, t) ==
  /\ Free(c) /\ Exists(t)
  /\ Remember(t)
  /\ UNCHANGED <<status, owner, room, current, pending>>

-----------------------------------------------------------------------------
(* Crash and restart: the database stays, the memory is gone.              *)

Restarted ==
  /\ cache' = [t \in Tickets |-> NoEntry]
  /\ pending' = [c \in Callers |-> Idle]

Crash == Restarted /\ UNCHANGED db

\* Between the INSERT and the update of the user's current ticket.
CrashInRaise(u, t) ==
  /\ MidCrash /\ Free(Main) /\ Unused(t)
  /\ Insert(t, u) /\ UNCHANGED current
  /\ Restarted

\* Between the status and the user's current ticket.
CrashInClose(c, t) ==
  /\ MidCrash /\ Free(c) /\ Closable(t)
  /\ status' = [status EXCEPT ![t] = "closed"]
  /\ UNCHANGED <<owner, room, current>>
  /\ Restarted

CrashInReopen(c, t) ==
  /\ MidCrash /\ Free(c) /\ Reopenable(t)
  /\ status' = [status EXCEPT ![t] = "open"]
  /\ UNCHANGED <<owner, room, current>>
  /\ Restarted

-----------------------------------------------------------------------------
Command(c, t) ==
  \/ Close(c, t) \/ CrashInClose(c, t)
  \/ Reopen(c, t) \/ CrashInReopen(c, t)
  \/ StartDelete(c, t) \/ FinishDelete(c, t) \/ LeaveFailed(c, t)
  \/ LookUp(c, t)

Raising(u, t) == Raise(u, t) \/ CrashInRaise(u, t)

Step ==
  \/ \E u \in Users, t \in Tickets : Raising(u, t)
  \/ \E t \in Tickets : RoomCreated(t) \/ RoomRefused(t)
  \/ \E c \in Callers, t \in Tickets : Command(c, t)
  \/ Crash

Next == Step /\ UNCHANGED world

Spec == Init /\ [][Next]_vars

-----------------------------------------------------------------------------
(* Properties.                                                             *)

\* A reader that hits the cache sees the status of the row: every handler
\* decides on the cached object (bot_commands.close_ticket, reopen_ticket,
\* delete_ticket_room), and handlers that hold another object of the same
\* ticket write the row behind the cache's back.
CacheTellsStatus ==
  \A t \in Tickets : Cached(t) => cache[t].status = status[t]

\* The ticket a user's messages go to is not a closed one: close_ticket and
\* reopen_ticket change the status and Users.current_ticket_id together,
\* although in two statements, unless a crash falls between these.
CurrentIsLive ==
  ~MidCrash => \A u \in Users : LET t == current[u] IN
    t # NoTicket => owner[t] = u /\ status[t] \in {"open", "deleted"}

\* The refusal of reopen_ticket says the user "already has Ticket open": the
\* current ticket of a user is open.
CurrentIsOpen ==
  \A u \in Users : current[u] # NoTicket => status[current[u]] = "open"

\* Raising may leave older tickets of a user open behind the current one, and
\* these can be closed, or reopened in its place: whatever the order, the
\* messages of a user go to the last ticket raised while it is open, unless a
\* crash falls between the two rows.
LatestOpenIsCurrent ==
  ~MidCrash => \A t \in Tickets :
    status[t] = "open" /\ (\A s \in Tickets : s > t => owner[s] # owner[t])
      => current[owner[t]] = t

\* A ticket whose room was deleted never comes back: the bot has left and
\* forgotten the room.
DeletedForGood ==
  [][\A t \in Tickets : status[t] = "deleted" => status'[t] = "deleted"]_vars

\* "Ticket room must be in CLOSED state to be deleted" (delete_ticket_room).
DeletesClosedOnly ==
  [][\A t \in Tickets :
       status[t] # "deleted" /\ status'[t] = "deleted" => status[t] = "closed"]_vars

\* A user's messages stop going to a ticket only if that very ticket is closed,
\* or a new one is raised for the user: closing or reopening another ticket of
\* the user, by whatever caller and with whatever crash, does not reroute them.
RoutedUntilClosed ==
  [][\A u \in Users : LET t == current[u] IN t # NoTicket /\ current'[u] # t =>
       \/ status[t] = "open" /\ status'[t] = "closed"
       \/ \E s \in Tickets : ~Exists(s) /\ owner'[s] = u /\ current'[u] = s]_vars

-----------------------------------------------------------------------------
(* Refinement.                                                             *)

LateDelete == GrpcCalls # {}

Lifecycle == INSTANCE TicketLifecycle WITH cut <- MidCrash

\* The cached objects and the interleaved coroutines decide as if each
\* operation read and wrote the rows in one step; only the deletion, which
\* awaits in between, may land on a ticket that was reopened, and that only
\* when another coroutine runs; and only a crash within a segment separates
\* the status of a ticket from the user's current one.
ImplementsLifecycle == Lifecycle!Spec
=============================================================================
