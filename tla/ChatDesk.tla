------------------------------ MODULE ChatDesk ------------------------------
(***************************************************************************)
(* The life of a chat: the Chats and Users rows, the chat cache, the rooms *)
(* as the client knows them, and the queue of rooms marked for deletion.   *)
(* A chat is its room: the room exists before the row.  Main runs the sync *)
(* loop: commands and member events one by one, and the client's view of   *)
(* the rooms changes only between them.  gRPC calls interleave at every    *)
(* await.                                                                  *)
(***************************************************************************)
EXTENDS Naturals

CONSTANTS
  Users,        \* rows of Users
  NoUser,       \* the owner of a row that has not been inserted yet
  MaxChats,     \* bound: chat rooms ever created
  Main,         \* the coroutine that runs the sync loop
  GrpcCalls,    \* the coroutines the gRPC server schedules, all concurrent
  MidCrash,     \* may a crash fall between two statements of one segment?
  MayFail,      \* may the process crash, or the homeserver refuse to let the bot leave?
  Worlds        \* is the connection kept, or may it be lost ("reconnect") and the
                \* bot log in again? in each behaviour one of several sets

ASSUME ChatDeskAssumption ==
  /\ MaxChats \in Nat
  /\ NoUser \notin Users
  /\ Main \notin GrpcCalls
  /\ MidCrash \in BOOLEAN /\ MayFail \in BOOLEAN
  /\ Worlds \subseteq SUBSET {"reconnect"}

Chats == 1..MaxChats
NoChat == 0
Callers == GrpcCalls \cup {Main}

Status == {"none", "open", "closed", "deleted"}

\* Where a coroutine awaits: for the room it creates, for the notices and
\* kicks of a close, for the room it leaves (after closing, or to delete).
Await == [at : {"idle", "creating", "kicking", "leaving"}, chat : Chats \cup {NoChat}]
Idle == [at |-> "idle", chat |-> NoChat]

VARIABLES
  world,     \* what happens in this behaviour; it never changes
  status,    \* Chats.status
  owner,     \* Chats.user_id, and the user a room is being created for
  current,   \* Users.current_chat_room_id
  cache,     \* Chat.chat_cache: status of the cached object, "none" if absent
  known,     \* is the room in client.rooms?
  occupied,  \* does the client see anyone but the bot joined or invited?
  marked,    \* keys of rooms_marked_for_deletion
  pending,   \* what each coroutine awaits
  check      \* the run of check_marked_deletion in progress, if any

db == <<status, owner, current>>
view == <<known, occupied>>
state == <<status, owner, current, cache, known, occupied, marked, pending, check>>
vars == <<world, state>>

Reconnects == "reconnect" \in world

\* A run of check_marked_deletion: the keys when the iteration began, those
\* still to visit, those to delete at its end, and the room it is leaving.
Run == [keys : SUBSET Chats, todo : SUBSET Chats, done : SUBSET Chats,
        leaving : Chats \cup {NoChat}]
NoRun == [keys |-> {}, todo |-> {}, done |-> {}, leaving |-> NoChat]

TypeOK ==
  /\ world \in Worlds
  /\ status \in [Chats -> Status]
  /\ owner \in [Chats -> Users \cup {NoUser}]
  /\ current \in [Users -> Chats \cup {NoChat}]
  /\ cache \in [Chats -> Status]
  /\ known \in [Chats -> BOOLEAN] /\ occupied \in [Chats -> BOOLEAN]
  /\ marked \in SUBSET Chats
  /\ pending \in [Callers -> Await]
  /\ check \in Run

Init ==
  /\ world \in Worlds
  /\ status = [c \in Chats |-> "none"]
  /\ owner = [c \in Chats |-> NoUser]
  /\ current = [u \in Users |-> NoChat]
  /\ cache = [c \in Chats |-> "none"]
  /\ known = [c \in Chats |-> FALSE]
  /\ occupied = [c \in Chats |-> FALSE]
  /\ marked = {}
  /\ pending = [p \in Callers |-> Idle]
  /\ check = NoRun

Exists(c) == status[c] # "none"
Alone(c) == known[c] /\ ~occupied[c]
Free(p) == pending[p] = Idle /\ (p = Main => check = NoRun)
Awaits(p, c, where) == pending[p] = [at |-> where, chat |-> c]
Resume(p) == pending' = [pending EXCEPT ![p] = Idle]

-----------------------------------------------------------------------------
(* Chat objects.                                                           *)

\* Mutant: a loaded object has the default status.
FoundOpen(c) == IF cache[c] # "none" THEN cache[c] ELSE "open"

\* The status of the object get_existing returns.
Found(c) == IF cache[c] # "none" THEN cache[c] ELSE status[c]

Remember(c) == cache' = [cache EXCEPT ![c] = Found(c)]

\* Mutant: the cached object stays.
SetStatusKeepsCache(c, new) ==
  status' = [status EXCEPT ![c] = new] /\ UNCHANGED cache

\* set_status writes the row and drops the chat from the cache.
SetStatus(c, new) ==
  /\ status' = [status EXCEPT ![c] = new]
  /\ cache' = [cache EXCEPT ![c] = "none"]

-----------------------------------------------------------------------------
(* Creating a chat.                                                        *)

\* _chat for a user without a current chat, up to the await of the room.
\* Rooms get fresh identifiers.
StartChat(u, c) ==
  /\ Free(Main)
  /\ current[u] = NoChat
  /\ owner[c] = NoUser /\ \A d \in Chats : d < c => owner[d] # NoUser
  /\ owner' = [owner EXCEPT ![c] = u]
  /\ pending' = [pending EXCEPT ![Main] = [at |-> "creating", chat |-> c]]
  /\ UNCHANGED <<status, current, cache, known, occupied, marked, check>>

\* The row is inserted, the object cached, and the chat becomes current.
ChatCreated(c) ==
  /\ Awaits(Main, c, "creating")
  /\ status' = [status EXCEPT ![c] = "open"]
  /\ cache' = [cache EXCEPT ![c] = "open"]
  /\ current' = [current EXCEPT ![owner[c]] = c]
  /\ Resume(Main)
  /\ UNCHANGED <<owner, known, occupied, marked, check>>

ChatRefused(c) ==
  /\ MayFail
  /\ Awaits(Main, c, "creating")
  /\ Resume(Main)
  /\ UNCHANGED <<db, cache, known, occupied, marked, check>>

\* A claim, an unassignment, a message in the room, or a close that is
\* refused looks the chat up.
LookUp(p, c) ==
  /\ Free(p) /\ Exists(c)
  /\ Remember(c)
  /\ UNCHANGED <<db, known, occupied, marked, pending, check>>

-----------------------------------------------------------------------------
(* Closing and deleting a chat.                                            *)

\* Mutant: the status is forgotten.
CloseKeepsStatus(p, c) ==
  /\ Free(p) /\ Exists(c) /\ Found(c) = "open"
  /\ current' = [current EXCEPT ![owner[c]] = IF @ = c THEN NoChat ELSE @]
  /\ pending' = [pending EXCEPT ![p] = [at |-> "kicking", chat |-> c]]
  /\ UNCHANGED <<status, cache, owner, known, occupied, marked, check>>

\* close_chat up to its first await: the user's current chat, then the status.
Close(p, c) ==
  /\ Free(p) /\ Exists(c) /\ Found(c) = "open"
  /\ current' = [current EXCEPT ![owner[c]] = IF @ = c THEN NoChat ELSE @]
  /\ SetStatus(c, "closed")
  /\ pending' = [pending EXCEPT ![p] = [at |-> "kicking", chat |-> c]]
  /\ UNCHANGED <<owner, known, occupied, marked, check>>

\* Everybody has been kicked.  If the client sees the bot alone it leaves the
\* room; if it sees someone the room is marked; a room the client does not
\* know is left to be deleted by hand.
KickedAll(p, c) ==
  /\ Awaits(p, c, "kicking")
  /\ pending' = [pending EXCEPT ![p] =
                   IF Alone(c) THEN [at |-> "leaving", chat |-> c] ELSE Idle]
  /\ marked' = IF known[c] /\ occupied[c] THEN marked \cup {c} ELSE marked
  /\ UNCHANGED <<db, cache, known, occupied, check>>

\* delete_chat_room up to the await of room_leave: any chat that is not the
\* user's current one.
StartDelete(p, c) ==
  /\ Free(p) /\ Exists(c)
  /\ current[owner[c]] # c
  /\ Alone(c)
  /\ Remember(c)
  /\ pending' = [pending EXCEPT ![p] = [at |-> "leaving", chat |-> c]]
  /\ UNCHANGED <<db, known, occupied, marked, check>>

\* The bot left the room and forgot it.  Only forgetting takes it out of
\* client.rooms, and delete_room merely logs that the homeserver refused.
Forgets(c) ==
  \/ known' = [known EXCEPT ![c] = FALSE]
  \/ MayFail /\ UNCHANGED known

LeftRoom(p, c) ==
  /\ Awaits(p, c, "leaving")
  /\ SetStatus(c, "deleted")
  /\ Forgets(c)
  /\ Resume(p)
  /\ UNCHANGED <<owner, current, occupied, marked, check>>

LeaveFailed(p, c) ==
  /\ MayFail
  /\ Awaits(p, c, "leaving")
  /\ Resume(p)
  /\ UNCHANGED <<db, cache, known, occupied, marked, check>>

-----------------------------------------------------------------------------
(* Crash and restart.                                                      *)

\* The memory is gone; the client learns the rooms again by syncing.
Restarted ==
  /\ cache' = [c \in Chats |-> "none"]
  /\ known' = [c \in Chats |-> FALSE]
  /\ occupied' = [c \in Chats |-> FALSE]
  /\ marked' = {}
  /\ pending' = [p \in Callers |-> Idle]
  /\ check' = NoRun

Crash == MayFail /\ Restarted /\ UNCHANGED db

\* The connection is lost in a request of p.  The exception ends what p does: a
\* gRPC call fails, and the main loop leaves its callbacks and logs in again
\* with the cache, the marks and the rooms it had.
Disconnect(p) ==
  /\ Reconnects /\ ~Free(p)
  /\ Resume(p)
  /\ check' = IF p = Main THEN NoRun ELSE check
  /\ UNCHANGED <<db, cache, known, occupied, marked>>

\* The rest of that sync is not handled: the state of a room arrives with the
\* first sync after the login, and no event that would start a check.
LeftUnseen(c) ==
  /\ Reconnects /\ Free(Main)
  /\ known[c] /\ occupied[c]
  /\ occupied' = [occupied EXCEPT ![c] = FALSE]
  /\ UNCHANGED <<db, cache, known, marked, pending, check>>

\* Between the INSERT and the update of the user's current chat.
CrashInCreate(c) ==
  /\ MidCrash /\ Awaits(Main, c, "creating")
  /\ status' = [status EXCEPT ![c] = "open"]
  /\ UNCHANGED <<owner, current>>
  /\ Restarted

\* Mutant: the status is written first.
CrashInCloseSwapped(p, c) ==
  /\ MidCrash /\ Free(p) /\ Exists(c) /\ Found(c) = "open"
  /\ status' = [status EXCEPT ![c] = "closed"]
  /\ UNCHANGED <<current, owner>>
  /\ Restarted

\* Between the user's current chat and the status.
CrashInClose(p, c) ==
  /\ MidCrash /\ Free(p) /\ Exists(c) /\ Found(c) = "open"
  /\ current' = [current EXCEPT ![owner[c]] = IF @ = c THEN NoChat ELSE @]
  /\ UNCHANGED <<status, owner>>
  /\ Restarted

-----------------------------------------------------------------------------
(* check_marked_deletion, from one await to the next.                      *)

\* The iteration passes over a room with people in it.  It stops at an empty
\* one, which the bot leaves, and at one the client does not know.
Stops(run, seen) == {c \in run.todo : ~(known[c] /\ seen[c])}

\* Python refuses to go on iterating over a dictionary that has grown, and the
\* notice about an unknown room names the room of None.  The exception ends the
\* sync loop and with it the process.
Grown(run) == marked # run.keys
Raises(run) == Grown(run) \/ \E c \in run.todo : ~known[c]

\* The iteration goes on through run, seeing the rooms as in seen.
Iterate(run, seen) ==
  \/ /\ Raises(run)
     /\ Restarted /\ UNCHANGED db
  \/ \E c \in Stops(run, seen) :
       /\ ~Grown(run) /\ known[c]
       /\ check' = [run EXCEPT !.todo = Stops(run, seen) \ {c}, !.leaving = c]
       /\ occupied' = seen
       /\ UNCHANGED <<db, cache, known, marked, pending>>
  \/ /\ ~Grown(run) /\ Stops(run, seen) = {}
     /\ marked' = marked \ run.done
     /\ check' = NoRun
     /\ occupied' = seen
     /\ UNCHANGED <<db, cache, known, pending>>

StartCheck(seen) ==
  Iterate([keys |-> marked, todo |-> marked, done |-> {}, leaving |-> NoChat], seen)

CheckResumes ==
  /\ check # NoRun /\ check.leaving = NoChat
  /\ Iterate(check, occupied)

CheckLeft(c) ==
  /\ c = check.leaving
  /\ SetStatus(c, "deleted")
  /\ Forgets(c)
  /\ check' = [check EXCEPT !.leaving = NoChat, !.done = @ \cup {c}]
  /\ UNCHANGED <<owner, current, occupied, marked, pending>>

\* Mutant: the room stays in the queue, and nothing looks at it again.
CheckLeaveFailedKeeps(c) ==
  /\ MayFail
  /\ c = check.leaving
  /\ check' = [check EXCEPT !.leaving = NoChat]
  /\ UNCHANGED <<db, cache, known, occupied, marked, pending>>

\* A room the bot could not leave is taken off the queue all the same.
CheckLeaveFailed(c) ==
  /\ MayFail
  /\ c = check.leaving
  /\ check' = [check EXCEPT !.leaving = NoChat, !.done = @ \cup {c}]
  /\ UNCHANGED <<db, cache, known, occupied, marked, pending>>

-----------------------------------------------------------------------------
(* What the sync brings, while Main handles nothing else.                  *)

RoomSynced(c) ==
  /\ Free(Main) /\ status[c] \in {"open", "closed"} /\ ~known[c]
  /\ known' = [known EXCEPT ![c] = TRUE]
  /\ \E b \in BOOLEAN : occupied' = [occupied EXCEPT ![c] = b]
  /\ UNCHANGED <<db, cache, marked, pending, check>>

\* Someone was invited or joined.
SomeoneJoined(c) ==
  /\ Free(Main) /\ Alone(c)
  /\ occupied' = [occupied EXCEPT ![c] = TRUE]
  /\ UNCHANGED <<db, cache, known, marked, pending, check>>

\* The last one left or was kicked; the member callback starts a check.
LastLeft(c) ==
  /\ Free(Main) /\ known[c] /\ occupied[c]
  /\ StartCheck([occupied EXCEPT ![c] = FALSE])

\* Someone left a room that is not empty yet, or any other room.
SomeoneLeft == Free(Main) /\ StartCheck(occupied)

-----------------------------------------------------------------------------
ByCaller(p, c) ==
  \/ LookUp(p, c)
  \/ Close(p, c) \/ CrashInClose(p, c) \/ KickedAll(p, c)
  \/ StartDelete(p, c) \/ LeftRoom(p, c) \/ LeaveFailed(p, c)

Creating(c) ==
  \/ \E u \in Users : StartChat(u, c)
  \/ ChatCreated(c) \/ ChatRefused(c) \/ CrashInCreate(c)

Synced(c) == RoomSynced(c) \/ SomeoneJoined(c) \/ LastLeft(c) \/ LeftUnseen(c)

Checking(c) == CheckLeft(c) \/ CheckLeaveFailed(c)

Step ==
  \/ \E p \in Callers, c \in Chats : ByCaller(p, c)
  \/ \E c \in Chats : Creating(c) \/ Synced(c) \/ Checking(c)
  \/ CheckResumes
  \/ SomeoneLeft
  \/ \E p \in Callers : Disconnect(p)
  \/ Crash

Next == Step /\ UNCHANGED world

Spec == Init /\ [][Next]_vars

\* The homeserver answers every request and the loop resumes every coroutine.
\* Nobody has to leave a room: a kick may be refused, and close_chat kicks only
\* those who have a row.
Fairness ==
  /\ \A p \in Callers, c \in Chats :
       WF_state(KickedAll(p, c)) /\ WF_state(LeftRoom(p, c))
  /\ \A c \in Chats : WF_state(ChatCreated(c)) /\ WF_state(CheckLeft(c))
  /\ WF_state(CheckResumes)

FairSpec == Spec /\ Fairness

-----------------------------------------------------------------------------
(* Properties.                                                             *)

\* A cache hit tells the status of the row (close_chat decides on it).
CacheTellsStatus ==
  \A c \in Chats : cache[c] # "none" => cache[c] = status[c]

\* The chat a user's messages go to is the user's own and open, wherever a
\* crash falls: close_chat clears Users.current_chat_room_id before it writes
\* the status, and only chats that are not current are deleted.
CurrentChatIsOpen ==
  \A u \in Users : LET c == current[u] IN
    c # NoChat => owner[c] = u /\ status[c] = "open"

\* Only rooms of chats that are over wait to be deleted.
MarkedIsOver == \A c \in marked : status[c] \in {"closed", "deleted"}

\* A chat never comes back: nothing reopens one, and its room is gone when it
\* is deleted.
ChatsOnlyEnd ==
  [][\A c \in Chats :
       /\ status[c] = "closed" => status'[c] \in {"closed", "deleted"}
       /\ status[c] = "deleted" => status'[c] = "deleted"]_vars

\* The bot does not stay for ever in a marked room once it sees itself alone
\* there: the event that emptied the room has started the check that visits it.
\* It may be unable to leave, or the process may end and forget the mark; and
\* the connection is kept, as of who leaves before a new login no event comes.
MarksDrain ==
  \A c \in Chats :
    ~Reconnects /\ c \in marked /\ Alone(c) ~> c \notin marked \/ ~known[c]

\* The same over a lost connection.
AllMarksDrain ==
  \A c \in Chats : c \in marked /\ Alone(c) ~> c \notin marked \/ ~known[c]

\* "Auto-delete room after close" (close_chat): a chat whose room was marked for
\* deletion is deleted when everybody has left for good.
MarkedIsDeleted ==
  \A c \in Chats : <>(c \in marked) /\ <>[]Alone(c) => <>(status[c] = "deleted")
=============================================================================
