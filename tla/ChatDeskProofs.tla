--------------------------- MODULE ChatDeskProofs ---------------------------
(***************************************************************************)
(* What holds of chats for every set of users, every number of rooms and   *)
(* of concurrent coroutines, wherever a crash falls.                       *)
(***************************************************************************)
EXTENDS ChatDesk, TLAPS

Over(c) == status[c] \in {"closed", "deleted"}

\* A chat that somebody closes or deletes is stored and is not the user's
\* current one, and kicking starts when it has been closed; only the sync
\* loop creates rooms, and a room being created has no row yet.
Handled(p) ==
  /\ pending[p].at = "creating" =>
       /\ p = Main
       /\ pending[p].chat \in Chats
       /\ owner[pending[p].chat] \in Users
       /\ status[pending[p].chat] = "none"
  /\ pending[p].at \in {"kicking", "leaving"} =>
       /\ pending[p].chat \in Chats
       /\ Exists(pending[p].chat)
       /\ current[owner[pending[p].chat]] # pending[p].chat
  /\ pending[p].at = "kicking" => Over(pending[p].chat)

AllHandled == \A p \in Callers : Handled(p)

\* The check works on rooms of chats that are over.
ChecksOver ==
  /\ \A c \in check.todo : Over(c)
  /\ check.leaving # NoChat => Over(check.leaving)

Owned == \A c \in Chats : Exists(c) => owner[c] \in Users

Inv ==
  /\ TypeOK /\ Owned
  /\ CacheTellsStatus /\ AllHandled /\ MarkedIsOver /\ ChecksOver
  /\ CurrentChatIsOpen

LEMMA ForgetsType ==
  ASSUME known \in [Chats -> BOOLEAN], NEW c \in Chats, Forgets(c)
  PROVE  known' \in [Chats -> BOOLEAN]
BY DEF Forgets

\* Chat.get_existing returns an object that tells the status of the row.
LEMMA FoundTells ==
  ASSUME Inv, NEW c \in Chats PROVE Found(c) = status[c]
BY DEF Inv, CacheTellsStatus, Found

LEMMA InitInv == Init => Inv
<1> SUFFICES ASSUME Init PROVE Inv
  OBVIOUS
<1> USE ChatDeskAssumption
<1>1. TypeOK
  BY DEF Init, TypeOK, Status, Await, Idle, Run, NoRun
<1> QED
  BY <1>1 DEF Init, Inv, Owned, Exists, CacheTellsStatus, AllHandled, Handled, MarkedIsOver,
     ChecksOver, CurrentChatIsOpen, Idle, NoRun

-----------------------------------------------------------------------------
(* The invariant is inductive; one lemma per group of actions.             *)

\* A restart forgets everything the invariant says of the memory.
LEMMA RestartInv ==
  ASSUME Inv, Restarted, TypeOK', Owned', CurrentChatIsOpen'
  PROVE  Inv'
BY DEF Inv, Restarted, CacheTellsStatus, AllHandled, Handled, MarkedIsOver, ChecksOver,
       Idle, NoRun

\* So does a step that only changes the view or the cache.
LEMMA FrameInv ==
  ASSUME Inv, TypeOK', CacheTellsStatus',
         UNCHANGED <<status, owner, current, marked, pending, check>>
  PROVE  Inv'
BY DEF Inv, Owned, Exists, AllHandled, Handled, Over, MarkedIsOver, ChecksOver,
       CurrentChatIsOpen

LEMMA IterateInv ==
  ASSUME Inv, UNCHANGED world, NEW run \in Run, NEW seen \in [Chats -> BOOLEAN], Iterate(run, seen),
         \A c \in run.todo : Over(c)
  PROVE  Inv'
<1> USE ChatDeskAssumption
<1>1. CASE Restarted /\ UNCHANGED db
  <2>1. TypeOK' /\ Owned' /\ CurrentChatIsOpen'
    BY <1>1 DEF Restarted, db, Inv, TypeOK, Owned, Exists, CurrentChatIsOpen, Status, Await,
       Idle, Run, NoRun
  <2> QED BY <1>1, <2>1, RestartInv
<1>2. ASSUME NEW c \in Stops(run, seen),
             check' = [run EXCEPT !.todo = Stops(run, seen) \ {c}, !.leaving = c],
             occupied' = seen, UNCHANGED <<db, cache, known, marked, pending>>
      PROVE  Inv'
  <2>1. /\ check' \in Run /\ check'.todo \subseteq run.todo
        /\ check'.leaving \in run.todo \cup {NoChat}
    BY <1>2 DEF Stops, Run
  <2>2. TypeOK'
    BY <1>2, <2>1 DEF Inv, TypeOK, db
  <2>3. ChecksOver'
    BY <1>2, <2>1 DEF ChecksOver, Over, db
  <2> QED
    BY <1>2, <2>2, <2>3 DEF Inv, db, Owned, Exists, CacheTellsStatus, AllHandled, Handled, Over,
       MarkedIsOver, CurrentChatIsOpen
<1>3. CASE /\ marked' = marked \ run.done /\ check' = NoRun /\ occupied' = seen
           /\ UNCHANGED <<db, cache, known, pending>>
  <2>1. TypeOK'
    BY <1>3 DEF Inv, TypeOK, db, Run, NoRun
  <2> QED
    BY <1>3, <2>1 DEF Inv, db, Owned, Exists, CacheTellsStatus, AllHandled, Handled, Over,
       MarkedIsOver, CurrentChatIsOpen, ChecksOver, NoRun
<1> QED BY <1>1, <1>2, <1>3 DEF Iterate

LEMMA StartCheckInv ==
  ASSUME Inv, UNCHANGED world, NEW seen \in [Chats -> BOOLEAN], StartCheck(seen)
  PROVE  Inv'
<1> DEFINE run == [keys |-> marked, todo |-> marked, done |-> {}, leaving |-> NoChat]
<1>1. run \in Run /\ \A c \in run.todo : Over(c)
  BY DEF Inv, TypeOK, Run, MarkedIsOver, Over
<1>2. Iterate(run, seen)
  BY DEF StartCheck
<1> HIDE DEF run
<1> QED BY <1>1, <1>2, IterateInv

\* Coroutines that go on awaiting keep what the invariant says of them when no
\* chat comes back and no chat in hand becomes current.
LEMMA HandledKept ==
  ASSUME AllHandled, UNCHANGED owner,
         pending \in [Callers -> Await],
         \A q \in Callers : pending'[q] = pending[q] \/ pending'[q].at = "idle",
         \A d \in Chats : status[d] # "none" => status'[d] # "none",
         \A d \in Chats : Over(d) => status'[d] \in {"closed", "deleted"},
         \A d \in Chats :
           status[d] # "none" /\ current[owner[d]] # d => current'[owner[d]] # d,
         \A q \in Callers :
           pending'[q].at = "creating" => status'[pending'[q].chat] = "none"
  PROVE  AllHandled'
<1> SUFFICES ASSUME NEW q \in Callers PROVE Handled(q)'
  BY DEF AllHandled
<1>1. CASE pending'[q].at = "idle"
  BY <1>1 DEF Handled
<1>2. CASE pending'[q] = pending[q]
  BY <1>2 DEF AllHandled, Handled, Exists, Over
<1> QED BY <1>1, <1>2

LEMMA RunGoesOn ==
  ASSUME NEW run \in Run, NEW c \in Chats,
         NEW r, r = [run EXCEPT !.leaving = NoChat, !.done = @ \cup {c}]
  PROVE  r \in Run /\ r.todo = run.todo /\ r.leaving = NoChat
BY DEF Run

\* What is known of the chat a coroutine has in hand.
LEMMA InHand ==
  ASSUME Inv, NEW p \in Callers, NEW c \in Chats
  PROVE  /\ Awaits(p, c, "leaving") => current[owner[c]] # c /\ Exists(c)
         /\ Awaits(p, c, "creating") => owner[c] \in Users /\ status[c] = "none"
BY DEF Inv, AllHandled, Handled, Awaits

LEMMA CallerStep ==
  ASSUME Inv, UNCHANGED world, NEW p \in Callers, NEW c \in Chats, ByCaller(p, c)
  PROVE  Inv'
<1> USE ChatDeskAssumption
<1> USE DEF Inv, TypeOK, Owned, AllHandled, Handled, Over, MarkedIsOver, ChecksOver,
            CurrentChatIsOpen, CacheTellsStatus, Exists, Status, Await, Run, NoRun,
            Idle, Free, Awaits, Resume, SetStatus, db, NoChat, Chats
<1>1. CASE LookUp(p, c)
  <2>1. cache' = [cache EXCEPT ![c] = status[c]]
    BY <1>1, FoundTells DEF LookUp, Remember
  <2>2. TypeOK'
    <3>1. cache' \in [Chats -> Status]
      BY <2>1
    <3> QED BY <1>1, <3>1 DEF LookUp
  <2>3. CacheTellsStatus'
    <3>1. UNCHANGED status
      BY <1>1 DEF LookUp
    <3>2. \A d \in Chats : cache'[d] = IF d = c THEN status[c] ELSE cache[d]
      BY <2>1
    <3> QED BY <3>1, <3>2
  <2> QED BY <1>1, <2>2, <2>3, FrameInv DEF LookUp
<1>2. CASE Close(p, c)
  <2>1. status[c] = "open"
    BY <1>2, FoundTells DEF Close
  <2>2. TypeOK' /\ Owned' /\ CacheTellsStatus' /\ MarkedIsOver' /\ ChecksOver'
    BY <1>2, <2>1 DEF Close
  <2>3. CurrentChatIsOpen'
    BY <1>2, <2>1 DEF Close
  <2>4. AllHandled'
    <3>1. /\ status' = [status EXCEPT ![c] = "closed"]
          /\ current' = [current EXCEPT ![owner[c]] = IF @ = c THEN NoChat ELSE @]
          /\ pending' = [pending EXCEPT ![p] = [at |-> "kicking", chat |-> c]]
          /\ UNCHANGED owner
      BY <1>2 DEF Close
    <3>2. SUFFICES ASSUME NEW q \in Callers PROVE Handled(q)'
      OBVIOUS
    <3>3. CASE q = p
      BY <2>1, <3>1, <3>3
    <3>4. CASE q # p
      BY <2>1, <3>1, <3>4
    <3> QED BY <3>3, <3>4
  <2> QED BY <2>2, <2>3, <2>4
<1>3. CASE CrashInClose(p, c)
  <2>1. status[c] = "open"
    BY <1>3, FoundTells DEF CrashInClose
  <2>2. TypeOK' /\ Owned' /\ CurrentChatIsOpen'
    BY <1>3, <2>1 DEF CrashInClose, Restarted
  <2>3. Restarted
    BY <1>3 DEF CrashInClose
  <2> QED BY <2>2, <2>3, RestartInv
<1>4. CASE KickedAll(p, c)
  <2>1. Over(c)
    BY <1>4 DEF KickedAll
  <2> QED BY <1>4, <2>1 DEF KickedAll
<1>5. CASE StartDelete(p, c)
  BY <1>5, FoundTells DEF StartDelete, Remember
<1>6. CASE LeftRoom(p, c)
  <2>1. current[owner[c]] # c /\ Exists(c)
    <3>1. Awaits(p, c, "leaving")
      BY <1>6 DEF LeftRoom
    <3> QED BY <3>1, InHand
  <2>2. /\ status' = [status EXCEPT ![c] = "deleted"]
        /\ UNCHANGED <<owner, current, marked, check>>
        /\ \A q \in Callers : pending'[q] \in {pending[q], Idle}
    BY <1>6 DEF LeftRoom
  <2>6. known' \in [Chats -> BOOLEAN]
    <3>1. Forgets(c)
      BY <1>6 DEF LeftRoom
    <3>2. known \in [Chats -> BOOLEAN]
      OBVIOUS
    <3> QED BY <3>1, <3>2, ForgetsType
  <2>3. TypeOK' /\ CacheTellsStatus'
    BY <1>6, <2>6 DEF LeftRoom
  <2>7. CurrentChatIsOpen'
    BY <2>1, <2>2
  <2>4. Owned' /\ MarkedIsOver' /\ ChecksOver' /\ CurrentChatIsOpen'
    BY <2>1, <2>2, <2>7
  <2>5. \A q \in Callers : pending[q].at = "creating" => pending[q].chat # c
    BY <2>1
  <2>9. AllHandled'
    <3>1. \A q \in Callers : pending'[q] = pending[q] \/ pending'[q].at = "idle"
      BY <2>2
    <3>2. \A d \in Chats : status'[d] = IF d = c THEN "deleted" ELSE status[d]
      BY <2>2
    <3>3. \A q \in Callers :
            pending'[q].at = "creating" => status'[pending'[q].chat] = "none"
      BY <2>5, <3>1, <3>2
    <3> QED BY <2>2, <3>1, <3>2, <3>3, HandledKept
  <2> QED BY <2>3, <2>4, <2>9
<1>7. CASE LeaveFailed(p, c)
  BY <1>7 DEF LeaveFailed
<1> QED BY <1>1, <1>2, <1>3, <1>4, <1>5, <1>6, <1>7 DEF ByCaller

LEMMA CreatingStep ==
  ASSUME Inv, UNCHANGED world, NEW c \in Chats, Creating(c)
  PROVE  Inv'
<1> USE ChatDeskAssumption
<1> USE DEF Inv, TypeOK, Owned, AllHandled, Handled, Over, MarkedIsOver, ChecksOver,
            CurrentChatIsOpen, CacheTellsStatus, Exists, Status, Await, Run, NoRun,
            Idle, Free, Awaits, Resume, db, NoChat, Chats
<1>0. Main \in Callers
  BY DEF Callers
<1>1. ASSUME NEW u \in Users, StartChat(u, c) PROVE Inv'
  BY <1>0, <1>1 DEF StartChat
<1>2. CASE ChatCreated(c)
  <2>1. owner[c] \in Users /\ status[c] = "none"
    <3>1. Awaits(Main, c, "creating")
      BY <1>2 DEF ChatCreated
    <3> QED BY <1>0, <3>1, InHand
  <2>2. TypeOK' /\ Owned' /\ CacheTellsStatus' /\ MarkedIsOver' /\ ChecksOver'
    BY <1>0, <1>2, <2>1 DEF ChatCreated
  <2>3. CurrentChatIsOpen'
    BY <1>2, <2>1 DEF ChatCreated
  <2>4. AllHandled'
    <3>1. /\ status' = [status EXCEPT ![c] = "open"]
          /\ current' = [current EXCEPT ![owner[c]] = c]
          /\ pending' = [pending EXCEPT ![Main] = Idle]
          /\ UNCHANGED owner
      BY <1>2 DEF ChatCreated
    <3>2. \A q \in Callers : /\ pending'[q] = pending[q] \/ pending'[q].at = "idle"
                             /\ pending'[q].at # "creating"
      BY <1>0, <3>1
    <3>3. \A d \in Chats : status'[d] = IF d = c THEN "open" ELSE status[d]
      BY <3>1
    <3>4. \A d \in Chats :
            status[d] # "none" /\ current[owner[d]] # d => current'[owner[d]] # d
      BY <2>1, <3>1
    <3> QED BY <2>1, <3>1, <3>2, <3>3, <3>4, HandledKept
  <2> QED BY <2>2, <2>3, <2>4
<1>3. CASE ChatRefused(c)
  BY <1>0, <1>3 DEF ChatRefused
<1>4. CASE CrashInCreate(c)
  <2>1. owner[c] \in Users /\ status[c] = "none"
    BY <1>0, <1>4 DEF CrashInCreate
  <2>2. TypeOK' /\ Owned' /\ CurrentChatIsOpen'
    BY <1>4, <2>1 DEF CrashInCreate, Restarted
  <2>3. Restarted
    BY <1>4 DEF CrashInCreate
  <2> QED BY <2>2, <2>3, RestartInv
<1> QED BY <1>1, <1>2, <1>3, <1>4 DEF Creating

LEMMA SyncedStep ==
  ASSUME Inv, UNCHANGED world, NEW c \in Chats, Synced(c) PROVE Inv'
<1> USE DEF Inv
<1>1. CASE LastLeft(c)
  <2>1. [occupied EXCEPT ![c] = FALSE] \in [Chats -> BOOLEAN]
    BY DEF TypeOK
  <2> QED BY <1>1, <2>1, StartCheckInv DEF LastLeft
<1>2. CASE RoomSynced(c) \/ SomeoneJoined(c) \/ LeftUnseen(c)
  <2>1. UNCHANGED <<status, owner, current, cache, marked, pending, check>>
    BY <1>2 DEF RoomSynced, SomeoneJoined, LeftUnseen, db
  <2>2. known' \in [Chats -> BOOLEAN] /\ occupied' \in [Chats -> BOOLEAN]
    BY <1>2 DEF RoomSynced, SomeoneJoined, LeftUnseen, TypeOK
  <2>3. TypeOK' /\ CacheTellsStatus'
    BY <2>1, <2>2 DEF TypeOK, CacheTellsStatus
  <2> QED BY <2>1, <2>3, FrameInv
<1> QED BY <1>1, <1>2 DEF Synced

LEMMA CheckingStep ==
  ASSUME Inv, UNCHANGED world, NEW c \in Chats, Checking(c) PROVE Inv'
<1> USE DEF Inv, TypeOK, Owned, AllHandled, Handled, Over, MarkedIsOver, ChecksOver,
            CurrentChatIsOpen, CacheTellsStatus, Exists, Status, Run, db, SetStatus, NoChat, Chats
<1>1. CASE CheckLeft(c)
  <2>1. Over(c)
    BY <1>1 DEF CheckLeft
  <2>2. /\ status' = [status EXCEPT ![c] = "deleted"]
        /\ cache' = [cache EXCEPT ![c] = "none"]
        /\ check' \in Run /\ check'.todo = check.todo /\ check'.leaving = NoChat
        /\ UNCHANGED <<owner, current, marked, pending>>
    <3>1. check \in Run /\ c \in Chats
      OBVIOUS
    <3>2. check' \in Run /\ check'.todo = check.todo /\ check'.leaving = NoChat
      BY <1>1, <3>1, RunGoesOn DEF CheckLeft
    <3> QED BY <1>1, <3>2 DEF CheckLeft
  <2>8. known' \in [Chats -> BOOLEAN]
    <3>1. Forgets(c)
      BY <1>1 DEF CheckLeft
    <3>2. known \in [Chats -> BOOLEAN]
      OBVIOUS
    <3> QED BY <3>1, <3>2, ForgetsType
  <2>3. TypeOK' /\ CacheTellsStatus'
    BY <1>1, <2>2, <2>8 DEF CheckLeft
  <2>4. Owned' /\ MarkedIsOver' /\ ChecksOver' /\ CurrentChatIsOpen'
    BY <2>1, <2>2
  <2>5. \A q \in Callers : pending[q].at = "creating" => pending[q].chat # c
    BY <2>1
  <2>6. \A d \in Chats : status'[d] = IF d = c THEN "deleted" ELSE status[d]
    BY <2>2
  <2>7. AllHandled'
    <3>1. \A q \in Callers :
            pending'[q].at = "creating" => status'[pending'[q].chat] = "none"
      BY <2>2, <2>5, <2>6
    <3> QED BY <2>2, <2>6, <3>1, HandledKept
  <2> QED BY <2>3, <2>4, <2>7
<1>2. CASE CheckLeaveFailed(c)
  <2>1. check' \in Run /\ check'.todo = check.todo /\ check'.leaving = NoChat
    <3>1. check \in Run
      OBVIOUS
    <3> QED BY <1>2, <3>1, RunGoesOn DEF CheckLeaveFailed
  <2> QED BY <1>2, <2>1 DEF CheckLeaveFailed
<1> QED BY <1>1, <1>2 DEF Checking

\* A lost connection ends what one coroutine does, and leaves the rows.
LEMMA DisconnectStep ==
  ASSUME Inv, UNCHANGED world, NEW p \in Callers, Disconnect(p) PROVE Inv'
<1> USE DEF Inv
<1>1. /\ UNCHANGED <<status, owner, current, cache, known, occupied, marked>>
      /\ pending' = [pending EXCEPT ![p] = Idle]
      /\ check' \in {check, NoRun}
  BY DEF Disconnect, Resume, db
<1>2. \A q \in Callers : pending'[q] \in {pending[q], Idle}
  BY <1>1 DEF TypeOK
<1>3. TypeOK'
  BY <1>1 DEF TypeOK, Await, Idle, Run, NoRun
<1>4. AllHandled'
  BY <1>1, <1>2 DEF AllHandled, Handled, Exists, Over, Idle
<1>5. ChecksOver'
  BY <1>1 DEF ChecksOver, Over, NoRun
<1> QED
  BY <1>1, <1>3, <1>4, <1>5 DEF Owned, Exists, CacheTellsStatus, MarkedIsOver,
     CurrentChatIsOpen

LEMMA NextInv == Inv /\ [Next]_vars => Inv'
<1> SUFFICES ASSUME Inv, [Next]_vars PROVE Inv'
  OBVIOUS
<1>0. UNCHANGED world
  BY DEF Next, vars
<1>1. CASE CheckResumes
  <2>1. check \in Run /\ occupied \in [Chats -> BOOLEAN] /\ \A c \in check.todo : Over(c)
    BY DEF Inv, TypeOK, ChecksOver
  <2> QED BY <1>0, <1>1, <2>1, IterateInv DEF CheckResumes
<1>2. CASE SomeoneLeft
  BY <1>0, <1>2, StartCheckInv DEF SomeoneLeft, Inv, TypeOK
<1>3. CASE Crash
  <2>1. TypeOK' /\ Owned' /\ CurrentChatIsOpen' /\ Restarted
    BY <1>0, <1>3, ChatDeskAssumption DEF Crash, Restarted, db, Inv, TypeOK, Owned, Exists,
       CurrentChatIsOpen, Status, Await, Idle, Run, NoRun
  <2> QED BY <2>1, RestartInv
<1>4. CASE UNCHANGED vars
  BY <1>4 DEF vars, state, Inv, TypeOK, Owned, AllHandled, Handled, Over, MarkedIsOver, ChecksOver,
     CurrentChatIsOpen, CacheTellsStatus, Exists
<1> QED
  BY <1>0, <1>1, <1>2, <1>3, <1>4, CallerStep, CreatingStep, SyncedStep, CheckingStep,
     DisconnectStep DEF Next, Step

\* The inductive invariant holds of every state of the chat desk.
THEOREM InvAlways == Spec => []Inv
BY InitInv, NextInv, PTL DEF Spec

\* The chat desk keeps its types.
THEOREM TypeCorrect == Spec => []TypeOK
<1>1. Inv => TypeOK
  BY DEF Inv
<1> QED BY <1>1, InvAlways, PTL

\* A user's messages never go to a chat that is closed or deleted, or to
\* another user's, even when a crash cuts a segment in two.
THEOREM CurrentChatOpen == Spec => []CurrentChatIsOpen
<1>1. Inv => CurrentChatIsOpen
  BY DEF Inv
<1> QED BY <1>1, InvAlways, PTL

\* Only rooms of chats that are over wait for deletion.
THEOREM MarkedOver == Spec => []MarkedIsOver
<1>1. Inv => MarkedIsOver
  BY DEF Inv
<1> QED BY <1>1, InvAlways, PTL

\* A cached chat tells the status of the row.
THEOREM ChatCacheCoherent == Spec => []CacheTellsStatus
<1>1. Inv => CacheTellsStatus
  BY DEF Inv
<1> QED BY <1>1, InvAlways, PTL

\* A chat only moves towards its end: no handler opens a stored chat, and the
\* chat a coroutine closes is open in the row as well as in the cache.
THEOREM ChatsEnd == Spec => ChatsOnlyEnd
<1> DEFINE A == \A c \in Chats :
                  /\ status[c] = "closed" => status'[c] \in {"closed", "deleted"}
                  /\ status[c] = "deleted" => status'[c] = "deleted"
<1>1. Inv /\ [Next]_vars => A
  <2> SUFFICES ASSUME Inv, [Next]_vars PROVE A
    OBVIOUS
  <2>0. Main \in Callers /\ status \in [Chats -> Status]
    BY DEF Callers, Inv, TypeOK
  <2>1. ASSUME NEW p \in Callers, NEW d \in Chats, ByCaller(p, d) PROVE A
    <3>1. CASE Close(p, d)
      BY <2>0, <3>1, FoundTells DEF Close, SetStatus
    <3>2. CASE LeftRoom(p, d)
      BY <2>0, <3>2 DEF LeftRoom, SetStatus
    <3> QED
      BY <2>0, <2>1, <3>1, <3>2 DEF ByCaller, LookUp, CrashInClose, KickedAll, StartDelete,
         LeaveFailed, db
  <2>2. ASSUME NEW d \in Chats, Creating(d) PROVE A
    <3>1. CASE ChatCreated(d) \/ CrashInCreate(d)
      <4>1. status[d] = "none"
        BY <2>0, <3>1 DEF ChatCreated, CrashInCreate, Awaits, Inv, AllHandled, Handled
      <4> QED BY <2>0, <3>1, <4>1 DEF ChatCreated, CrashInCreate
    <3> QED BY <2>0, <2>2, <3>1 DEF Creating, StartChat, ChatRefused, db
  <2>3. ASSUME NEW d \in Chats, Synced(d) PROVE A
    BY <2>0, <2>3 DEF Synced, RoomSynced, SomeoneJoined, LeftUnseen, LastLeft, StartCheck,
       Iterate, db
  <2>4. ASSUME NEW d \in Chats, Checking(d) PROVE A
    BY <2>0, <2>4 DEF Checking, CheckLeft, CheckLeaveFailed, SetStatus, db
  <2>5. CASE CheckResumes \/ SomeoneLeft \/ Crash
    BY <2>0, <2>5 DEF CheckResumes, SomeoneLeft, Crash, StartCheck, Iterate, db
  <2>6. ASSUME NEW p \in Callers, Disconnect(p) PROVE A
    BY <2>0, <2>6 DEF Disconnect, db
  <2>7. CASE UNCHANGED vars
    BY <2>0, <2>7 DEF vars, state
  <2> QED BY <2>1, <2>2, <2>3, <2>4, <2>5, <2>6, <2>7 DEF Next, Step
<1>2. Inv /\ [Next]_vars => [A]_vars
  BY <1>1
<1> QED BY <1>2, InvAlways, PTL DEF Spec, ChatsOnlyEnd
=============================================================================
