---------------------------- MODULE KeyRecovery -----------------------------
(***************************************************************************)
(* Messages that arrive before the key to read them.  decryption_failure   *)
(* stores such an event; room_key, the callback for keys, takes the stored *)
(* events of the session, and hands each one to the message callback.      *)
(* Handling a message may sync (MessagingHandler, _fetch_room_state), and  *)
(* a sync runs the callbacks of what it brings: they nest.                 *)
(***************************************************************************)
EXTENDS Naturals, Sequences, FiniteSets

CONSTANTS
  Events, Sessions,
  SessionOf,     \* the session that encrypts each event
  Texts,         \* the events that are RoomMessageText
  IgnoreOld,     \* config.ignore_old_messages
  MayFail,       \* may a key open only later messages, or the process crash?
  Depth          \* bound: callbacks within callbacks

NoEvent == "no event"

ASSUME KeyRecoveryAssumption ==
  /\ SessionOf \in [Events -> Sessions]
  /\ Texts \subseteq Events /\ NoEvent \notin Events
  /\ IgnoreOld \in BOOLEAN /\ MayFail \in BOOLEAN
  /\ Depth \in Nat \ {0}

VARIABLES
  arrived,   \* events a sync has brought
  known,     \* sessions whose key the client has
  old,       \* events sent more than five minutes ago
  rows,      \* encrypted_events
  seen,      \* received_events, as far back as it is kept
  handled,   \* how often this process has processed each event: a history variable
  excused,   \* events given up, or not stored when the process ended, and
  stuck,     \* stored events no callback will take: history variables
  stack      \* the callbacks at work, innermost last

vars == <<arrived, known, old, rows, seen, handled, excused, stuck, stack>>

\* A callback has events to do; at one of them it reads the state of the room
\* before it looks at the event, or processes it.
Callback == [from : {"sync", "key"}, todo : SUBSET Events,
             event : Events \cup {NoEvent}, at : {"next", "reading", "processing"}]

TypeOK ==
  /\ arrived \subseteq Events /\ known \subseteq Sessions /\ old \subseteq Events
  /\ rows \subseteq Events /\ seen \subseteq Events
  /\ excused \subseteq Events /\ stuck \subseteq Events
  /\ handled \in [Events -> 0..2]
  /\ stack \in Seq(Callback) /\ Len(stack) <= Depth

Init ==
  /\ arrived = {} /\ known = {} /\ old = {}
  /\ rows = {} /\ seen = {} /\ excused = {} /\ stuck = {}
  /\ handled = [e \in Events |-> 0]
  /\ stack = << >>

Top == stack[Len(stack)]
Begin(from, todo) ==
  stack' = Append(stack, [from |-> from, todo |-> todo, event |-> NoEvent, at |-> "next"])
GoOn(callback) == stack' = [stack EXCEPT ![Len(stack)] = callback]
NextEvent == GoOn([Top EXCEPT !.event = NoEvent, !.at = "next"])

\* The sync loop waits for its callbacks, but for what they sync themselves.
Syncs == stack # << >> => Top.at = "processing" /\ Len(stack) < Depth

Readable(e) == SessionOf[e] \in known

\* Mutant: a session_id that is unique.
StoreOnePerSession(e) ==
  rows' = IF \E f \in rows : SessionOf[f] = SessionOf[e] THEN rows ELSE rows \cup {e}

\* The row of an event is unique: storing it again fails, and is logged.
StoreEncryptedEvent(e) == rows' = rows \cup {e}
RemoveEncryptedEvent(e) == rows' = rows \ {e}

-----------------------------------------------------------------------------
(* What a sync brings.  An initial sync brings an event again.             *)

DecryptionFailure(e) ==
  /\ Syncs /\ ~Readable(e)
  /\ arrived' = arrived \cup {e}
  /\ IF IgnoreOld /\ e \in old
     THEN excused' = excused \cup ({e} \ rows) /\ UNCHANGED rows
     ELSE StoreEncryptedEvent(e) /\ UNCHANGED excused
  /\ UNCHANGED <<known, old, seen, handled, stuck, stack>>

MessageArrives(e) ==
  /\ Syncs /\ Readable(e) /\ e \in Texts
  /\ arrived' = arrived \cup {e}
  /\ Begin("sync", {e})
  /\ UNCHANGED <<known, old, rows, seen, handled, excused, stuck>>

\* Mutant: fetchone instead of fetchall.
RoomKeyTakesOne(s) ==
  LET waiting == {e \in rows : SessionOf[e] = s}
  IN  /\ Syncs
      /\ known' = known \cup {s}
      /\ Begin("key", IF waiting = {} THEN {} ELSE {CHOOSE e \in waiting : TRUE})
      /\ UNCHANGED <<arrived, old, rows, seen, handled, excused, stuck>>

\* get_encrypted_events reads the rows of the session once.
RoomKey(s) ==
  /\ Syncs
  /\ known' = known \cup {s}
  /\ Begin("key", {e \in rows : SessionOf[e] = s})
  /\ UNCHANGED <<arrived, old, rows, seen, handled, excused, stuck>>

Ages(e) ==
  /\ old' = old \cup {e}
  /\ UNCHANGED <<arrived, known, rows, seen, handled, excused, stuck, stack>>

-----------------------------------------------------------------------------
(* The innermost callback.                                                 *)

AtNext == stack # << >> /\ Top.at = "next"

\* The row goes before the event is handled; decrypted_callback handles texts.
Decrypt(e) ==
  /\ AtNext /\ e \in Top.todo
  /\ Top.from = "key"
  /\ RemoveEncryptedEvent(e)
  /\ IF e \in Texts
     THEN /\ GoOn([Top EXCEPT !.todo = @ \ {e}, !.event = e, !.at = "reading"])
          /\ UNCHANGED excused
     ELSE /\ GoOn([Top EXCEPT !.todo = @ \ {e}])
          /\ excused' = excused \cup {e}
  /\ UNCHANGED <<arrived, known, old, seen, handled, stuck>>

\* The key is of a later message: the event stays where it is.
DecryptFails(e) ==
  /\ MayFail
  /\ AtNext /\ e \in Top.todo
  /\ Top.from = "key"
  /\ GoOn([Top EXCEPT !.todo = @ \ {e}])
  /\ stuck' = stuck \cup {e}
  /\ UNCHANGED <<arrived, known, old, rows, seen, handled, excused>>

Message(e) ==
  /\ AtNext /\ e \in Top.todo
  /\ Top.from = "sync"
  /\ GoOn([Top EXCEPT !.todo = @ \ {e}, !.event = e, !.at = "reading"])
  /\ UNCHANGED <<arrived, known, old, rows, seen, handled, excused, stuck>>

\* Mutant: every event is processed.
ShouldProcessAll(e) == e \in Events

ShouldProcess(e) == e \notin seen

\* message, after room_get_state.
IgnoreEvent ==
  /\ stack # << >> /\ Top.at = "reading"
  /\ IgnoreOld /\ Top.event \in old
  /\ excused' = excused \cup {Top.event}
  /\ NextEvent
  /\ UNCHANGED <<arrived, known, old, rows, seen, handled, stuck>>

SkipEvent ==
  /\ stack # << >> /\ Top.at = "reading"
  /\ ~(IgnoreOld /\ Top.event \in old) /\ ~ShouldProcess(Top.event)
  /\ NextEvent
  /\ UNCHANGED <<arrived, known, old, rows, seen, handled, excused, stuck>>

ProcessEvent ==
  /\ stack # << >> /\ Top.at = "reading"
  /\ ~(IgnoreOld /\ Top.event \in old) /\ ShouldProcess(Top.event)
  /\ handled[Top.event] < 2
  /\ seen' = seen \cup {Top.event}
  /\ handled' = [handled EXCEPT ![Top.event] = @ + 1]
  /\ GoOn([Top EXCEPT !.at = "processing"])
  /\ UNCHANGED <<arrived, known, old, rows, excused, stuck>>

Processed ==
  /\ stack # << >> /\ Top.at = "processing"
  /\ NextEvent
  /\ UNCHANGED <<arrived, known, old, rows, seen, handled, excused, stuck>>

Return ==
  /\ AtNext /\ Top.todo = {}
  /\ stack' = SubSeq(stack, 1, Len(stack) - 1)
  /\ UNCHANGED <<arrived, known, old, rows, seen, handled, excused, stuck>>

\* The process ends, perhaps by an exception of a callback.  The token of the
\* last sync is saved: a new process does not sync its events again by itself.
Crash ==
  /\ MayFail
  /\ seen' = {} /\ stack' = << >>
  /\ handled' = [e \in Events |-> 0]
  /\ excused' = excused \cup (arrived \ rows)
  /\ stuck' = stuck \cup {e \in rows : Readable(e)}
  /\ UNCHANGED <<arrived, known, old, rows>>

Step(e) == Decrypt(e) \/ DecryptFails(e) \/ Message(e)

Working ==
  \/ \E e \in Events : Decrypt(e) \/ Message(e)
  \/ IgnoreEvent \/ SkipEvent \/ ProcessEvent \/ Processed \/ Return

Next ==
  \/ \E e \in Events : DecryptionFailure(e) \/ MessageArrives(e) \/ Ages(e) \/ Step(e)
  \/ \E s \in Sessions : RoomKey(s)
  \/ IgnoreEvent \/ SkipEvent \/ ProcessEvent \/ Processed \/ Return
  \/ Crash

Spec == Init /\ [][Next]_vars

\* A callback that can go on does, and goes on more often than it syncs.
FairSpec ==
  /\ Spec
  /\ WF_vars(Working)
  /\ SF_vars(Processed)
  /\ WF_vars(Return)

-----------------------------------------------------------------------------
(* Properties.                                                             *)

\* No process processes an event twice, although a nested callback may find the
\* row of an event that an outer one has read, and a sync may bring it again.
ProcessedOnce == \A e \in Events : handled[e] <= 1

\* An event that arrived is processed, stored, at work, or excused: none is lost
\* between the table and the callbacks while the process runs.
Accounted ==
  \A e \in arrived :
    \/ handled[e] > 0 \/ e \in rows \cup excused
    \/ \E i \in DOMAIN stack : e \in stack[i].todo \cup {stack[i].event}

\* When its callback is over no event waits for a key the client has, unless the
\* key did not open it or the process ended.
NoneStranded ==
  stack = << >> => \A e \in rows : Readable(e) => e \in stuck

\* An event stored to be "decrypted if keys arrive" is processed after they do,
\* unless it is too old then, or stuck.
ProcessedIfKeysArrive ==
  \A e \in Texts :
    e \in rows /\ Readable(e) ~> handled[e] > 0 \/ e \in excused \cup stuck
=============================================================================
