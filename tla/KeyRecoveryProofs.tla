-------------------------- MODULE KeyRecoveryProofs --------------------------
(***************************************************************************)
(* No event is processed twice, lost or forgotten, for any events, any     *)
(* sessions, and callbacks nested as deep as they may be.                  *)
(***************************************************************************)
EXTENDS KeyRecovery, SequenceTheorems, TLAPS

\* A callback that is at an event has one, and processes only what was put in
\* received_events.
Sound(callback, processed) ==
  /\ callback.at = "next" => callback.event = NoEvent
  /\ callback.at # "next" => callback.event \in Events
  /\ callback.at = "processing" => callback.event \in processed

\* What was processed is what received_events has.
OnceSeen == \A e \in Events : handled[e] = IF e \in seen THEN 1 ELSE 0

\* An event is not lost as long as callbacks inside the i-th have it.
Kept(e, i) ==
  \/ e \in rows \cup excused \cup seen
  \/ \E j \in DOMAIN stack : j > i /\ e \in stack[j].todo \cup {stack[j].event}

\* What room_key has read need not be a row by now, but then somebody has it.
AllKept ==
  /\ \A e \in arrived : Kept(e, 0)
  /\ \A i \in DOMAIN stack :
       stack[i].from = "key" => \A e \in stack[i].todo : Kept(e, i)

\* A row that can be read is one some room_key has still to do.
Awaited ==
  \A e \in rows : Readable(e) =>
    \/ e \in stuck
    \/ \E i \in DOMAIN stack : stack[i].from = "key" /\ e \in stack[i].todo

Inv ==
  /\ TypeOK /\ OnceSeen /\ AllKept /\ Awaited
  /\ \A i \in DOMAIN stack : Sound(stack[i], seen)

LEMMA InitInv == Init => Inv
<1> SUFFICES ASSUME Init PROVE Inv
  OBVIOUS
<1>1. TypeOK
  BY KeyRecoveryAssumption DEF Init, TypeOK
<1>2. OnceSeen /\ AllKept /\ Awaited /\ \A i \in DOMAIN stack : Sound(stack[i], seen)
  BY DEF Init, OnceSeen, AllKept, Awaited
<1> QED BY <1>1, <1>2 DEF Inv

\* Whoever is kept in the invariant's sense is accounted for.
LEMMA InvImplies == Inv => ProcessedOnce /\ Accounted /\ NoneStranded
<1> SUFFICES ASSUME Inv PROVE ProcessedOnce /\ Accounted /\ NoneStranded
  OBVIOUS
<1>1. ProcessedOnce
  BY DEF Inv, OnceSeen, ProcessedOnce
<1>2. ASSUME NEW e \in arrived
      PROVE  \/ handled[e] > 0 \/ e \in rows \cup excused
             \/ \E i \in DOMAIN stack : e \in stack[i].todo \cup {stack[i].event}
  <2>1. Kept(e, 0) /\ e \in Events
    BY <1>2 DEF Inv, AllKept, TypeOK
  <2>2. e \in seen => handled[e] > 0
    BY <2>1 DEF Inv, OnceSeen
  <2> QED BY <2>1, <2>2 DEF Kept
<1>3. NoneStranded
  BY DEF Inv, Awaited, NoneStranded
<1> QED BY <1>1, <1>2, <1>3 DEF Accounted

-----------------------------------------------------------------------------
(* The steps by what they do to the stack.                                 *)

LEMMA TopFacts ==
  ASSUME Inv, stack # << >>
  PROVE  /\ Len(stack) \in DOMAIN stack /\ Len(stack) \in Nat
         /\ \A i \in DOMAIN stack : i \in Nat /\ i > 0 /\ i <= Len(stack)
         /\ Top \in Callback /\ Top = stack[Len(stack)] /\ Sound(Top, seen)
BY DEF Inv, TypeOK, Top

\* The innermost callback goes on, and what it leaves behind is kept.
LEMMA TopStep ==
  ASSUME Inv, stack # << >>, NEW cb \in Callback, GoOn(cb),
         UNCHANGED <<arrived, known, old>>,
         rows' \subseteq rows, seen \subseteq seen', excused \subseteq excused',
         stuck \subseteq stuck',
         seen' \subseteq Events, excused' \subseteq Events, stuck' \subseteq Events,
         handled' \in [Events -> 0..2], OnceSeen', Sound(cb, seen'),
         cb.from = Top.from, cb.todo \subseteq Top.todo,
         \A e \in Top.todo \cup {Top.event} : e # NoEvent =>
           e \in cb.todo \cup {cb.event} \cup excused' \cup seen' \cup rows',
         \A e \in rows \ rows' : e \in {cb.event} \cup excused' /\ e \notin cb.todo,
         \A e \in Top.todo \ cb.todo : Top.from = "key" /\ e \in rows' => e \in stuck'
  PROVE  Inv'
<1> DEFINE n == Len(stack)
<1>1. /\ n \in DOMAIN stack /\ Top \in Callback /\ Top = stack[n] /\ Sound(Top, seen)
      /\ \A i \in DOMAIN stack : i \in Nat /\ i > 0 /\ i <= n
  BY TopFacts
<1>2. /\ stack' \in Seq(Callback) /\ Len(stack') = n /\ DOMAIN stack' = DOMAIN stack
      /\ stack'[n] = cb
      /\ \A i \in DOMAIN stack : i # n => stack'[i] = stack[i]
      /\ n \in Nat
  BY <1>1 DEF GoOn, Inv, TypeOK
<1> HIDE DEF n
<1>3. TypeOK'
  <2>1. Len(stack') <= Depth
    BY <1>2 DEF Inv, TypeOK, n
  <2>2. known' \subseteq Sessions /\ arrived' \subseteq Events /\ old' \subseteq Events
        /\ rows' \subseteq Events
    BY DEF Inv, TypeOK
  <2> QED BY <1>2, <2>1, <2>2 DEF TypeOK
<1>4. ASSUME NEW i \in DOMAIN stack' PROVE Sound(stack'[i], seen')
  <2>1. CASE i = n
    BY <1>2, <2>1 DEF Sound
  <2>2. CASE i # n
    BY <1>2, <1>4, <2>2 DEF Inv, Sound
  <2> QED BY <2>1, <2>2
\* What was kept by others than the callback itself still is.
<1>5. ASSUME NEW i \in Nat, i < n, NEW e \in Events, Kept(e, i) PROVE Kept(e, i)'
  <2>1. CASE e \in rows
    <3>1. e \in rows' \cup excused' \/ e = cb.event
      BY <2>1
    <3> QED BY <1>1, <1>2, <1>5, <3>1 DEF Kept
  <2>2. CASE e \in excused \cup seen
    BY <2>2 DEF Kept
  <2>3. ASSUME NEW j \in DOMAIN stack, j > i, e \in stack[j].todo \cup {stack[j].event}
        PROVE  Kept(e, i)'
    <3>1. CASE j = n
      <4>1. e \in Top.todo \cup {Top.event} /\ e # NoEvent
        BY <1>1, <2>3, <3>1, KeyRecoveryAssumption
      <4>2. e \in cb.todo \cup {cb.event} \cup excused' \cup seen' \cup rows'
        BY <4>1
      <4> QED BY <1>2, <2>3, <3>1, <4>2 DEF Kept
    <3>2. CASE j # n
      BY <1>2, <2>3, <3>2 DEF Kept
    <3> QED BY <3>1, <3>2
  <2> QED BY <1>5, <2>1, <2>2, <2>3 DEF Kept
<1>6. AllKept'
  <2>1. ASSUME NEW e \in arrived PROVE Kept(e, 0)'
    <3>1. Kept(e, 0) /\ e \in Events /\ 0 \in Nat /\ 0 < n
      BY <1>1, <2>1 DEF Inv, AllKept, TypeOK
    <3> QED BY <1>5, <3>1
  <2>2. ASSUME NEW i \in DOMAIN stack, stack'[i].from = "key", NEW e \in stack'[i].todo
        PROVE  Kept(e, i)'
    <3>1. CASE i = n
      <4>1. e \in Top.todo /\ Top.from = "key" /\ e \in cb.todo
        BY <1>2, <2>2, <3>1
      <4>2. Kept(e, n)
        BY <1>1, <4>1 DEF Inv, AllKept
      <4>3. e \in rows \cup excused \cup seen
        BY <1>1, <4>2 DEF Kept
      <4> QED BY <4>1, <4>3 DEF Kept
    <3>2. CASE i # n
      <4>1. stack'[i] = stack[i] /\ stack[i] \in Callback /\ i \in Nat /\ i < n
        BY <1>1, <1>2, <3>2 DEF Inv, TypeOK
      <4>2. Kept(e, i) /\ e \in Events
        BY <2>2, <4>1 DEF Inv, AllKept, Callback
      <4> QED BY <1>5, <4>1, <4>2
    <3> QED BY <3>1, <3>2
  <2> QED BY <1>2, <2>1, <2>2 DEF AllKept
<1>7. ASSUME NEW e \in rows', Readable(e)
      PROVE  \/ e \in stuck'
             \/ \E i \in DOMAIN stack' : stack'[i].from = "key" /\ e \in stack'[i].todo
  <2>1. CASE e \in stuck
    BY <2>1
  <2>2. ASSUME NEW i \in DOMAIN stack, stack[i].from = "key", e \in stack[i].todo
        PROVE  \/ e \in stuck'
               \/ \E k \in DOMAIN stack' : stack'[k].from = "key" /\ e \in stack'[k].todo
    <3>1. CASE i = n /\ e \notin cb.todo
      BY <1>1, <1>7, <2>2, <3>1
    <3>2. CASE i = n /\ e \in cb.todo
      BY <1>1, <1>2, <2>2, <3>2
    <3>3. CASE i # n
      BY <1>2, <2>2, <3>3
    <3> QED BY <3>1, <3>2, <3>3
  <2> QED BY <1>7, <2>1, <2>2 DEF Inv, Awaited
<1>8. Awaited'
  BY <1>7 DEF Awaited, Readable
<1> QED BY <1>3, <1>4, <1>6, <1>8 DEF Inv

\* A callback begins inside the others, or with none.
LEMMA BeginStep ==
  ASSUME Inv, Syncs, NEW from \in {"sync", "key"}, NEW todo \in SUBSET Events,
         Begin(from, todo), UNCHANGED <<old, rows, seen, handled, excused, stuck>>,
         arrived \subseteq arrived', arrived' \subseteq arrived \cup todo,
         known' \subseteq Sessions,
         from = "key" => todo \subseteq rows,
         \A e \in rows : SessionOf[e] \in known' =>
           SessionOf[e] \in known \/ (from = "key" /\ e \in todo)
  PROVE  Inv'
<1> DEFINE n == Len(stack)
           cb == [from |-> from, todo |-> todo, event |-> NoEvent, at |-> "next"]
<1>1. /\ cb \in Callback /\ cb.at = "next" /\ cb.event = NoEvent
      /\ cb.todo = todo /\ cb.from = from
  BY DEF Callback
<1>2. stack' = Append(stack, cb) /\ stack \in Seq(Callback)
  BY DEF Begin, Inv, TypeOK
<1> HIDE DEF cb
<1>3. /\ stack' \in Seq(Callback) /\ Len(stack') = n + 1 /\ n \in Nat
      /\ n + 1 \in DOMAIN stack' /\ stack'[n + 1] = cb
      /\ \A i \in DOMAIN stack : i \in DOMAIN stack' /\ stack'[i] = stack[i]
      /\ \A i \in DOMAIN stack : i \in Nat /\ i <= n
      /\ \A i \in DOMAIN stack' : i \in DOMAIN stack \/ i = n + 1
  BY <1>1, <1>2
<1>4. n + 1 <= Depth
  BY KeyRecoveryAssumption DEF Syncs, Inv, TypeOK
<1> HIDE DEF n
<1>5. TypeOK'
  BY <1>3, <1>4 DEF Inv, TypeOK
<1>6. \A i \in DOMAIN stack' : Sound(stack'[i], seen')
  BY <1>1, <1>3 DEF Inv, Sound
<1>7. ASSUME NEW e, NEW i \in Nat, Kept(e, i) PROVE Kept(e, i)'
  BY <1>3, <1>7 DEF Kept
<1>8. AllKept'
  <2>1. ASSUME NEW e \in arrived' PROVE Kept(e, 0)'
    <3>1. CASE e \in arrived
      BY <1>7, <3>1 DEF Inv, AllKept
    <3>2. CASE e \in todo
      BY <1>1, <1>3, <3>2 DEF Kept
    <3> QED BY <3>1, <3>2
  <2>2. ASSUME NEW i \in DOMAIN stack', stack'[i].from = "key", NEW e \in stack'[i].todo
        PROVE  Kept(e, i)'
    <3>1. CASE i \in DOMAIN stack
      BY <1>3, <1>7, <2>2, <3>1 DEF Inv, AllKept
    <3>2. CASE i = n + 1
      BY <1>1, <1>3, <2>2, <3>2 DEF Kept
    <3> QED BY <1>3, <3>1, <3>2
  <2> QED BY <2>1, <2>2 DEF AllKept
<1>9. ASSUME NEW e \in rows, SessionOf[e] \in known'
      PROVE  \/ e \in stuck
             \/ \E i \in DOMAIN stack' : stack'[i].from = "key" /\ e \in stack'[i].todo
  <2>1. CASE SessionOf[e] \in known
    BY <1>3, <2>1 DEF Inv, Awaited, Readable
  <2>2. CASE from = "key" /\ e \in todo
    BY <1>1, <1>3, <2>2
  <2> QED BY <1>9, <2>1, <2>2
<1>10. Awaited' /\ OnceSeen'
  BY <1>9 DEF Inv, Awaited, Readable, OnceSeen
<1> QED BY <1>5, <1>6, <1>8, <1>10 DEF Inv

\* A callback ends, which has nothing left.
LEMMA ReturnStep ==
  ASSUME Inv, Return PROVE Inv'
<1> DEFINE n == Len(stack)
<1>1. /\ stack # << >> /\ Top.todo = {} /\ Top.at = "next"
      /\ stack' = SubSeq(stack, 1, n - 1) /\ stack \in Seq(Callback)
      /\ UNCHANGED <<arrived, known, old, rows, seen, handled, excused, stuck>>
  BY DEF Return, AtNext, Inv, TypeOK
<1>2. Top = stack[n] /\ stack[n].event = NoEvent /\ stack[n].todo = {}
  BY <1>1, TopFacts DEF Sound
<1>3. /\ stack' \in Seq(Callback) /\ Len(stack') = n - 1 /\ n \in Nat
      /\ \A i \in DOMAIN stack' : i \in DOMAIN stack /\ stack'[i] = stack[i] /\ i \in Nat
      /\ \A i \in DOMAIN stack : i \in DOMAIN stack' \/ i = n
  <2>1. n \in Nat /\ n > 0 /\ DOMAIN stack = 1..n
    BY <1>1
  <2>2. /\ stack' \in Seq(Callback) /\ Len(stack') = n - 1
        /\ \A i \in 1..(n - 1) : stack'[i] = stack[i]
    BY <1>1, <2>1, SubSeqProperties
  <2>3. DOMAIN stack' = 1..(n - 1)
    BY <2>2
  <2> QED BY <2>1, <2>2, <2>3
<1> HIDE DEF n
<1>4. n <= Depth
  BY DEF Inv, TypeOK, n
<1>5. TypeOK'
  BY <1>1, <1>3, <1>4, KeyRecoveryAssumption DEF Inv, TypeOK
<1>6. \A i \in DOMAIN stack' : Sound(stack'[i], seen')
  BY <1>1, <1>3 DEF Inv, Sound
<1>7. ASSUME NEW e \in Events, NEW i \in Nat, Kept(e, i) PROVE Kept(e, i)'
  BY <1>1, <1>2, <1>3, <1>7, KeyRecoveryAssumption DEF Kept
<1>8. AllKept'
  <2>1. ASSUME NEW e \in arrived' PROVE Kept(e, 0)'
    BY <1>1, <1>7, <2>1 DEF Inv, AllKept, TypeOK
  <2>2. ASSUME NEW i \in DOMAIN stack', stack'[i].from = "key", NEW e \in stack'[i].todo
        PROVE  Kept(e, i)'
    <3>1. stack'[i] = stack[i] /\ i \in DOMAIN stack /\ i \in Nat /\ e \in Events
      BY <1>1, <1>3, <2>2 DEF Callback
    <3> QED BY <1>7, <2>2, <3>1 DEF Inv, AllKept
  <2> QED BY <2>1, <2>2 DEF AllKept
<1>9. Awaited' /\ OnceSeen'
  BY <1>1, <1>2, <1>3 DEF Inv, Awaited, Readable, OnceSeen
<1> QED BY <1>5, <1>6, <1>8, <1>9 DEF Inv

-----------------------------------------------------------------------------
(* The invariant is inductive.                                             *)

\* What a sync brings.
LEMMA SyncStep ==
  ASSUME Inv, NEW e \in Events,
         DecryptionFailure(e) \/ MessageArrives(e) \/ Ages(e)
  PROVE  Inv'
<1>1. CASE DecryptionFailure(e)
  <2>1. /\ UNCHANGED <<known, old, seen, handled, stuck, stack>>
        /\ arrived' = arrived \cup {e} /\ ~Readable(e)
        /\ \/ rows' = rows /\ excused' = excused \cup ({e} \ rows)
           \/ rows' = rows \cup {e} /\ excused' = excused
    BY <1>1 DEF DecryptionFailure, StoreEncryptedEvent
  <2>2. TypeOK'
    BY <2>1 DEF Inv, TypeOK
  <2>3. OnceSeen' /\ \A i \in DOMAIN stack' : Sound(stack'[i], seen')
    BY <2>1 DEF Inv, OnceSeen, Sound
  <2>4. Awaited'
    BY <2>1 DEF Inv, Awaited, Readable
  <2>5. ASSUME NEW i, NEW f, f = e \/ Kept(f, i) PROVE Kept(f, i)'
    BY <2>1, <2>5 DEF Kept
  <2>6. AllKept'
    BY <2>1, <2>5 DEF Inv, AllKept
  <2> QED BY <2>2, <2>3, <2>4, <2>6 DEF Inv
<1>2. CASE MessageArrives(e)
  <2>1. /\ Syncs /\ Begin("sync", {e}) /\ arrived' = arrived \cup {e}
        /\ UNCHANGED <<known, old, rows, seen, handled, excused, stuck>>
    BY <1>2 DEF MessageArrives
  <2>2. {e} \in SUBSET Events /\ known' \subseteq Sessions
    BY <2>1 DEF Inv, TypeOK
  <2> QED BY <2>1, <2>2, BeginStep
<1>3. CASE Ages(e)
  <2>1. UNCHANGED <<arrived, known, rows, seen, handled, excused, stuck, stack>>
        /\ old' = old \cup {e}
    BY <1>3 DEF Ages
  <2>2. TypeOK'
    BY <2>1 DEF Inv, TypeOK
  <2>3. OnceSeen' /\ (\A i \in DOMAIN stack' : Sound(stack'[i], seen')) /\ Awaited'
    BY <2>1 DEF Inv, OnceSeen, Sound, Awaited, Readable
  <2>4. AllKept'
    BY <2>1 DEF Inv, AllKept, Kept
  <2> QED BY <2>2, <2>3, <2>4 DEF Inv
<1> QED BY <1>1, <1>2, <1>3

LEMMA KeyStep ==
  ASSUME Inv, NEW s \in Sessions, RoomKey(s) PROVE Inv'
<1> DEFINE todo == {e \in rows : SessionOf[e] = s}
<1>1. /\ Syncs /\ Begin("key", todo) /\ known' = known \cup {s}
      /\ UNCHANGED <<arrived, old, rows, seen, handled, excused, stuck>>
  BY DEF RoomKey
<1>2. /\ todo \in SUBSET Events /\ todo \subseteq rows /\ known' \subseteq Sessions
      /\ \A e \in rows : SessionOf[e] \in known' => SessionOf[e] \in known \/ e \in todo
  BY <1>1 DEF Inv, TypeOK
<1> HIDE DEF todo
<1> QED BY <1>1, <1>2, BeginStep

\* A callback takes an event it has still to do.
LEMMA TakeStep ==
  ASSUME Inv, NEW e \in Events, Decrypt(e) \/ DecryptFails(e) \/ Message(e)
  PROVE  Inv'
<1>0. /\ stack # << >> /\ Top \in Callback /\ Top.at = "next" /\ Top.event = NoEvent
      /\ e \in Top.todo /\ e # NoEvent
  BY TopFacts, KeyRecoveryAssumption DEF Decrypt, DecryptFails, Message, AtNext, Sound
<1> DEFINE taken == [Top EXCEPT !.todo = @ \ {e}, !.event = e, !.at = "reading"]
           left == [Top EXCEPT !.todo = @ \ {e}]
<1>1. /\ taken \in Callback /\ taken.from = Top.from /\ taken.todo = Top.todo \ {e}
      /\ taken.event = e /\ taken.at = "reading"
      /\ left \in Callback /\ left.from = Top.from /\ left.todo = Top.todo \ {e}
      /\ left.event = NoEvent /\ left.at = "next"
  BY <1>0 DEF Callback
<1>2. Sound(taken, seen') /\ Sound(left, seen')
  BY <1>1 DEF Sound
<1>3. UNCHANGED <<seen, handled>> => OnceSeen'
  BY DEF Inv, OnceSeen
<1>4. CASE Decrypt(e) /\ e \in Texts
  <2>1. /\ GoOn(taken) /\ rows' = rows \ {e}
        /\ UNCHANGED <<arrived, known, old, seen, handled, excused, stuck>>
    BY <1>4 DEF Decrypt, RemoveEncryptedEvent
  <2> HIDE DEF taken, left
  <2> QED BY <1>0, <1>1, <1>2, <1>3, <2>1, TopStep DEF Inv, TypeOK
<1>5. CASE Decrypt(e) /\ e \notin Texts
  <2>1. /\ GoOn(left) /\ rows' = rows \ {e} /\ excused' = excused \cup {e}
        /\ UNCHANGED <<arrived, known, old, seen, handled, stuck>>
    BY <1>5 DEF Decrypt, RemoveEncryptedEvent
  <2> HIDE DEF taken, left
  <2> QED BY <1>0, <1>1, <1>2, <1>3, <2>1, TopStep DEF Inv, TypeOK
<1>6. CASE DecryptFails(e)
  <2>1. /\ GoOn(left) /\ stuck' = stuck \cup {e} /\ Top.from = "key"
        /\ UNCHANGED <<arrived, known, old, rows, seen, handled, excused>>
    BY <1>6 DEF DecryptFails
  \* The row is there, or a callback inside has taken it and is done.
  <2>2. e \in rows \cup excused \cup seen
    BY <1>0, <2>1, TopFacts DEF Inv, AllKept, Kept
  <2> HIDE DEF taken, left
  <2> QED BY <1>0, <1>1, <1>2, <1>3, <2>1, <2>2, TopStep DEF Inv, TypeOK
<1>7. CASE Message(e)
  <2>1. /\ GoOn(taken) /\ Top.from = "sync"
        /\ UNCHANGED <<arrived, known, old, rows, seen, handled, excused, stuck>>
    BY <1>7 DEF Message
  <2>2. Top.from # "key"
    BY <2>1
  <2> HIDE DEF taken, left
  <2> QED BY <1>0, <1>1, <1>2, <1>3, <2>1, <2>2, TopStep DEF Inv, TypeOK
<1> QED BY <1>4, <1>5, <1>6, <1>7

\* A callback is done with the event it is at, or begins to process it.
LEMMA EventStep ==
  ASSUME Inv, IgnoreEvent \/ SkipEvent \/ ProcessEvent \/ Processed
  PROVE  Inv'
<1>0. stack # << >> /\ Top \in Callback /\ Top.at # "next" /\ Top.event \in Events
  BY TopFacts DEF IgnoreEvent, SkipEvent, ProcessEvent, Processed, Sound
<1> DEFINE event == Top.event
           left == [Top EXCEPT !.event = NoEvent, !.at = "next"]
           taken == [Top EXCEPT !.at = "processing"]
<1>1. /\ left \in Callback /\ left.from = Top.from /\ left.todo = Top.todo
      /\ left.event = NoEvent /\ left.at = "next"
      /\ taken \in Callback /\ taken.from = Top.from /\ taken.todo = Top.todo
      /\ taken.event = Top.event /\ taken.at = "processing"
  BY <1>0 DEF Callback
<1>2. Sound(left, seen')
  BY <1>1 DEF Sound
<1>3. UNCHANGED <<seen, handled>> => OnceSeen'
  BY DEF Inv, OnceSeen
<1>4. CASE IgnoreEvent
  <2>1. /\ GoOn(left) /\ excused' = excused \cup {Top.event}
        /\ UNCHANGED <<arrived, known, old, rows, seen, handled, stuck>>
    BY <1>4 DEF IgnoreEvent, NextEvent
  <2> HIDE DEF taken, left
  <2> QED BY <1>0, <1>1, <1>2, <1>3, <2>1, TopStep DEF Inv, TypeOK
<1>5. CASE SkipEvent \/ Processed
  <2>1. /\ GoOn(left)
        /\ UNCHANGED <<arrived, known, old, rows, seen, handled, excused, stuck>>
    BY <1>5 DEF SkipEvent, Processed, NextEvent
  <2>2. Top.event \in seen
    BY <1>5, TopFacts DEF SkipEvent, Processed, ShouldProcess, Sound
  <2> HIDE DEF taken, left
  <2> QED BY <1>0, <1>1, <1>2, <1>3, <2>1, <2>2, TopStep DEF Inv, TypeOK
<1>6. CASE ProcessEvent
  <2>1. /\ GoOn(taken) /\ seen' = seen \cup {event} /\ event \notin seen /\ event \in Events
        /\ handled' = [handled EXCEPT ![event] = @ + 1]
        /\ UNCHANGED <<arrived, known, old, rows, excused, stuck>>
    BY <1>0, <1>6 DEF ProcessEvent, ShouldProcess
  <2> HIDE DEF event
  <2>2. OnceSeen' /\ handled' \in [Events -> 0..2]
    BY <2>1 DEF Inv, OnceSeen, TypeOK
  <2>3. Sound(taken, seen')
    BY <1>0, <1>1, <2>1 DEF Sound, event
  <2> HIDE DEF taken, left
  <2> QED BY <1>0, <1>1, <2>1, <2>2, <2>3, TopStep DEF Inv, TypeOK, event
<1> QED BY <1>4, <1>5, <1>6

LEMMA CrashStep ==
  ASSUME Inv, Crash PROVE Inv'
<1>1. /\ seen' = {} /\ stack' = << >> /\ handled' = [e \in Events |-> 0]
      /\ excused' = excused \cup (arrived \ rows)
      /\ stuck' = stuck \cup {e \in rows : Readable(e)}
      /\ UNCHANGED <<arrived, known, old, rows>>
  BY DEF Crash
<1>2. TypeOK'
  BY <1>1, KeyRecoveryAssumption DEF Inv, TypeOK
<1>3. OnceSeen' /\ Awaited' /\ \A i \in DOMAIN stack' : Sound(stack'[i], seen')
  BY <1>1 DEF OnceSeen, Awaited, Readable
<1>4. AllKept'
  BY <1>1 DEF AllKept, Kept
<1> QED BY <1>2, <1>3, <1>4 DEF Inv

LEMMA InvStep == Inv /\ [Next]_vars => Inv'
<1> SUFFICES ASSUME Inv, [Next]_vars PROVE Inv'
  OBVIOUS
<1>1. CASE UNCHANGED vars
  <2>1. UNCHANGED <<arrived, known, old, rows, seen, handled, excused, stuck, stack>>
    BY <1>1 DEF vars
  <2> QED BY <2>1 DEF Inv, TypeOK, OnceSeen, AllKept, Kept, Awaited, Readable, Sound
<1>2. CASE Next
  BY <1>2, SyncStep, KeyStep, TakeStep, EventStep, ReturnStep, CrashStep DEF Next, Step
<1> QED BY <1>1, <1>2

-----------------------------------------------------------------------------
(* The theorems.                                                           *)

\* The inductive invariant holds, however deep the callbacks nest.
THEOREM Invariance == Spec => []Inv
<1>1. Inv /\ [Next]_vars => Inv'
  BY InvStep
<1> QED BY InitInv, <1>1, PTL DEF Spec

\* Key recovery keeps its types, however deep its callbacks nest.
THEOREM TypeCorrect == Spec => []TypeOK
<1>1. Inv => TypeOK
  BY DEF Inv
<1> QED BY Invariance, <1>1, PTL

\* No event is relayed twice by a process, though a sync and a key may both
\* bring it while another callback reads the state of the room.
THEOREM Once == Spec => []ProcessedOnce
BY Invariance, InvImplies, PTL

\* An event is never lost between its row and the callbacks, though its row is
\* removed before it is handled, and nested callbacks take each other's events.
THEOREM NoneLost == Spec => []Accounted
BY Invariance, InvImplies, PTL

\* When the callbacks are done, no event waits for a key the client has.
THEOREM NothingStranded == Spec => []NoneStranded
BY Invariance, InvImplies, PTL
=============================================================================
