---------------------------- MODULE EmitterProofs ----------------------------
(***************************************************************************)
(* Proofs about the emitter, for every Capacity and every MaxEvents.       *)
(*                                                                         *)
(* None of the properties is inductive by itself.  What makes them so is   *)
(* that the queue is always the unbroken run of the newest events (Suffix),*)
(* that exactly the events before that run are settled or held (Front),    *)
(* and that the control states of the delivery task, its getter and the    *)
(* lifespan agree with each other (Control).                               *)
(***************************************************************************)
EXTENDS Emitter, FiniteSetTheorems, TLAPS

(* The queue is the run of the newest events, in order. *)
Suffix == \A i \in 1..Len(queue) : queue[i] = recorded - Len(queue) + i

(* The events before that run are the settled ones and the held one, each   *)
(* in one place only.                                                       *)
Front ==
  /\ Settled \union Held = 1..(recorded - Len(queue))
  /\ Held \intersect Settled = {}
  /\ dropped \intersect Attempted = {}
  /\ killed \intersect (delivered \union failed) = {}
  /\ delivered \intersect failed = {}

(* The tasks' control states agree. *)
Control ==
  /\ held # 0 <=> getter = "done" \/ worker \in {"post", "drainPost"}
  /\ getter # "none" <=> worker = "wait"
  /\ getter = "waiting" => queue = <<>>
  /\ worker = "off" => recorded = 0
  /\ phase = "new" => worker = "off"
  /\ enabled /\ phase # "new" => worker # "off"
  /\ stopping => phase \in {"closing", "closed", "failed"}
  /\ worker \in {"drain", "drainPost", "exited"} => stopping
  /\ phase = "closed" => worker \in {"off", "exited"}

(* What the drain has achieved once the delivery task has ended. *)
Drained == worker = "exited" => \A e \in 1..atClose : e \in Settled

IInv == TypeOK /\ Suffix /\ Front /\ Control /\ Drained

USE CapacityAssumption, MaxEventsAssumption

(* The inductive invariant holds before start. *)
LEMMA InitIInv == Init => IInv
<1> SUFFICES ASSUME Init PROVE IInv
  OBVIOUS
<1>1. TypeOK
  <2>1. enabled \in BOOLEAN /\ urlValid \in BOOLEAN /\ stopping \in BOOLEAN
    BY Zenon DEF Init
  <2>2. queue \in Seq(1..recorded) /\ Len(queue) <= Capacity
    BY DEF Init
  <2>3. phase \in Phases /\ worker \in Workers /\ getter \in Getters
    BY DEF Init, Phases, Workers, Getters
  <2> QED
    BY <2>1, <2>2, <2>3 DEF Init, TypeOK
<1>2. Suffix
  BY DEF Init, Suffix
<1>3. Front
  BY DEF Init, Front, Settled, Attempted, Held
<1>4. Control /\ Drained
  BY DEF Init, Control, Drained
<1> QED
  BY <1>1, <1>2, <1>3, <1>4 DEF IInv

(* The head and the tail of a queue that is not empty. *)
LEMMA QueueParts ==
  ASSUME TypeOK, queue # <<>>
  PROVE  /\ Len(queue) \in 1..Capacity
         /\ Head(queue) = queue[1]
         /\ Head(queue) \in 1..recorded
         /\ Tail(queue) \in Seq(1..recorded)
         /\ Len(Tail(queue)) = Len(queue) - 1
         /\ \A i \in 1..Len(Tail(queue)) : Tail(queue)[i] = queue[i + 1]
  BY DEF TypeOK

(* The queue after record: the new event last, the oldest gone if it was full. *)
LEMMA QueueAfterRecord ==
  ASSUME TypeOK, Record
  PROVE  LET kept == IF Full THEN Tail(queue) ELSE queue
         IN  /\ kept \in Seq(1..recorded)
             /\ Len(kept) = IF Full THEN Capacity - 1 ELSE Len(queue)
             /\ queue' \in Seq(1..recorded')
             /\ Len(queue') = Len(kept) + 1
             /\ Len(queue') <= Capacity
             /\ queue'[Len(queue')] = recorded'
             /\ \A i \in 1..Len(kept) : queue'[i] = kept[i]
<1> DEFINE kept == IF Full THEN Tail(queue) ELSE queue
<1>1. kept \in Seq(1..recorded) /\ Len(kept) = IF Full THEN Capacity - 1 ELSE Len(queue)
  <2>1. CASE Full
    <3>1. queue # <<>>
      BY <2>1 DEF Full, TypeOK
    <3> QED
      BY <2>1, <3>1, QueueParts DEF Full, TypeOK
  <2>2. CASE ~Full
    BY <2>2 DEF TypeOK
  <2> QED
    BY <2>1, <2>2
<1>2. kept \in Seq(1..(recorded + 1))
  BY <1>1 DEF TypeOK
<1>3. queue' = Append(kept, recorded + 1) /\ recorded' = recorded + 1
  BY DEF Record, Enqueue
<1>4. Len(kept) \in Nat /\ Len(kept) < Capacity
  BY <1>1 DEF Full, TypeOK
<1> HIDE DEF kept
<1>5. /\ queue' \in Seq(1..recorded')
      /\ Len(queue') = Len(kept) + 1
      /\ queue'[Len(queue')] = recorded'
      /\ \A i \in 1..Len(kept) : queue'[i] = kept[i]
  BY <1>2, <1>3, <1>4 DEF TypeOK
<1> QED
  BY <1>1, <1>4, <1>5 DEF kept

(* Types are preserved; the post needs that an event is held. *)
LEMMA TypeStep == IInv /\ [Next]_vars => TypeOK'
<1> SUFFICES ASSUME IInv, [Next]_vars PROVE TypeOK'
  OBVIOUS
<1> USE DEF IInv, TypeOK, Phases, Workers, Getters
<1>1. CASE Start
  BY <1>1 DEF Start
<1>2. CASE Close
  BY <1>2 DEF Close
<1>3. CASE CloseReturn
  BY <1>3 DEF CloseReturn
<1>4. CASE Record
  <2>1. Full => Head(queue) \in 1..recorded
    BY QueueParts DEF Full
  <2>2. queue' \in Seq(1..recorded') /\ Len(queue') <= Capacity
    BY <1>4, QueueAfterRecord
  <2>3. recorded' = recorded + 1 /\ recorded' \in 0..MaxEvents
    BY <1>4 DEF Record
  <2>4. dropped' \in SUBSET (1..recorded')
    <3>1. dropped \in SUBSET (1..recorded')
      BY <2>3
    <3>2. CASE Full
      <4>1. dropped' = dropped \union {Head(queue)} /\ Head(queue) \in 1..recorded'
        BY <1>4, <2>1, <2>3, <3>2 DEF Record, Enqueue
      <4> QED
        BY <3>1, <4>1
    <3>3. CASE ~Full
      BY <1>4, <3>1, <3>3 DEF Record, Enqueue
    <3> QED
      BY <3>2, <3>3
  <2>5. getter' \in Getters
    BY <1>4 DEF Record, Enqueue
  <2> QED
    BY <1>4, <2>2, <2>3, <2>4, <2>5 DEF Record
<1>5. CASE Select
  BY <1>5 DEF Select
<1>6. CASE GetterStep
  <2>1. CASE queue = <<>>
    BY <1>6, <2>1 DEF GetterStep
  <2>2. CASE queue # <<>>
    <3>1. /\ getter' = "done" /\ held' = Head(queue) /\ queue' = Tail(queue)
          /\ UNCHANGED <<enabled, urlValid, phase, stopping, worker, failCount,
                         recorded, delivered, failed, dropped, killed, reported, atClose>>
      BY <1>6, <2>2 DEF GetterStep
    <3> QED
      BY <2>2, <3>1, QueueParts
  <2> QED
    BY <2>1, <2>2
<1>7. CASE WaitGot
  BY <1>7 DEF WaitGot
<1>8. CASE WaitStopped
  BY <1>8 DEF WaitStopped
<1>9. CASE DrainNext
  BY <1>9, QueueParts DEF DrainNext
<1>10. CASE DrainExit
  BY <1>10 DEF DrainExit
<1>11. CASE PostOk
  <2>1. held \in 1..recorded
    BY <1>11 DEF PostOk, Posting, Control
  <2> QED
    BY <1>11, <2>1 DEF PostOk, Posting, AfterPost
<1>12. CASE PostFail
  <2>1. held \in 1..recorded
    BY <1>12 DEF PostFail, Posting, Control
  <2> QED
    BY <1>12, <2>1 DEF PostFail, Posting, AfterPost, LogFailure
<1>13. CASE PostRaise
  <2>1. held \in 1..recorded
    BY <1>13 DEF PostRaise, Posting, Control
  <2> QED
    BY <1>13, <2>1 DEF PostRaise, Posting
<1>14. CASE UNCHANGED vars
  BY <1>14 DEF vars
<1> QED
  BY <1>1, <1>2, <1>3, <1>4, <1>5, <1>6, <1>7, <1>8, <1>9, <1>10,
     <1>11, <1>12, <1>13, <1>14 DEF Next, Task, Finished

(* The control states of the tasks and of the lifespan stay in agreement. *)
LEMMA ControlStep == IInv /\ [Next]_vars => Control'
<1> SUFFICES ASSUME IInv, [Next]_vars PROVE Control'
  OBVIOUS
<1> USE DEF IInv, TypeOK, Control
<1>1. CASE Start
  BY <1>1 DEF Start
<1>2. CASE Close
  BY <1>2 DEF Close
<1>3. CASE CloseReturn
  BY <1>3 DEF CloseReturn
<1>4. CASE Record
  BY <1>4 DEF Record, Enqueue, Full
<1>5. CASE Select
  BY <1>5 DEF Select
<1>6. CASE GetterStep
  BY <1>6 DEF GetterStep
<1>7. CASE WaitGot
  BY <1>7 DEF WaitGot
<1>8. CASE WaitStopped
  BY <1>8 DEF WaitStopped
<1>9. CASE DrainNext
  BY <1>9 DEF DrainNext
<1>10. CASE DrainExit
  BY <1>10 DEF DrainExit
<1>11. CASE PostOk
  BY <1>11 DEF PostOk, Posting, AfterPost
<1>12. CASE PostFail
  BY <1>12 DEF PostFail, Posting, AfterPost, LogFailure
<1>13. CASE PostRaise
  BY <1>13 DEF PostRaise, Posting
<1>14. CASE UNCHANGED vars
  BY <1>14 DEF vars
<1> QED
  BY <1>1, <1>2, <1>3, <1>4, <1>5, <1>6, <1>7, <1>8, <1>9, <1>10,
     <1>11, <1>12, <1>13, <1>14 DEF Next, Task, Finished

(* Entries leave the queue at its head and join at its end. *)
LEMMA SuffixStep == IInv /\ [Next]_vars => Suffix'
<1> SUFFICES ASSUME IInv, [Next]_vars PROVE Suffix'
  OBVIOUS
<1> USE DEF IInv, TypeOK, Suffix
<1>1. CASE Start
  BY <1>1 DEF Start
<1>2. CASE Close
  BY <1>2 DEF Close
<1>3. CASE CloseReturn
  BY <1>3 DEF CloseReturn
<1>4. CASE Record
  <2> DEFINE kept == IF Full THEN Tail(queue) ELSE queue
  <2>1. Len(kept) \in Nat /\ recorded' = recorded + 1
    BY <1>4, QueueAfterRecord DEF Record, Full
  <2>2. ASSUME NEW i \in 1..Len(kept) PROVE kept[i] = recorded - Len(kept) + i
    <3>1. CASE Full
      <4>1. queue # <<>>
        BY <3>1 DEF Full
      <4>2. kept[i] = queue[i + 1] /\ Len(kept) = Len(queue) - 1
        BY <2>2, <3>1, <4>1, QueueParts
      <4>3. i \in Nat /\ i + 1 \in 1..Len(queue)
        BY <2>1, <2>2, <4>2
      <4>4. queue[i + 1] = recorded - Len(queue) + (i + 1)
        BY <4>3
      <4> HIDE DEF kept
      <4> QED
        BY <4>2, <4>3, <4>4
    <3>2. CASE ~Full
      BY <2>2, <3>2
    <3> QED
      BY <3>1, <3>2
  <2>3. /\ Len(queue') = Len(kept) + 1
        /\ queue'[Len(queue')] = recorded'
        /\ \A i \in 1..Len(kept) : queue'[i] = kept[i]
    BY <1>4, QueueAfterRecord
  <2> HIDE DEF kept
  <2>4. ASSUME NEW i \in 1..Len(queue') PROVE queue'[i] = recorded' - Len(queue') + i
    <3>1. CASE i = Len(queue')
      BY <2>1, <2>3, <3>1
    <3>2. CASE i \in 1..Len(kept)
      BY <2>1, <2>2, <2>3, <3>2
    <3> QED
      BY <2>1, <2>3, <2>4, <3>1, <3>2
  <2> QED
    BY <2>4
<1>5. CASE Select
  BY <1>5 DEF Select
<1>6. CASE GetterStep
  <2>1. CASE queue = <<>>
    BY <1>6, <2>1 DEF GetterStep
  <2>2. CASE queue # <<>>
    <3>1. /\ getter' = "done" /\ held' = Head(queue) /\ queue' = Tail(queue)
          /\ UNCHANGED <<enabled, urlValid, phase, stopping, worker, failCount,
                         recorded, delivered, failed, dropped, killed, reported, atClose>>
      BY <1>6, <2>2 DEF GetterStep
    <3> QED
      BY <2>2, <3>1, QueueParts
  <2> QED
    BY <2>1, <2>2
<1>7. CASE WaitGot
  BY <1>7 DEF WaitGot
<1>8. CASE WaitStopped
  BY <1>8 DEF WaitStopped
<1>9. CASE DrainNext
  BY <1>9, QueueParts DEF DrainNext
<1>10. CASE DrainExit
  BY <1>10 DEF DrainExit
<1>11. CASE PostOk
  BY <1>11 DEF PostOk, Posting, AfterPost
<1>12. CASE PostFail
  BY <1>12 DEF PostFail, Posting, AfterPost, LogFailure
<1>13. CASE PostRaise
  BY <1>13 DEF PostRaise, Posting
<1>14. CASE UNCHANGED vars
  BY <1>14 DEF vars
<1> QED
  BY <1>1, <1>2, <1>3, <1>4, <1>5, <1>6, <1>7, <1>8, <1>9, <1>10,
     <1>11, <1>12, <1>13, <1>14 DEF Next, Task, Finished

(* The delivery task exits with nothing queued and nothing held. *)
LEMMA DrainedStep == IInv /\ [Next]_vars => Drained'
<1> SUFFICES ASSUME IInv, [Next]_vars PROVE Drained'
  OBVIOUS
<1> USE DEF IInv, TypeOK, Front, Control, Drained, Settled, Attempted, Held
<1>1. CASE Start
  BY <1>1 DEF Start
<1>2. CASE Close
  BY <1>2 DEF Close
<1>3. CASE CloseReturn
  BY <1>3 DEF CloseReturn
<1>4. CASE Record
  BY <1>4 DEF Record, Enqueue, Full
<1>5. CASE Select
  BY <1>5 DEF Select
<1>6. CASE GetterStep
  BY <1>6 DEF GetterStep
<1>7. CASE WaitGot
  BY <1>7 DEF WaitGot
<1>8. CASE WaitStopped
  BY <1>8 DEF WaitStopped
<1>9. CASE DrainNext
  BY <1>9 DEF DrainNext
<1>10. CASE DrainExit
  BY <1>10 DEF DrainExit
<1>11. CASE PostOk
  BY <1>11 DEF PostOk, Posting, AfterPost
<1>12. CASE PostFail
  BY <1>12 DEF PostFail, Posting, AfterPost, LogFailure
<1>13. CASE PostRaise
  BY <1>13 DEF PostRaise, Posting
<1>14. CASE UNCHANGED vars
  BY <1>14 DEF vars
<1> QED
  BY <1>1, <1>2, <1>3, <1>4, <1>5, <1>6, <1>7, <1>8, <1>9, <1>10,
     <1>11, <1>12, <1>13, <1>14 DEF Next, Task, Finished

(* An event moves from the queue to the held one, and from there to one outcome. *)
LEMMA FrontStep == IInv /\ [Next]_vars => Front'
<1> SUFFICES ASSUME IInv, [Next]_vars PROVE Front'
  OBVIOUS
<1> USE DEF IInv, TypeOK, Suffix, Control, Front, Settled, Attempted, Held
<1>1. CASE Start
  BY <1>1 DEF Start
<1>2. CASE Close
  BY <1>2 DEF Close
<1>3. CASE CloseReturn
  BY <1>3 DEF CloseReturn
<1>4. CASE Record
  <2>1. CASE Full
    <3>1. Head(queue) = recorded - Capacity + 1 /\ Len(queue) = Capacity
      BY <2>1, QueueParts DEF Full
    <3>2. Len(queue') = Capacity /\ recorded' = recorded + 1
      BY <1>4, <2>1, QueueAfterRecord DEF Record
    <3>3. /\ dropped' = dropped \union {Head(queue)}
          /\ UNCHANGED <<held, delivered, failed, killed>>
      BY <1>4, <2>1 DEF Record, Enqueue
    <3> QED
      BY <3>1, <3>2, <3>3
  <2>2. CASE ~Full
    <3>1. Len(queue') = Len(queue) + 1 /\ recorded' = recorded + 1
      BY <1>4, <2>2, QueueAfterRecord DEF Record
    <3>2. UNCHANGED <<dropped, held, delivered, failed, killed>>
      BY <1>4, <2>2 DEF Record, Enqueue
    <3> QED
      BY <3>1, <3>2
  <2> QED
    BY <2>1, <2>2
<1>5. CASE Select
  BY <1>5 DEF Select
<1>6. CASE GetterStep
  <2>1. CASE queue = <<>>
    BY <1>6, <2>1 DEF GetterStep
  <2>2. CASE queue # <<>>
    <3>1. /\ getter' = "done" /\ held' = Head(queue) /\ queue' = Tail(queue)
          /\ UNCHANGED <<enabled, urlValid, phase, stopping, worker, failCount,
                         recorded, delivered, failed, dropped, killed, reported, atClose>>
      BY <1>6, <2>2 DEF GetterStep
    <3>2. /\ Head(queue) = recorded - Len(queue) + 1
          /\ Len(queue') = Len(queue) - 1
          /\ Head(queue) \in 1..recorded
      BY <2>2, <3>1, QueueParts
    <3>3. Held' = {recorded - Len(queue) + 1} /\ Held = {} /\ Settled' = Settled
      BY <1>6, <3>1, <3>2 DEF GetterStep
    <3>4. Attempted' = Attempted
      BY <3>1 DEF Attempted
    <3>5. Len(queue) \in Nat \ {0} /\ Len(queue) <= recorded /\ recorded \in Nat
      BY <2>2, <3>2, QueueParts DEF TypeOK
    <3>6. 1..(recorded' - Len(queue')) = 1..(recorded - Len(queue)) \union {recorded - Len(queue) + 1}
      BY <3>1, <3>2, <3>5
    <3>7. recorded - Len(queue) + 1 \notin 1..(recorded - Len(queue))
      BY <3>5
    <3>8. Settled = 1..(recorded - Len(queue))
      BY <3>3
    <3> HIDE DEF Settled, Held
    <3>9. /\ Settled' \union Held' = 1..(recorded' - Len(queue'))
          /\ Held' \intersect Settled' = {}
      BY <3>3, <3>6, <3>7, <3>8
    <3> QED
      BY <3>1, <3>4, <3>9
  <2> QED
    BY <2>1, <2>2
<1>7. CASE WaitGot
  BY <1>7 DEF WaitGot
<1>8. CASE WaitStopped
  BY <1>8 DEF WaitStopped
<1>9. CASE DrainNext
  <2>1. queue # <<>> /\ held = 0 /\ held' = Head(queue) /\ queue' = Tail(queue)
    BY <1>9 DEF DrainNext
  <2>2. /\ Head(queue) = recorded - Len(queue) + 1
        /\ Len(queue') = Len(queue) - 1
        /\ Head(queue) \in 1..recorded
    BY <2>1, QueueParts
  <2>3. Held' = {recorded - Len(queue) + 1} /\ Held = {} /\ Settled' = Settled
    BY <1>9, <2>1, <2>2 DEF DrainNext
  <2>4. UNCHANGED <<recorded, delivered, failed, dropped, killed>>
    BY <1>9 DEF DrainNext
  <2> QED
    BY <2>1, <2>2, <2>3, <2>4
<1>10. CASE DrainExit
  BY <1>10 DEF DrainExit
<1>11. CASE PostOk
  BY <1>11 DEF PostOk, Posting, AfterPost
<1>12. CASE PostFail
  BY <1>12 DEF PostFail, Posting, AfterPost, LogFailure
<1>13. CASE PostRaise
  BY <1>13 DEF PostRaise, Posting
<1>14. CASE UNCHANGED vars
  BY <1>14 DEF vars
<1> QED
  BY <1>1, <1>2, <1>3, <1>4, <1>5, <1>6, <1>7, <1>8, <1>9, <1>10,
     <1>11, <1>12, <1>13, <1>14 DEF Next, Task, Finished

(* Every step of the emitter preserves the inductive invariant. *)
LEMMA StepIInv == IInv /\ [Next]_vars => IInv'
  BY TypeStep, SuffixStep, FrontStep, ControlStep, DrainedStep DEF IInv

(* Hence it holds in every reachable state. *)
LEMMA InvariantHolds == Spec => []IInv
  BY InitIInv, StepIInv, PTL DEF Spec

(* Every variable of the emitter keeps its type; in particular the queue    *)
(* never exceeds QUEUE_SIZE, so a wedged console cannot grow memory.        *)
THEOREM TypeCorrect == Spec => []TypeOK
<1>1. IInv => TypeOK
  BY DEF IInv
<1> QED
  BY <1>1, InvariantHolds, PTL

(* No event is lost, repeated or in two places at once, whatever the order  *)
(* of records, overflows, getter steps, posts and the stop signal.          *)
THEOREM EventsAccounted == Spec => []Accounted
<1>1. IInv => Accounted
  <2> SUFFICES ASSUME IInv PROVE Accounted
    OBVIOUS
  <2>1. Queued = (recorded - Len(queue) + 1)..recorded
    <3>1. ASSUME NEW n \in (recorded - Len(queue) + 1)..recorded PROVE n \in Queued
      <4>1. /\ n - (recorded - Len(queue)) \in 1..Len(queue)
            /\ queue[n - (recorded - Len(queue))] = n
        BY DEF IInv, TypeOK, Suffix
      <4> QED
        BY <4>1 DEF Queued
    <3>2. \A n \in Queued : n \in (recorded - Len(queue) + 1)..recorded
      BY DEF IInv, TypeOK, Suffix, Queued
    <3> QED
      BY <3>1, <3>2
  <2>2. recorded - Len(queue) \in Nat /\ Len(queue) \in Nat /\ recorded \in Nat
    <3>1. CASE queue = <<>>
      BY <3>1 DEF IInv, TypeOK
    <3>2. CASE queue # <<>>
      BY <3>2, QueueParts DEF IInv, TypeOK, Suffix
    <3> QED
      BY <3>1, <3>2
  <2> QED
    BY <2>1, <2>2 DEF IInv, Front, Accounted
<1> QED
  BY <1>1, InvariantHolds, PTL

(* Queue.get never sleeps while an event waits for it. *)
THEOREM WakeupsKept == Spec => []NoLostWakeup
<1>1. IInv => NoLostWakeup
  BY DEF IInv, Control, NoLostWakeup
<1> QED
  BY <1>1, InvariantHolds, PTL

(* aclose returns only when every event recorded before it was posted or    *)
(* had been pushed out by newer ones.                                       *)
THEOREM CloseIsComplete == Spec => []CloseDrains
<1>1. IInv => CloseDrains
  BY DEF IInv, TypeOK, Control, Drained, CloseDrains
<1> QED
  BY <1>1, InvariantHolds, PTL

(* No failed post goes missing from the log's counts: each is in a line     *)
(* already written or in the _fail_count the next line will carry.          *)
THEOREM FailuresCounted == Spec => []FailuresReported
<1> DEFINE Counted == IsFiniteSet(failed) /\ Cardinality(failed) = reported + failCount
<1>1. Init => Counted
  BY FS_EmptySet DEF Init
<1>2. IInv /\ Counted /\ [Next]_vars => Counted'
  <2> SUFFICES ASSUME IInv, Counted, [Next]_vars PROVE Counted'
    OBVIOUS
  <2>1. CASE PostFail
    <3>1. held \notin failed
      BY <2>1 DEF PostFail, Posting, IInv, TypeOK, Control, Front, Held, Settled, Attempted
    <3>2. failed' = failed \union {held}
      BY <2>1 DEF PostFail
    <3>3. IsFiniteSet(failed') /\ Cardinality(failed') = Cardinality(failed) + 1
      BY <3>1, <3>2, FS_AddElement
    <3>4. reported' + failCount' = reported + failCount + 1
      BY <2>1 DEF PostFail, LogFailure, IInv, TypeOK
    <3> QED
      BY <3>3, <3>4
  <2>2. CASE UNCHANGED <<failed, reported, failCount>>
    BY <2>2
  <2> QED
    BY <2>1, <2>2 DEF Next, Task, Start, Close, Record, Select, GetterStep, WaitGot,
       WaitStopped, DrainNext, DrainExit, PostOk, PostRaise, CloseReturn, Finished, vars
<1>3. Counted => FailuresReported
  BY DEF FailuresReported
<1> QED
  BY <1>1, <1>2, <1>3, InvariantHolds, PTL DEF Spec

-----------------------------------------------------------------------------
(* The refinement of BestEffortFeed. *)

(* Pending events are the queued ones and the held one. *)
LEMMA PendingEvents ==
  ASSUME IInv, NEW e \in 1..recorded
  PROVE  Outcome(e) = "pending" <=> e = held \/ e > recorded - Len(queue)
  BY DEF IInv, TypeOK, Front, Held, Settled, Attempted, Outcome

(* A step that settles nothing and records nothing is invisible. *)
LEMMA QuietStep ==
  ASSUME UNCHANGED <<recorded, delivered, failed, killed, dropped>>
  PROVE  UNCHANGED Feed!vars
  BY DEF Feed!vars, Outcome

(* A post settles the held event, which is the oldest pending one. *)
LEMMA PostStep ==
  ASSUME IInv, PostOk \/ PostFail \/ PostRaise
  PROVE  Feed!Next
<1>1. held \in 1..recorded /\ held <= recorded - Len(queue)
  BY DEF PostOk, PostFail, PostRaise, Posting, IInv, TypeOK, Control, Front, Held
<1>2. Outcome(held) = "pending"
  BY <1>1, PendingEvents
<1>3. ASSUME NEW d \in 1..(held - 1) PROVE Outcome(d) # "pending"
  BY <1>1, <1>3, PendingEvents DEF IInv, TypeOK
<1>4. PICK result \in Feed!Results :
        /\ \A e \in 1..recorded : Outcome(e)' = IF e = held THEN result ELSE Outcome(e)
        /\ UNCHANGED recorded
  <2>1. CASE PostOk
    <3> USE DEF Feed!Results
    <3> WITNESS "delivered" \in Feed!Results
    <3> QED BY <1>2, <2>1 DEF PostOk, Outcome, Feed!Results
  <2>2. CASE PostFail
    <3> USE DEF Feed!Results
    <3> WITNESS "failed" \in Feed!Results
    <3> QED BY <1>2, <2>2 DEF PostFail, Outcome, Feed!Results
  <2>3. CASE PostRaise
    <3> USE DEF Feed!Results
    <3> WITNESS "killed" \in Feed!Results
    <3> QED BY <1>2, <2>3 DEF PostRaise, Outcome, Feed!Results
  <2> QED
    BY <2>1, <2>2, <2>3
<1>5. Feed!Attempt(held, result)
  <2>1. recorded \in Nat
    BY DEF IInv, TypeOK
  <2>2. [e \in 1..recorded |-> Outcome(e)][held] = "pending"
    BY <1>1, <1>2
  <2>3. \A d \in 1..(held - 1) : [e \in 1..recorded |-> Outcome(e)][d] # "pending"
    BY <1>1, <1>3, <2>1
  <2>4. [e \in 1..recorded |-> Outcome(e)]'
          = [[e \in 1..recorded |-> Outcome(e)] EXCEPT ![held] = result]
    BY <1>1, <1>4 DEF Outcome
  <2> QED
    BY <1>4, <2>2, <2>3, <2>4 DEF Feed!Attempt
<1> QED
  BY <1>1, <1>4, <1>5 DEF Feed!Next

(* A record is a record of the feed; overflow gives up the event that       *)
(* Capacity newer ones have followed.                                       *)
LEMMA RecordStep ==
  ASSUME IInv, Record
  PROVE  Feed!Next
<1> DEFINE gone == IF Full THEN {Head(queue)} ELSE {}
<1>1. recorded \in Nat /\ recorded < MaxEvents /\ recorded' = recorded + 1
  BY DEF Record, IInv, TypeOK
<1>2. gone \in SUBSET {e \in 1..recorded : /\ Outcome(e) = "pending"
                                          /\ e + Capacity <= recorded + 1}
  <2>1. CASE Full
    <3>1. queue # <<>> /\ Len(queue) = Capacity
      BY <2>1 DEF Full, IInv, TypeOK
    <3>2. Head(queue) = recorded - Capacity + 1 /\ Head(queue) \in 1..recorded
      BY <3>1, QueueParts DEF IInv, TypeOK, Suffix
    <3>3. Outcome(Head(queue)) = "pending"
      BY <3>1, <3>2, PendingEvents, <1>1
    <3> QED
      BY <1>1, <2>1, <3>2, <3>3
  <2> QED
    BY <2>1
<1>3. /\ dropped' = dropped \union gone
      /\ UNCHANGED <<delivered, failed, killed>>
  BY DEF Record, Enqueue
<1>4. \A d, e \in gone : d = e
  OBVIOUS
<1> HIDE DEF gone
<1>5. ASSUME NEW e \in 1..(recorded + 1)
      PROVE  Outcome(e)' = IF e \in gone THEN "dropped"
                           ELSE IF e = recorded + 1 THEN "pending" ELSE Outcome(e)
  <2>1. CASE e \in gone
    BY <1>2, <1>3, <2>1 DEF Outcome
  <2>2. CASE e \notin gone /\ e = recorded + 1
    BY <1>1, <1>3, <2>2 DEF Outcome, IInv, TypeOK
  <2>3. CASE e \notin gone /\ e # recorded + 1
    BY <1>3, <2>3 DEF Outcome
  <2> QED
    BY <2>1, <2>2, <2>3
<1>6. [e \in 1..recorded |-> Outcome(e)]'
        = [e \in 1..(recorded + 1) |->
             IF e \in gone THEN "dropped"
             ELSE IF e = recorded + 1 THEN "pending"
             ELSE [x \in 1..recorded |-> Outcome(x)][e]]
  <2>1. \A e \in 1..(recorded + 1) : e # recorded + 1 => e \in 1..recorded
    BY <1>1
  <2> QED
    BY <1>1, <1>5, <2>1 DEF Outcome
<1>7. gone \in SUBSET {e \in 1..recorded :
                         /\ [x \in 1..recorded |-> Outcome(x)][e] = "pending"
                         /\ e + Capacity <= recorded + 1}
  BY <1>2
<1>8. Feed!Record
  BY <1>1, <1>4, <1>6, <1>7 DEF Feed!Record
<1> QED
  BY <1>8 DEF Feed!Next

(* The emitter implements the best-effort feed: an event is tried at most   *)
(* once, in order, keeps its outcome for good, and is given up unsent only  *)
(* after Capacity newer ones.                                               *)
THEOREM EmitterIsFeed == Spec => FeedSpec
<1>1. Init => Feed!Init
  BY DEF Init, Feed!Init
<1>2. IInv /\ [Next]_vars => [Feed!Next]_(Feed!vars)
  <2> SUFFICES ASSUME IInv, [Next]_vars PROVE [Feed!Next]_(Feed!vars)
    OBVIOUS
  <2>1. CASE Record
    BY <2>1, RecordStep
  <2>2. CASE PostOk \/ PostFail \/ PostRaise
    BY <2>2, PostStep
  <2>3. CASE UNCHANGED <<recorded, delivered, failed, killed, dropped>>
    BY <2>3, QuietStep
  <2> QED
    BY <2>1, <2>2, <2>3 DEF Next, Task, Start, Close, Select, GetterStep, WaitGot,
       WaitStopped, DrainNext, DrainExit, CloseReturn, Finished, vars
<1> QED
  BY <1>1, <1>2, InvariantHolds, PTL DEF Spec, FeedSpec, Feed!Spec
=============================================================================
