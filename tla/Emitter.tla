------------------------------- MODULE Emitter -------------------------------
(***************************************************************************)
(* The gateway's EventEmitter (hookguard_gateway/emitter.py): verdict      *)
(* events are recorded by request handlers, wait in a bounded queue that   *)
(* drops its oldest entry on overflow, and are posted to the console by    *)
(* one asyncio task.                                                       *)
(*                                                                         *)
(* Everything runs on one event loop, so a step is what happens between    *)
(* two awaits.  The delivery task does not await the queue directly: it    *)
(* starts a second task (the getter) around Queue.get and waits for        *)
(* whichever comes first, the getter or the stop signal.  The getter is    *)
(* therefore a process of its own here, because an event can sit in its    *)
(* result while the delivery task is still asleep.                         *)
(*                                                                         *)
(* The n-th recorded event is the number n.                                *)
(***************************************************************************)
EXTENDS Naturals, Sequences, FiniteSets

CONSTANTS
  Capacity,    \* QUEUE_SIZE, the bound of the queue
  MaxEvents    \* bound of the model: how many events are ever recorded

ASSUME CapacityAssumption == Capacity \in Nat \ {0}
ASSUME MaxEventsAssumption == MaxEvents \in Nat

VARIABLES
  enabled,     \* EVENTS_URL is set
  urlValid,    \* httpx accepts EVENTS_URL; if not, every post raises InvalidURL
  phase,       \* what the lifespan has done: "new", "running", "closing", "closed", "failed"
  stopping,    \* the _stopping event is set
  worker,      \* where _run is: "off", "select", "wait", "post", "drain", "drainPost", "exited", "dead"
  getter,      \* the task around Queue.get: "none", "created", "waiting", "woken", "done"
  queue,       \* _queue
  held,        \* the event taken off the queue and not yet posted, 0 if none
  failCount,   \* _fail_count
  recorded,    \* history: how many events were recorded
  delivered,   \* history: the events the console answered below 300
  failed,      \* history: the events whose post failed
  dropped,     \* history: the events pushed out of a full queue
  killed,      \* history: the event whose post raised and ended the task
  reported,    \* history: the sum of the failure counts written to the log
  atClose      \* history: `recorded` when aclose was called

vars == <<enabled, urlValid, phase, stopping, worker, getter, queue, held, failCount,
          recorded, delivered, failed, dropped, killed, reported, atClose>>

Phases  == {"new", "running", "closing", "closed", "failed"}
Workers == {"off", "select", "wait", "post", "drain", "drainPost", "exited", "dead"}
Getters == {"none", "created", "waiting", "woken", "done"}

Init ==
  /\ enabled \in BOOLEAN
  /\ urlValid \in BOOLEAN
  /\ phase = "new"
  /\ stopping = FALSE
  /\ worker = "off"
  /\ getter = "none"
  /\ queue = <<>>
  /\ held = 0
  /\ failCount = 0
  /\ recorded = 0
  /\ delivered = {}
  /\ failed = {}
  /\ dropped = {}
  /\ killed = {}
  /\ reported = 0
  /\ atClose = 0

-----------------------------------------------------------------------------
(* The lifespan: start before the first request, aclose after the last.     *)

Start ==
  /\ phase = "new"
  /\ phase' = "running"
  /\ worker' = IF enabled THEN "select" ELSE "off"
  /\ UNCHANGED <<enabled, urlValid, stopping, getter, queue, held, failCount,
                 recorded, delivered, failed, dropped, killed, reported, atClose>>

(* Slip: aclose that never sets _stopping. *)
CloseWithoutSignal ==
  /\ phase = "running"
  /\ phase' = IF worker = "off" THEN "closed" ELSE "closing"
  /\ atClose' = recorded
  /\ UNCHANGED <<enabled, urlValid, stopping, worker, getter, queue, held, failCount,
                 recorded, delivered, failed, dropped, killed, reported>>

(* aclose up to `await self._task`; without a task there is nothing to wait for. *)
Close ==
  /\ phase = "running"
  /\ phase' = IF worker = "off" THEN "closed" ELSE "closing"
  /\ stopping' = (worker # "off")
  /\ atClose' = recorded
  /\ UNCHANGED <<enabled, urlValid, worker, getter, queue, held, failCount,
                 recorded, delivered, failed, dropped, killed, reported>>

(* `await self._task` returns, or raises what ended the task. *)
CloseReturn ==
  /\ phase = "closing"
  /\ worker \in {"exited", "dead"}
  /\ phase' = IF worker = "exited" THEN "closed" ELSE "failed"
  /\ UNCHANGED <<enabled, urlValid, stopping, worker, getter, queue, held, failCount,
                 recorded, delivered, failed, dropped, killed, reported, atClose>>

-----------------------------------------------------------------------------
(* record and _emit: never wait, and drop the oldest queued event when the  *)
(* queue is full.  put_nowait wakes the getter that waits for an entry.     *)

Full == Len(queue) >= Capacity

(* Slip: put_nowait that forgets the sleeping getter. *)
EnqueueWithoutWakeup(e) ==
  /\ queue' = Append(IF Full THEN Tail(queue) ELSE queue, e)
  /\ dropped' = IF Full THEN dropped \union {Head(queue)} ELSE dropped
  /\ UNCHANGED getter

(* Slip: overflow that refuses the new event instead of dropping the oldest. *)
EnqueueDropNewest(e) ==
  /\ queue' = IF Full THEN queue ELSE Append(queue, e)
  /\ dropped' = IF Full THEN dropped \union {e} ELSE dropped
  /\ getter' = IF getter = "waiting" THEN "woken" ELSE getter

Enqueue(e) ==
  /\ queue' = Append(IF Full THEN Tail(queue) ELSE queue, e)
  /\ dropped' = IF Full THEN dropped \union {Head(queue)} ELSE dropped
  /\ getter' = IF getter = "waiting" THEN "woken" ELSE getter

Record ==
  /\ phase # "new"
  /\ enabled
  /\ recorded < MaxEvents
  /\ recorded' = recorded + 1
  /\ Enqueue(recorded + 1)
  /\ UNCHANGED <<enabled, urlValid, phase, stopping, worker, held, failCount,
                 delivered, failed, killed, reported, atClose>>

-----------------------------------------------------------------------------
(* _run                                                                     *)

(* The top of the loop: start a getter, then wait for it or for the stop.   *)
Select ==
  /\ worker = "select"
  /\ worker' = "wait"
  /\ getter' = "created"
  /\ UNCHANGED <<enabled, urlValid, phase, stopping, queue, held, failCount,
                 recorded, delivered, failed, dropped, killed, reported, atClose>>

(* A step of Queue.get: take the head, or wait (again) while there is none. *)
GetterStep ==
  /\ getter \in {"created", "woken"}
  /\ \/ /\ queue = <<>>
        /\ getter' = "waiting"
        /\ UNCHANGED <<queue, held>>
     \/ /\ queue # <<>>
        /\ getter' = "done"
        /\ held' = Head(queue)
        /\ queue' = Tail(queue)
  /\ UNCHANGED <<enabled, urlValid, phase, stopping, worker, failCount,
                 recorded, delivered, failed, dropped, killed, reported, atClose>>

(* asyncio.wait resumes _run.  Which futures are done is read now, not when *)
(* the wake-up was scheduled.  The loop runs callbacks in order, so a new   *)
(* getter has had its first step.                                           *)
WaitGot ==
  /\ worker = "wait"
  /\ getter = "done"
  /\ worker' = "post"
  /\ getter' = "none"
  /\ UNCHANGED <<enabled, urlValid, phase, stopping, queue, held, failCount,
                 recorded, delivered, failed, dropped, killed, reported, atClose>>

(* Slip: the stop signal wins over a getter that already holds an event. *)
WaitStoppedDiscardsResult ==
  /\ worker = "wait"
  /\ stopping
  /\ getter # "created"
  /\ worker' = "drain"
  /\ getter' = "none"
  /\ held' = 0
  /\ UNCHANGED <<enabled, urlValid, phase, stopping, queue, failCount,
                 recorded, delivered, failed, dropped, killed, reported, atClose>>

(* Only the stop signal is done: cancel the getter and drain.  A cancelled  *)
(* Queue.get takes nothing, even if it had already been woken.              *)
WaitStopped ==
  /\ worker = "wait"
  /\ stopping
  /\ getter \in {"waiting", "woken"}
  /\ worker' = "drain"
  /\ getter' = "none"
  /\ UNCHANGED <<enabled, urlValid, phase, stopping, queue, held, failCount,
                 recorded, delivered, failed, dropped, killed, reported, atClose>>

DrainNext ==
  /\ worker = "drain"
  /\ queue # <<>>
  /\ worker' = "drainPost"
  /\ held' = Head(queue)
  /\ queue' = Tail(queue)
  /\ UNCHANGED <<enabled, urlValid, phase, stopping, getter, failCount,
                 recorded, delivered, failed, dropped, killed, reported, atClose>>

(* Slip: exit without emptying the queue. *)
DrainExitAtOnce ==
  /\ worker = "drain"
  /\ worker' = "exited"
  /\ UNCHANGED <<enabled, urlValid, phase, stopping, getter, queue, held, failCount,
                 recorded, delivered, failed, dropped, killed, reported, atClose>>

DrainExit ==
  /\ worker = "drain"
  /\ queue = <<>>
  /\ worker' = "exited"
  /\ UNCHANGED <<enabled, urlValid, phase, stopping, getter, queue, held, failCount,
                 recorded, delivered, failed, dropped, killed, reported, atClose>>

-----------------------------------------------------------------------------
(* _post and _log_failure                                                   *)

Posting == worker \in {"post", "drainPost"}

AfterPost == IF worker = "post" THEN "select" ELSE "drain"

PostOk ==
  /\ Posting
  /\ urlValid
  /\ delivered' = delivered \union {held}
  /\ held' = 0
  /\ worker' = AfterPost
  /\ UNCHANGED <<enabled, urlValid, phase, stopping, getter, queue, failCount,
                 recorded, failed, dropped, killed, reported, atClose>>

(* Slip: the count is reset whether or not it was logged. *)
LogFailureResetsAlways ==
  /\ failCount' = 0
  /\ \/ reported' = reported + failCount + 1
     \/ reported # 0 /\ UNCHANGED reported

(* One more failure; the count is logged and reset when FAILURE_LOG_INTERVAL *)
(* has passed since the last log line, which is always so the first time.    *)
LogFailure ==
  \/ /\ reported' = reported + failCount + 1
     /\ failCount' = 0
  \/ /\ reported # 0
     /\ failCount' = failCount + 1
     /\ UNCHANGED reported

(* A transport error, a timeout or an answer of 300 and above. *)
PostFail ==
  /\ Posting
  /\ urlValid
  /\ failed' = failed \union {held}
  /\ held' = 0
  /\ worker' = AfterPost
  /\ LogFailure
  /\ UNCHANGED <<enabled, urlValid, phase, stopping, getter, queue,
                 recorded, delivered, dropped, killed, atClose>>

(* httpx.InvalidURL is no HTTPError: it leaves _post and ends the task. *)
PostRaise ==
  /\ Posting
  /\ ~urlValid
  /\ killed' = killed \union {held}
  /\ held' = 0
  /\ worker' = "dead"
  /\ UNCHANGED <<enabled, urlValid, phase, stopping, getter, queue, failCount,
                 recorded, delivered, failed, dropped, reported, atClose>>

-----------------------------------------------------------------------------

(* The steps of the delivery task, its getter and aclose. *)
Task ==
  \/ Select \/ GetterStep \/ WaitGot \/ WaitStopped \/ DrainNext \/ DrainExit
  \/ PostOk \/ PostFail \/ PostRaise \/ CloseReturn

(* Everything has stopped and nothing more will be recorded. *)
Finished ==
  /\ phase \in {"closed", "failed"}
  /\ ~enabled \/ recorded = MaxEvents
  /\ UNCHANGED vars

Next == Start \/ Close \/ Record \/ Task \/ Finished

Spec == Init /\ [][Next]_vars

(* The event loop runs every ready callback, and every post ends: httpx     *)
(* bounds it by POST_TIMEOUT.  That requests arrive, or that the process is *)
(* asked to stop, is nobody's promise.                                      *)
FairSpec == Spec /\ WF_vars(Task)

-----------------------------------------------------------------------------
(* Properties *)

Queued == {queue[i] : i \in 1..Len(queue)}
Held == IF held = 0 THEN {} ELSE {held}
Attempted == delivered \union failed \union killed
Settled == Attempted \union dropped

(* One type invariant. *)
TypeOK ==
  /\ enabled \in BOOLEAN
  /\ urlValid \in BOOLEAN
  /\ phase \in Phases
  /\ stopping \in BOOLEAN
  /\ worker \in Workers
  /\ getter \in Getters
  /\ queue \in Seq(1..recorded)
  /\ Len(queue) <= Capacity
  /\ held \in 0..recorded
  /\ failCount \in Nat
  /\ recorded \in 0..MaxEvents
  /\ delivered \in SUBSET (1..recorded)
  /\ failed \in SUBSET (1..recorded)
  /\ dropped \in SUBSET (1..recorded)
  /\ killed \in SUBSET (1..recorded)
  /\ reported \in Nat
  /\ atClose \in 0..recorded

(* Every recorded event is in exactly one place: queued, in the hands of    *)
(* the delivery task, delivered, failed, dropped, or lost with the task.    *)
(* Cancelling the getter at the stop signal neither loses nor repeats one.  *)
Accounted ==
  /\ 1..recorded = Queued \union Held \union Settled
  /\ Queued \intersect (Held \union Settled) = {}
  /\ Held \intersect Settled = {}
  /\ dropped \intersect Attempted = {}
  /\ killed \intersect (delivered \union failed) = {}
  /\ delivered \intersect failed = {}

(* The getter never sleeps beside a queued event: put_nowait's wake-up is   *)
(* not lost, whatever order the getter, record and the drop-oldest take.    *)
NoLostWakeup == getter = "waiting" => queue = <<>>

(* "Stop after delivering whatever is already queued": when aclose returns, *)
(* every event recorded before it was called has been posted, or was pushed *)
(* out by newer ones.                                                       *)
CloseDrains ==
  phase = "closed" => \A e \in 1..atClose : e \in Settled

(* Every failed post is counted once: in a log line already written, or in  *)
(* the _fail_count that the next line will carry.                           *)
FailuresReported == Cardinality(failed) = reported + failCount

(* What the rest of the gateway may rely on: the emitter is a best-effort   *)
(* feed (module BestEffortFeed), whatever the getter, the stop signal and   *)
(* the overflow do.                                                         *)
Outcome(e) ==
  IF e \in delivered THEN "delivered"
  ELSE IF e \in failed THEN "failed"
  ELSE IF e \in killed THEN "killed"
  ELSE IF e \in dropped THEN "dropped"
  ELSE "pending"

Feed == INSTANCE BestEffortFeed WITH outcome <- [e \in 1..recorded |-> Outcome(e)]

FeedSpec == Feed!Spec

(* While the gateway runs with a usable URL, every recorded event is posted *)
(* or pushed out; and aclose returns, or raises if the task is dead.        *)
EveryEventSettles ==
  /\ \A e \in 1..MaxEvents :
       (e <= recorded /\ phase = "running" /\ urlValid) ~> (e \in Settled)
  /\ phase = "closing" ~> phase \in {"closed", "failed"}
=============================================================================
