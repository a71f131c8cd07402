------------------------------- MODULE Batcher -------------------------------
(***************************************************************************)
(* The console's ingest path: handle_ingest answers 202 and queues the     *)
(* event; the Batcher drains the bounded queue on a ticker and persists    *)
(* each batch on a thread in three statements (events, rollups, last       *)
(* ingest), each of which may fail; the process may be killed between any  *)
(* two of them and started again on the same database.                     *)
(***************************************************************************)
EXTENDS Store

CONSTANTS
  QueueSize,   \* QUEUE_SIZE, the bound of the queue
  MaxEvents,   \* bound of the model: how many events are ever accepted
  MaxCrashes   \* bound of the model: how often the process is killed

ASSUME BatcherAssumption ==
  QueueSize \in Nat \ {0} /\ MaxEvents \in Nat /\ MaxCrashes \in Nat

VARIABLES
  now,         \* the clock
  phase,       \* the process: "off", "running", "closing", "closed"
  stopping,    \* the _stopping event is set
  queue,       \* _queue
  drops,       \* the attribute `dropped`, since the process started
  worker,      \* _run: "off", "wait", "insert", "rollup", "setting", "finally", "exited"
  last,        \* the batch being persisted is that of the `finally` block
  batch,       \* pending, the batch being persisted
  accepted,    \* history: how many events were answered with 202
  inserted,    \* history: the events that were ever written to the table
  lost,        \* history: the events the log reports lost
  dropped,     \* history: the events pushed out of a full queue
  crashed,     \* history: the events in memory when the process was killed
  faults,      \* history: a statement has failed or the process was killed
  crashes,     \* history: how often the process was killed
  atClose      \* history: `accepted` when aclose was called

memory == <<phase, stopping, queue, drops, worker, last, batch>>
history == <<accepted, inserted, lost, dropped, crashed, faults, crashes, atClose>>
vars == <<tables, now, memory, history>>

Numbers(evs) == {evs[i].n : i \in DOMAIN evs}

Init ==
  /\ StoreInit
  /\ now = 1
  /\ phase = "off"
  /\ stopping = FALSE
  /\ queue = <<>>
  /\ drops = 0
  /\ worker = "off"
  /\ last = FALSE
  /\ batch = <<>>
  /\ accepted = 0
  /\ inserted = {}
  /\ lost = {}
  /\ dropped = {}
  /\ crashed = {}
  /\ faults = FALSE
  /\ crashes = 0
  /\ atClose = 0

-----------------------------------------------------------------------------
(* The lifespan. *)

Start ==
  /\ phase = "off"
  /\ phase' = "running"
  /\ worker' = "wait"
  /\ UNCHANGED <<tables, now, stopping, queue, drops, last, batch, history>>

Close ==
  /\ phase = "running"
  /\ phase' = "closing"
  /\ stopping' = TRUE
  /\ atClose' = accepted
  /\ UNCHANGED <<tables, now, queue, drops, worker, last, batch,
                 accepted, inserted, lost, dropped, crashed, faults, crashes>>

CloseReturn ==
  /\ phase = "closing"
  /\ worker = "exited"
  /\ phase' = "closed"
  /\ UNCHANGED <<tables, now, stopping, queue, drops, worker, last, batch, history>>

Tick ==
  /\ now < MaxTime
  /\ now' = now + 1
  /\ UNCHANGED <<tables, memory, history>>

-----------------------------------------------------------------------------
(* handle_ingest of an event that verifies and decodes: enqueue, then 202.  *)
(* The others are answered 401 or 400 and change nothing.  Events of        *)
(* several gateways, or delayed ones, need not arrive in the order of their *)
(* timestamps.                                                              *)

(* Slip: an overflowing queue is not counted. *)
EnqueueUncounted(e) ==
  LET full == Len(queue) >= QueueSize IN
  /\ queue' = Append(IF full THEN Tail(queue) ELSE queue, e)
  /\ dropped' = IF full THEN dropped \union {Head(queue).n} ELSE dropped
  /\ UNCHANGED drops

Enqueue(e) ==
  LET full == Len(queue) >= QueueSize IN
  /\ queue' = Append(IF full THEN Tail(queue) ELSE queue, e)
  /\ dropped' = IF full THEN dropped \union {Head(queue).n} ELSE dropped
  /\ drops' = IF full THEN drops + 1 ELSE drops

Ingest(at) ==
  /\ phase = "running"
  /\ accepted < MaxEvents
  /\ at <= now
  /\ accepted' = accepted + 1
  /\ Enqueue([n |-> accepted + 1, at |-> at])
  /\ UNCHANGED <<tables, now, phase, stopping, worker, last, batch,
                 inserted, lost, crashed, faults, crashes, atClose>>

-----------------------------------------------------------------------------
(* _run, _drain_and_persist and _persist                                    *)

(* Slip: after the loop the task exits without the last drain. *)
AfterPersistNoFinally == IF last THEN "exited" ELSE IF stopping THEN "exited" ELSE "wait"

(* Where _run goes on after a drain_and_persist. *)
AfterPersist == IF last THEN "exited" ELSE IF stopping THEN "finally" ELSE "wait"

(* The ticker or the stop signal wakes the loop: take all that is queued.   *)
(* With nothing queued a tick changes nothing unless the task is stopping.  *)
DrainTick ==
  /\ worker = "wait"
  /\ queue # <<>> \/ stopping
  /\ batch' = queue
  /\ queue' = <<>>
  /\ worker' = IF queue = <<>> THEN AfterPersist ELSE "insert"
  /\ UNCHANGED <<tables, now, phase, stopping, drops, last, history>>

(* The `finally` block: once more, for what arrived meanwhile. *)
DrainFinally ==
  /\ worker = "finally"
  /\ batch' = queue
  /\ queue' = <<>>
  /\ last' = TRUE
  /\ worker' = IF queue = <<>> THEN "exited" ELSE "insert"
  /\ UNCHANGED <<tables, now, phase, stopping, drops, history>>

(* insert_events succeeds. *)
Insert ==
  /\ worker = "insert"
  /\ rows' = WithRows(batch)
  /\ inserted' = inserted \union Numbers(batch)
  /\ worker' = "rollup"
  /\ UNCHANGED <<rollups, lastIngest, retention, now, phase, stopping, queue, drops, last,
                 batch, accepted, lost, dropped, crashed, faults, crashes, atClose>>

(* Slip: the batch is put back and tried again, although some rows are in. *)
InsertFailsRetried(k) ==
  /\ worker = "insert"
  /\ rows' = WithRows(SubSeq(batch, 1, k))
  /\ inserted' = inserted \union Numbers(SubSeq(batch, 1, k))
  /\ faults' = TRUE
  /\ UNCHANGED <<rollups, lastIngest, retention, now, phase, stopping, queue, drops, last,
                 worker, batch, accepted, lost, dropped, crashed, crashes, atClose>>

(* insert_events raises at row k + 1: the k rows before it stay, the batch  *)
(* is logged as lost and given up.                                          *)
InsertFails(k) ==
  /\ worker = "insert"
  /\ rows' = WithRows(SubSeq(batch, 1, k))
  /\ inserted' = inserted \union Numbers(SubSeq(batch, 1, k))
  /\ lost' = lost \union Numbers(batch)
  /\ faults' = TRUE
  /\ worker' = AfterPersist
  /\ batch' = <<>>
  /\ UNCHANGED <<rollups, lastIngest, retention, now, phase, stopping, queue, drops, last,
                 accepted, dropped, crashed, crashes, atClose>>

(* upsert_rollups writes the buckets of the first k events, which is all of *)
(* them unless it raises; a failure is logged and the task goes on.         *)
Buckets(k) == {batch[i].at : i \in 1..k}

Rollup(k) ==
  /\ worker = "rollup"
  /\ rollups' = WithRollups(batch, Buckets(k))
  /\ faults' = (faults \/ Buckets(k) # Buckets(Len(batch)))
  /\ worker' = "setting"
  /\ UNCHANGED <<rows, lastIngest, retention, now, phase, stopping, queue, drops, last,
                 batch, accepted, inserted, lost, dropped, crashed, crashes, atClose>>

(* Slip: the first event of the batch is taken for the latest. *)
SettingOfFirst ==
  /\ worker = "setting"
  /\ lastIngest' = batch[1].at
  /\ worker' = AfterPersist
  /\ batch' = <<>>
  /\ UNCHANGED <<rows, rollups, retention, now, phase, stopping, queue, drops, last, history>>

(* set_setting(last_ingest_at) *)
Setting ==
  /\ worker = "setting"
  /\ lastIngest' = batch[Len(batch)].at
  /\ worker' = AfterPersist
  /\ batch' = <<>>
  /\ UNCHANGED <<rows, rollups, retention, now, phase, stopping, queue, drops, last, history>>

SettingFails ==
  /\ worker = "setting"
  /\ faults' = TRUE
  /\ worker' = AfterPersist
  /\ batch' = <<>>
  /\ UNCHANGED <<tables, now, phase, stopping, queue, drops, last,
                 accepted, inserted, lost, dropped, crashed, crashes, atClose>>

(* The task's steps when no statement fails, and the failing ones. *)
PersistOk ==
  \/ DrainTick \/ DrainFinally \/ Insert \/ Rollup(Len(batch)) \/ Setting
  \/ CloseReturn

PersistFails ==
  \/ \E k \in 0..(Len(batch) - 1) : InsertFails(k) \/ Rollup(k)
  \/ SettingFails

Persist == PersistOk \/ PersistFails

-----------------------------------------------------------------------------
(* The process is killed: what is in memory is gone, what was committed     *)
(* stays, down to the first k rows of a batched write in progress.          *)
Crash(k) ==
  /\ phase \in {"running", "closing"}
  /\ crashes < MaxCrashes
  /\ crashes' = crashes + 1
  /\ faults' = TRUE
  /\ IF worker = "insert"
     THEN /\ rows' = WithRows(SubSeq(batch, 1, k))
          /\ inserted' = inserted \union Numbers(SubSeq(batch, 1, k))
     ELSE UNCHANGED <<rows, inserted>>
  /\ rollups' = IF worker = "rollup" THEN WithRollups(batch, Buckets(k)) ELSE rollups
  /\ crashed' = crashed \union (Numbers(queue) \union (Numbers(batch) \ inserted'))
  /\ phase' = "off"
  /\ stopping' = FALSE
  /\ queue' = <<>>
  /\ drops' = 0
  /\ worker' = "off"
  /\ last' = FALSE
  /\ batch' = <<>>
  /\ UNCHANGED <<lastIngest, retention, now, accepted, lost, dropped, atClose>>

Finished == phase = "closed" /\ UNCHANGED vars

Next ==
  \/ Start \/ Close \/ Tick
  \/ \E at \in Times : Ingest(at)
  \/ Persist
  \/ \E k \in 0..Len(batch) : Crash(k)
  \/ Finished

Spec == Init /\ [][Next]_vars

(* The ticker fires every FLUSH_INTERVAL and a statement returns or raises  *)
(* within busy_timeout.                                                     *)
FairSpec == Spec /\ WF_vars(Persist)

-----------------------------------------------------------------------------
(* Properties *)

Settled == inserted \union lost \union dropped \union crashed

(* One type invariant. *)
TypeOK ==
  /\ StoreTypeOK
  /\ now \in Times
  /\ phase \in {"off", "running", "closing", "closed"}
  /\ worker \in {"off", "wait", "insert", "rollup", "setting", "finally", "exited"}
  /\ stopping \in BOOLEAN /\ last \in BOOLEAN /\ faults \in BOOLEAN
  /\ queue \in Seq(Event) /\ Len(queue) <= QueueSize
  /\ batch \in Seq(Event) /\ Len(batch) <= QueueSize
  /\ drops \in 0..MaxEvents
  /\ accepted \in 0..MaxEvents /\ crashes \in 0..MaxCrashes /\ atClose \in 0..accepted
  /\ \A s \in {inserted, lost, dropped, crashed} : s \subseteq 1..accepted

(* Every event that was answered with 202 is queued, in the batch being     *)
(* written, in the table, or accounted for by an overflow, a logged failure *)
(* or a crash; none is given up twice, or given up and written again.       *)
(* "Stop after persisting whatever is queued": when aclose returns, nothing *)
(* accepted before it was called is left in memory.                         *)
Accounted ==
  /\ 1..accepted = Numbers(queue) \union Numbers(batch) \union Settled
  /\ Numbers(queue) \intersect (Numbers(batch) \union Settled) = {}
  /\ Numbers(batch) \intersect (lost \union dropped \union crashed) = {}
  /\ dropped \intersect (inserted \union lost \union crashed) = {}
  /\ crashed \intersect (inserted \union lost) = {}
  /\ crashes = 0 => drops = Cardinality(dropped)
  /\ phase = "closed" => 1..atClose \subseteq Settled

(* The table holds each event once, and its ids follow the order of arrival *)
(* whatever failed, was overwritten or was restarted in between: the latest *)
(* id is the latest event.                                                  *)
IdsFollowArrival ==
  \A r, s \in rows : r.ev.n < s.ev.n <=> r.id < s.id

(* A bucket never counts more events than were written: failures and        *)
(* crashes can only leave the overview short.                               *)
Written(t) == {r \in rows : r.ev.at = t}

RollupsNeverOvercount == \A t \in Times : rollups[t] <= Cardinality(Written(t))

(* While nothing has failed, a finished flush leaves the three writes in    *)
(* agreement: the buckets count exactly the rows and the last ingest time   *)
(* is that of the newest row.                                               *)
FlushesAgree ==
  ~faults /\ worker \in {"wait", "exited"} =>
    /\ \A t \in Times : rollups[t] = Cardinality(Written(t))
    /\ lastIngest = IF rows = {} THEN Never
                    ELSE (CHOOSE r \in rows : r.id = LatestId).ev.at

(* The batch is written "in one transaction": an event the log reports lost *)
(* is not in the table.                                                     *)
LostIsAbsent == lost \intersect inserted = {}

(* An accepted event does not stay in memory for ever, and aclose returns.  *)
EveryEventSettles ==
  /\ \A e \in 1..MaxEvents : accepted >= e ~> e \in Settled
  /\ phase = "closing" ~> phase # "closing"
=============================================================================
