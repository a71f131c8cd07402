---------------------------- MODULE ConsoleEvents ----------------------------
(***************************************************************************)
(* The console's events once ingested: the Batcher that writes them        *)
(* (module Batcher), the RetentionJob that deletes old ones, a user who    *)
(* changes the retention window, and a viewer of Live Logs, who loads the  *)
(* page and then follows the stream.                                       *)
(*                                                                         *)
(* What failing writes and crashes do to the tables is module Batcher's    *)
(* subject; here the batcher's statements succeed.                         *)
(*                                                                         *)
(* Persist, sweep and stream queries run on threads of their own; they     *)
(* meet in the store, one statement at a time.                             *)
(***************************************************************************)
EXTENDS Store

CONSTANTS QueueSize, MaxEvents, MaxCrashes,   \* as in Batcher
          StreamLimit                         \* STREAM_BATCH_LIMIT

ASSUME ConsoleEventsAssumption ==
  /\ QueueSize \in Nat \ {0} /\ MaxEvents \in Nat /\ MaxCrashes \in Nat
  /\ StreamLimit \in Nat \ {0}

VARIABLES
  (* the batcher's *)
  now, phase, stopping, queue, drops, worker, last, batch,
  accepted, inserted, lost, dropped, crashed, faults, crashes, atClose,
  (* the retention job's *)
  sweeper,     \* "off", "start", "read", "delete", "idle", "exited"
  sweepNow,    \* the time read before the sweep's thread started
  sweepDays,   \* the window the sweep has read
  inForce,     \* history: the windows in force since the sweep began
  (* the viewer's *)
  viewer,      \* "away", "page" (loaded, not yet streaming), "stream"
  cursor,      \* the stream's cursor
  streamed,    \* the events the stream has sent, in order
  joined,      \* history: `inserted` when the stream read its cursor
  swept        \* history: rows were deleted while the stream was open

batcherVars == <<now, phase, stopping, queue, drops, worker, last, batch, accepted, inserted,
                 lost, dropped, crashed, faults, crashes, atClose>>
sweeperVars == <<sweeper, sweepNow, sweepDays, inForce>>
viewerVars  == <<viewer, cursor, streamed, joined, swept>>
vars == <<tables, batcherVars, sweeperVars, viewerVars>>

B == INSTANCE Batcher

Init ==
  /\ B!Init
  /\ sweeper = "off"
  /\ sweepNow = 0
  /\ sweepDays = 0
  /\ inForce = {}
  /\ viewer = "away"
  /\ cursor = 0
  /\ streamed = <<>>
  /\ joined = {}
  /\ swept = FALSE

-----------------------------------------------------------------------------
(* The lifespan: both tasks start together; aclose of the job follows that  *)
(* of the batcher.                                                          *)

Startup ==
  /\ B!Start
  /\ sweeper' = "start"
  /\ UNCHANGED <<sweepNow, sweepDays, inForce, viewerVars>>

BatcherStep ==
  /\ \/ \E at \in Times : B!Ingest(at)
     \/ B!PersistOk
     \/ B!Tick
  /\ UNCHANGED <<sweeperVars, viewerVars>>

ViewerGone ==
  /\ viewer' = "away"
  /\ cursor' = 0
  /\ streamed' = <<>>
  /\ joined' = {}
  /\ swept' = FALSE

(* The server ends or cancels every request, streams included, before the   *)
(* lifespan's cleanup.                                                      *)
Shutdown ==
  /\ B!Close
  /\ ViewerGone
  /\ UNCHANGED sweeperVars

SweeperStop ==
  /\ phase = "closed"
  /\ sweeper = "idle"
  /\ sweeper' = "exited"
  /\ UNCHANGED <<tables, batcherVars, sweepNow, sweepDays, inForce, viewerVars>>

-----------------------------------------------------------------------------
(* RetentionJob.run_once: at startup and then once per interval.            *)

SweepBegin ==
  /\ sweeper \in {"start", "idle"}
  /\ sweepNow' = now
  /\ inForce' = {retention}
  /\ sweeper' = "read"
  /\ UNCHANGED <<tables, batcherVars, sweepDays, viewerVars>>

(* sweep reads the setting ... *)
SweepRead ==
  /\ sweeper = "read"
  /\ sweepDays' = retention
  /\ sweeper' = "delete"
  /\ UNCHANGED <<tables, batcherVars, sweepNow, inForce, viewerVars>>

SweepReturns == sweeper' = "idle" /\ sweepNow' = 0 /\ sweepDays' = 0 /\ inForce' = {}

(* ... and deletes, in another statement. *)
SweepDelete ==
  /\ sweeper = "delete"
  /\ rows' = WithoutOlder(sweepNow - sweepDays)
  /\ SweepReturns
  /\ swept' = (swept \/ (viewer = "stream" /\ rows' # rows))
  /\ UNCHANGED <<rollups, lastIngest, retention, batcherVars,
                 viewer, cursor, streamed, joined>>

(* Either statement raises: logged, and the job goes on. *)
SweepFails ==
  /\ sweeper \in {"read", "delete"}
  /\ SweepReturns
  /\ UNCHANGED <<tables, batcherVars, viewerVars>>

Sweep == SweepBegin \/ SweepRead \/ SweepDelete \/ SweepFails \/ SweeperStop

(* handle_retention_change: any signed-in user may set the window. *)
SetRetention(days) ==
  /\ phase = "running"
  /\ retention' = days
  /\ inForce' = IF inForce = {} THEN {} ELSE inForce \union {days}
  /\ UNCHANGED <<rows, rollups, lastIngest, batcherVars, sweeper, sweepNow, sweepDays, viewerVars>>

-----------------------------------------------------------------------------
(* handle_logs_list and handle_logs_stream; their filters are module        *)
(* Filters' subject.                                                        *)

LoadPage ==
  /\ phase = "running"
  /\ viewer = "away"
  /\ viewer' = "page"
  /\ UNCHANGED <<tables, batcherVars, sweeperVars, cursor, streamed, joined, swept>>

(* The page's script opens the stream, which starts at the tail. *)
OpenStream ==
  /\ phase = "running"
  /\ viewer = "page"
  /\ viewer' = "stream"
  /\ cursor' = LatestId
  /\ joined' = inserted
  /\ UNCHANGED <<tables, batcherVars, sweeperVars, streamed, swept>>

(* Slip: the cursor moves to the table's end rather than the batch's. *)
PollToTail ==
  /\ viewer = "stream"
  /\ LET found == EventsSince(cursor, StreamLimit) IN
     /\ found # {}
     /\ cursor' = LatestId
     /\ streamed' = streamed \o
          [i \in 1..Cardinality(found) |->
             (CHOOSE r \in found : Cardinality({s \in found : s.id < r.id}) = i - 1).ev.n]
  /\ UNCHANGED <<tables, batcherVars, sweeperVars, viewer, joined, swept>>

(* One poll: what is beyond the cursor, oldest first. *)
Poll ==
  /\ viewer = "stream"
  /\ LET found == EventsSince(cursor, StreamLimit) IN
     /\ found # {}
     /\ cursor' = Max({r.id : r \in found})
     /\ streamed' = streamed \o
          [i \in 1..Cardinality(found) |->
             (CHOOSE r \in found : Cardinality({s \in found : s.id < r.id}) = i - 1).ev.n]
  /\ UNCHANGED <<tables, batcherVars, sweeperVars, viewer, joined, swept>>

(* The stream finds its client disconnected and ends. *)
Leave ==
  /\ viewer # "away"
  /\ ViewerGone
  /\ UNCHANGED <<tables, batcherVars, sweeperVars>>

Finished == sweeper = "exited" /\ UNCHANGED vars

Next ==
  \/ Startup \/ Shutdown
  \/ BatcherStep
  \/ Sweep
  \/ \E days \in RetentionDays : SetRetention(days)
  \/ LoadPage \/ OpenStream \/ Poll \/ Leave
  \/ Finished

Spec == Init /\ [][Next]_vars

(* The stream polls every POLL_INTERVAL for as long as the viewer stays. *)
FairSpec == Spec /\ WF_vars(Poll)

-----------------------------------------------------------------------------
(* Properties *)

Streamed == {streamed[i] : i \in DOMAIN streamed}

(* One type invariant. *)
TypeOK ==
  /\ B!TypeOK
  /\ sweeper \in {"off", "start", "read", "delete", "idle", "exited"}
  /\ sweepNow \in 0..now
  /\ sweepDays \in RetentionDays \union {0}
  /\ inForce \subseteq RetentionDays
  /\ viewer \in {"away", "page", "stream"}
  /\ cursor \in Nat
  /\ joined \subseteq inserted
  /\ streamed \in Seq(inserted)
  /\ swept \in BOOLEAN

(* A sweep deletes only events older than a window that was in force while  *)
(* it ran, even if the clock moves on or a user changes the window          *)
(* between its steps.                                                       *)
RetentionRespected ==
  [][\A r \in rows \ rows' : \E d \in inForce : r.ev.at < now - d]_vars

(* The stream repeats nothing and keeps the order of arrival.  As long as   *)
(* no row was deleted under it, its cursor passes nothing by: a row written *)
(* since it opened is beyond the cursor or sent.                            *)
StreamPassesNothing ==
  viewer = "stream" =>
    /\ \A i, j \in DOMAIN streamed : i < j => streamed[i] < streamed[j]
    /\ ~swept =>
         \A r \in rows : r.ev.n \in joined \/ r.id > cursor \/ r.ev.n \in Streamed

(* ... and it is sent in the end, a backlog included, if the viewer stays. *)
StreamCatchesUp ==
  \A e \in 1..MaxEvents :
    (viewer = "stream" /\ e \in inserted \ joined) ~> (e \in Streamed \/ swept \/ viewer = "away")
=============================================================================
