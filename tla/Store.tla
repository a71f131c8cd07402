-------------------------------- MODULE Store --------------------------------
(***************************************************************************)
(* The console's SQLite tables that verdict events live in, and the        *)
(* statements the console runs on them (hookguard_console/store).          *)
(*                                                                         *)
(* A process-wide lock is held for each statement and for each batched     *)
(* write, so within the process a statement is one step.  The connection   *)
(* is opened with isolation_level=None: every row of a batched write       *)
(* commits by itself, and the rollback after a failing row undoes nothing. *)
(* A batched write is therefore one step that may stop after any row.      *)
(*                                                                         *)
(* A time is a number; it stands for the received_at of an event, and for  *)
(* the (hour, provider, verdict) bucket it is counted in.  Never is 0.     *)
(***************************************************************************)
EXTENDS Integers, Sequences, FiniteSets, FiniteSetsExt

CONSTANTS
  MaxTime,       \* bound of the model: the last instant
  RetentionDays  \* the retention settings a user may choose

ASSUME StoreAssumption ==
  /\ MaxTime \in Nat \ {0}
  /\ RetentionDays \subseteq Nat \ {0}
  /\ RetentionDays # {}

VARIABLES
  rows,        \* table events: a set of [id, ev]
  rollups,     \* table event_rollups: count per bucket
  lastIngest,  \* setting last_ingest_at, Never if absent
  retention    \* setting retention_days

tables == <<rows, rollups, lastIngest, retention>>

Times == 1..MaxTime
Never == 0

(* An ingested event: its place in the order of arrival, and its received_at. *)
Event == [n : Nat, at : Times]

StoreInit ==
  /\ rows = {}
  /\ rollups = [t \in Times |-> 0]
  /\ lastIngest = Never
  /\ retention \in RetentionDays

StoreTypeOK ==
  /\ rows \subseteq [id : Nat \ {0}, ev : Event]
  /\ rollups \in [Times -> Nat]
  /\ lastIngest \in Times \union {Never}
  /\ retention \in RetentionDays

(* latest_event_id *)
LatestId == IF rows = {} THEN 0 ELSE Max({r.id : r \in rows})

(* insert_events: an INTEGER PRIMARY KEY without AUTOINCREMENT is one more  *)
(* than the largest id in the table.                                        *)
WithRows(evs) == rows \union {[id |-> LatestId + i, ev |-> evs[i]] : i \in DOMAIN evs}

(* Slip: one upsert adds the whole batch to each of its buckets. *)
WithRollupsOfWholeBatch(evs, buckets) ==
  [t \in Times |-> rollups[t] + IF t \in buckets THEN Len(evs) ELSE 0]

(* rollup_deltas and upsert_rollups, for those of the batch's buckets that  *)
(* were written.                                                            *)
WithRollups(evs, buckets) ==
  [t \in Times |-> rollups[t] + IF t \in buckets
                                THEN Cardinality({i \in DOMAIN evs : evs[i].at = t})
                                ELSE 0]

(* Slip: the event that is just as old as the window goes too. *)
WithoutOlderOrEqual(cutoff) == {r \in rows : r.ev.at > cutoff}

(* delete_events_older_than *)
WithoutOlder(cutoff) == {r \in rows : r.ev.at >= cutoff}

(* events_since: at most `limit` rows beyond the cursor, in the order of their ids. *)
EventsSince(cursor, limit) ==
  {r \in rows : /\ r.id > cursor
                /\ Cardinality({s \in rows : s.id > cursor /\ s.id < r.id}) < limit}
=============================================================================
