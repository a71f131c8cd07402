------------------------------ MODULE Dashboard ------------------------------
(***************************************************************************)
(* What the console's pages show of the verdicts: the Overview with its    *)
(* cards, chart and status strip, the stats endpoint and the Providers     *)
(* page (hookguard_console routes/dashboard.py, routes/providers.py,       *)
(* views.py), over the queries of store/events.py.                         *)
(*                                                                         *)
(* Counts come from event_rollups, latencies from events.  A page runs on  *)
(* the event loop and reads statement by statement, while the batcher's    *)
(* thread writes a batch in three statements and the sweep's thread        *)
(* deletes rows: no two of a page's reads need see the same tables.  The   *)
(* writes succeed here; their failures are the subject of module Batcher.  *)
(*                                                                         *)
(* An event's time is the gateway's; its clock may be ahead of the         *)
(* console's.  An hour is HourLen instants.  The n-th event that was       *)
(* written carries the number n, which stands for the fields no query      *)
(* looks at.                                                               *)
(***************************************************************************)
EXTENDS Integers, Sequences, FiniteSets, FiniteSetsExt, SequencesExt

CONSTANTS
  Kinds,           \* what the queries see of an event: [provider, verdict, latency]
  HourLen,         \* instants of an hour
  Windows,         \* WINDOWS: the hour counts the pages offer
  SampleLimit,     \* LATENCY_SAMPLE_LIMIT
  LivenessWindow,  \* LIVENESS_WINDOW
  Delays,          \* bound of the model: by how much events are behind the console's
                   \* clock when they come, negative if the gateway's is ahead
  MaxBatch,        \* bound of the model: events of a batch
  MaxEvents,       \* bound of the model: events ever written
  Start,           \* the first instant, which is long after 1970
  MaxTime          \* bound of the model: the last instant

ASSUME DashboardAssumption ==
  /\ IsFiniteSet(Kinds) /\ \A k \in Kinds : k.latency \in Int
  /\ HourLen \in Nat \ {0} /\ SampleLimit \in Nat \ {0} /\ LivenessWindow \in Nat
  /\ Windows \subseteq Nat \ {0} /\ Delays \subseteq Int /\ IsFiniteSet(Delays)
  /\ Start \in Nat \ {0} /\ \A d \in Delays : d < Start
  /\ MaxBatch \in Nat /\ MaxEvents \in Nat /\ MaxTime \in Nat \ {0}

VARIABLES
  now,         \* the clock
  rows,        \* table events
  rollups,     \* table event_rollups: a function on its (hour, provider, verdict) keys
  lastIngest,  \* setting last_ingest_at, Never if absent
  worker,      \* the batcher's thread: "wait", "insert", "rollup", "setting"
  batch,       \* the batch it writes
  page,        \* an Overview page being rendered, NoPage if there is none
  written,     \* history: every event that was ever in the table
  flushedAt,   \* history: when the last flush was completed, Never if none was
  heard        \* history: the times that flush's events carry

vars == <<now, rows, rollups, lastIngest, worker, batch, page, written, flushedAt, heard>>

Never == 0
Hour(t) == t \div HourLen
Providers == {k.provider : k \in Kinds}
BucketOf(e) == <<Hour(e.at), e.kind.provider, e.kind.verdict>>

NoPage == [stage |-> "none"]

Init ==
  /\ now = Start
  /\ rows = {}
  /\ rollups = <<>>
  /\ lastIngest = Never
  /\ worker = "wait"
  /\ batch = <<>>
  /\ page = NoPage
  /\ written = {}
  /\ flushedAt = Never
  /\ heard = {}

-----------------------------------------------------------------------------
(* Queries of store/events.py; t is the time the page was asked for *)

(* Slip: the window begins an hour too early. *)
InWindowOffByOne(b, t, hours) == b[1] >= Hour(t) - hours /\ b[1] <= Hour(t)

(* hour >= start_hour AND hour <= now_hour *)
InWindow(b, t, hours) == b[1] >= Hour(t) - hours + 1 /\ b[1] <= Hour(t)

(* SUM(n) over some buckets *)
Total(bs) == MapThenSumSet(LAMBDA b : rollups[b], bs)

(* A sum for each verdict; the events table admits no others. *)
Split(bs) ==
  [accepted |-> Total({b \in bs : b[3] = "accepted"}),
   rejected |-> Total({b \in bs : b[3] = "rejected"})]

(* summary_window, its counts *)
SummaryWindow(t, hours) == Split({b \in DOMAIN rollups : InWindow(b, t, hours)})

(* hourly_counts_window: a dense series, oldest hour first *)
HourlyCountsWindow(t, hours) ==
  [i \in 1..hours |->
     LET hour == Hour(t) - hours + i
     IN  [hour |-> hour,
          counts |-> Split({b \in DOMAIN rollups : InWindow(b, t, hours) /\ b[1] = hour})]]

(* provider_stats_window: only the providers that have a bucket *)
ProviderStatsWindow(t, hours) ==
  LET found == {b \in DOMAIN rollups : InWindow(b, t, hours)}
  IN  [p \in {b[2] : b \in found} |-> Split({b \in found : b[2] = p})]

(* handle_providers: a card for each provider of the catalog, without       *)
(* counts if the query returned none.                                       *)
ProviderCards(t, hours) ==
  LET stats == ProviderStatsWindow(t, hours)
  IN  [p \in Providers |-> IF p \in DOMAIN stats THEN stats[p]
                           ELSE [accepted |-> 0, rejected |-> 0]]

(* handle_stats_summary: what the cards are refreshed with *)
StatsSummary(hours) == SummaryWindow(now, hours)

(* has_any_event *)
HasAnyEvent == rows # {}

(* The rows a LIMITed query ordered by received_at may return: rows of the  *)
(* same time come in any order.                                             *)
Newest(candidates, limit) ==
  {s \in SUBSET candidates :
     /\ Cardinality(s) = IF Cardinality(candidates) < limit THEN Cardinality(candidates) ELSE limit
     /\ \A r \in s, q \in candidates \ s : r.at >= q.at}

(* _p50_latency_since: what may be sampled *)
Samples(since) == Newest({r \in rows : r.at >= since}, SampleLimit)

(* Slip: the upper of the two middle values. *)
UpperMedian(latencies) == latencies[Len(latencies) \div 2 + 1]

(* ... and the middle of the sorted sample, the lower one of two. *)
Median(latencies) ==
  LET mid == Len(latencies) \div 2
  IN  IF Len(latencies) % 2 = 1 THEN latencies[mid + 1] ELSE latencies[mid]

(* The latencies of the sample in ascending order. *)
Sorted(sample) ==
  LET order == CHOOSE s \in SetToSeqs(sample) :
                 \A i, j \in DOMAIN s : i < j => s[i].kind.latency <= s[j].kind.latency
  IN  [i \in DOMAIN order |-> order[i].kind.latency]

P50(sample) == IF sample = {} THEN 0 ELSE Median(Sorted(sample))

(* gateway_connected, on what dashboard_status reads *)
GatewayConnected(t) == lastIngest # Never /\ t - lastIngest <= LivenessWindow

-----------------------------------------------------------------------------
(* The batcher's thread, the sweep's, and the clock *)

(* A batch is taken; its events may be old, and in any order. *)
Take(evs) ==
  /\ worker = "wait"
  /\ Cardinality(written) + Len(evs) <= MaxEvents
  /\ batch' = [i \in DOMAIN evs |-> [n |-> Cardinality(written) + i, at |-> evs[i].at,
                                     kind |-> evs[i].kind]]
  /\ worker' = "insert"
  /\ UNCHANGED <<now, rows, rollups, lastIngest, page, written, flushedAt, heard>>

(* insert_events *)
Insert ==
  /\ worker = "insert"
  /\ rows' = rows \union ToSet(batch)
  /\ written' = written \union ToSet(batch)
  /\ worker' = "rollup"
  /\ UNCHANGED <<now, rollups, lastIngest, batch, page, flushedAt, heard>>

(* rollup_deltas: one count for each bucket of the batch *)
RollupDeltas ==
  [b \in {BucketOf(batch[i]) : i \in DOMAIN batch} |->
     Cardinality({i \in DOMAIN batch : BucketOf(batch[i]) = b})]

Buckets == DOMAIN rollups \union DOMAIN RollupDeltas

(* Slip: a bucket that exists is overwritten. *)
WithRollupsReplaced ==
  [b \in Buckets |-> IF b \in DOMAIN RollupDeltas THEN RollupDeltas[b] ELSE rollups[b]]

CountIn(counts, b) == IF b \in DOMAIN counts THEN counts[b] ELSE 0

(* upsert_rollups: n = n + excluded.n *)
WithRollups == [b \in Buckets |-> CountIn(rollups, b) + CountIn(RollupDeltas, b)]

Rollup ==
  /\ worker = "rollup"
  /\ rollups' = WithRollups
  /\ worker' = "setting"
  /\ UNCHANGED <<now, rows, lastIngest, batch, page, written, flushedAt, heard>>

(* Slip: the time of the flush is recorded. *)
SettingOfFlush ==
  /\ worker = "setting"
  /\ lastIngest' = now
  /\ flushedAt' = now
  /\ heard' = {batch[i].at : i \in DOMAIN batch}
  /\ batch' = <<>>
  /\ worker' = "wait"
  /\ UNCHANGED <<now, rows, rollups, page, written>>

(* set_setting(last_ingest_at): the time the last event of the batch carries *)
Setting ==
  /\ worker = "setting"
  /\ lastIngest' = batch[Len(batch)].at
  /\ flushedAt' = now
  /\ heard' = {batch[i].at : i \in DOMAIN batch}
  /\ batch' = <<>>
  /\ worker' = "wait"
  /\ UNCHANGED <<now, rows, rollups, page, written>>

(* delete_events_older_than; event_rollups is not swept *)
Sweep(cutoff) ==
  /\ cutoff <= now
  /\ \E r \in rows : r.at < cutoff
  /\ rows' = {r \in rows : r.at >= cutoff}
  /\ UNCHANGED <<now, rollups, lastIngest, worker, batch, page, written, flushedAt, heard>>

Tick ==
  /\ now < MaxTime
  /\ now' = now + 1
  /\ UNCHANGED <<rows, rollups, lastIngest, worker, batch, page, written, flushedAt, heard>>

-----------------------------------------------------------------------------
(* handle_overview, statement by statement; the other pages are one query.  *)

(* console.now() and has_any_event: an empty table gets the empty state.    *)
OpenPage(hours) ==
  /\ page = NoPage
  /\ page' = IF HasAnyEvent
             THEN [stage |-> "cards", at |-> now, hours |-> hours]
             ELSE [stage |-> "empty"]
  /\ UNCHANGED <<now, rows, rollups, lastIngest, worker, batch, written, flushedAt, heard>>

(* summary_window *)
ReadCards ==
  /\ page.stage = "cards"
  /\ page' = [stage |-> "chart", at |-> page.at, hours |-> page.hours,
              cards |-> SummaryWindow(page.at, page.hours)]
  /\ UNCHANGED <<now, rows, rollups, lastIngest, worker, batch, written, flushedAt, heard>>

(* hourly_counts_window, drawn beside the cards; the table of rejections    *)
(* and the status strip are read after it and combined with nothing.        *)
Chart == HourlyCountsWindow(page.at, page.hours)

ReadChart ==
  /\ page.stage = "chart"
  /\ page' = NoPage
  /\ UNCHANGED <<now, rows, rollups, lastIngest, worker, batch, written, flushedAt, heard>>

(* The empty state reads nothing more. *)
ShowEmpty ==
  /\ page.stage = "empty"
  /\ page' = NoPage
  /\ UNCHANGED <<now, rows, rollups, lastIngest, worker, batch, written, flushedAt, heard>>

-----------------------------------------------------------------------------

Incoming == [at : {now - d : d \in Delays}, kind : Kinds]

Next ==
  \/ \E len \in 1..MaxBatch : \E evs \in [1..len -> Incoming] : Take(evs)
  \/ Insert \/ Rollup \/ Setting
  \/ \E cutoff \in 1..MaxTime : Sweep(cutoff)
  \/ Tick
  \/ \E hours \in Windows : OpenPage(hours)
  \/ ReadCards \/ ReadChart \/ ShowEmpty

Spec == Init /\ [][Next]_vars

-----------------------------------------------------------------------------
(* Properties *)

ChartTotal(v) == MapThenSumSet(LAMBDA i : Chart[i].counts[v], DOMAIN Chart)

(* The cards never show more than the chart below them: the counts only     *)
(* grow between the page's two reads, whatever is flushed or swept.         *)
CardsWithinChart ==
  [][ReadChart => \A v \in {"accepted", "rejected"} : page.cards[v] <= ChartTotal(v)]_vars

(* Cards, chart and provider cards are three groupings of the same events:  *)
(* all that were ever written and counted, in the window's hours, however   *)
(* late they came and however many of their rows were swept since, and none *)
(* whose hour has not come yet.                                             *)
Counted == IF worker = "rollup" THEN written \ ToSet(batch) ELSE written
Of(v, hours) ==
  {e \in Counted : /\ e.kind.verdict = v
                   /\ Hour(now) - Hour(e.at) \in 0..(hours - 1)}

ViewsAgree ==
  \A hours \in Windows, v \in {"accepted", "rejected"} :
    LET chart == HourlyCountsWindow(now, hours)
        cards == ProviderCards(now, hours)
    IN  /\ StatsSummary(hours)[v] = Cardinality(Of(v, hours))
        /\ \A i \in 1..hours :
             chart[i].counts[v] = Cardinality({e \in Of(v, hours) : Hour(e.at) = Hour(now) - hours + i})
        /\ \A p \in Providers :
             cards[p][v] = Cardinality({e \in Of(v, hours) : e.kind.provider = p})

(* The p50 is the lower median of the sampled rows: at least half of the    *)
(* sample is not above it, less than half is below it.                      *)
P50IsMedian ==
  \A hours \in Windows : \A s \in Samples((Hour(now) - hours + 1) * HourLen) :
    s # {} =>
      LET p50 == P50(s)
      IN  /\ 2 * Cardinality({r \in s : r.kind.latency <= p50}) >= Cardinality(s)
          /\ 2 * Cardinality({r \in s : r.kind.latency < p50}) < Cardinality(s)

(* The gateway "has been heard from recently": the strip says "connected"   *)
(* only if the last flush brought an event that the gateway stamped within  *)
(* LIVENESS_WINDOW, so that no backlog of old verdicts makes a silent       *)
(* gateway look alive, and if that flush is not older than the window, plus *)
(* what the gateway's clock may be ahead; and it does say so while all that *)
(* the last flush brought is of the window, and to the window's last        *)
(* instant.                                                                 *)
Lead == Max({0} \union {-d : d \in Delays})
OfWindow(at) == now - at <= LivenessWindow

ConnectedIsRecent ==
  /\ GatewayConnected(now) =>
       /\ \E at \in heard : OfWindow(at)
       /\ flushedAt # Never /\ now - flushedAt <= LivenessWindow + Lead
  /\ heard # {} /\ (\A at \in heard : OfWindow(at)) => GatewayConnected(now)
=============================================================================
