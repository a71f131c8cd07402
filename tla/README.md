# HookGuard: TLA+ models, checks and proofs

HookGuard stands between webhook senders and an application. The **gateway**
verifies each request with the provider's scheme, forwards the good ones to an
upstream and reports every verdict to the **console**, which stores the verdicts,
shows them, and administers accounts and the gateway's routes. Both are Python
programs on one asyncio event loop each; the console also runs database work on
threads and keeps everything in one SQLite file.

This directory holds a TLA+ model of both programs, the TLC runs that check the
model on small instances, and TLAPS proofs of what matters most for every value
of the constants. Source paths below are relative to `src/src/`.

## 1. Inventory

| Component | State | Operations | Talks to | Module |
|---|---|---|---|---|
| Event emitter, `hookguard_gateway/emitter.py` | bounded queue, delivery task, getter task, stop signal, failure counter | `start`, `record`, `_run`, `_post`, `aclose` | request handlers record; posts to the console | `Emitter`, `Pipeline` |
| Request path, `hookguard_gateway/app.py`, `__main__.py` | one handler per request, lifespan | read body, verify, forward, record, answer; ordered shutdown | verifiers, upstream, emitter | `Gateway` |
| Verifiers, `hookguard_gateway/providers/` | PayPal's certificate cache | `verify` of Stripe, GitHub, Shopify, PayPal | PayPal's certificate server | `Verifiers` |
| Gateway configuration, `hookguard_gateway/config.py`, `verifier.py` | none after startup | load, defaults, verifier factories | reads what the console exports | `Routes` |
| Event feed, `hookguard_core/events.py`, `gatewaysig.py`, `hookguard_console/ingest.py`, `routes/api.py` | the two programs' secrets | sign and post; check label, signature, body; answer | emitter, batcher | `Pipeline` |
| Batcher, `hookguard_console/batcher.py` | bounded queue, ticker task, drop counter | `enqueue`, tick, flush, `aclose` | store | `Batcher` |
| Event store, `hookguard_console/store/events.py`, `store/settings.py`, `store/_base.py` | tables `events`, `event_rollups`, `settings` | insert, upsert, delete, cursor, window, median and filter queries | batcher, retention, pages | `Store`, `Dashboard`, `Filters` |
| Overview and Providers pages, `hookguard_console/routes/dashboard.py`, `routes/providers.py`, `views.py` | none; several reads per page | cards, chart, refresh, provider cards, status strip | store | `Dashboard` |
| Duration syntax, `hookguard_core/goduration.py` | none | `parse_go_duration` | routes, gateway configuration | `Duration` |
| Retention, `hookguard_console/retention.py` | job task | `run_once`, `sweep`, `prune` of the limiters | store, limiters | `ConsoleEvents`, `Limiter` |
| Live Logs, `hookguard_console/routes/logs.py` | stream cursor per viewer | page, stream, disconnect, filters | store | `ConsoleEvents`, `Filters` |
| Login, sessions, users, reset, `hookguard_console/routes/auth.py`, `routes/settings.py`, `middleware.py` | tables `users`, `sessions`, reset links | login, signup, logout, reset, password, revoke, add/deactivate/reactivate users | store, `reset-password` command | `Accounts` |
| Rate limiter, `hookguard_console/auth/ratelimit.py` | hits per key | `allow`, `prune` | login and signup | `Limiter` |
| Routes and export, `hookguard_console/routes/endpoints.py`, `gwconfig.py`, `__main__.py` | table `endpoints` | create, update, delete, toggle, export, import, `seed-config` | gateway configuration | `Routes` |

`PROJECT.json` maps every definition to the lines it translates and lists the
parts that have no module.

What makes them hard:

- *Interleavings on the event loop.* A step is what happens between two awaits.
  The emitter's getter task may already hold an event when the stop signal
  arrives; a handler may be cancelled between forwarding and recording; a form
  is awaited after the session was looked up.
- *Several writers of one database.* The batcher's thread, the sweep's thread,
  the handlers and the operator's commands meet statement by statement, because
  the connection is opened in autocommit mode and nothing holds a transaction.
- *Reused ids.* SQLite gives a freed `INTEGER PRIMARY KEY` away again if it was
  the largest; cursors and sessions are remembered by id.
- *Limits.* Both queues drop their oldest entry; the stream returns a bounded
  batch; the limiter and the replay window have boundaries at equality.
- *A feed without acknowledgements to act on.* The gateway posts once; a timeout
  says nothing about what the console did, and a late request may be read after
  its successors.
- *Failures and kills.* Posts fail or raise what the task does not catch, writes
  stop half way, the console is killed between two statements and started again.
- *Order of shutdown.* Handlers first, then the emitter; the batcher, then the
  retention job.

What makes each component correct is the list of properties in section 3. The
hazards they answer, with their lines, are under `hazards` in `PROJECT.json`.

## 2. Modules

`Emitter` stands alone and refines `BestEffortFeed`. `Gateway` composes handlers
and lifespan with `E == INSTANCE Emitter`. `Store` holds the tables' variables
and statements; `Batcher` extends it, and `ConsoleEvents` composes
`B == INSTANCE Batcher` with retention and a viewer on the same tables.
`Pipeline` composes `Emitter` and `Batcher` over a network. `Forms` extends the
pure modules `Duration` and `Filters`. `Accounts`, `Dashboard`, `Limiter`,
`Routes` and `Verifiers` stand alone. Each `MC` module
says what its bounds make possible. Three of them follow two parts that share no state,
as the proof modules do: `MCAccounts` has `Accounts` and `Limiter`, `MCAdmission` has
`Routes` and `Verifiers`, `MCConsoleEvents` has `ConsoleEvents` and `Forms`. Each part
moves while the other is in an initial state, so a run has the sum of their states, and
the interleavings left out are of steps that cannot see each other. Definitions introduced by a comment that
begins with "Slip:" are plausible mistakes in the definition after them; no
specification uses them, and each has been seen to violate the property it is
listed with in `PROJECT.json`.

Data are abstracted to what the properties tell apart: an event is its number
and its time, a password its version, a signature who made it and whether it
covers the request, a duration whether it parses (except in `Duration`). History
variables are marked as such and appear in no guard except the bounds.

**Emitter.** `worker` is where the delivery task stands in `_run` (`select`: about
to create the getter; `wait`: in `asyncio.wait`; `post`; `drain` and `drainPost`:
after the stop signal), `getter` is the `Queue.get` task (`woken` is between the
put that woke it and its own turn), `held` its result or the event being posted.
`Record` is `record`/`_emit` with drop-oldest, whole. `PostRaise` is the exception
that `_post` does not catch: it ends the task, and `aclose` then raises. A bad
`EVENTS_URL` is the only cause the code shows (`urlValid`).

**BestEffortFeed.** What the handlers may rely on: recording never waits, an event
is tried at most once and in order, and given up only if it has at least
`Capacity` newer ones behind it.

**Gateway.** `Arrive` is a request's head, `BodyEnds` what its body turns out to be, if
it ever ends: `valid`, `forged`, `broken` (the verifier raises), `huge` or `cut` (the
client leaves). `Handler(r)` covers reading, the verdict, the
answer of the upstream or its failure, and recording, with the body cap and every
early return. `Upstream`, `Dribble` and `FallSilent` are the environment: an answer at
once, in pieces, or pieces that stop. Shutdown stops accepting, waits for
handlers or cancels them, and only then closes the emitter.

**Store and Batcher.** Statements commit row by row, as they do with
`isolation_level=None`. A flush is insert, rollups, last-ingest; each may fail
at any row and the rest of that flush is then skipped, as in `_persist`. `Crash`
kills the process at any point, also inside `executemany`; `Start` runs again on
the tables that are left.

**ConsoleEvents.** The batcher with writes that succeed (their failures are
`Batcher`'s subject), the sweep as three steps (clock, window, delete), any
change of the window, and a viewer who loads the page, opens the stream, polls
and leaves at will. Filters move no state and are `Filters`' subject.

**Pipeline.** `wire[e]` is the post of event `e`: `idle`, `sent`, or the status the
console has answered. `Deliver` is the delivery task up to and including the send;
`PostOk` needs the answer 202; `PostFail` may happen at any time of a post
(refusal, transport error, `POST_TIMEOUT`), whatever the console does with the
request. `Handle` is `handle_ingest` with its three checks in order, and may read
a request the emitter has given up; a request never handled is a lost one. The
console is killed and started with the gateway's secret, with another, or with
none, which is the empty key. `HandleForeign` is `handle_ingest` for any other
sender: it may claim any label and sign with any key it knows, the empty one
included, and its event is `Foreign` (0) in `arrivals`. Write failures, shutdown in
good order and the failure log are checked in `Batcher` and `Emitter` and kept
out here.

**Dashboard.** The tables as the queries see them, a writer that takes a batch and
writes it in three statements, a sweep with any cutoff, a clock, and an Overview
page that reads in steps. Queries are operators named as in `store/events.py`.
Events carry the gateway's time: late, or ahead of the console's clock, which starts
long after 1970. `flushedAt` and `heard` remember the last flush: when it was
completed, and the times its events carry.

**Duration, Filters, Forms.** `Duration` has the parser as the loop the code runs
(`Loop`, `Round`, `ParseNs`) and, after it, the grammar it stands for
(`IsDuration`, `Magnitude`), written independently of any scanning order.
`Filters` has the page's SQL (`Listed`, with SQLite's `LIKE` as external) and the
stream's Python (`Matches`). `Forms` types every text up to a length. Unit scales
and the int64 limit are parameters, so short texts reach the overflow.

**Accounts.** A request is suspended only at its form: `Begin` is the middleware's
lookup, `Finish` the handler after the form, one disjunct per handler. The reset's
read and delete are two steps because the operator's command is another process.
`Kill`, `KillInChange`, `KillInReset` and `KillInSignup` end the process between
any two statements of a handler; the tables stay and the requests are gone.
Expiry is a choice instead of a clock.

**Limiter.** `allow` as `Grant` and `Reject`, and the prune, which uses a clock read
before the sweep. The docstring speaks of a fixed window; the code keeps a
sliding log of attempts, and the model follows the code (section 6). A refusal's
time is what `allow` returns; the `Retry-After` header made of it is rounded.

**Routes.** The table, the handlers' validation, `seed-config` as look and insert,
and the pure functions on the way to a running gateway: `Export`, `Marshal`,
`Load` with its defaults, `Validate`, the factories' refusals, and the registration
of the path as a template (`Registers`): `Unroutable` are the paths it raises for, an
unknown convertor or a parameter that occurs twice.

**Verifiers.** The decision of each provider and PayPal's cache. A hit skips the
host and chain checks; a miss fetches while the clock and the server go on.
Cryptography is the predicate "made by this key over this request".

## 3. Runs

With two workers each run takes from a few seconds to under three minutes.

| Run | Bounds | What it shows |
|---|---|---|
| `emitter` | queue 2, 5 events | `Accounted`: each event is in exactly one place. `NoLostWakeup`: the getter never sleeps beside a queued event. `CloseDrains`: what was recorded before `aclose` is posted or pushed out. `FailuresReported`: the rate-limited log neither loses nor repeats a failure. `FeedSpec`: refinement. `EveryEventSettles`: every event ends and `aclose` returns (liveness). |
| `gateway` | 2 requests, queue 1, upstream codes 200, 401, 502 | `AcknowledgedIsProcessed`: a sender told 2xx was served by the upstream. `OnlyVerifiedReachUpstream`. `EventsMatchAnswers`: one event per judged and answered request, saying what the sender was told. `ShutdownIsComplete`. `HandlersEnd`: a handler that has its body, or waits for a silent upstream, ends whatever becomes of the delivery task and the console; only an upstream that goes on in pieces can hold it. |
| `slow_senders` | 1 request | Finding (section 6): a body that does not come is waited for without end. |
| `batcher` | queue 2, 4 events in 2 buckets, 1 kill | `Accounted` (a close in good order leaves nothing queued), `IdsFollowArrival`, `RollupsNeverOvercount` under failures and a kill; `FlushesAgree` while nothing fails; `EveryEventSettles`. |
| `console_events` | 3 events, 3 instants, windows of 1 and 2, stream batches of 1; windows of 6 characters out of 7, filters of 2 and paths of 3 out of 5 | `RetentionRespected`: a sweep deletes only what some window in force while it ran allows. `StreamPassesNothing` (in order, nothing twice, nothing skipped) and `StreamCatchesUp` while no row is deleted under the stream. `DurationIsExact`: the parser accepts exactly the grammar and returns its value. `FiltersAgree`: the page lists exactly the literal, case-insensitive matches, and the stream the same but for two differences (section 6). |
| `pipeline` | both queues 1, 2 events, 2 foreign events, 1 kill | `NoDuplicates`: no verdict of the gateway is in the console's books twice. `DeliveredIsKept`: what the gateway counts as delivered was accepted under the same secret and is kept or accounted for; with a secret, the console has nothing of anybody else's. `OrderKept`: only a given-up event is read late. `EveryVerdictEnds`: liveness through both programs, with no help from the network. |
| `unset_rejects` | 1 event, 1 foreign event | Finding: without a secret the console accepts what is signed with the empty key. |
| `dashboard` | 3 events, 3 instants in 2 hours, windows of 1 and 2 hours, delays of -1 and 2, a liveness window of 0 | `ViewsAgree`: cards, chart and provider cards count exactly the written events of the window. `CardsWithinChart`: a page never shows more in its cards than in its chart, whatever comes between its reads. `P50IsMedian`. `ConnectedIsRecent`: the strip is green only if the last flush brought an event stamped within the liveness window and is not older than it, plus what the gateway's clock is ahead; and it is green while all that flush brought is of the window. |
| `accounts` | 2 accounts, 2 suspended requests, 3 sessions, 2 password changes, 2 links, any kills; 2 keys, 2 hits per window of 2, 5 instants | `OldPasswordsOpenNothing`: after a change only a session with the id of the asking one is left; sessions that a killed change left over go with the next one. `AdminRemains`, `LinksSingleUse`, `OwnSessionsOnly`. `WithinLimit`: over every span of a window, although the prune uses a stale clock. `RetryAfterHonest`: who waits as long as `allow` says is let in. |
| `admission` | 2 paths, one of them unroutable, 1 without a slash, 3 ids, 4 files; 2 urls, 4 certificates, 5 instants | `OnlyPathsKeepFromStarting`: nothing but a path that cannot be registered keeps the gateway from starting on an export. `ImportRestores`: export, load and import give the active routes back. `DisabledStaysOut`. `AcceptedIsAuthentic`: an accepted request is signed with the secret, or with a pinned, chained certificate served at most `CERT_TTL` ago. `ReplayBounded`: a captured Stripe request lives for two windows at most. |
| `export_starts` | 1 id | Finding: the gateway does not start on the export of an unroutable path. |
| `lost_is_absent` | as `batcher`, smaller | Finding: a lost batch leaves rows behind. |

The four runs marked as findings each check one statement of a docstring or comment,
which TLC finds violated.

*Why the bounds are enough.* A queue of two separates its oldest, its newest and
the held event, and two or three more events overflow it with the getter in every
state. One more event than the queue holds overflows the batcher while a batch is
out. Three sessions of two users let a suspended request lose its session and see
the id given to somebody else's; two changes let one be killed and the next
clean up. In `Pipeline` two events, two foreign ones and queues of one make both queues overflow
and let a given-up request be read after its successor, with foreign events before,
between and after. In `Dashboard`
an event falls before, into and after each window; the
liveness window ends with its instant, so that the three instants outlast it and the
lead of the gateway's clock together, and the first is longer after 1970 than both. Samples have up to three
rows (the sample limit is not reached: the limit only decides which rows are
sampled). In `Forms` six characters hold two terms with a point or a sign, and
values on both sides of the limit. The limiter's clock covers two
windows, so a span of a window's length lies across a prune on either side. In
`Verifiers` a certificate can be fetched, replaced and expire, and be fetched
again. The proofs remove the bounds where they apply.

*Fairness.* `Emitter`: weak fairness of the delivery task and its getter; the
event loop runs every ready task, and a post ends because the client has a
timeout. Recording, starting and closing are nobody's duty. `Gateway`: weak
fairness of each handler that can go on: the loop runs one whose body has ended, and
httpx's timeout, which bounds each read of the upstream's answer and not the whole,
releases one whose upstream sends nothing. The body is awaited without a timeout, so
no fairness makes it come, and an answer that goes on in pieces suspends the duty
(`wire[r] # Dribbling`). Nothing is assumed of the senders, of
the upstream, of the emitter or of the shutdown, which is the point of
`HandlersEnd`. `Batcher`: weak fairness of the ticker task, whose statements end
within SQLite's `busy_timeout`. `ConsoleEvents`: weak fairness of the poll, which
the stream repeats every `POLL_INTERVAL` until the client leaves.
`Pipeline`: weak fairness of the delivery task, of the end of a post (an answer or
the timeout) and of the batcher's thread; that a request is ever read, or the
console ever started, is not assumed.
`Accounts`, `Dashboard`, `Forms`, `Limiter`, `Routes` and `Verifiers` state safety
only.

*Deadlock* is checked in every passing run but `accounts`: there the accounts' histories are
bounded and nobody is obliged to send another request, so the model may stop.
Stopped processes stutter explicitly (`Finished`).

*Symmetry* is used in `accounts`: no action or property tells addresses or
requests apart, and the run checks no liveness.

## 4. Proofs

TLAPS proves these for every value of the constants that satisfies the named
assumptions.

**EmitterProofs** (`CapacityAssumption`, `MaxEventsAssumption`: a positive capacity).
`TypeCorrect` (`TypeOK`), `EventsAccounted`, `WakeupsKept`, `CloseIsComplete`,
`FailuresCounted`, `EmitterIsFeed`. Accounting alone is not inductive: that a drop
or a post moves an event which is nowhere else needs the queue to be exactly the
interval of the last recorded events (`Suffix`), everything older to be settled or
held, and in one place only (`Front`), the task, the getter and `held` to agree
(`Control`), and the closed emitter to be empty of what came before the close
(`Drained`). The refinement then follows step by step: a drop takes the head of a full suffix, so `Capacity` newer
events have followed it; a post takes the oldest pending event.

**AdmissionProofs** is about what decides whether a request is let in: the routes and
the verifiers. For `Routes` (`RoutesAssumption`, `FilesAssumption`: the empty text is
no path with a slash, a file is a finite sequence of objects with text values),
`OnlyPathsEverKeepFromStarting`, `ImportAlwaysRestores`, `DisabledAlwaysOut`. The invariant is
that rows are valid at rest (`RowsValid`), paths are distinct (`PathsDiffer`),
whatever seeding has still to do was validated (`TodoValid`), and rows switched
off are inactive (`OffInactive`). Validity at rest is needed because a row may
carry a replay window its provider ignores until an edit changes the provider.

For `Verifiers` (`VerifiersAssumption`), `AcceptedAlwaysAuthentic` from
`CacheVerified`: an entry came from a pinned url with a chained certificate no
earlier than the entry's time, which a hit's age test turns into `CERT_TTL`.
`ReplayAlwaysBounded` from `ReplaysNear`: every acceptance lies within a window
of the captured timestamp on either side.

**GatewayProofs** (`GatewayAssumption`: finitely many requests, status codes from 100
to 599 and a positive capacity). `GatewayRunsEmitter` is the refinement
`Spec => E!Spec`: each step of a handler or of the lifespan is one of the emitter's
or leaves it alone, so that `EmitterProofs`, instantiated, gives the emitter's
invariant beside the handlers. `AcknowledgedWasProcessed`,
`UpstreamSeesVerifiedOnly`, `FeedMatchesAnswers`, `ShutdownCompletes`. The invariant
ties, for each state of a handler, what it has sent, what it has answered and what
was logged (`Handlers`), says that the log holds one entry per judged and answered
request (`LoggedIsAnswered`), and that nothing is recorded once the emitter is
being closed (`Lifespan`). `BoundNeverBinds` shows that the bound on recorded
events never stops a handler: a handler records once at most.

**BatcherProofs** (`StoreAssumption`, `BatcherAssumption`). `EventsAccounted`,
`IdsKeepArrivalOrder`, `RollupsStayBelowRows`, `FlushesLeaveAgreement`, under failures
at any row and any number of kills. The queue is the run of the newest accepted
events (`Suffix`), the batch an unbroken run of older ones that is newer than
everything inserted, or is inserted (`Run`), and the rest is settled (`Front`).
Arrival order of ids needs this: `insert_events` continues from the largest id in
the table, and only newer events are left to write. A row's id is never larger than
its event's number (`Table`). The rollups lag behind the rows by at least the batch
being written (`Counts`), and by exactly that while nothing has failed
(`Agreement`); both rest on counting the rows that one insert adds to a bucket.
`Core` is the invariant without `Counts` and `Agreement`.

**PipelineProofs** (`PipelineAssumption`, the conjunction of the two programs'
assumptions). `PipelineRunsEmitter` and `PipelineRunsBatcher` are the refinements
`Spec => E!Spec` and `Spec => B!Spec`; the invariants of `EmitterProofs` and
`BatcherProofs` are used through them. `NothingTwice`, `DeliveredStaysKept`,
`OrderIsKept`. What is added is the network: only events that the emitter has tried
or is posting are on the wire, in their order (`OnTheWire`), and the console has
answered 202 to exactly the events in its books, each of the gateway's there once
(`Books`); which secret has let them in is known until the first restart
(`SecretKnown`). The batcher's bound on events is `MaxEvents + MaxForeign`, so it never
binds. A request that is read late is on the wire and neither delivered nor held, hence
given up.

**ConsoleEventsProofs** (`StoreAssumption`, `ConsoleEventsAssumption`: a positive
queue and stream batch; `FormsAssumption`: dates are integers, events' times not
negative). `ConsoleEvents` runs the same batcher on the same tables; `BatcherProofs` is
instantiated for it. `TypeCorrect`. `SweepsKeepTheWindow` (the action property
`RetentionRespected`) needs that a sweep's
clock is never ahead and that the window it has read was in force (`Sweeping`).
`StreamSkipsNothing` (`StreamPassesNothing`) needs that all that was sent is older
than any row beyond the cursor, and that the cursor is not beyond the table's end
unless rows were deleted under the stream (`Following`): ids are given out again
after a deletion. `Core`, the part of the batcher's invariant that says where events
are, survives deletions; the counts do not and are not used. That a poll sends every
row it found, once and in order, is `RanksAreComplete`: distinct ids are ranked
0, 1, 2, ... without a gap.

The same module proves the filters (`FiltersAlwaysAgree`), for filters and paths of
any length over any characters. The state adds little: what is typed is a text of
path characters (`Typed`). The weight is on two functions. What the three replacements
of `like_escape` make of a text is laid out character by character: one place for an
ordinary character, a backslash and a place for a special one, and nothing else
(`LikeEscapeLaid`, by induction on the text, one appended character at a time). `LIKE`
is a function of the places of the pattern, filled from its end; at the place of the
filter's k-th character it holds where the filter from k on is met in the path
(`LikeFinds`, by induction from the filter's end). `LikeIsSearch` sums up: the page's
query is a search that ignores the case of letters.

**DashboardProofs** (`DashboardAssumption`: finitely many kinds of events and delays,
positive hours, windows, sample limit and clock, a start later than any delay, integer
latencies).
`ConnectedAlwaysRecent`, `CardsAlwaysWithinChart`, `ViewsAlwaysAgree`,
`P50AlwaysMedian`, for any number of events, any windows and any delays. The invariant:
a bucket's count is the number of events counted in it (`CountsRight`), which needs
events to be numbered in the order they are written, so that a batch is new when it is
inserted and without repetitions when it is counted (`Numbered`); the setting is one of the
times the last flush brought, and at most `Lead` ahead of it (`Heard`); and the cards of a page that is half
read show no more than is counted by now (`Shown`). From it the cards, the chart's
bars and the provider cards are three ways to add up the same counts. That adding up
counts is counting, and that a sample has a sorted order whose middle splits it, are
proved of the smallest finite set that would lack it (`SmallestSubset`, `SumCounts`,
`OrderExists`, `MiddleSplits`).

**AccountsProofs** (`AccountsAssumption`). `OldPasswordsStayShut`, `AnAdminRemains`,
`LinksAreSingleUse` and the action property `OnlyOwnSessionsEnd`. The properties
need that a new session id is larger than all in use, so that no two sessions bear
the same (`UniqueIds`), that passwords are no newer than the changes so far
(`Tables`), and that a link in force belongs to one account and is not the one a
reset has read for another (`Tokens`).

The same module proves the limiter (`LimiterAssumption`): `LimiterTypeCorrect`,
`NothingLiveForgotten`, `LimitKept`, `RetryAfterKept`. The key fact is that the
live hits kept are exactly the live granted attempts (`Remembers`), which
survives the stale prune because the prune's clock is never ahead of the real one
(in `LimiterTypeOK`) and no granted attempt lies in the future (`Past`).
From it a grant sees every attempt of the past window, hence `WithinLimit`; and
the oldest kept hit fixes the instant from which a refused key has room
(`Promises`).

TLC checked every property before it was proved, and for `Accounts`, `Batcher`,
`Pipeline`, `ConsoleEvents` and `Dashboard` the inductive invariant itself, on the
bounds of the run. The type invariants of `Emitter`, `Limiter`, `Gateway`, `Batcher`,
`ConsoleEvents` and `Accounts` are proved too (`TypeCorrect`, `LimiterTypeCorrect`).

*Induction over data.* The library's induction theorems take an operator, which the
provers cannot instantiate. Where a sum, a sort, a fold or a scan had to be known for
every input, the set of the naturals, or of the finite sets, for which the claim holds
is named, and the library's theorem on well-founded orders gives its least exception
(`Induction`, `SmallestSubset`, `MaxIsLargest`). That a recursive function exists at
all is proved the same way (`FlatExists`, `MatchExists`, `SumExists`).

Checked by TLC only: liveness under fairness (`EveryEventSettles`, `HandlersEnd`,
`StreamCatchesUp`, `EveryVerdictEnds`) and anything about `ENABLED`, which the prover
does not reason about; and `DurationIsExact`, where the parser's loop and the grammar
are two scans that would each need an induction of their own over all texts, and the
grammar one over all ways to cut a text into terms. No module uses a `RECURSIVE`
operator. The `TypeOK`s named above and `Limiter`'s `Remembers` are proved and
therefore not in a run.

## 5. Not modelled

- Rendering: HTML, the chart's SVG, catalog texts, public and error pages. What the
  pages read and count is in `Dashboard`.
- Password hashing, HMAC, RSA, tokens and CSRF values: their verdicts are used.
- Byte layouts of `hookguard_core/` (JSON, RFC 3339, strict hex): pinned by vectors
  shared with the Go implementation.
- Console configuration other than the shared secret: read once at startup.
- The security log: append-only, nothing is decided from it.
- The demo upstream: it is the environment of `Gateway`.
- Non-ASCII digits and letters in `Duration` and `Filters`.

## 6. Findings

Each has a run that finds the quoted statement violated; the lines are quoted in
`PROJECT.json`.

- `lost_is_absent` (`LostIsAbsent`): a batch is said to be inserted "in one transaction", but the
  connection is in autocommit mode. When a row fails, the rows before it stay in the
  table while the whole batch is logged as lost.
- `slow_senders` (`SendersAreTimed`): the gateway's entrypoint says that uvicorn is given the equivalents
  of Go's timeouts "on every phase". It is given two, for the shutdown and for an idle
  connection; a body is read without any, so a sender that stalls keeps its handler
  while the server serves.
- `export_starts` (`ExportStarts`): `validate` is said to raise "on anything the Gateway could not
  build". A path such as `/x/{a:b}` or `/{a}/{a}` passes, and registering it raises when
  the gateway starts. It is the only cause (`OnlyPathsKeepFromStarting`).
- `unset_rejects` (`UnsetRejectsAll`): a console without `INTERNAL_SECRET` is said to reject everything. The
  empty key is a key like any other: what is signed with it is accepted.

Observed without a run of its own:

- The events table's id is not `AUTOINCREMENT`, though the stream is said to be
  cursored on "the autoincrement id". After a sweep deletes the newest row its id
  goes to the next event, which an open stream never sends
  (`StreamPassesNothing` excludes that case).
- An event written between the rendering of Live Logs and the start of its stream
  is in neither.
- A password change keeps the session id read before the form; if that session
  ended meanwhile, its id may belong to a later session opened with the old
  password, which stays (`OldPasswordsOpenNothing` allows exactly that id).
- "Connected" is said to mean "an ingest flush within this long" (`views.py:32`).
  Compared is the time the flush's last event carries: a flush of late events leaves the
  strip disconnected, and a gateway whose clock is ahead stays connected for longer
  (`ConnectedIsRecent` states both ends).
- The limiter is said to count in fixed windows and to admit a burst across a boundary
  (`ratelimit.py:3`, `:8-10`). It keeps a sliding log, which is stricter: an attempt at the
  start of such a window may be refused for those at the end of the one before.
- Logout deletes by the session id read before its form; if that session ended
  meanwhile, the id may belong to a later session, which is ended instead
  (`OwnSessionsOnly` allows exactly that id).
- The stream's filter is "kept consistent with the store's SQL" but tells letter
  case apart, and takes an end before 1970 for a bound (`FiltersAgree` states both).
- `has_any_event` is false once every row was swept, though it is said to tell
  whether the table "has ever held a row"; the median is then 0 beside real counts.
- An event without a verdict passes `decode` and is refused by the table, which costs
  the rest of its batch.
- The parser refuses the smallest int64 as a negative duration, which Go accepts, and
  accepts non-ASCII digits, which Go refuses.
- `Retry-After` is rounded down to whole seconds, so who waits as long as the header says
  may still be refused (`RetryAfterHonest` is about the time `allow` returns); a certificate replaced behind the
  same url is refused until the old entry expires; an import accepts paths without a
  leading slash; edits and toggles name a row id that may have been given to another
  route; `seed-config` dies half way when a path appears after it looked; two
  administrators with suspended requests can deactivate each other (`AdminRemains`
  excludes exactly that case).

## 7. Plan

Done, in this order: the emitter with its refinement and proofs; the request path
composed with it; the store, the batcher and its crashes; retention and Live Logs
on the same tables; accounts; the limiter, the routes and the verifiers with
proofs; kills inside the account handlers; the feed from emitter to table; the
pages' queries; the duration syntax and the filters.

Then the proofs of the request path, the batcher, the pipeline, the retention job and
the stream, and the accounts.

After them the pages' queries, and the filters of Live Logs for every text.

Left: a proof of `DurationIsExact`. It wants the grammar as a function filled from the
text's end, as `Like` is, and the parser's loop shown to follow it place by place.
