------------------------------- MODULE Limiter -------------------------------
(***************************************************************************)
(* The rate limiter in front of login and signup (hookguard_console        *)
(* auth/ratelimit.py), and the retention job's prune of it, which runs     *)
(* after a sweep with the time read before the sweep.                      *)
(*                                                                         *)
(* Both operations hold the lock, so each is one step.  A hit is its time  *)
(* and its place in the order of the hits; the list kept for a key is the  *)
(* set of its hits.  The clock does not run backwards.                     *)
(***************************************************************************)
EXTENDS Integers, FiniteSets

CONSTANTS
  Keys,     \* "ip|email" for the login limiter, the ip for the signup limiter
  MaxHits,  \* max_hits
  Window,   \* window
  MaxTime   \* bound of the model: the last instant

ASSUME LimiterAssumption ==
  MaxHits \in Nat \ {0} /\ Window \in Nat \ {0} /\ MaxTime \in Nat

VARIABLES
  now,       \* the clock
  hits,      \* _hits; a key that is not in the map has no hits
  sweeping,  \* a sweep of the retention job is under way
  pruneNow,  \* the time it has read
  granted,   \* history: every attempt that was allowed, with its key
  promised   \* history: when the last refusal of a key told it to come back, 0 once allowed

limiterVars == <<now, hits, sweeping, pruneNow, granted, promised>>

Hit == [at : 0..MaxTime, n : Nat]

LimiterInit ==
  /\ now = 0
  /\ hits = [k \in Keys |-> {}]
  /\ sweeping = FALSE
  /\ pruneNow = 0
  /\ granted = [k \in Keys |-> {}]
  /\ promised = [k \in Keys |-> 0]

Tick ==
  /\ now < MaxTime
  /\ now' = now + 1
  /\ UNCHANGED <<hits, sweeping, pruneNow, granted, promised>>

-----------------------------------------------------------------------------
(* allow *)

(* Slip: a hit exactly one window old still counts. *)
LiveInclusive(s, t) == {h \in s : h.at >= t - Window}

(* The hits later than the cutoff of time t. *)
Live(s, t) == {h \in s : h.at > t - Window}

Room(k) == Cardinality(Live(hits[k], now)) < MaxHits

Grant(k) ==
  LET hit == [at |-> now, n |-> Cardinality(granted[k]) + 1] IN
  /\ Room(k)
  /\ hits' = [hits EXCEPT ![k] = Live(hits[k], now) \union {hit}]
  /\ granted' = [granted EXCEPT ![k] = @ \union {hit}]
  /\ promised' = [promised EXCEPT ![k] = 0]
  /\ UNCHANGED <<now, sweeping, pruneNow>>

(* Refused, and told to wait until the oldest hit is out of the window. *)
Reject(k) ==
  \E oldest \in Live(hits[k], now) :
    /\ ~Room(k)
    /\ \A h \in Live(hits[k], now) : oldest.n <= h.n
    /\ hits' = [hits EXCEPT ![k] = Live(hits[k], now)]
    /\ promised' = [promised EXCEPT ![k] = now + (Window - (now - oldest.at))]
    /\ UNCHANGED <<now, sweeping, pruneNow, granted>>

-----------------------------------------------------------------------------
(* RetentionJob.run_once around prune *)

SweepBegin ==
  /\ ~sweeping
  /\ sweeping' = TRUE
  /\ pruneNow' = now
  /\ UNCHANGED <<now, hits, granted, promised>>

(* Slip: keys are dropped when none of their hits is recent. *)
StaleHalfWindow(k) == \A h \in hits[k] : h.at <= pruneNow - (Window \div 2)

(* No hit of the key is live at the time the sweep began. *)
Stale(k) == Live(hits[k], pruneNow) = {}

Prune ==
  /\ sweeping
  /\ sweeping' = FALSE
  /\ pruneNow' = 0
  /\ hits' = [k \in Keys |-> IF Stale(k) THEN {} ELSE hits[k]]
  /\ UNCHANGED <<now, granted, promised>>

LimiterNext ==
  \/ Tick
  \/ \E k \in Keys : Grant(k) \/ Reject(k)
  \/ SweepBegin \/ Prune

LimiterSpec == LimiterInit /\ [][LimiterNext]_limiterVars

-----------------------------------------------------------------------------
(* Properties *)

(* One type invariant; what is kept never exceeds the limit. *)
LimiterTypeOK ==
  /\ now \in 0..MaxTime
  /\ sweeping \in BOOLEAN
  /\ pruneNow \in 0..now
  /\ hits \in [Keys -> SUBSET Hit]
  /\ \A k \in Keys : Cardinality(hits[k]) <= MaxHits
  /\ granted \in [Keys -> SUBSET Hit]
  /\ promised \in [Keys -> Nat]

(* The limiter forgets nothing that matters: the live hits it keeps for a   *)
(* key are exactly the live attempts it has allowed, although each attempt  *)
(* discards old hits and the prune drops keys by a clock that is behind.    *)
Remembers ==
  \A k \in Keys : Live(hits[k], now) = Live(granted[k], now)

(* "Allows at most max_hits per key within window": every span of that      *)
(* length, wherever it begins.                                              *)
WithinLimit ==
  \A k \in Keys, t \in 0..now :
    Cardinality({h \in granted[k] : h.at > t - Window /\ h.at <= t}) <= MaxHits

(* "retry_after is how long until the oldest hit in the window expires -- a *)
(* refused attempt does NOT extend the window": a key that waits that long  *)
(* after a refusal is let in, whatever else was refused meanwhile.          *)
RetryAfterHonest ==
  \A k \in Keys : promised[k] # 0 /\ now >= promised[k] => Room(k)
=============================================================================
