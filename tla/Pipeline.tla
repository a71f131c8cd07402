------------------------------- MODULE Pipeline -------------------------------
(***************************************************************************)
(* The way of a verdict from the gateway to the console's table: the       *)
(* gateway's EventEmitter (module Emitter), the network, the console's     *)
(* ingest handler (hookguard_console routes/api.py and ingest.py) and its  *)
(* Batcher (module Batcher), each with its own start, stop and failures.   *)
(*                                                                         *)
(* Each event is posted once: the client retries nothing.  A post that     *)
(* fails tells the emitter little.  The request may be lost, the answer    *)
(* may be lost or come after POST_TIMEOUT, and a request the emitter has   *)
(* given up may still be read by a console that was too slow, after later  *)
(* ones.  Lost is never read: no step is needed for it.  Time stands still *)
(* here; what the timestamps are for is the subject of other modules.      *)
(*                                                                         *)
(* The two programs are given INTERNAL_SECRET independently; the gateway   *)
(* does not start without one, the console does, with the empty key, and   *)
(* may be restarted with another.  The ingest route is open to any sender; *)
(* others than the gateway do not know its secret, but they can sign.      *)
(***************************************************************************)
EXTENDS Integers, Sequences, FiniteSets, Functions

CONSTANTS
  Capacity,       \* QUEUE_SIZE of the emitter
  QueueSize,      \* QUEUE_SIZE of the batcher
  MaxEvents,      \* bound of the model: how many events are ever recorded
  MaxForeign,     \* bound of the model: how many events of other senders are accepted
  MaxCrashes,     \* bound of the model: how often the console is killed
  MaxTime,        \* bound of the model: the last instant
  RetentionDays   \* the retention settings a user may choose

ASSUME PipelineAssumption ==
  /\ Capacity \in Nat \ {0} /\ QueueSize \in Nat \ {0}
  /\ MaxEvents \in Nat /\ MaxForeign \in Nat /\ MaxCrashes \in Nat /\ MaxTime \in Nat \ {0}
  /\ RetentionDays \subseteq Nat \ {0} /\ RetentionDays # {}

VARIABLES
  consoleKey,     \* the console's INTERNAL_SECRET, since it was last started
  wire,           \* the post of each event: "idle", "sent", or the status answered
  arrivals,       \* history: the events answered with 202, in that order, 0 for a foreign one
  (* the emitter's *)
  enabled, urlValid, ePhase, eStopping, eWorker, getter, eQueue, held, failCount,
  recorded, delivered, failed, eDropped, killed, reported, eAtClose,
  (* the batcher's *)
  rows, rollups, lastIngest, retention, now, phase, stopping, queue, drops, worker, last,
  batch, accepted, inserted, lost, dropped, crashed, faults, crashes, atClose

emitterVars == <<enabled, urlValid, ePhase, eStopping, eWorker, getter, eQueue, held, failCount,
                 recorded, delivered, failed, eDropped, killed, reported, eAtClose>>
consoleVars == <<rows, rollups, lastIngest, retention, now, phase, stopping, queue, drops, worker,
                 last, batch, accepted, inserted, lost, dropped, crashed, faults, crashes, atClose>>
netVars == <<consoleKey, wire, arrivals>>
vars == <<netVars, emitterVars, consoleVars>>

E == INSTANCE Emitter WITH
       phase <- ePhase, stopping <- eStopping, worker <- eWorker, queue <- eQueue,
       dropped <- eDropped, atClose <- eAtClose

(* Its bound never binds: it leaves room for all that may be accepted. *)
B == INSTANCE Batcher WITH MaxEvents <- MaxEvents + MaxForeign

(* What the console's secret may be: the gateway's, another that no sender  *)
(* knows, or unset, which is the empty key.                                 *)
GatewayKey == "gateway"
ChangedKey == "changed"
EmptyKey == ""
Keys == {GatewayKey, ChangedKey, EmptyKey}

(* In arrivals, an event that another sender posted. *)
Foreign == 0

(* What such a sender may post, signed with any key it knows. *)
ForeignRequest ==
  [label : {"console-ingest", "other"}, key : {EmptyKey, "own"}, decodes : BOOLEAN]

(* EVENTS_URL is set and well formed; the other cases are Emitter's. *)
Init ==
  /\ E!Init /\ enabled /\ urlValid
  /\ B!Init
  /\ consoleKey = EmptyKey
  /\ wire = [e \in 1..MaxEvents |-> "idle"]
  /\ arrivals = <<>>

-----------------------------------------------------------------------------
(* The gateway *)

Record ==
  /\ E!Record
  /\ UNCHANGED <<netVars, consoleVars>>

(* The delivery task up to its post, and the start of the post. *)
Deliver ==
  /\ E!Select \/ E!GetterStep \/ E!WaitGot \/ E!WaitStopped \/ E!DrainNext \/ E!DrainExit
  /\ wire' = IF E!Posting' THEN [wire EXCEPT ![held'] = "sent"] ELSE wire
  /\ UNCHANGED <<consoleKey, arrivals, consoleVars>>

(* Slip: the event counts as delivered once it is sent. *)
AnsweredWhenSent == wire[held] # "idle"

(* The answer to the post in progress arrived and is below 300. *)
Answered == wire[held] = "202"

PostOk ==
  /\ E!PostOk
  /\ Answered
  /\ UNCHANGED <<netVars, consoleVars>>

(* Slip: a post that timed out is sent again. *)
PostFailRetries ==
  /\ E!Posting
  /\ wire' = [wire EXCEPT ![held] = "sent"]
  /\ UNCHANGED <<consoleKey, arrivals, emitterVars, consoleVars>>

(* Slip: no timeout, so that only an answer ends a post. *)
PostFailWithoutTimeout ==
  /\ E!PostFail
  /\ failCount' = 0
  /\ wire[held] \notin {"sent", "202"}
  /\ UNCHANGED <<netVars, consoleVars>>

(* An answer of 300 and above, a transport error, or POST_TIMEOUT, whatever *)
(* the console does with the request.  Each failure is logged at once here; *)
(* the interval between log lines is Emitter's subject.                     *)
PostFail ==
  /\ E!PostFail
  /\ failCount' = 0
  /\ UNCHANGED <<netVars, consoleVars>>

GatewayLifespan ==
  /\ E!Start \/ E!Close \/ E!CloseReturn
  /\ UNCHANGED <<netVars, consoleVars>>

-----------------------------------------------------------------------------
(* The console *)

(* gatewaysig.verify: the mac of label and body under the console's secret, *)
(* whatever that is.                                                        *)
Verifies(request) == request.key = consoleKey

(* Slip: a secret that is not set accepts everything. *)
JudgeUnsetAccepts(request) ==
  IF request.label # "console-ingest" THEN "401"
  ELSE IF consoleKey # EmptyKey /\ ~Verifies(request) THEN "401"
  ELSE IF ~request.decodes THEN "400"
  ELSE "202"

(* check_provider_header, then verify, then decode. *)
Judge(request) ==
  IF request.label # "console-ingest" THEN "401"
  ELSE IF ~Verifies(request) THEN "401"
  ELSE IF ~request.decodes THEN "400"
  ELSE "202"

(* _post: the headers and the body.  What to_json_bytes writes,             *)
(* from_json_dict reads.                                                    *)
Posted == [label |-> "console-ingest", key |-> GatewayKey, decodes |-> TRUE]

(* handle_ingest; a refused request leaves no trace. *)
Handle(e) ==
  /\ wire[e] = "sent"
  /\ phase = "running"
  /\ wire' = [wire EXCEPT ![e] = Judge(Posted)]
  /\ IF Judge(Posted) = "202"
     THEN B!Ingest(now) /\ arrivals' = Append(arrivals, e)
     ELSE UNCHANGED <<arrivals, consoleVars>>
  /\ UNCHANGED <<consoleKey, emitterVars>>

(* handle_ingest, for a request that does not come from the gateway. *)
HandleForeign(request) ==
  /\ phase = "running"
  /\ IF Judge(request) = "202"
     THEN /\ Cardinality({k \in DOMAIN arrivals : arrivals[k] = Foreign}) < MaxForeign
          /\ B!Ingest(now) /\ arrivals' = Append(arrivals, Foreign)
     ELSE UNCHANGED <<arrivals, consoleVars>>
  /\ UNCHANGED <<consoleKey, wire, emitterVars>>

(* The batcher's task, with writes that succeed: their failures are         *)
(* Batcher's subject.                                                       *)
Persist ==
  /\ B!PersistOk
  /\ UNCHANGED <<netVars, emitterVars>>

(* Started, possibly with another secret than before. *)
ConsoleStart ==
  /\ B!Start
  /\ consoleKey' \in Keys
  /\ UNCHANGED <<wire, arrivals, emitterVars>>

(* Killed.  A console that closes in good order is Batcher's subject; to    *)
(* the gateway it is one that reads no more.                                *)
ConsoleStop ==
  /\ \E k \in 0..Len(batch) : B!Crash(k)
  /\ UNCHANGED <<netVars, emitterVars>>

-----------------------------------------------------------------------------

Finished ==
  /\ ePhase = "closed" /\ recorded = MaxEvents
  /\ UNCHANGED vars

Next ==
  \/ Record \/ Deliver \/ PostOk \/ PostFail \/ GatewayLifespan
  \/ \E e \in 1..MaxEvents : Handle(e)
  \/ \E request \in ForeignRequest : HandleForeign(request)
  \/ Persist \/ ConsoleStart \/ ConsoleStop \/ Finished

Spec == Init /\ [][Next]_vars

(* The two event loops run what is ready, a post ends with an answer or     *)
(* with POST_TIMEOUT, and a statement returns.  That a request is ever      *)
(* read, or a process started or stopped, is nobody's promise.              *)
FairSpec ==
  /\ Spec
  /\ WF_vars(Deliver) /\ WF_vars(PostOk \/ PostFail)
  /\ WF_vars(Persist)

-----------------------------------------------------------------------------
(* Properties *)

Arrived == Range(arrivals)
At(e) == CHOOSE k \in DOMAIN arrivals : arrivals[k] = e
Kept == B!Numbers(queue) \union B!Numbers(batch) \union B!Settled

(* No event of the gateway is counted twice on its way: timeouts, late      *)
(* requests, restarts and overflow at both ends put none into the console's *)
(* books a second time: the table and what may still get into it hold each  *)
(* event once.                                                              *)
NoDuplicates ==
  /\ \A j, k \in DOMAIN arrivals : arrivals[j] = arrivals[k] /\ arrivals[j] # Foreign => j = k
  /\ \A r, s \in rows : r.ev.n = s.ev.n => r = s
  /\ \A r \in rows : r.ev.n \notin B!Numbers(queue)

(* An event the gateway takes for delivered was accepted by a console that  *)
(* knew the same secret, and is in its queue, in its table, or accounted    *)
(* for there.  A console with another secret has nothing from the gateway,  *)
(* and one that has any has nothing from anybody else.                      *)
DeliveredIsKept ==
  /\ delivered \subseteq Arrived
  /\ \A e \in delivered : At(e) \in Kept
  /\ crashes = 0 /\ phase # "off" =>
       /\ consoleKey # GatewayKey => Arrived \subseteq {Foreign}
       /\ consoleKey # EmptyKey => Foreign \notin Arrived

(* "Unset is a safe default": the ingest route of a console that was given  *)
(* no secret rejects everything.                                            *)
UnsetRejectsAll == crashes = 0 /\ phase # "off" /\ consoleKey = EmptyKey => Arrived = {}

(* The console receives the gateway's events in the order they were         *)
(* recorded, except that one the gateway has given up may be read late.     *)
OrderKept ==
  \A j, k \in DOMAIN arrivals :
    j < k /\ arrivals[j] > arrivals[k] /\ arrivals[k] # Foreign => arrivals[k] \in failed

(* Every verdict recorded by a running gateway ends: pushed out or given up *)
(* by the gateway, or written or accounted for by the console.              *)
EveryVerdictEnds ==
  \A e \in 1..MaxEvents :
    (recorded >= e /\ ePhase = "running")
      ~> (e \in eDropped \union failed \union {arrivals[k] : k \in B!Settled})
=============================================================================
