------------------------------- MODULE Gateway -------------------------------
(***************************************************************************)
(* The gateway's request path (hookguard_gateway/app.py): concurrent       *)
(* webhook requests, each read, verified, forwarded and answered by one    *)
(* handler on the event loop, beside the EventEmitter that reports the     *)
(* verdicts (module Emitter), under uvicorn's start and shutdown.          *)
(*                                                                         *)
(* A handler is suspended while it reads the body and while it waits for   *)
(* the upstream; verification, recording and answering happen in one step  *)
(* with what precedes them.  What a request carries is abstracted to what  *)
(* the handler finds out about it once its body has come in: `input`.      *)
(* Sender and upstream are free to stop at any point.                      *)
(***************************************************************************)
EXTENDS Naturals, Sequences, FiniteSets

CONSTANTS
  Requests,    \* webhook requests that may arrive
  Statuses,    \* status codes the upstream may answer with
  Capacity,    \* QUEUE_SIZE of the emitter
  MaxEvents    \* bound of the emitter's model

(* Each request is recorded at most once, so the emitter's bound is no limit here. *)
ASSUME GatewayAssumption ==
  /\ IsFiniteSet(Requests)
  /\ Capacity \in Nat \ {0}
  /\ MaxEvents = Cardinality(Requests)
  /\ Statuses \subseteq 100..599

VARIABLES
  server,      \* uvicorn: "serving", "draining" (no longer accepting), "drained"
  input,       \* what each request turns out to be, "none" while its body has not come
  pc,          \* its handler: "idle", "reading", "forwarding", "done", "cancelled"
  wire,        \* the forwarded request: 0 not sent, 1 sent, 2 being answered, or the answer
  answer,      \* what the sender was told: status and who decided it
  log,         \* history: the payload of the n-th recorded event
  (* the emitter's *)
  enabled, urlValid, phase, stopping, worker, getter, queue, held, failCount,
  recorded, delivered, failed, dropped, killed, reported, atClose

handlerVars == <<server, input, pc, wire, answer, log>>
emitterVars == <<enabled, urlValid, phase, stopping, worker, getter, queue, held, failCount,
                 recorded, delivered, failed, dropped, killed, reported, atClose>>
vars == <<handlerVars, emitterVars>>

E == INSTANCE Emitter

(* "valid": the provider's signature verifies.  "forged": the verifier      *)
(* raises VerificationError.  "broken": the verifier raises anything else,  *)
(* or the request verifies and httpx refuses the route's upstream URL.      *)
(* "huge": the body exceeds MAX_BODY_BYTES.  "cut": the sender disconnects  *)
(* before the body is complete.                                             *)
Inputs == {"valid", "forged", "broken", "huge", "cut"}

Dribbling == 2  \* a forwarded request whose answer comes piece by piece

NoAnswer == [by |-> "nobody", status |-> 0]
Own(status) == [by |-> "gateway", status |-> status]
Relayed(status) == [by |-> "upstream", status |-> status]

Init ==
  /\ server = "serving"
  /\ input = [r \in Requests |-> "none"]
  /\ pc = [r \in Requests |-> "idle"]
  /\ wire = [r \in Requests |-> 0]
  /\ answer = [r \in Requests |-> NoAnswer]
  /\ log = <<>>
  /\ E!Init

-----------------------------------------------------------------------------

(* The lifespan's startup: emitter.start before the first request. *)
Startup == E!Start /\ UNCHANGED handlerVars

(* The request's head: its handler is called and awaits the body. *)
Arrive(r) ==
  /\ server = "serving"
  /\ phase = "running"
  /\ pc[r] = "idle"
  /\ pc' = [pc EXCEPT ![r] = "reading"]
  /\ UNCHANGED <<server, input, wire, answer, log, emitterVars>>

(* The sender completes the body, exceeds the cap or goes away; it may also *)
(* do none of these.                                                        *)
BodyEnds(r, i) ==
  /\ pc[r] = "reading"
  /\ input[r] = "none"
  /\ input' = [input EXCEPT ![r] = i]
  /\ UNCHANGED <<server, pc, wire, answer, log, emitterVars>>

(* Slip: recording waits for room in the queue. *)
RecordWhenRoom(r, verdict, status) ==
  IF enabled
  THEN /\ ~E!Full
       /\ E!Record
       /\ log' = Append(log, [req |-> r, verdict |-> verdict, status |-> status])
  ELSE UNCHANGED <<log, emitterVars>>

(* emitter.record: one branch when disabled. *)
RecordEvent(r, verdict, status) ==
  IF enabled
  THEN /\ E!Record
       /\ log' = Append(log, [req |-> r, verdict |-> verdict, status |-> status])
  ELSE UNCHANGED <<log, emitterVars>>

Answer(r, a) ==
  /\ pc' = [pc EXCEPT ![r] = "done"]
  /\ answer' = [answer EXCEPT ![r] = a]

(* The body exceeds the cap: 413, before any verification, unrecorded. *)
TooLarge(r) ==
  /\ pc[r] = "reading"
  /\ input[r] = "huge"
  /\ Answer(r, Own(413))
  /\ UNCHANGED <<server, input, wire, log, emitterVars>>

(* The sender goes away while the body is read: the exception ends the handler. *)
Disconnected(r) ==
  /\ pc[r] = "reading"
  /\ input[r] = "cut"
  /\ Answer(r, NoAnswer)
  /\ UNCHANGED <<server, input, wire, log, emitterVars>>

(* VerificationError: recorded as rejected, 401. *)
Reject(r) ==
  /\ pc[r] = "reading"
  /\ input[r] = "forged"
  /\ Answer(r, Own(401))
  /\ RecordEvent(r, "rejected", 0)
  /\ UNCHANGED <<server, input, wire>>

(* Any other exception leaves the handler: the framework answers 500. *)
Crash(r) ==
  /\ pc[r] = "reading"
  /\ input[r] = "broken"
  /\ Answer(r, Own(500))
  /\ UNCHANGED <<server, input, wire, log, emitterVars>>

(* Slip: the request is sent on without having been verified. *)
ForwardUnverified(r) ==
  /\ pc[r] = "reading"
  /\ input[r] \in {"valid", "forged", "broken"}
  /\ pc' = [pc EXCEPT ![r] = "forwarding"]
  /\ wire' = [wire EXCEPT ![r] = 1]
  /\ UNCHANGED <<server, input, answer, log, emitterVars>>

(* Verified: _forward sends the bytes on and waits for the upstream. *)
Forward(r) ==
  /\ pc[r] = "reading"
  /\ input[r] = "valid"
  /\ pc' = [pc EXCEPT ![r] = "forwarding"]
  /\ wire' = [wire EXCEPT ![r] = 1]
  /\ UNCHANGED <<server, input, answer, log, emitterVars>>

(* The upstream takes a request that was sent, even one whose handler has   *)
(* given up waiting, and answers at once or ...                             *)
Upstream(r, status) ==
  /\ wire[r] \in {1, Dribbling}
  /\ wire' = [wire EXCEPT ![r] = status]
  /\ UNCHANGED <<server, input, pc, answer, log, emitterVars>>

(* ... piece by piece, each within UPSTREAM_TIMEOUT of the one before, ...  *)
Dribble(r) ==
  /\ wire[r] = 1
  /\ wire' = [wire EXCEPT ![r] = Dribbling]
  /\ UNCHANGED <<server, input, pc, answer, log, emitterVars>>

(* ... and may stop before the answer is complete. *)
FallSilent(r) ==
  /\ wire[r] = Dribbling
  /\ wire' = [wire EXCEPT ![r] = 1]
  /\ UNCHANGED <<server, input, pc, answer, log, emitterVars>>

(* Its answer is relayed, and recorded as accepted with that status. *)
Relay(r) ==
  /\ pc[r] = "forwarding"
  /\ wire[r] \in Statuses
  /\ Answer(r, Relayed(wire[r]))
  /\ RecordEvent(r, "accepted", wire[r])
  /\ UNCHANGED <<server, input, wire>>

(* Slip: the unreachable upstream is recorded with the status sent back. *)
UnreachableRecordedAs502(r) ==
  /\ pc[r] = "forwarding"
  /\ Answer(r, Own(502))
  /\ RecordEvent(r, "accepted", 502)
  /\ UNCHANGED <<server, input, wire>>

(* Slip: an upstream that does not answer in time is taken to have agreed. *)
UnreachableAcknowledged(r) ==
  /\ pc[r] = "forwarding"
  /\ Answer(r, Own(200))
  /\ RecordEvent(r, "accepted", 0)
  /\ UNCHANGED <<server, input, wire>>

(* httpx.HTTPError: refused, reset or timed out, whether or not the upstream *)
(* took the request.  502, recorded as accepted with status 0.               *)
Unreachable(r) ==
  /\ pc[r] = "forwarding"
  /\ Answer(r, Own(502))
  /\ RecordEvent(r, "accepted", 0)
  /\ UNCHANGED <<server, input, wire>>

Handler(r) ==
  \/ TooLarge(r) \/ Disconnected(r) \/ Reject(r) \/ Crash(r) \/ Forward(r)
  \/ Relay(r) \/ Unreachable(r)

-----------------------------------------------------------------------------
(* Shutdown: stop accepting, wait for the handlers up to SHUTDOWN_TIMEOUT,  *)
(* cancel the ones left, then run the lifespan's cleanup.                   *)

Running == {r \in Requests : pc[r] \in {"reading", "forwarding"}}

StopAccepting ==
  /\ server = "serving"
  /\ phase = "running"
  /\ server' = "draining"
  /\ UNCHANGED <<input, pc, wire, answer, log, emitterVars>>

(* Slip: the cleanup does not wait for the handlers. *)
DrainAtOnce ==
  /\ server = "draining"
  /\ server' = "drained"
  /\ UNCHANGED <<input, pc, wire, answer, log, emitterVars>>

(* All handlers are done, or the timeout cancels those that are not: a      *)
(* cancelled handler neither answers nor records.                           *)
Drain ==
  /\ server = "draining"
  /\ server' = "drained"
  /\ pc' = [r \in Requests |-> IF r \in Running THEN "cancelled" ELSE pc[r]]
  /\ UNCHANGED <<input, wire, answer, log, emitterVars>>

CloseEmitter ==
  /\ server = "drained"
  /\ E!Close
  /\ UNCHANGED handlerVars

EmitterStep == E!Task /\ UNCHANGED handlerVars

Finished ==
  /\ phase \in {"closed", "failed"}
  /\ UNCHANGED vars

Next ==
  \/ Startup
  \/ \E r \in Requests :
       \/ Arrive(r)
       \/ \E i \in Inputs : BodyEnds(r, i)
       \/ \E status \in Statuses : Upstream(r, status)
       \/ Dribble(r) \/ FallSilent(r)
       \/ Handler(r)
  \/ StopAccepting \/ Drain \/ CloseEmitter
  \/ EmitterStep
  \/ Finished

Spec == Init /\ [][Next]_vars

(* The loop runs a handler whose body has come in.  UPSTREAM_TIMEOUT bounds *)
(* the wait for each piece of an upstream's answer, not for the whole of    *)
(* it, and nothing bounds the wait for a body.  Nothing is assumed of the   *)
(* senders, the upstream, the delivery task or the shutdown.                *)
FairSpec == Spec /\ \A r \in Requests : WF_vars(Handler(r) /\ wire[r] # Dribbling)

-----------------------------------------------------------------------------
(* Properties *)

(* One type invariant. *)
TypeOK ==
  /\ server \in {"serving", "draining", "drained"}
  /\ input \in [Requests -> Inputs \union {"none"}]
  /\ pc \in [Requests -> {"idle", "reading", "forwarding", "done", "cancelled"}]
  /\ wire \in [Requests -> {0, 1, Dribbling} \union Statuses]
  /\ answer \in [Requests -> [by : {"nobody", "gateway", "upstream"}, status : 0..599]]
  /\ log \in Seq([req : Requests, verdict : {"accepted", "rejected"}, status : 0..599])
  /\ Len(log) = recorded
  /\ E!TypeOK

(* A sender that is told 2xx stops retrying: then the upstream has really   *)
(* taken that request and said so.                                          *)
AcknowledgedIsProcessed ==
  \A r \in Requests : answer[r].status \in 200..299 =>
    wire[r] = answer[r].status /\ input[r] = "valid"

(* The upstream never sees a request that did not verify, not even after    *)
(* its handler has answered, crashed or been cancelled; and a request the   *)
(* gateway refused itself (401, 413, 500) is never forwarded.               *)
OnlyVerifiedReachUpstream ==
  \A r \in Requests : wire[r] # 0 =>
    /\ input[r] = "valid"
    /\ answer[r] \notin {Own(401), Own(413), Own(500)}

(* The verdict feed and the answers agree: every judged and answered        *)
(* request has exactly one event, every other has none, and the event says  *)
(* what the sender was told, with 0 for an upstream that was not reached.   *)
EventFor(r) == CASE answer[r] = Own(401) -> {[req |-> r, verdict |-> "rejected", status |-> 0]}
                 [] answer[r] = Own(502) -> {[req |-> r, verdict |-> "accepted", status |-> 0]}
                 [] answer[r].by = "upstream" ->
                      {[req |-> r, verdict |-> "accepted", status |-> answer[r].status]}
                 [] OTHER -> {}

EventsMatchAnswers ==
  enabled => /\ {log[n] : n \in 1..Len(log)} = UNION {EventFor(r) : r \in Requests}
             /\ \A m, n \in 1..Len(log) : log[m].req = log[n].req => m = n

(* "The queue being drained here is the complete one": once the emitter has *)
(* closed, no event will be recorded any more and each one recorded was     *)
(* posted or pushed out by newer ones.                                      *)
ShutdownIsComplete ==
  phase = "closed" =>
    /\ Running = {}
    /\ \A n \in 1..Len(log) : n \in E!Settled

(* Recording is on the hot path: a handler that has its body, or waits for  *)
(* an upstream that sends nothing, ends although the delivery task, the     *)
(* console and the upstream never move again.  Only an upstream that keeps  *)
(* on sending pieces of an answer can hold it.                              *)
HandlersEnd ==
  \A r \in Requests :
    (pc[r] = "reading" /\ input[r] # "none") \/ pc[r] = "forwarding"
      ~> pc[r] \in {"done", "cancelled"} \/ wire[r] = Dribbling

(* "Without them a client can open a connection and then dribble, or never  *)
(* send, its request": with the timeouts passed to uvicorn no handler waits *)
(* for a body as long as the server serves.                                 *)
SendersAreTimed ==
  \A r \in Requests : pc[r] = "reading" ~> pc[r] # "reading" \/ server # "serving"
=============================================================================
