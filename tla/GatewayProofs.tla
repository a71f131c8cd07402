---------------------------- MODULE GatewayProofs ----------------------------
(***************************************************************************)
(* Proofs about the gateway's request path, for any requests, any statuses *)
(* of the upstream and any capacity of the emitter's queue.                *)
(*                                                                         *)
(* The gateway's steps are steps of the emitter or leave it alone, so what *)
(* is proved of the emitter (module EmitterProofs) holds beside the        *)
(* handlers.  On the handlers' side, what was sent upstream, what was      *)
(* answered and what was logged for a request agree with each other in     *)
(* every state of its handler.                                             *)
(***************************************************************************)
EXTENDS Gateway, FiniteSetTheorems, TLAPS

P == INSTANCE EmitterProofs

Entry == [req : Requests, verdict : {"accepted", "rejected"}, status : 0..599]
Answers == {NoAnswer, Own(401), Own(413), Own(500), Own(502)} \union {Relayed(s) : s \in Statuses}

(* The types of the handlers' state. *)
HandlerTypes ==
  /\ server \in {"serving", "draining", "drained"}
  /\ input \in [Requests -> Inputs \union {"none"}]
  /\ pc \in [Requests -> {"idle", "reading", "forwarding", "done", "cancelled"}]
  /\ wire \in [Requests -> {0, 1, Dribbling} \union Statuses]
  /\ answer \in [Requests -> Answers]
  /\ log \in Seq(Entry)
  /\ Len(log) = recorded

(* A handler that has not ended has answered nothing; what was sent         *)
(* verified, what the gateway refused was not sent, and what was relayed    *)
(* stays the upstream's answer.                                             *)
Handlers ==
  \A r \in Requests :
    /\ pc[r] \notin {"done"} => answer[r] = NoAnswer
    /\ pc[r] \in {"idle", "reading"} => wire[r] = 0
    /\ pc[r] = "forwarding" => wire[r] # 0
    /\ wire[r] # 0 => input[r] = "valid" /\ answer[r] \notin {Own(401), Own(413), Own(500)}
    /\ pc[r] = "idle" => input[r] = "none"
    /\ answer[r].by = "upstream" => wire[r] = answer[r].status

(* The feed: one entry per judged and answered request. *)
LoggedIsAnswered ==
  /\ ~enabled => log = <<>>
  /\ enabled => \A n \in 1..Len(log) : \E r \in Requests : log[n] \in EventFor(r)
  /\ enabled => \A r \in Requests : \A e \in EventFor(r) : \E n \in 1..Len(log) : log[n] = e
  /\ \A m, n \in 1..Len(log) : log[m].req = log[n].req => m = n

(* The emitter is closed only after the last handler has ended, and nothing *)
(* is recorded from then on.                                                *)
Lifespan ==
  /\ server = "drained" => Running = {}
  /\ phase \in {"closing", "closed", "failed"} => server = "drained" /\ atClose = recorded

HInv == HandlerTypes /\ Handlers /\ LoggedIsAnswered /\ Lifespan

USE GatewayAssumption

-----------------------------------------------------------------------------
(* The emitter inside the gateway *)

(* The emitter's own assumptions hold here. *)
LEMMA EmitterAssumptions == Capacity \in Nat \ {0} /\ MaxEvents \in Nat
  BY FS_CardinalityType

(* The emitter the proofs of EmitterProofs speak of is this one. *)
LEMMA SameEmitter == (E!Init => P!Init) /\ ([E!Next]_(E!vars) => [P!Next]_(P!vars))
<1>1. E!Init => P!Init
  BY DEF E!Init, P!Init
<1>2. E!Start => P!Start
  BY DEF E!Start, P!Start
<1>3. E!Close => P!Close
  BY DEF E!Close, P!Close
<1>4. E!Record => P!Record
  BY DEF E!Record, E!Enqueue, E!Full, P!Record, P!Enqueue, P!Full
<1>5. E!Task => P!Task
  <2>1. E!Select => P!Select
    BY DEF E!Select, P!Select
  <2>2. E!GetterStep => P!GetterStep
    BY DEF E!GetterStep, P!GetterStep
  <2>3. E!WaitGot => P!WaitGot
    BY DEF E!WaitGot, P!WaitGot
  <2>4. E!WaitStopped => P!WaitStopped
    BY DEF E!WaitStopped, P!WaitStopped
  <2>5. E!DrainNext => P!DrainNext
    BY DEF E!DrainNext, P!DrainNext
  <2>6. E!DrainExit => P!DrainExit
    BY DEF E!DrainExit, P!DrainExit
  <2>7. E!PostOk => P!PostOk
    BY DEF E!PostOk, P!PostOk, E!Posting, P!Posting, E!AfterPost, P!AfterPost
  <2>8. E!PostFail => P!PostFail
    BY DEF E!PostFail, P!PostFail, E!Posting, P!Posting, E!AfterPost, P!AfterPost,
           E!LogFailure, P!LogFailure
  <2>9. E!PostRaise => P!PostRaise
    BY DEF E!PostRaise, P!PostRaise, E!Posting, P!Posting
  <2>10. E!CloseReturn => P!CloseReturn
    BY DEF E!CloseReturn, P!CloseReturn
  <2> QED
    BY <2>1, <2>2, <2>3, <2>4, <2>5, <2>6, <2>7, <2>8, <2>9, <2>10 DEF E!Task, P!Task
<1>6. E!Finished => P!Finished
  BY DEF E!Finished, P!Finished, E!vars, P!vars
<1>7. E!vars = P!vars /\ (UNCHANGED E!vars => UNCHANGED P!vars)
  BY DEF E!vars, P!vars
<1> QED
  BY <1>1, <1>2, <1>3, <1>4, <1>5, <1>6, <1>7 DEF E!Next, P!Next

(* What senders and the upstream do about a request. *)
Environment(r) ==
  \/ Arrive(r)
  \/ \E i \in Inputs : BodyEnds(r, i)
  \/ \E status \in Statuses : Upstream(r, status)
  \/ Dribble(r) \/ FallSilent(r)

(* Handlers leave the emitter alone or record one event. *)
LEMMA RecordEventStep ==
  ASSUME NEW r, NEW verdict, NEW status, RecordEvent(r, verdict, status)
  PROVE  \/ /\ enabled /\ E!Record
            /\ log' = Append(log, [req |-> r, verdict |-> verdict, status |-> status])
         \/ ~enabled /\ UNCHANGED <<log, emitterVars>>
  BY DEF RecordEvent

(* Every step of the gateway is a step of the emitter, or stutters for it. *)
LEMMA GatewayStepIsEmitterStep == [Next]_vars => [E!Next]_(E!vars)
<1> SUFFICES ASSUME [Next]_vars PROVE E!Next \/ UNCHANGED emitterVars
  BY DEF E!vars, emitterVars
<1> USE DEF E!Next
<1>1. CASE Startup \/ CloseEmitter \/ EmitterStep
  BY <1>1 DEF Startup, CloseEmitter, EmitterStep
<1>2. ASSUME NEW r \in Requests, Handler(r) PROVE E!Next \/ UNCHANGED emitterVars
  <2>1. CASE Reject(r)
    BY <2>1, RecordEventStep DEF Reject
  <2>2. CASE Relay(r)
    BY <2>2, RecordEventStep DEF Relay
  <2>3. CASE Unreachable(r)
    BY <2>3, RecordEventStep DEF Unreachable
  <2>4. CASE TooLarge(r) \/ Disconnected(r) \/ Crash(r) \/ Forward(r)
    BY <2>4 DEF TooLarge, Disconnected, Crash, Forward
  <2> QED BY <1>2, <2>1, <2>2, <2>3, <2>4 DEF Handler
<1>3. ASSUME NEW r \in Requests, Environment(r) PROVE UNCHANGED emitterVars
  BY <1>3 DEF Environment, Arrive, BodyEnds, Upstream, Dribble, FallSilent
<1>4. CASE StopAccepting \/ Drain
  BY <1>4 DEF StopAccepting, Drain
<1>5. CASE Finished \/ UNCHANGED vars
  BY <1>5 DEF Finished, vars
<1> QED
  BY <1>1, <1>2, <1>3, <1>4, <1>5 DEF Next, Environment

(* What is proved of the emitter by itself holds of the one in the gateway. *)
LEMMA EmitterInvariant == Spec => []P!IInv
<1>1. Capacity \in Nat \ {0} /\ MaxEvents \in Nat
  BY EmitterAssumptions
<1>2. Init => P!Init
  BY SameEmitter DEF Init
<1>3. P!Init => P!IInv
  BY <1>1, P!InitIInv
<1>4. P!IInv /\ [P!Next]_(P!vars) => P!IInv'
  BY <1>1, P!StepIInv
<1> QED
  BY <1>2, <1>3, <1>4, SameEmitter, GatewayStepIsEmitterStep, PTL DEF Spec

-----------------------------------------------------------------------------
(* The handlers *)

LEMMA InitHInv == Init => HInv
<1> SUFFICES ASSUME Init PROVE HInv
  OBVIOUS
<1> USE DEF Init, E!Init
<1>1. HandlerTypes
  BY DEF HandlerTypes, Answers
<1>2. Handlers
  BY DEF Handlers, NoAnswer, Own
<1>3. LoggedIsAnswered
  <2>1. \A r \in Requests : EventFor(r) = {}
    BY DEF EventFor, NoAnswer, Own
  <2> QED BY <2>1 DEF LoggedIsAnswered
<1>4. Lifespan
  BY DEF Lifespan
<1> QED
  BY <1>1, <1>2, <1>3, <1>4 DEF HInv

(* The kinds of answers are told apart. *)
LEMMA AnswerKinds ==
  ASSUME NEW r \in Requests
  PROVE  /\ answer[r] \in {NoAnswer, Own(413), Own(500)} => EventFor(r) = {}
         /\ answer[r] = Own(401) => EventFor(r) = {[req |-> r, verdict |-> "rejected", status |-> 0]}
         /\ answer[r] = Own(502) => EventFor(r) = {[req |-> r, verdict |-> "accepted", status |-> 0]}
         /\ answer[r].by = "upstream" =>
              EventFor(r) = {[req |-> r, verdict |-> "accepted", status |-> answer[r].status]}
         /\ \A e \in EventFor(r) : e.req = r
<1>1. CASE answer[r] = Own(401)
  BY <1>1 DEF EventFor, NoAnswer, Own
<1>2. CASE answer[r] = Own(502)
  BY <1>2 DEF EventFor, NoAnswer, Own
<1>3. CASE answer[r].by = "upstream"
  BY <1>3 DEF EventFor, NoAnswer, Own
<1>4. CASE answer[r] # Own(401) /\ answer[r] # Own(502) /\ answer[r].by # "upstream"
  BY <1>4 DEF EventFor
<1> QED
  BY <1>1, <1>2, <1>3, <1>4

(* What a handler's step may change: its own answer and control state, and  *)
(* nothing that was logged for another request.                             *)
LEMMA SameAnswersStep ==
  ASSUME LoggedIsAnswered, UNCHANGED <<log, enabled>>,
         \A r \in Requests : EventFor(r)' = EventFor(r)
  PROVE  LoggedIsAnswered'
  BY DEF LoggedIsAnswered

(* The emitter moves by itself, or the lifespan starts or closes it. *)
LEMMA EmitterMovesStep == ASSUME HInv, Startup \/ CloseEmitter \/ EmitterStep PROVE HInv'
<1>1. UNCHANGED handlerVars
  BY DEF Startup, CloseEmitter, EmitterStep
<1>2. UNCHANGED <<enabled, recorded>>
  BY DEF Startup, CloseEmitter, EmitterStep, E!Start, E!Close, E!Task, E!Select, E!GetterStep,
         E!WaitGot, E!WaitStopped, E!DrainNext, E!DrainExit, E!PostOk, E!PostFail, E!PostRaise,
         E!CloseReturn
<1>3. HandlerTypes' /\ Handlers'
  BY <1>1, <1>2 DEF HInv, HandlerTypes, Handlers, handlerVars
<1>4. LoggedIsAnswered'
  BY <1>1, <1>2, SameAnswersStep DEF HInv, EventFor, handlerVars
<1>5. Running' = Running
  BY <1>1 DEF Running, handlerVars
<1>6. Lifespan'
  <2>1. CASE Startup
    BY <1>1, <1>5, <2>1 DEF HInv, Lifespan, handlerVars, Startup, E!Start
  <2>2. CASE CloseEmitter
    BY <1>1, <1>2, <1>5, <2>2 DEF HInv, Lifespan, handlerVars, CloseEmitter, E!Close
  <2>3. CASE EmitterStep
    <3>1. CASE E!CloseReturn
      BY <1>1, <1>5, <3>1 DEF HInv, Lifespan, handlerVars, E!CloseReturn
    <3>2. CASE ~E!CloseReturn
      <4>1. UNCHANGED <<phase, atClose>>
        BY <2>3, <3>2 DEF EmitterStep, E!Task, E!Select, E!GetterStep, E!WaitGot, E!WaitStopped,
           E!DrainNext, E!DrainExit, E!PostOk, E!PostFail, E!PostRaise
      <4> QED BY <1>1, <1>2, <1>5, <4>1 DEF HInv, Lifespan, handlerVars
    <3> QED BY <3>1, <3>2
  <2> QED BY <2>1, <2>2, <2>3
<1> QED
  BY <1>3, <1>4, <1>6 DEF HInv

(* A request arrives, or is answered without a verdict, or is sent on, or   *)
(* taken by the upstream: nothing is recorded.                              *)
LEMMA QuietStep ==
  ASSUME HInv, NEW r \in Requests,
         Environment(r) \/ TooLarge(r) \/ Disconnected(r) \/ Crash(r) \/ Forward(r)
  PROVE  HInv'
<1> USE DEF HInv, Answer
<1>1. UNCHANGED <<server, log, emitterVars>>
  BY DEF Environment, Arrive, BodyEnds, Upstream, Dribble, FallSilent, TooLarge, Disconnected, Crash,
         Forward
<1>2. UNCHANGED <<enabled, recorded, phase, atClose>>
  BY <1>1 DEF emitterVars
<1>3. HandlerTypes'
  <2>1. CASE Arrive(r) \/ Dribble(r) \/ FallSilent(r)
    BY <1>1, <1>2, <2>1 DEF Arrive, Dribble, FallSilent, HandlerTypes
  <2>2. ASSUME NEW status \in Statuses, Upstream(r, status) PROVE HandlerTypes'
    BY <1>1, <1>2, <2>2 DEF Upstream, HandlerTypes
  <2>3. CASE TooLarge(r) \/ Disconnected(r) \/ Crash(r)
    <3>1. \E a \in Answers : answer' = [answer EXCEPT ![r] = a]
      BY <2>3 DEF TooLarge, Disconnected, Crash, Answers
    <3> QED BY <1>1, <1>2, <2>3, <3>1 DEF TooLarge, Disconnected, Crash, HandlerTypes
  <2>4. CASE Forward(r)
    BY <1>1, <1>2, <2>4 DEF Forward, HandlerTypes
  <2>5. ASSUME NEW i \in Inputs, BodyEnds(r, i) PROVE HandlerTypes'
    BY <1>1, <1>2, <2>5 DEF BodyEnds, HandlerTypes
  <2> QED BY <2>1, <2>2, <2>3, <2>4, <2>5 DEF Environment
<1>4. Handlers'
  <2>1. CASE Arrive(r)
    BY <2>1 DEF Arrive, HandlerTypes, Handlers
  <2>5. ASSUME NEW i \in Inputs, BodyEnds(r, i) PROVE Handlers'
    BY <2>5 DEF BodyEnds, HandlerTypes, Handlers
  <2>2. ASSUME NEW w \in {1, Dribbling} \union Statuses,
               wire[r] \in {1, Dribbling}, wire' = [wire EXCEPT ![r] = w], UNCHANGED <<input, pc, answer>>
        PROVE  Handlers'
    <3>1. wire[r] \in 1..2 /\ wire' = [wire EXCEPT ![r] = w] /\ UNCHANGED <<input, pc, answer>>
      BY <2>2 DEF Dribbling
    <3>2. w # 0 /\ wire'[r] = w /\ \A q \in Requests \ {r} : wire'[q] = wire[q]
      BY <3>1 DEF HandlerTypes, Dribbling
    <3>3. answer[r].by # "upstream"
      <4>1. answer[r] \in Answers
        BY DEF HandlerTypes
      <4>2. answer[r].by = "upstream" => answer[r].status \in Statuses
        BY <4>1 DEF Answers, NoAnswer, Own, Relayed
      <4> QED BY <3>1, <4>2 DEF Handlers
    <3>4. \A q \in Requests \ {r} : wire'[q] = wire[q] /\ pc'[q] = pc[q] /\ answer'[q] = answer[q]
      BY <3>1, <3>2
    <3> QED BY <3>1, <3>2, <3>3, <3>4 DEF Handlers
  <2>3. CASE TooLarge(r) \/ Disconnected(r) \/ Crash(r)
    <3>1. PICK a \in {NoAnswer, Own(413), Own(500)} :
            /\ pc[r] = "reading" /\ UNCHANGED <<input, wire>>
            /\ pc' = [pc EXCEPT ![r] = "done"] /\ answer' = [answer EXCEPT ![r] = a]
      BY <2>3 DEF TooLarge, Disconnected, Crash
    <3>2. pc'[r] = "done" /\ answer'[r] = a /\ a.by # "upstream" /\ wire'[r] = 0
      BY <3>1 DEF HandlerTypes, Handlers, NoAnswer, Own
    <3>3. \A q \in Requests : q # r => pc'[q] = pc[q] /\ answer'[q] = answer[q]
      BY <3>1 DEF HandlerTypes
    <3> QED BY <3>1, <3>2, <3>3 DEF Handlers
  <2>4. CASE Forward(r)
    BY <2>4 DEF Forward, HandlerTypes, Handlers, NoAnswer, Own
  <2>6. CASE Dribble(r) \/ FallSilent(r)
    BY <2>2, <2>6 DEF Dribble, FallSilent
  <2>7. ASSUME NEW status \in Statuses, Upstream(r, status) PROVE Handlers'
    BY <2>2, <2>7 DEF Upstream
  <2> QED BY <2>1, <2>3, <2>4, <2>5, <2>6, <2>7 DEF Environment
<1>5. LoggedIsAnswered'
  <2>1. ASSUME NEW q \in Requests PROVE EventFor(q)' = EventFor(q)
    <3>1. CASE answer'[q] = answer[q]
      BY <3>1 DEF EventFor
    <3>2. CASE answer'[q] # answer[q]
      <4>1. (TooLarge(r) \/ Disconnected(r) \/ Crash(r)) /\ q = r
        BY <3>2 DEF Environment, Arrive, BodyEnds, Upstream, Dribble, FallSilent, TooLarge,
                    Disconnected, Crash, Forward, HandlerTypes
      <4>2. answer[q] = NoAnswer /\ answer'[q] \in {NoAnswer, Own(413), Own(500)}
        BY <4>1 DEF TooLarge, Disconnected, Crash, HandlerTypes, Handlers
      <4>3. EventFor(q) = {}
        BY <4>2, AnswerKinds
      <4>4. EventFor(q)' = {}
        BY <4>2 DEF EventFor, NoAnswer, Own
      <4> QED BY <4>3, <4>4
    <3> QED BY <3>1, <3>2
  <2> QED BY <1>1, <1>2, <2>1, SameAnswersStep
<1>6. Lifespan'
  <2>1. server = "drained" => pc[r] \notin {"reading", "forwarding"}
    BY DEF Lifespan, Running
  <2>2. server = "drained" => pc' = pc
    BY <2>1 DEF Environment, Arrive, BodyEnds, Upstream, Dribble, FallSilent, TooLarge, Disconnected,
                Crash, Forward
  <2>3. server = "drained" => Running' = Running
    BY <2>2 DEF Running
  <2> QED BY <1>1, <1>2, <2>3 DEF Lifespan
<1> QED
  BY <1>3, <1>4, <1>5, <1>6

(* The shutdown ends what runs. *)
LEMMA ShutdownStep == ASSUME HInv, StopAccepting \/ Drain PROVE HInv'
<1> USE DEF HInv
<1>1. UNCHANGED <<input, wire, answer, log, enabled, recorded, phase, atClose>>
  BY DEF StopAccepting, Drain, emitterVars
<1>2. HandlerTypes' /\ Handlers'
  BY <1>1 DEF StopAccepting, Drain, Running, HandlerTypes, Handlers
<1>3. LoggedIsAnswered'
  BY <1>1, SameAnswersStep DEF EventFor
<1>4. Lifespan'
  BY <1>1 DEF StopAccepting, Drain, Running, Lifespan
<1> QED
  BY <1>2, <1>3, <1>4

(* The end of a handler that has reached a verdict. *)
Verdict(r, a, verdict, status) ==
  /\ a \in Answers /\ verdict \in {"accepted", "rejected"} /\ status \in 0..599
  /\ pc[r] \in {"reading", "forwarding"}
  /\ Answer(r, a)
  /\ RecordEvent(r, verdict, status)
  /\ UNCHANGED <<server, input, wire>>
  /\ \/ a = Own(401) /\ verdict = "rejected" /\ status = 0 /\ wire[r] = 0
     \/ a = Own(502) /\ verdict = "accepted" /\ status = 0
     \/ a.by = "upstream" /\ verdict = "accepted" /\ status = a.status /\ wire[r] = a.status

(* A verdict is answered and recorded in one step: the entry is the one the *)
(* answer calls for, and the first of its request.                          *)
LEMMA VerdictStep ==
  ASSUME HInv, NEW r \in Requests, NEW a, NEW verdict, NEW status, Verdict(r, a, verdict, status)
  PROVE  HInv'
<1> USE DEF Verdict
<1> DEFINE e == [req |-> r, verdict |-> verdict, status |-> status]
<1> USE DEF HInv
<1>1. /\ pc' = [pc EXCEPT ![r] = "done"] /\ answer' = [answer EXCEPT ![r] = a]
      /\ answer[r] = NoAnswer
  BY DEF Answer, Handlers
<1>2. /\ answer'[r] = a /\ pc'[r] = "done"
      /\ \A q \in Requests : q # r => answer'[q] = answer[q] /\ pc'[q] = pc[q]
  BY <1>1 DEF HandlerTypes
<1>3. /\ UNCHANGED <<enabled, phase, atClose>>
      /\ \/ enabled /\ log' = Append(log, e) /\ recorded' = recorded + 1
         \/ ~enabled /\ log' = log /\ recorded' = recorded
  BY RecordEventStep DEF E!Record, emitterVars
<1>4. e \in Entry
  BY DEF Entry
<1>5. Len(log) \in Nat /\ log \in Seq(Entry)
  BY DEF HandlerTypes
<1> HIDE DEF e
<1>6. enabled => /\ log' \in Seq(Entry) /\ Len(log') = Len(log) + 1 /\ log'[Len(log) + 1] = e
                 /\ \A n \in 1..Len(log) : log'[n] = log[n]
  BY <1>3, <1>4, <1>5
<1>7. HandlerTypes'
  <2>1. log' \in Seq(Entry) /\ Len(log') = recorded'
    BY <1>3, <1>5, <1>6 DEF HandlerTypes
  <2>2. answer' \in [Requests -> Answers]
    BY <1>1 DEF HandlerTypes
  <2> QED BY <1>1, <2>1, <2>2 DEF HandlerTypes
<1>8. Handlers'
  <2>1. a.by = "upstream" => a \notin {Own(401), Own(413), Own(500)}
    BY DEF Own
  <2>2. Own(502) \notin {Own(401), Own(413), Own(500)} /\ Own(502).by # "upstream" /\ Own(401).by # "upstream"
    BY DEF Own
  <2>3. wire[r] # 0 => a \notin {Own(401), Own(413), Own(500)}
    BY <2>1, <2>2
  <2>4. a.by = "upstream" => wire[r] = a.status
    BY <2>2
  <2> QED BY <1>2, <2>3, <2>4 DEF Handlers
<1>9. EventFor(r) = {} /\ EventFor(r)' = {e} /\ \A q \in Requests : q # r => EventFor(q)' = EventFor(q)
  <2>1. EventFor(r) = {}
    BY <1>1, AnswerKinds
  <2>2. EventFor(r)' = {e}
    <3>1. CASE a = Own(401) /\ verdict = "rejected" /\ status = 0
      BY <1>2, <3>1 DEF EventFor, Own, e
    <3>2. CASE a = Own(502) /\ verdict = "accepted" /\ status = 0
      BY <1>2, <3>2 DEF EventFor, Own, e
    <3>3. CASE a.by = "upstream" /\ verdict = "accepted" /\ status = a.status
      BY <1>2, <3>3 DEF EventFor, Own, e
    <3> QED BY <3>1, <3>2, <3>3
  <2>3. ASSUME NEW q \in Requests, q # r PROVE EventFor(q)' = EventFor(q)
    <3>1. answer'[q] = answer[q]
      BY <1>2, <2>3
    <3> QED BY <3>1 DEF EventFor
  <2> QED BY <2>1, <2>2, <2>3
<1>10. LoggedIsAnswered'
  <2>1. CASE ~enabled
    BY <2>1, <1>3 DEF LoggedIsAnswered
  <2>2. CASE enabled
    <3>1. ASSUME NEW n \in 1..Len(log) PROVE log[n].req # r
      <4>1. PICK q \in Requests : log[n] \in EventFor(q)
        BY <2>2 DEF LoggedIsAnswered
      <4>2. q # r
        BY <4>1, <1>9
      <4> QED BY <4>1, <4>2, AnswerKinds
    <3>2. \A n \in 1..Len(log') : n \in 1..Len(log) \/ n = Len(log) + 1
      BY <2>2, <1>5, <1>6
    <3>3. e.req = r
      BY DEF e
    <3>4. ASSUME NEW n \in 1..Len(log') PROVE \E q \in Requests : log'[n] \in EventFor(q)'
      <4>1. CASE n = Len(log) + 1
        BY <4>1, <2>2, <1>6, <1>9
      <4>2. CASE n \in 1..Len(log)
        <5>1. PICK q \in Requests : log[n] \in EventFor(q)
          BY <2>2, <4>2 DEF LoggedIsAnswered
        <5>2. q # r
          BY <5>1, <1>9
        <5> QED BY <5>1, <5>2, <4>2, <2>2, <1>6, <1>9
      <4> QED BY <3>2, <4>1, <4>2
    <3>5. ASSUME NEW q \in Requests, NEW x \in EventFor(q)' PROVE \E n \in 1..Len(log') : log'[n] = x
      <4>1. CASE q = r
        <5>1. x = e /\ Len(log) + 1 \in 1..Len(log')
          BY <4>1, <1>9, <1>5, <1>6, <2>2
        <5> QED BY <5>1, <1>6, <2>2
      <4>2. CASE q # r
        <5>1. PICK n \in 1..Len(log) : log[n] = x
          BY <4>2, <2>2, <1>9 DEF LoggedIsAnswered
        <5>2. n \in 1..Len(log') /\ log'[n] = x
          BY <5>1, <1>5, <1>6, <2>2
        <5> QED BY <5>2
      <4> QED BY <4>1, <4>2
    <3>6. \A m, n \in 1..Len(log') : log'[m].req = log'[n].req => m = n
      <4>1. \A m, n \in 1..Len(log) : log[m].req = log[n].req => m = n
        BY DEF LoggedIsAnswered
      <4> QED BY <2>2, <3>1, <3>2, <3>3, <4>1, <1>6
    <3> QED BY <2>2, <1>3, <3>4, <3>5, <3>6 DEF LoggedIsAnswered
  <2> QED BY <2>1, <2>2
<1>11. Lifespan'
  <2>1. server # "drained"
    BY DEF Lifespan, Running
  <2> QED BY <2>1, <1>3 DEF Lifespan
<1> QED
  BY <1>7, <1>8, <1>10, <1>11

LEMMA StepHInv == HInv /\ [Next]_vars => HInv'
<1> SUFFICES ASSUME HInv, [Next]_vars PROVE HInv'
  OBVIOUS
<1>1. ASSUME NEW r \in Requests, Reject(r) PROVE HInv'
  <2>1. wire[r] = 0 /\ Own(401) \in Answers
    BY <1>1 DEF Reject, HInv, Handlers, Answers
  <2>2. Verdict(r, Own(401), "rejected", 0)
    BY <1>1, <2>1 DEF Verdict, Reject
  <2> QED BY <2>2, VerdictStep
<1>2. ASSUME NEW r \in Requests, Relay(r) PROVE HInv'
  <2>1. wire[r] \in Statuses /\ wire[r] \in 0..599
    <3>1. wire[r] \in Statuses
      BY <1>2 DEF Relay
    <3>2. wire[r] \in 100..599
      BY <3>1
    <3> QED BY <3>1, <3>2
  <2>2. Relayed(wire[r]) \in Answers
    BY <2>1 DEF Answers
  <2>3. Relayed(wire[r]).by = "upstream" /\ Relayed(wire[r]).status = wire[r]
    BY DEF Relayed
  <2>4. Verdict(r, Relayed(wire[r]), "accepted", wire[r])
    BY <1>2, <2>1, <2>2, <2>3 DEF Verdict, Relay
  <2> QED BY <2>4, VerdictStep
<1>3. ASSUME NEW r \in Requests, Unreachable(r) PROVE HInv'
  <2>1. Own(502) \in Answers
    BY DEF Answers
  <2>2. Verdict(r, Own(502), "accepted", 0)
    BY <1>3, <2>1 DEF Verdict, Unreachable
  <2> QED BY <2>2, VerdictStep
<1>4. CASE Finished \/ UNCHANGED vars
  <2>1. UNCHANGED <<server, input, pc, wire, answer, log, enabled, recorded, phase, atClose>>
    BY <1>4 DEF Finished, vars, handlerVars, emitterVars
  <2>2. HandlerTypes' /\ Handlers'
    BY <2>1 DEF HInv, HandlerTypes, Handlers
  <2>3. LoggedIsAnswered'
    BY <2>1, SameAnswersStep DEF HInv, EventFor
  <2>4. Lifespan'
    BY <2>1 DEF HInv, Lifespan, Running
  <2> QED BY <2>2, <2>3, <2>4 DEF HInv
<1> QED
  BY <1>1, <1>2, <1>3, <1>4, EmitterMovesStep, QuietStep, ShutdownStep DEF Next, Handler, Environment

LEMMA HandlersHold == Spec => []HInv
  BY InitHInv, StepHInv, PTL DEF Spec

-----------------------------------------------------------------------------
(* Results *)

(* Seen from the emitter, the gateway is an environment like any other:     *)
(* handlers, start and shutdown only ever take the emitter's own steps      *)
(* (app.py calls start, record and aclose of emitter.py).                   *)
THEOREM GatewayRunsEmitter == Spec => E!Spec
<1>1. Init => E!Init
  BY DEF Init
<1> QED
  BY <1>1, GatewayStepIsEmitterStep, PTL DEF Spec, E!Spec

(* All variables keep their types, the emitter's included, and the log is   *)
(* as long as the emitter's count.                                          *)
THEOREM TypeCorrect == Spec => []TypeOK
<1>1. P!IInv /\ HInv => TypeOK
  <2> SUFFICES ASSUME P!IInv, HInv PROVE TypeOK
    OBVIOUS
  <2>1. E!TypeOK
    BY DEF P!IInv, P!TypeOK, P!Phases, P!Workers, P!Getters,
           E!TypeOK, E!Phases, E!Workers, E!Getters
  <2>2. \A a \in Answers : a \in [by : {"nobody", "gateway", "upstream"}, status : 0..599]
    BY DEF Answers, NoAnswer, Own, Relayed
  <2>3. answer \in [Requests -> [by : {"nobody", "gateway", "upstream"}, status : 0..599]]
    BY <2>2 DEF HInv, HandlerTypes
  <2> QED BY <2>1, <2>3 DEF HInv, HandlerTypes, Entry, TypeOK
<1> QED
  BY <1>1, EmitterInvariant, HandlersHold, PTL

(* A 2xx the sender gets is the upstream's own, for a request that verified *)
(* (_handle relays; nothing else answers 2xx).                              *)
THEOREM AcknowledgedWasProcessed == Spec => []AcknowledgedIsProcessed
<1>1. HInv => AcknowledgedIsProcessed
  <2> SUFFICES ASSUME HInv, NEW r \in Requests, answer[r].status \in 200..299
               PROVE  wire[r] = answer[r].status /\ input[r] = "valid"
    BY DEF AcknowledgedIsProcessed
  <2>1. answer[r] \in Answers
    BY DEF HInv, HandlerTypes
  <2>2. answer[r].by = "upstream"
    BY <2>1 DEF Answers, NoAnswer, Own, Relayed
  <2>3. wire[r] = answer[r].status
    BY <2>2 DEF HInv, Handlers
  <2>4. wire[r] # 0
    BY <2>3
  <2> QED BY <2>3, <2>4 DEF HInv, Handlers
<1> QED
  BY <1>1, HandlersHold, PTL

(* Nothing unverified is ever sent upstream, and what the gateway refused   *)
(* itself was not sent (_handle verifies before _forward).                  *)
THEOREM UpstreamSeesVerifiedOnly == Spec => []OnlyVerifiedReachUpstream
<1>1. HInv => OnlyVerifiedReachUpstream
  BY DEF HInv, Handlers, OnlyVerifiedReachUpstream
<1> QED
  BY <1>1, HandlersHold, PTL

(* The feed and the answers tell the same story: one event per judged and   *)
(* answered request, saying what the sender was told (emitter.record beside *)
(* every return of _handle).                                                *)
THEOREM FeedMatchesAnswers == Spec => []EventsMatchAnswers
<1>1. HInv => EventsMatchAnswers
  <2> SUFFICES ASSUME HInv, enabled
               PROVE  /\ {log[n] : n \in 1..Len(log)} = UNION {EventFor(r) : r \in Requests}
                      /\ \A m, n \in 1..Len(log) : log[m].req = log[n].req => m = n
    BY DEF EventsMatchAnswers
  <2>1. /\ \A n \in 1..Len(log) : \E r \in Requests : log[n] \in EventFor(r)
        /\ \A r \in Requests : \A e \in EventFor(r) : \E n \in 1..Len(log) : log[n] = e
    BY DEF HInv, LoggedIsAnswered
  <2>2. {log[n] : n \in 1..Len(log)} = UNION {EventFor(r) : r \in Requests}
    BY <2>1
  <2> QED BY <2>2 DEF HInv, LoggedIsAnswered
<1> QED
  BY <1>1, HandlersHold, PTL

(* When the lifespan's cleanup has closed the emitter, no handler runs and  *)
(* every event ever recorded was posted or pushed out (the comment in       *)
(* app.py on the queue being drained is right).                             *)
THEOREM ShutdownCompletes == Spec => []ShutdownIsComplete
<1>1. P!IInv /\ HInv => ShutdownIsComplete
  <2> SUFFICES ASSUME P!IInv, HInv, phase = "closed", NEW n \in 1..Len(log)
               PROVE  n \in E!Settled
    BY DEF ShutdownIsComplete, HInv, Lifespan
  <2>1. atClose = Len(log)
    BY DEF HInv, Lifespan, HandlerTypes
  <2>2. worker = "off" => recorded = 0
    BY DEF P!IInv, P!Control
  <2>3. worker = "exited"
    BY <2>2 DEF P!IInv, P!Control, HInv, HandlerTypes
  <2>4. n \in P!Settled
    BY <2>1, <2>3 DEF P!IInv, P!Drained
  <2> QED BY <2>4 DEF P!Settled, P!Attempted, E!Settled, E!Attempted
<1> QED
  BY <1>1, EmitterInvariant, HandlersHold, PTL

(* While a handler runs there is room for its event under MaxEvents: the    *)
(* bound of the emitter's model never keeps a handler from recording.       *)
RoomToRecord == \A r \in Running : recorded < MaxEvents

(* The emitter's bound cuts no behaviour of the gateway short, so the       *)
(* results above are not owed to it.                                        *)
THEOREM BoundNeverBinds == Spec => []RoomToRecord
<1>1. HInv => RoomToRecord
  <2> SUFFICES ASSUME HInv, NEW r \in Running PROVE Len(log) < MaxEvents
    BY DEF RoomToRecord, HInv, HandlerTypes
  <2> DEFINE others == Requests \ {r}
             subject == [n \in 1..Len(log) |-> log[n].req]
  <2>1. r \in Requests /\ answer[r] = NoAnswer /\ Len(log) \in Nat
    BY DEF Running, HInv, Handlers, HandlerTypes
  <2>2. IsFiniteSet(others) /\ Cardinality(others) = MaxEvents - 1 /\ MaxEvents \in Nat
    <3>1. IsFiniteSet(Requests) /\ Cardinality(Requests) = MaxEvents
      BY GatewayAssumption
    <3>2. /\ IsFiniteSet(others)
          /\ Cardinality(others) = IF r \in Requests THEN Cardinality(Requests) - 1
                                                    ELSE Cardinality(Requests)
      BY <3>1, FS_RemoveElement, Zenon
    <3> HIDE DEF others
    <3> QED BY <2>1, <3>1, <3>2, EmitterAssumptions
  <2>3. ASSUME NEW n \in 1..Len(log) PROVE log[n].req \in others
    <3>1. CASE enabled
      <4>1. PICK q \in Requests : log[n] \in EventFor(q)
        BY <3>1 DEF HInv, LoggedIsAnswered
      <4>2. q # r
        BY <4>1, <2>1, AnswerKinds
      <4>3. log[n].req = q
        BY <4>1, AnswerKinds
      <4> QED BY <4>2, <4>3
    <3>2. CASE ~enabled
      BY <3>2 DEF HInv, LoggedIsAnswered
    <3> QED BY <3>1, <3>2
  <2>4. subject \in Injection(1..Len(log), others)
    BY <2>3 DEF Injection, IsInjective, HInv, LoggedIsAnswered
  <2>5. Cardinality(1..Len(log)) = Len(log)
    <3>1. 1 \in Int /\ Len(log) \in Int
      BY <2>1
    <3>2. Cardinality(1..Len(log)) = IF 1 > Len(log) THEN 0 ELSE Len(log) - 1 + 1
      BY <3>1, FS_Interval, Zenon
    <3> QED BY <2>1, <3>2
  <2> HIDE DEF others, subject
  <2>6. Cardinality(1..Len(log)) <= Cardinality(others)
    BY <2>2, <2>4, FS_Injection
  <2> QED BY <2>1, <2>2, <2>5, <2>6
<1> QED
  BY <1>1, HandlersHold, PTL
=============================================================================
