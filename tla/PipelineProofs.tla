---------------------------- MODULE PipelineProofs ----------------------------
(***************************************************************************)
(* Proofs about the way of a verdict from the gateway to the console's     *)
(* table, for any sizes of the two queues and any number of verdicts and   *)
(* kills.                                                                  *)
(*                                                                         *)
(* The pipeline runs the emitter and the batcher unchanged, so the         *)
(* inductive invariants of EmitterProofs and BatcherProofs hold in it.     *)
(* What is added is the network between them: an event is on the wire only *)
(* once the emitter has tried it, the console has answered 202 to exactly  *)
(* the events in its books, foreign ones apart, and those the emitter      *)
(* takes for delivered are among them.                                     *)
(***************************************************************************)
EXTENDS Pipeline, FiniteSetTheorems, TLAPS

PE == INSTANCE EmitterProofs WITH
        phase <- ePhase, stopping <- eStopping, worker <- eWorker, queue <- eQueue,
        dropped <- eDropped, atClose <- eAtClose

PB == INSTANCE BatcherProofs WITH MaxEvents <- MaxEvents + MaxForeign

USE PipelineAssumption

-----------------------------------------------------------------------------
(* The emitter inside the pipeline *)

(* The emitter EmitterProofs speaks of is this one. *)
LEMMA SameEmitter == (E!Init => PE!Init) /\ ([E!Next]_(E!vars) => [PE!Next]_(PE!vars))
<1>1. E!Init => PE!Init
  BY DEF E!Init, PE!Init
<1>2. (E!Start => PE!Start) /\ (E!Close => PE!Close) /\ (E!CloseReturn => PE!CloseReturn)
  BY DEF E!Start, PE!Start, E!Close, PE!Close, E!CloseReturn, PE!CloseReturn
<1>3. E!Record => PE!Record
  BY DEF E!Record, E!Enqueue, E!Full, PE!Record, PE!Enqueue, PE!Full
<1>4. E!Task => PE!Task
  <2>1. E!Select => PE!Select
    BY DEF E!Select, PE!Select
  <2>2. E!GetterStep => PE!GetterStep
    BY DEF E!GetterStep, PE!GetterStep
  <2>3. E!WaitGot => PE!WaitGot
    BY DEF E!WaitGot, PE!WaitGot
  <2>4. E!WaitStopped => PE!WaitStopped
    BY DEF E!WaitStopped, PE!WaitStopped
  <2>5. (E!DrainNext => PE!DrainNext) /\ (E!DrainExit => PE!DrainExit)
    BY DEF E!DrainNext, PE!DrainNext, E!DrainExit, PE!DrainExit
  <2>6. E!PostOk => PE!PostOk
    BY DEF E!PostOk, PE!PostOk, E!Posting, PE!Posting, E!AfterPost, PE!AfterPost
  <2>7. E!PostFail => PE!PostFail
    BY DEF E!PostFail, PE!PostFail, E!Posting, PE!Posting, E!AfterPost, PE!AfterPost,
           E!LogFailure, PE!LogFailure
  <2>8. E!PostRaise => PE!PostRaise
    BY DEF E!PostRaise, PE!PostRaise, E!Posting, PE!Posting
  <2> QED
    BY <1>2, <2>1, <2>2, <2>3, <2>4, <2>5, <2>6, <2>7, <2>8 DEF E!Task, PE!Task
<1>5. E!Finished => PE!Finished
  BY DEF E!Finished, PE!Finished, E!vars, PE!vars
<1>6. E!vars = PE!vars /\ (UNCHANGED E!vars => UNCHANGED PE!vars)
  BY DEF E!vars, PE!vars
<1> QED
  BY <1>1, <1>2, <1>3, <1>4, <1>5, <1>6 DEF E!Next, PE!Next

(* Every step of the pipeline is a step of the emitter, or none of it. *)
LEMMA PipelineStepIsEmitterStep == [Next]_vars => [E!Next]_(E!vars)
<1> SUFFICES ASSUME [Next]_vars PROVE E!Next \/ UNCHANGED emitterVars
  BY DEF E!vars, emitterVars
<1>1. CASE Record \/ Deliver \/ PostOk \/ PostFail \/ GatewayLifespan
  BY <1>1 DEF Record, Deliver, PostOk, PostFail, GatewayLifespan, E!Next, E!Task
<1>2. CASE (\E e \in 1..MaxEvents : Handle(e)) \/ Persist \/ ConsoleStart \/ ConsoleStop
  BY <1>2 DEF Handle, Persist, ConsoleStart, ConsoleStop
<1>3. ASSUME NEW request \in ForeignRequest, HandleForeign(request) PROVE UNCHANGED emitterVars
  BY <1>3 DEF HandleForeign
<1>4. CASE Finished \/ UNCHANGED vars
  BY <1>4 DEF Finished, vars
<1> QED
  BY <1>1, <1>2, <1>3, <1>4 DEF Next

(* What is proved of the emitter by itself holds of the one in the pipeline. *)
LEMMA EmitterInvariant == Spec => []PE!IInv
<1>1. Init => PE!Init
  BY SameEmitter DEF Init
<1>2. PE!Init => PE!IInv
  BY PE!InitIInv
<1>3. PE!IInv /\ [PE!Next]_(PE!vars) => PE!IInv'
  BY PE!StepIInv
<1> QED
  BY <1>1, <1>2, <1>3, SameEmitter, PipelineStepIsEmitterStep, PTL DEF Spec

-----------------------------------------------------------------------------
(* The batcher inside the pipeline *)

(* The batcher BatcherProofs speaks of is this one. *)
LEMMA SameBatcher == (B!Init => PB!Init) /\ ([B!Next]_(B!vars) => [PB!Next]_(PB!vars))
<1>1. B!Init => PB!Init
  BY DEF B!Init, PB!Init, B!StoreInit, PB!StoreInit, B!Times, PB!Times, B!Never, PB!Never
<1>2. /\ B!tables = PB!tables /\ B!memory = PB!memory /\ B!history = PB!history /\ B!vars = PB!vars
      /\ B!tables' = PB!tables' /\ B!memory' = PB!memory' /\ B!history' = PB!history' /\ B!vars' = PB!vars'
  BY DEF B!tables, PB!tables, B!memory, PB!memory, B!history, PB!history, B!vars, PB!vars
<1>3. /\ B!Start => PB!Start
      /\ B!Close => PB!Close
      /\ B!CloseReturn => PB!CloseReturn
      /\ B!Tick => PB!Tick
      /\ B!Finished => PB!Finished
  BY <1>2 DEF B!Start, PB!Start, B!Close, PB!Close, B!CloseReturn, PB!CloseReturn, B!Tick, PB!Tick,
              B!Finished, PB!Finished
<1>4. \A at : B!Ingest(at) => PB!Ingest(at)
  BY <1>2 DEF B!Ingest, PB!Ingest, B!Enqueue, PB!Enqueue
<1>5. /\ B!LatestId = PB!LatestId /\ B!Times = PB!Times /\ B!AfterPersist = PB!AfterPersist
      /\ \A evs : B!Numbers(evs) = PB!Numbers(evs)
      /\ \A k : B!Buckets(k) = PB!Buckets(k)
  BY DEF B!LatestId, PB!LatestId, B!Times, PB!Times, B!AfterPersist, PB!AfterPersist,
         B!Numbers, PB!Numbers, B!Buckets, PB!Buckets, B!Max, PB!Max
<1>6. /\ \A evs : B!WithRows(evs) = PB!WithRows(evs)
      /\ \A evs, bs : B!WithRollups(evs, bs) = PB!WithRollups(evs, bs)
  <2>1. ASSUME NEW evs PROVE B!WithRows(evs) = PB!WithRows(evs)
    BY DEF B!WithRows, PB!WithRows, B!LatestId, PB!LatestId, B!Max, PB!Max
  <2>2. ASSUME NEW evs, NEW bs PROVE B!WithRollups(evs, bs) = PB!WithRollups(evs, bs)
    <3>1. \A S : B!Cardinality(S) = PB!Cardinality(S)
      BY DEF B!Cardinality, PB!Cardinality
    <3> QED BY <3>1 DEF B!WithRollups, PB!WithRollups, B!Times, PB!Times
  <2> QED BY <2>1, <2>2
<1>7. (B!DrainTick => PB!DrainTick) /\ (B!DrainFinally => PB!DrainFinally)
  BY <1>2, <1>5 DEF B!DrainTick, PB!DrainTick, B!DrainFinally, PB!DrainFinally
<1>8. (B!Insert => PB!Insert) /\ (\A k : B!InsertFails(k) => PB!InsertFails(k))
  BY <1>5, <1>6 DEF B!Insert, PB!Insert, B!InsertFails, PB!InsertFails
<1>9. \A k : B!Rollup(k) => PB!Rollup(k)
  BY <1>5, <1>6 DEF B!Rollup, PB!Rollup
<1>10. (B!Setting => PB!Setting) /\ (B!SettingFails => PB!SettingFails)
  BY <1>2, <1>5 DEF B!Setting, PB!Setting, B!SettingFails, PB!SettingFails
<1>11. B!Persist => PB!Persist
  BY <1>3, <1>7, <1>8, <1>9, <1>10
     DEF B!Persist, PB!Persist, B!PersistOk, PB!PersistOk, B!PersistFails, PB!PersistFails
<1>12. \A k : B!Crash(k) => PB!Crash(k)
  BY <1>5, <1>6 DEF B!Crash, PB!Crash
<1> QED
  BY <1>1, <1>2, <1>3, <1>4, <1>5, <1>11, <1>12 DEF B!Next, PB!Next

(* Every step of the pipeline is a step of the batcher, or none of it. *)
LEMMA PipelineStepIsBatcherStep == PB!IInv /\ [Next]_vars => [B!Next]_(B!vars)
<1> SUFFICES ASSUME PB!IInv, [Next]_vars PROVE B!Next \/ UNCHANGED consoleVars
  BY DEF B!vars, B!tables, B!memory, B!history, consoleVars
<1>1. CASE Record \/ Deliver \/ PostOk \/ PostFail \/ GatewayLifespan
  BY <1>1 DEF Record, Deliver, PostOk, PostFail, GatewayLifespan
<1>2. ASSUME NEW e \in 1..MaxEvents, Handle(e) PROVE B!Next \/ UNCHANGED consoleVars
  <2>1. now \in B!Times
    BY DEF PB!IInv, PB!Core, PB!TypeOK, PB!Times, B!Times
  <2> QED BY <1>2, <2>1 DEF Handle, B!Next
<1>3. CASE Persist \/ ConsoleStart \/ ConsoleStop
  BY <1>3 DEF Persist, ConsoleStart, ConsoleStop, B!Next, B!Persist
<1>4. CASE Finished \/ UNCHANGED vars
  BY <1>4 DEF Finished, vars
<1>5. ASSUME NEW request \in ForeignRequest, HandleForeign(request)
      PROVE  B!Next \/ UNCHANGED consoleVars
  <2>1. now \in B!Times
    BY DEF PB!IInv, PB!Core, PB!TypeOK, PB!Times, B!Times
  <2> QED BY <1>5, <2>1 DEF HandleForeign, B!Next
<1> QED
  BY <1>1, <1>2, <1>3, <1>4, <1>5 DEF Next

LEMMA BatcherInvariant == Spec => []PB!IInv
<1>1. Init => PB!Init
  BY SameBatcher DEF Init
<1>2. PB!Init => PB!IInv
  BY PB!InitIInv
<1>3. PB!IInv /\ [PB!Next]_(PB!vars) => PB!IInv'
  BY PB!StepIInv
<1> QED
  BY <1>1, <1>2, <1>3, SameBatcher, PipelineStepIsBatcherStep, PTL DEF Spec

-----------------------------------------------------------------------------
(* The network between the two *)

(* The events whose post has ended. *)
Tried == delivered \union failed

NetTypes ==
  /\ wire \in [1..MaxEvents -> {"idle", "sent", "202", "401", "400"}]
  /\ arrivals \in Seq(0..MaxEvents)
  /\ Len(arrivals) = accepted
  /\ consoleKey \in Keys

(* Only what the emitter has tried or is posting is on the wire, and the    *)
(* emitter tries events in their order.                                     *)
OnTheWire ==
  /\ \A e \in 1..MaxEvents : wire[e] # "idle" => e \in Tried \/ (E!Posting /\ e = held)
  /\ held # 0 => \A d \in Tried : d < held

(* The console answered 202 to the gateway's events in its books, each of   *)
(* which is there once; what counts as delivered is among them.             *)
Books ==
  /\ \A k \in 1..Len(arrivals) : arrivals[k] # Foreign => wire[arrivals[k]] = "202"
  /\ \A e \in 1..MaxEvents : wire[e] = "202" => \E k \in 1..Len(arrivals) : arrivals[k] = e
  /\ \A j, k \in 1..Len(arrivals) :
       arrivals[j] = arrivals[k] /\ arrivals[j] # Foreign => j = k
  /\ \A e \in delivered : wire[e] = "202"

(* Before its first kill, the console has had one secret at most, and has   *)
(* accepted only what was signed with it.                                   *)
SecretKnown ==
  crashes = 0 =>
    /\ phase = "off" => arrivals = <<>>
    /\ consoleKey # GatewayKey => \A k \in 1..Len(arrivals) : arrivals[k] = Foreign
    /\ consoleKey # EmptyKey => \A k \in 1..Len(arrivals) : arrivals[k] # Foreign

NInv == NetTypes /\ OnTheWire /\ Books /\ SecretKnown /\ OrderKept

(* What the network's invariant needs of the emitter's and the batcher's. *)
LEMMA EmitterFacts ==
  ASSUME PE!IInv
  PROVE  /\ recorded \in 0..MaxEvents /\ held \in 0..recorded
         /\ Tried \subseteq 1..MaxEvents
         /\ held # 0 => held \notin Tried
         /\ E!Posting => held # 0 /\ getter = "none"
         /\ getter = "done" => held # 0
         /\ getter # "none" => ~E!Posting
<1>1. PE!TypeOK /\ PE!Front /\ PE!Control
  BY DEF PE!IInv
<1>2. recorded \in 0..MaxEvents /\ held \in 0..recorded /\ Tried \subseteq 1..recorded
  BY <1>1 DEF PE!TypeOK, Tried
<1>3. Tried \subseteq 1..MaxEvents
  BY <1>2
<1>4. held # 0 => held \notin Tried
  BY <1>1 DEF PE!Front, PE!Held, PE!Settled, PE!Attempted, Tried
<1> QED
  BY <1>1, <1>2, <1>3, <1>4 DEF PE!Control, E!Posting

(* The next event off the emitter's queue is newer than all that were tried. *)
LEMMA HeadIsNewer ==
  ASSUME PE!IInv, eQueue # <<>>
  PROVE  /\ Head(eQueue) \in 1..MaxEvents
         /\ \A d \in Tried : d < Head(eQueue)
<1>1. PE!TypeOK /\ PE!Front /\ PE!Suffix
  BY DEF PE!IInv
<1>2. /\ eQueue \in Seq(1..recorded) /\ recorded \in 0..MaxEvents
      /\ Tried \subseteq 1..(recorded - Len(eQueue))
  BY <1>1 DEF PE!TypeOK, PE!Front, PE!Settled, PE!Attempted, Tried
<1>3. Len(eQueue) \in Nat \ {0} /\ Head(eQueue) = eQueue[1] /\ eQueue[1] \in 1..recorded
  BY <1>2
<1>4. eQueue[1] = recorded - Len(eQueue) + 1
  BY <1>1, <1>3 DEF PE!Suffix
<1>5. Head(eQueue) \in 1..MaxEvents
  BY <1>2, <1>3
<1>6. \A d \in Tried : d < Head(eQueue)
  BY <1>2, <1>3, <1>4
<1> QED
  BY <1>5, <1>6

LEMMA InitNInv == Init => NInv
<1> SUFFICES ASSUME Init PROVE NInv
  OBVIOUS
<1>1. NetTypes
  BY DEF Init, B!Init, NetTypes, Keys
<1>2. OnTheWire
  BY DEF Init, E!Init, OnTheWire
<1>3. Books
  BY DEF Init, E!Init, Books
<1>4. SecretKnown /\ OrderKept
  BY DEF Init, SecretKnown, OrderKept
<1> QED
  BY <1>1, <1>2, <1>3, <1>4 DEF NInv

(* Steps that touch neither the wire nor the books. *)
LEMMA QuietStep ==
  ASSUME NInv, PE!IInv, UNCHANGED <<wire, arrivals, accepted, delivered, failed>>,
         \/ UNCHANGED <<eWorker, held>>
         \/ ~E!Posting /\ ~E!Posting' /\ (held' = held \/ \A d \in Tried : d < held')
  PROVE  (consoleKey' \in Keys => NetTypes') /\ OnTheWire' /\ Books' /\ OrderKept'
<1>1. (consoleKey' \in Keys => NetTypes') /\ Books' /\ OrderKept'
  BY DEF NInv, NetTypes, Books, OrderKept
<1>2. OnTheWire'
  BY DEF NInv, OnTheWire, Tried, E!Posting
<1> QED
  BY <1>1, <1>2

(* The delivery task takes an event, or begins its post. *)
LEMMA DeliverStep == ASSUME NInv, PE!IInv, Deliver PROVE NInv'
<1>1. UNCHANGED <<consoleKey, arrivals, consoleVars, delivered, failed>>
  BY DEF Deliver, E!Select, E!GetterStep, E!WaitGot, E!WaitStopped, E!DrainNext, E!DrainExit
<1>2. ~E!Posting
  BY EmitterFacts DEF Deliver, E!Select, E!GetterStep, E!WaitGot, E!WaitStopped, E!DrainNext, E!DrainExit,
                      E!Posting
<1>3. \A d \in Tried : (held' = held /\ (held # 0 => d < held)) \/ d < held'
  <2>1. CASE held' = held
    BY <2>1 DEF NInv, OnTheWire
  <2>2. CASE held' = Head(eQueue) /\ eQueue # <<>>
    BY <2>2, HeadIsNewer
  <2> QED
    BY <2>1, <2>2 DEF Deliver, E!Select, E!GetterStep, E!WaitGot, E!WaitStopped, E!DrainNext, E!DrainExit
<1>4. SecretKnown'
  BY <1>1 DEF NInv, SecretKnown, consoleVars
<1>5. accepted' = accepted
  BY <1>1 DEF consoleVars
<1>6. CASE ~E!Posting'
  <2>1. wire' = wire
    BY <1>6 DEF Deliver
  <2>2. held' = held \/ \A d \in Tried : d < held'
    BY HeadIsNewer
       DEF Deliver, E!Select, E!GetterStep, E!WaitGot, E!WaitStopped, E!DrainNext, E!DrainExit
  <2> QED BY <1>1, <1>2, <1>4, <1>5, <1>6, <2>1, <2>2, QuietStep DEF NInv, NetTypes
<1>7. CASE E!Posting'
  <2>1. wire' = [wire EXCEPT ![held'] = "sent"]
    BY <1>7 DEF Deliver
  <2>2. held' \in 1..MaxEvents /\ held' # 0 /\ \A d \in Tried : d < held'
    <3>1. CASE E!WaitGot
      <4>1. held' = held /\ held # 0
        BY <3>1, EmitterFacts DEF E!WaitGot
      <4> QED BY <1>3, <4>1, EmitterFacts
    <3>2. CASE E!DrainNext
      BY <3>2, HeadIsNewer DEF E!DrainNext
    <3>3. CASE E!Select \/ E!GetterStep \/ E!WaitStopped \/ E!DrainExit
      BY <1>2, <1>7, <3>3 DEF E!Select, E!GetterStep, E!WaitStopped, E!DrainExit, E!Posting
    <3> QED BY <3>1, <3>2, <3>3 DEF Deliver
  <2>3. Tried \subseteq 1..MaxEvents /\ held' \notin Tried
    BY <2>2, EmitterFacts
  <2>4. wire[held'] = "idle"
    BY <1>2, <2>2, <2>3 DEF NInv, OnTheWire
  <2>5. \A e \in 1..MaxEvents : wire'[e] = IF e = held' THEN "sent" ELSE wire[e]
    BY <2>1, <2>2 DEF NInv, NetTypes
  <2>6. NetTypes'
    BY <1>1, <1>5, <2>1, <2>2 DEF NInv, NetTypes
  <2>7. OnTheWire'
    BY <1>1, <1>2, <1>7, <2>2, <2>5 DEF NInv, OnTheWire, Tried
  <2>8. Books'
    <3>1. \A k \in 1..Len(arrivals) : arrivals[k] # Foreign => arrivals[k] \in 1..MaxEvents
      BY DEF NInv, NetTypes, Foreign
    <3>2. \A e \in 1..MaxEvents : wire'[e] = "202" <=> wire[e] = "202"
      BY <2>4, <2>5
    <3>3. \A e \in delivered : e \in 1..MaxEvents
      BY <2>3 DEF Tried
    <3> QED BY <1>1, <3>1, <3>2, <3>3 DEF NInv, Books
  <2>9. OrderKept'
    BY <1>1 DEF NInv, OrderKept
  <2> QED BY <1>4, <2>6, <2>7, <2>8, <2>9 DEF NInv
<1> QED
  BY <1>6, <1>7

(* A post ends: answered below 300, or given up. *)
LEMMA PostStep == ASSUME NInv, PE!IInv, PostOk \/ PostFail PROVE NInv'
<1>1. UNCHANGED <<consoleKey, wire, arrivals, accepted, crashes, phase>>
  BY DEF PostOk, PostFail, netVars, consoleVars
<1>2. E!Posting /\ held # 0 /\ held \in 1..MaxEvents
  BY EmitterFacts DEF PostOk, PostFail, E!PostOk, E!PostFail
<1>3. /\ held' = 0 /\ ~E!Posting'
      /\ \/ delivered' = delivered \union {held} /\ failed' = failed /\ wire[held] = "202"
         \/ delivered' = delivered /\ failed' = failed \union {held}
  <2>1. CASE PostOk
    BY <2>1 DEF PostOk, Answered, E!PostOk, E!AfterPost, E!Posting
  <2>2. CASE PostFail
    BY <2>2 DEF PostFail, E!PostFail, E!AfterPost, E!Posting
  <2> QED BY <2>1, <2>2
<1>4. NetTypes'
  BY <1>1 DEF NInv, NetTypes
<1>5. OnTheWire'
  BY <1>1, <1>2, <1>3 DEF NInv, OnTheWire, Tried
<1>6. Books'
  BY <1>1, <1>2, <1>3 DEF NInv, Books
<1>7. SecretKnown'
  BY <1>1 DEF NInv, SecretKnown
<1>8. OrderKept'
  BY <1>1, <1>3 DEF NInv, OrderKept
<1> QED
  BY <1>4, <1>5, <1>6, <1>7, <1>8 DEF NInv

(* handle_ingest reads a request that is on the wire. *)
LEMMA HandleStep == ASSUME NInv, PE!IInv, NEW e \in 1..MaxEvents, Handle(e) PROVE NInv'
<1> DEFINE verdict == Judge(Posted)
           n == Len(arrivals)
<1>1. /\ wire[e] = "sent" /\ phase = "running" /\ wire' = [wire EXCEPT ![e] = verdict]
      /\ UNCHANGED <<consoleKey, eWorker, held, delivered, failed>>
  BY DEF Handle, emitterVars
<1>2. /\ verdict \in {"202", "401"}
      /\ verdict = "202" => consoleKey = GatewayKey
  BY DEF Judge, Posted, Verifies
<1>3. /\ verdict = "202" => accepted' = accepted + 1 /\ arrivals' = Append(arrivals, e)
      /\ verdict # "202" => accepted' = accepted /\ arrivals' = arrivals
      /\ UNCHANGED <<phase, crashes>>
  BY DEF Handle, B!Ingest, consoleVars
<1> HIDE DEF verdict
<1>4. \A d \in 1..MaxEvents : wire'[d] = IF d = e THEN verdict ELSE wire[d]
  BY <1>1 DEF NInv, NetTypes
<1>5. /\ arrivals \in Seq(0..MaxEvents) /\ n \in Nat
      /\ \A k \in 1..n : /\ arrivals[k] # e
                         /\ arrivals[k] # Foreign => arrivals[k] \in 1..MaxEvents
      /\ Tried \subseteq 1..MaxEvents /\ e \notin delivered /\ e # Foreign /\ e \in 0..MaxEvents
  <2>1. arrivals \in Seq(0..MaxEvents) /\ n \in Nat
        /\ \A k \in 1..n : arrivals[k] # Foreign => arrivals[k] \in 1..MaxEvents
    BY DEF NInv, NetTypes, Foreign
  <2>2. (\A k \in 1..n : arrivals[k] # e) /\ e \notin delivered /\ e # Foreign /\ e \in 0..MaxEvents
    BY <1>1 DEF NInv, Books, Foreign
  <2>3. Tried \subseteq 1..MaxEvents
    BY EmitterFacts
  <2> QED BY <2>1, <2>2, <2>3
<1>6. wire' \in [1..MaxEvents -> {"idle", "sent", "202", "401", "400"}]
  BY <1>1, <1>2 DEF NInv, NetTypes
<1>7. OnTheWire'
  <2>1. Tried' = Tried /\ E!Posting' = E!Posting
    BY <1>1 DEF Tried, E!Posting
  <2> QED BY <1>1, <1>4, <2>1 DEF NInv, OnTheWire
<1>8. CASE verdict # "202"
  <2>1. NetTypes' /\ SecretKnown' /\ OrderKept'
    BY <1>1, <1>3, <1>6, <1>8 DEF NInv, NetTypes, SecretKnown, OrderKept
  <2>2. Books'
    <3>1. \A d \in 1..MaxEvents : wire'[d] = "202" <=> wire[d] = "202"
      BY <1>1, <1>4, <1>8
    <3>2. \A d \in delivered : d \in 1..MaxEvents
      BY <1>5 DEF Tried
    <3> QED BY <1>1, <1>3, <1>5, <1>8, <3>1, <3>2 DEF NInv, Books
  <2> QED BY <1>7, <2>1, <2>2 DEF NInv
<1>9. CASE verdict = "202"
  <2>1. /\ arrivals' \in Seq(0..MaxEvents) /\ Len(arrivals') = n + 1 /\ arrivals'[n + 1] = e
        /\ \A k \in 1..n : arrivals'[k] = arrivals[k]
        /\ DOMAIN arrivals' = 1..(n + 1)
    <3>1. arrivals' = Append(arrivals, e)
      BY <1>3, <1>9
    <3>2. arrivals' \in Seq(0..MaxEvents) /\ Len(arrivals') = n + 1 /\ arrivals'[n + 1] = e
      BY <1>5, <3>1
    <3>3. \A k \in 1..n : arrivals'[k] = arrivals[k]
      BY <1>5, <3>1
    <3>4. DOMAIN arrivals' = 1..(n + 1)
      BY <3>2
    <3> QED BY <3>2, <3>3, <3>4
  <2>2. NetTypes'
    BY <1>1, <1>3, <1>6, <1>9, <2>1 DEF NInv, NetTypes
  <2>3. SecretKnown'
    <3>1. \A k \in 1..(n + 1) : k \in 1..n \/ k = n + 1
      BY <1>5
    <3>2. \A k \in 1..(n + 1) : arrivals'[k] = IF k = n + 1 THEN e ELSE arrivals[k]
      BY <2>1, <3>1
    <3>3. Len(arrivals') = n + 1 /\ consoleKey' = GatewayKey /\ GatewayKey # EmptyKey
      BY <1>1, <1>2, <1>9, <2>1 DEF GatewayKey, EmptyKey
    <3>4. crashes' = 0 => \A k \in 1..n : arrivals[k] # Foreign
      BY <1>1, <1>3, <3>3 DEF NInv, SecretKnown
    <3> HIDE DEF n
    <3> QED BY <1>1, <1>3, <1>5, <3>1, <3>2, <3>3, <3>4 DEF SecretKnown
  <2> HIDE DEF n
  <2>4. \A k \in 1..(n + 1) : k = n + 1 \/ k \in 1..n
    BY <1>5
  <2>5. Books'
    <3>1. ASSUME NEW k \in 1..(n + 1), arrivals'[k] # Foreign PROVE wire'[arrivals'[k]] = "202"
      <4>1. CASE k = n + 1
        BY <1>4, <1>9, <2>1, <4>1
      <4>2. CASE k \in 1..n
        <5>1. wire[arrivals[k]] = "202"
          BY <2>1, <3>1, <4>2 DEF NInv, Books, n
        <5> QED BY <1>4, <1>5, <2>1, <3>1, <4>2, <5>1
      <4> QED BY <2>4, <4>1, <4>2
    <3>2. ASSUME NEW d \in 1..MaxEvents, wire'[d] = "202" PROVE \E k \in 1..(n + 1) : arrivals'[k] = d
      <4>1. CASE d = e
        BY <1>5, <2>1, <4>1
      <4>2. CASE d # e
        <5>1. PICK k \in 1..n : arrivals[k] = d
          BY <1>4, <3>2, <4>2 DEF NInv, Books, n
        <5> QED BY <1>5, <2>1, <5>1
      <4> QED BY <4>1, <4>2
    <3>3. \A j, k \in 1..(n + 1) : arrivals'[j] = arrivals'[k] /\ arrivals'[j] # Foreign => j = k
      <4>1. \A j, k \in 1..n : arrivals[j] = arrivals[k] /\ arrivals[j] # Foreign => j = k
        BY DEF NInv, Books, n
      <4>2. \A k \in 1..n : arrivals'[k] = arrivals[k] /\ arrivals'[k] # e
        BY <1>5, <2>1
      <4> QED BY <2>1, <2>4, <4>1, <4>2
    <3>4. \A d \in delivered : wire'[d] = "202"
      BY <1>4, <1>5 DEF NInv, Books, Tried
    <3> QED BY <1>1, <2>1, <3>1, <3>2, <3>3, <3>4 DEF Books
  <2>6. OrderKept'
    <3> SUFFICES ASSUME NEW j \in 1..(n + 1), NEW k \in 1..(n + 1),
                        j < k, arrivals'[j] > arrivals'[k], arrivals'[k] # Foreign
                 PROVE  arrivals'[k] \in failed
      BY <1>1, <2>1 DEF OrderKept
    <3>1. j \in 1..n
      BY <1>5
    <3>2. CASE k \in 1..n
      <4>1. DOMAIN arrivals = 1..n
        BY <1>5 DEF n
      <4> QED BY <2>1, <3>1, <3>2, <4>1 DEF NInv, OrderKept
    <3>3. CASE k = n + 1
      <4> DEFINE d == arrivals[j]
      <4>1. d \in 1..MaxEvents /\ d > e /\ d # e /\ wire[d] = "202"
        <5>1. d \in 0..MaxEvents /\ d > e
          BY <1>5, <2>1, <3>1, <3>3 DEF n
        <5>2. d # Foreign /\ d \in 1..MaxEvents /\ d # e
          BY <5>1 DEF Foreign
        <5> QED BY <3>1, <5>1, <5>2 DEF NInv, Books, n
      <4> HIDE DEF d
      <4>2. e \in Tried \/ (E!Posting /\ e = held)
        BY <1>1 DEF NInv, OnTheWire
      <4>3. d \in Tried \/ (E!Posting /\ d = held)
        BY <4>1 DEF NInv, OnTheWire
      <4>4. ~(E!Posting /\ e = held)
        <5> SUFFICES ASSUME E!Posting, e = held PROVE FALSE
          OBVIOUS
        <5>1. d \in Tried /\ held # 0
          BY <4>1, <4>3
        <5>2. d < held
          BY <5>1 DEF NInv, OnTheWire
        <5> QED BY <4>1, <5>2
      <4> QED BY <1>5, <2>1, <3>3, <4>2, <4>4 DEF Tried
    <3> QED BY <2>4, <3>2, <3>3
  <2> QED BY <1>7, <2>2, <2>3, <2>5, <2>6 DEF NInv
<1> QED
  BY <1>8, <1>9

(* handle_ingest reads a request of another sender: the gateway's events    *)
(* are not concerned.                                                       *)
LEMMA HandleForeignStep ==
  ASSUME NInv, PE!IInv, NEW request \in ForeignRequest, HandleForeign(request)
  PROVE  NInv'
<1> DEFINE n == Len(arrivals)
<1>1. /\ UNCHANGED <<consoleKey, wire, eWorker, held, delivered, failed>>
      /\ phase = "running"
  BY DEF HandleForeign, emitterVars
<1>2. \/ UNCHANGED <<arrivals, consoleVars>>
      \/ /\ consoleKey = EmptyKey /\ arrivals' = Append(arrivals, Foreign)
         /\ accepted' = accepted + 1 /\ UNCHANGED <<phase, crashes>>
  <2>1. CASE Judge(request) = "202"
    <3>1. consoleKey = EmptyKey
      BY <2>1 DEF Judge, Verifies, ForeignRequest, NInv, NetTypes, Keys, GatewayKey, ChangedKey, EmptyKey
    <3> QED BY <2>1, <3>1 DEF HandleForeign, B!Ingest
  <2>2. CASE Judge(request) # "202"
    BY <2>2 DEF HandleForeign
  <2> QED BY <2>1, <2>2
<1>3. CASE UNCHANGED <<arrivals, consoleVars>>
  <2>1. UNCHANGED <<accepted, phase, crashes>>
    BY <1>3 DEF consoleVars
  <2>2. NetTypes' /\ OnTheWire' /\ Books' /\ OrderKept'
    BY <1>1, <1>3, <2>1, QuietStep DEF NInv, NetTypes
  <2>3. SecretKnown'
    BY <1>1, <1>3, <2>1 DEF NInv, SecretKnown
  <2> QED BY <2>2, <2>3 DEF NInv
<1>4. CASE /\ consoleKey = EmptyKey /\ arrivals' = Append(arrivals, Foreign)
           /\ accepted' = accepted + 1 /\ UNCHANGED <<phase, crashes>>
  <2>1. arrivals \in Seq(0..MaxEvents) /\ n \in Nat
    BY DEF NInv, NetTypes
  <2>2. /\ arrivals' \in Seq(0..MaxEvents) /\ Len(arrivals') = n + 1
        /\ arrivals'[n + 1] = Foreign
        /\ \A k \in 1..n : arrivals'[k] = arrivals[k]
        /\ DOMAIN arrivals' = 1..(n + 1)
    <3>1. Foreign \in 0..MaxEvents
      BY DEF Foreign
    <3>2. arrivals' \in Seq(0..MaxEvents) /\ Len(arrivals') = n + 1
      BY <1>4, <2>1, <3>1
    <3>3. arrivals'[n + 1] = Foreign /\ \A k \in 1..n : arrivals'[k] = arrivals[k]
      BY <1>4, <2>1
    <3>4. DOMAIN arrivals' = 1..(n + 1)
      BY <3>2
    <3> QED BY <3>2, <3>3, <3>4
  <2>3. n + 1 \in 1..(n + 1) /\ \A k \in 1..(n + 1) : k = n + 1 \/ k \in 1..n
    BY <2>1
  <2>4. \A k \in 1..n : k \in 1..(n + 1)
    BY <2>1
  <2>5. NetTypes'
    BY <1>1, <1>4, <2>2 DEF NInv, NetTypes
  <2>6. OnTheWire'
    BY <1>1 DEF NInv, OnTheWire, Tried, E!Posting
  <2>7. Books'
    <3>1. \A k \in 1..(n + 1) : arrivals'[k] # Foreign => k \in 1..n /\ arrivals'[k] = arrivals[k]
      BY <2>2, <2>3
    <3>2. \A k \in 1..(n + 1) : arrivals'[k] # Foreign => wire'[arrivals'[k]] = "202"
      BY <1>1, <3>1 DEF NInv, Books
    <3>3. \A e \in 1..MaxEvents : wire'[e] = "202" => \E k \in 1..(n + 1) : arrivals'[k] = e
      <4>1. ASSUME NEW e \in 1..MaxEvents, wire'[e] = "202" PROVE \E k \in 1..(n + 1) : arrivals'[k] = e
        <5>1. PICK k \in 1..n : arrivals[k] = e
          BY <1>1, <4>1 DEF NInv, Books
        <5> QED BY <2>2, <2>4, <5>1
      <4> QED BY <4>1
    <3>4. \A j, k \in 1..(n + 1) : arrivals'[j] = arrivals'[k] /\ arrivals'[j] # Foreign => j = k
      BY <3>1 DEF NInv, Books
    <3>5. \A e \in delivered' : wire'[e] = "202"
      BY <1>1 DEF NInv, Books
    <3> HIDE DEF n
    <3> QED BY <2>2, <3>2, <3>3, <3>4, <3>5 DEF Books
  <2>8. SecretKnown'
    <3>1. crashes' = 0 => \A k \in 1..n : arrivals[k] = Foreign
      BY <1>4 DEF NInv, SecretKnown, EmptyKey, GatewayKey
    <3>2. crashes' = 0 => \A k \in 1..(n + 1) : arrivals'[k] = Foreign
      BY <2>2, <2>3, <3>1
    <3> HIDE DEF n
    <3> QED BY <1>1, <1>4, <2>2, <3>2 DEF SecretKnown
  <2>9. OrderKept'
    <3> SUFFICES ASSUME NEW j \in 1..(n + 1), NEW k \in 1..(n + 1),
                        j < k, arrivals'[j] > arrivals'[k], arrivals'[k] # Foreign
                 PROVE  arrivals'[k] \in failed'
      BY <2>2 DEF OrderKept
    <3>1. k \in 1..n /\ j \in 1..n
      BY <2>1, <2>2, <2>3
    <3>2. DOMAIN arrivals = 1..n
      BY <2>1
    <3> QED BY <1>1, <2>2, <3>1, <3>2 DEF NInv, OrderKept
  <2> QED BY <2>5, <2>6, <2>7, <2>8, <2>9 DEF NInv
<1> QED
  BY <1>2, <1>3, <1>4

(* Every step preserves the network's invariant. *)
LEMMA StepNInv == NInv /\ PE!IInv /\ PB!IInv /\ [Next]_vars => NInv'
<1> SUFFICES ASSUME NInv, PE!IInv, PB!IInv, [Next]_vars PROVE NInv'
  OBVIOUS
<1>1. CASE Record \/ GatewayLifespan
  <2>1. UNCHANGED <<consoleKey, wire, arrivals, accepted, phase, crashes, delivered, failed, held>>
    BY <1>1 DEF Record, GatewayLifespan, netVars, consoleVars, E!Record, E!Start, E!Close, E!CloseReturn
  <2>2. eWorker' = eWorker \/ (~E!Posting /\ ~E!Posting')
    <3>1. CASE E!Record \/ E!Close \/ E!CloseReturn
      BY <3>1 DEF E!Record, E!Close, E!CloseReturn
    <3>2. CASE E!Start
      BY <3>2 DEF E!Start, E!Posting, PE!IInv, PE!Control
    <3> QED BY <1>1, <3>1, <3>2 DEF Record, GatewayLifespan
  <2>3. NetTypes' /\ OnTheWire' /\ Books' /\ OrderKept'
    BY <2>1, <2>2, QuietStep DEF NInv, NetTypes
  <2> QED BY <2>1, <2>3 DEF NInv, SecretKnown
<1>2. CASE Persist
  <2>1. UNCHANGED <<consoleKey, wire, arrivals, delivered, failed, held, eWorker>>
    BY <1>2 DEF Persist, netVars, emitterVars
  <2>2. UNCHANGED <<accepted, crashes>> /\ (phase' = phase \/ phase' = "closed")
    BY <1>2 DEF Persist, B!PersistOk, B!DrainTick, B!DrainFinally, B!Insert, B!Rollup, B!Setting,
                B!CloseReturn, B!history
  <2>3. NetTypes' /\ OnTheWire' /\ Books' /\ OrderKept'
    BY <2>1, <2>2, QuietStep DEF NInv, NetTypes
  <2> QED BY <2>1, <2>2, <2>3 DEF NInv, SecretKnown
<1>3. CASE ConsoleStart
  <2>1. UNCHANGED <<wire, arrivals, delivered, failed, held, eWorker>> /\ consoleKey' \in Keys
    BY <1>3 DEF ConsoleStart, emitterVars
  <2>2. UNCHANGED <<accepted, crashes>> /\ phase = "off"
    BY <1>3 DEF ConsoleStart, B!Start, B!history
  <2>3. NetTypes' /\ OnTheWire' /\ Books' /\ OrderKept'
    BY <2>1, <2>2, QuietStep DEF NInv, NetTypes
  <2> QED BY <2>1, <2>2, <2>3 DEF NInv, SecretKnown
<1>4. CASE ConsoleStop
  <2>1. UNCHANGED <<consoleKey, wire, arrivals, delivered, failed, held, eWorker>>
    BY <1>4 DEF ConsoleStop, netVars, emitterVars
  <2>2. accepted' = accepted /\ crashes' = crashes + 1
    BY <1>4 DEF ConsoleStop, B!Crash
  <2>3. crashes' # 0
    BY <2>2 DEF PB!IInv, PB!Core, PB!TypeOK
  <2>4. NetTypes' /\ OnTheWire' /\ Books' /\ OrderKept'
    BY <2>1, <2>2, QuietStep DEF NInv, NetTypes
  <2> QED BY <2>3, <2>4 DEF NInv, SecretKnown
<1>5. CASE Finished \/ UNCHANGED vars
  <2>1. UNCHANGED <<consoleKey, wire, arrivals, accepted, phase, crashes, delivered, failed, held, eWorker>>
    BY <1>5 DEF Finished, vars, netVars, consoleVars, emitterVars
  <2>2. NetTypes' /\ OnTheWire' /\ Books' /\ OrderKept'
    BY <2>1, QuietStep DEF NInv, NetTypes
  <2> QED BY <2>1, <2>2 DEF NInv, SecretKnown
<1> QED
  BY <1>1, <1>2, <1>3, <1>4, <1>5, DeliverStep, PostStep, HandleStep, HandleForeignStep DEF Next

LEMMA InvariantHolds == Spec => [](NInv /\ PE!IInv /\ PB!IInv)
  BY InitNInv, StepNInv, EmitterInvariant, BatcherInvariant, PTL DEF Spec

-----------------------------------------------------------------------------
(* The theorems *)

(* The pipeline implements the emitter: between the handlers and the        *)
(* network, EventEmitter takes only steps of module Emitter.                *)
THEOREM PipelineRunsEmitter == Spec => E!Spec
<1>1. Init => E!Init
  BY DEF Init
<1> QED
  BY <1>1, PipelineStepIsEmitterStep, PTL DEF Spec, E!Spec

(* The pipeline implements the batcher: handle_ingest and the Batcher take  *)
(* only steps of module Batcher, whenever and in whatever order the         *)
(* gateway's posts are read.                                                *)
THEOREM PipelineRunsBatcher == Spec => B!Spec
<1>1. Init => B!Init
  BY DEF Init
<1> QED
  BY <1>1, BatcherInvariant, PipelineStepIsBatcherStep, PTL DEF Spec, B!Spec

(* The rows of the table and the books agree. *)
LEMMA RowsOfBooks ==
  ASSUME NInv, PB!IInv
  PROVE  /\ DOMAIN arrivals = 1..accepted /\ accepted \in Nat
         /\ Kept = 1..accepted
         /\ \A r \in rows : r.ev.n \in 1..accepted /\ r.ev.n \notin B!Numbers(queue)
         /\ \A r, s \in rows : r.ev.n = s.ev.n => r = s
<1>1. PB!Core /\ PB!TypeOK /\ PB!Front /\ PB!Table
  BY DEF PB!IInv, PB!Core
<1>2. DOMAIN arrivals = 1..accepted /\ accepted \in Nat
  BY <1>1 DEF NInv, NetTypes, PB!TypeOK
<1>3. /\ PB!Numbers(batch) \union PB!Settled = 1..(accepted - Len(queue))
      /\ PB!Numbers(queue) = (accepted - Len(queue) + 1)..accepted
      /\ accepted - Len(queue) \in Nat /\ Len(queue) \in Nat
  BY <1>1, PB!QueueNumbers, PB!FrontNumbers DEF PB!Front
<1>4. B!Numbers(queue) = PB!Numbers(queue) /\ B!Numbers(batch) = PB!Numbers(batch) /\ B!Settled = PB!Settled
  BY DEF B!Numbers, PB!Numbers, B!Settled, PB!Settled
<1>5. Kept = 1..accepted
  BY <1>2, <1>3, <1>4 DEF Kept
<1>6. \A r \in rows : r.ev.n \in PB!Settled
  BY <1>1 DEF PB!Table, PB!Settled
<1>7. \A r \in rows : r.ev.n \in 1..accepted /\ r.ev.n \notin B!Numbers(queue)
  BY <1>2, <1>3, <1>4, <1>6
<1>8. ASSUME NEW r \in rows, NEW s \in rows, r.ev.n = s.ev.n PROVE r = s
  <2>1. r.id \in Nat /\ s.id \in Nat /\ r.ev.n \in Nat
    BY <1>1, <1>2, <1>7 DEF PB!TypeOK, PB!StoreTypeOK
  <2>2. ~(r.ev.n < s.ev.n) /\ ~(s.ev.n < r.ev.n)
    BY <1>8, <2>1
  <2>3. ~(r.id < s.id) /\ ~(s.id < r.id)
    BY <1>1, <2>2 DEF PB!Table, PB!IdsFollowArrival
  <2>4. r.id = s.id
    BY <2>1, <2>3
  <2> QED BY <1>1, <2>4 DEF PB!Table
<1> QED
  BY <1>2, <1>5, <1>7, <1>8

(* No verdict is counted twice: _post sends each event once, and neither a  *)
(* timeout, a request read late, a kill nor an overflow puts one into the   *)
(* console's books or its table a second time.                              *)
THEOREM NothingTwice == Spec => []NoDuplicates
<1>1. ASSUME NInv, PB!IInv PROVE NoDuplicates
  <2>1. \A j, k \in DOMAIN arrivals : arrivals[j] = arrivals[k] /\ arrivals[j] # Foreign => j = k
    BY <1>1, RowsOfBooks DEF NInv, Books, NetTypes
  <2> QED BY <1>1, <2>1, RowsOfBooks DEF NoDuplicates
<1> QED
  BY <1>1, InvariantHolds, PTL

(* What the emitter takes for delivered was accepted by handle_ingest and   *)
(* is in the queue, the table, or the console's accounts of what was lost;  *)
(* a console that has run with one secret only has accepted nothing that    *)
(* was signed with another: nothing of the gateway's with a wrong or empty  *)
(* one, nothing of anybody else's with one that is not empty.               *)
THEOREM DeliveredStaysKept == Spec => []DeliveredIsKept
<1>1. ASSUME NInv, PE!IInv, PB!IInv PROVE DeliveredIsKept
  <2>1. DOMAIN arrivals = 1..Len(arrivals) /\ DOMAIN arrivals = 1..accepted /\ Kept = 1..accepted
    BY <1>1, RowsOfBooks DEF NInv, NetTypes
  <2>2. ASSUME NEW e \in delivered PROVE \E k \in DOMAIN arrivals : arrivals[k] = e
    <3>1. e \in 1..MaxEvents /\ wire[e] = "202"
      BY <1>1, EmitterFacts DEF NInv, Books, Tried
    <3> QED BY <1>1, <2>1, <3>1 DEF NInv, Books
  <2>3. delivered \subseteq Arrived
    BY <2>2 DEF Arrived, Range
  <2>4. \A e \in delivered : At(e) \in Kept
    BY <2>1, <2>2 DEF At
  <2>5. crashes = 0 => /\ consoleKey # GatewayKey => Arrived \subseteq {Foreign}
                       /\ consoleKey # EmptyKey => Foreign \notin Arrived
    BY <1>1, <2>1 DEF NInv, SecretKnown, Arrived, Range
  <2> QED BY <2>3, <2>4, <2>5 DEF DeliveredIsKept
<1> QED
  BY <1>1, InvariantHolds, PTL

(* handle_ingest reads the posts in the order of recording, but for those   *)
(* the emitter has given up, at POST_TIMEOUT or for a transport error.      *)
THEOREM OrderIsKept == Spec => []OrderKept
<1>1. NInv => OrderKept
  BY DEF NInv
<1> QED
  BY <1>1, InvariantHolds, PTL
===============================================================================
