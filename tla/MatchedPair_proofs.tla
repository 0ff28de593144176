------------------------ MODULE MatchedPair_proofs ------------------------
(***************************************************************************)
(* Theorems about the matched-pair runner, and about what the collector    *)
(* concludes from the files it leaves, for any set of jobs and any number  *)
(* of signals.                                                             *)
(***************************************************************************)
EXTENDS PairCollector, FiniteSetTheorems, TLAPS

-----------------------------------------------------------------------------
(* Type correctness. *)

(* The values that are written whole have their types. *)
LEMMA ValueTypes ==
  /\ NoRecord \in RecordType /\ Partial \in RecordType
  /\ Blank("not_launched") \in RecordType
  /\ NoExec \in ExecType /\ NoResult \in ResultType /\ NoTrace \in TraceType
  /\ Torn \in EventType
BY DEF NoRecord, Partial, Blank, NoExec, NoResult, NoTrace, Torn, Event,
       RecordType, ExecType, ResultType, TraceType, EventType, Statuses, Ends

LEMMA EventTyped ==
  ASSUME NEW e \in PairEvents \cup PeriodEvents, NEW p \in 0..2, NEW n \in Nat
  PROVE  Event(e, p, n) \in EventType
BY DEF Event, EventType

(* A line is appended to the ledger. *)
LEMMA WriteTyped ==
  ASSUME TypeOK, NEW e \in PairEvents \cup PeriodEvents, NEW p \in 0..2,
         NEW n \in Nat, Write(e, p, n)
  PROVE  ledger' \in Seq(EventType)
BY EventTyped DEF TypeOK, Write

LEMMA EmitTyped ==
  ASSUME TypeOK, NEW j \in Jobs, NEW e \in PairEvents \cup PeriodEvents,
         NEW p \in 0..2, Emit(j, e, p)
  PROVE  ledger' \in Seq(EventType)
<1>1. seq[j] \in Nat
  BY DEF TypeOK
<1> QED
  BY <1>1, WriteTyped DEF Emit

(* What a runner is about to write is an event of the ledger. *)
LEMMA EmitsTyped ==
  ASSUME TypeOK, NEW j \in Jobs
  PROVE  Emits(j) \subseteq EventType
<1>1. seq[j] \in Nat /\ period[j] \in 0..2 /\ 0 \in 0..2
  BY DEF TypeOK, Periods
<1> QED
  BY <1>1, EventTyped DEF Emits

LEMMA InterruptedEmitTyped ==
  ASSUME TypeOK, NEW j \in Jobs, InterruptedEmit(j)
  PROVE  ledger' \in Seq(EventType)
<1>1. ledger \in Seq(EventType)
  BY DEF TypeOK
<1> QED
  BY <1>1, EmitsTyped DEF InterruptedEmit

LEMMA RaisedTyped == ASSUME NEW r \in ResultType PROVE Raised(r) \in ResultType
BY DEF Raised, ResultType, Statuses

LEMMA TypeInit == Init => TypeOK
<1> SUFFICES ASSUME Init PROVE TypeOK
  OBVIOUS
<1> USE ValueTypes DEF Init
<1>1. claim \in Jobs \cup {NoJob} /\ ledger \in Seq(EventType)
  OBVIOUS
<1>2. record \in [Periods -> RecordType] /\ ev \in [Periods -> TraceType]
  OBVIOUS
<1>3. pc \in [Jobs -> Labels] /\ period \in [Jobs -> Periods]
  BY DEF Labels, Periods
<1>4. exec \in [Jobs -> ExecType] /\ res \in [Jobs -> ResultType]
  OBVIOUS
<1>5. fatal \in [Jobs -> BOOLEAN] /\ seq \in [Jobs -> Nat]
  OBVIOUS
<1>6. live \in [Periods -> {"none", "run", "left", "cleaned"}]
  OBVIOUS
<1>7. sampler \in [Periods -> BOOLEAN] /\ proof \in [Periods -> BOOLEAN]
  OBVIOUS
<1>8. signals \in 0..MaxSignals /\ spawns \in [Periods -> Nat]
  BY MaxSignalsAssumption
<1>9. hit \in [Periods -> BOOLEAN]
  OBVIOUS
<1>10. /\ traceState \in {"empty", "whole", "broken"}
       /\ manifest \in {"none", "partial", "noalloc", "alloc"}
       /\ summary \in BOOLEAN
       /\ overlap \in BOOLEAN /\ unguarded \in BOOLEAN
  OBVIOUS
<1> QED
  BY <1>1, <1>2, <1>3, <1>4, <1>5, <1>6, <1>7, <1>8, <1>9, <1>10, Zenon
     DEF TypeOK

LEMMA ClaimingTyped ==
  ASSUME TypeOK, NEW j \in Jobs, Claiming(j)
  PROVE  TypeOK'
<1>1. CASE Enter(j)
  BY <1>1 DEF durable, Enter, frame, Labels, machine, observed, Periods,
        trace, TypeOK
<1>2. CASE ClaimPair(j)
  BY <1>2 DEF ClaimFree, ClaimPair, frame, Goto, Labels, machine, observed,
        Periods, trace, TypeOK
<1>3. CASE ClaimTaken(j)
  BY <1>3 DEF ClaimFree, ClaimTaken, durable, frame, Goto, Labels, machine,
        observed, Periods, trace, TypeOK
<1>4. CASE RecordClaim(j)
  BY <1>4 DEF Emit, Event, EventType, frame, Goto, Labels, machine, observed,
        PairEvents, PeriodEvents, Periods, RecordClaim, trace, TypeOK, Write
<1>5. CASE Verify(j)
  BY <1>5 DEF durable, frame, Labels, machine, observed, Periods, trace,
        TypeOK, Verify, AllocationContext
<1> QED
  BY <1>1, <1>2, <1>3, <1>4, <1>5 DEF Claiming

LEMMA RejectingTyped ==
  ASSUME TypeOK, NEW j \in Jobs, Rejecting(j)
  PROVE  TypeOK'
<1>period. period \in [Jobs -> Periods]
  BY DEF TypeOK
<1>1. CASE RejectManifest(j)
  BY <1>1 DEF frame, Goto, Labels, machine, observed, Periods, RejectManifest,
        trace, TypeOK
<1>2. CASE RejectRecord(j)
  BY <1>2, ValueTypes DEF frame, Goto, Labels, machine, observed, Periods,
        RecordType, RejectRecord, Statuses, trace, TypeOK
<1>3. CASE RejectTerminal(j)
  <2>1. ledger' \in Seq(EventType)
    <3>1. period[j] \in 0..2
      BY <1>period DEF Periods
    <3>2. Emit(j, "terminal", period[j])
      BY <1>3 DEF RejectTerminal
    <3> QED
      BY <3>1, <3>2, EmitTyped DEF PeriodEvents
  <2>2. pc' \in [Jobs -> Labels]
    BY <1>3 DEF AfterPeriod, Labels, RejectTerminal, TypeOK
  <2>3. period' \in [Jobs -> Periods]
    BY <1>3, <1>period DEF AfterPeriod, Periods, RejectTerminal
  <2>4. seq' \in [Jobs -> Nat]
    BY <1>3 DEF Emit, RejectTerminal, TypeOK
  <2> QED
    BY <1>3, <2>1, <2>2, <2>3, <2>4 DEF AfterPeriod, machine, observed,
        RejectTerminal, trace, TypeOK
<1>4. CASE RejectSummary(j)
  BY <1>4 DEF frame, Goto, Labels, machine, observed, Periods, RejectSummary,
        trace, TypeOK
<1>5. CASE RejectClose(j)
  BY <1>5, ValueTypes DEF Ends, Event, EventType, ExecType, Goto, JobEnds,
        Labels, observed, PairEvents, PeriodEvents, Periods, RejectClose,
        ResultType, Statuses, trace, TypeOK, Write
<1> QED
  BY <1>1, <1>2, <1>3, <1>4, <1>5 DEF Rejecting

LEMMA StartingTyped ==
  ASSUME TypeOK, NEW j \in Jobs, Starting(j)
  PROVE  TypeOK'
<1>1. CASE WriteManifest(j)
  BY <1>1 DEF frame, Goto, Labels, machine, observed, Periods, trace, TypeOK,
        WriteManifest
<1>2. CASE OpenTrace(j)
  BY <1>2 DEF durable, Goto, Labels, machine, observed, OpenTrace, Periods,
        trace, TypeOK
<1>3. CASE StartPair(j)
  BY <1>3 DEF Emit, Event, EventType, frame, Goto, Labels, machine, observed,
        PairEvents, PeriodEvents, Periods, StartPair, trace, TypeOK, Write
<1> QED
  BY <1>1, <1>2, <1>3 DEF Starting

LEMMA LaunchingTyped ==
  ASSUME TypeOK, NEW j \in Jobs, Launching(j)
  PROVE  TypeOK'
<1>exec. exec \in [Jobs -> ExecType]
  BY DEF TypeOK
<1>res. res \in [Jobs -> ResultType]
  BY DEF TypeOK
<1>ev. ev \in [Periods -> TraceType]
  BY DEF TypeOK
<1>period. period \in [Jobs -> Periods]
  BY DEF TypeOK
<1>1. CASE GatePass(j)
  <2>1. traceState' \in {"empty", "whole", "broken"}
    BY <1>1 DEF GatePass, Sampled, TypeOK
  <2>2. ev' \in [Periods -> TraceType]
    BY <1>1, <1>ev, <1>period DEF GatePass, TraceType
  <2> QED
    BY <1>1, <2>1, <2>2 DEF durable, frame, GatePass, Goto, Labels, machine,
        observed, TypeOK
<1>2. CASE GateFail(j)
  <2>1. traceState' \in {"empty", "whole", "broken"}
    BY <1>2 DEF GateFail, Sampled, TypeOK
  <2> QED
    BY <1>2, <2>1 DEF durable, GateFail, Goto, Labels, machine, observed,
        Periods, TypeOK
<1>3. CASE Prepare(j)
  BY <1>3 DEF durable, Goto, Labels, machine, observed, Periods, Prepare,
        ResultType, Statuses, trace, TypeOK
<1>4. CASE PrepareFail(j)
  <2>1. res' \in [Jobs -> ResultType]
    BY <1>4, <1>res DEF ExecType, PrepareFail, ResultType, Statuses
  <2>2. pc' \in [Jobs -> Labels]
    BY <1>4 DEF Goto, Labels, PrepareFail, TypeOK
  <2>3. fatal' \in [Jobs -> BOOLEAN]
    BY <1>4 DEF PrepareFail, TypeOK
  <2> QED
    BY <1>4, <2>1, <2>2, <2>3 DEF durable, Goto, machine, observed,
        PrepareFail, trace, TypeOK
<1>5. CASE Dispatch(j)
  BY <1>5 DEF Dispatch, Emit, Event, EventType, frame, Goto, Labels, machine,
        observed, PairEvents, PeriodEvents, Periods, trace, TypeOK, Write
<1>6. CASE Popen(j)
  BY <1>6 DEF durable, frame, Goto, Labels, Periods, Popen, Remains, trace,
        TypeOK
<1>7. CASE PopenFail(j)
  <2>1. exec' \in [Jobs -> ExecType]
    BY <1>7, <1>exec DEF Ends, ExecType, PopenFail
  <2>2. pc' \in [Jobs -> Labels]
    BY <1>7 DEF Goto, Labels, PopenFail, TypeOK
  <2> QED
    BY <1>7, <2>1, <2>2 DEF durable, Goto, machine, observed, PopenFail,
        trace, TypeOK
<1>8. CASE Mark(j)
  <2>1. exec' \in [Jobs -> ExecType]
    BY <1>8, <1>exec DEF Ends, ExecType, Mark
  <2>2. pc' \in [Jobs -> Labels]
    BY <1>8 DEF Goto, Labels, Mark, TypeOK
  <2> QED
    BY <1>8, <2>1, <2>2 DEF durable, Goto, machine, Mark, observed, trace,
        TypeOK
<1>9. CASE RecordSpawn(j)
  BY <1>9 DEF Emit, Event, EventType, frame, Goto, Labels, observed,
        PairEvents, PeriodEvents, Periods, RecordSpawn, trace, TypeOK, Write
<1> QED
  BY <1>1, <1>2, <1>3, <1>4, <1>5, <1>6, <1>7, <1>8, <1>9 DEF Launching

LEMMA EndingTyped ==
  ASSUME TypeOK, NEW j \in Jobs, Ending(j)
  PROVE  TypeOK'
<1>ev. ev \in [Periods -> TraceType]
  BY DEF TypeOK
<1>exec. exec \in [Jobs -> ExecType]
  BY DEF TypeOK
<1>period. period \in [Jobs -> Periods]
  BY DEF TypeOK
<1>1. CASE PayloadStopped(j)
  <2>1. exec' \in [Jobs -> ExecType]
    BY <1>1, <1>exec DEF Ends, ExecType, PayloadStopped
  <2>2. pc' \in [Jobs -> Labels]
    BY <1>1 DEF Goto, Labels, PayloadStopped, TypeOK
  <2> QED
    BY <1>1, <2>1, <2>2 DEF durable, Goto, machine, observed, PayloadStopped,
        trace, TypeOK
<1>2. CASE JoinSampler(j)
  <2>1. exec' \in [Jobs -> ExecType]
    <3>1. PICK joined \in BOOLEAN :
            exec' = [exec EXCEPT
              ![j].joined = joined,
              ![j].invalid = @ \/ ~joined \/ ~ev[period[j]].samples]
      BY <1>2 DEF JoinSampler
    <3>2. PICK invalid \in BOOLEAN :
            exec' = [exec EXCEPT ![j].joined = joined, ![j].invalid = invalid]
      BY <3>1
    <3> QED
      BY <3>2, <1>exec DEF ExecType
  <2>2. pc' \in [Jobs -> Labels]
    BY <1>2 DEF Goto, JoinSampler, Labels, TypeOK
  <2>3. sampler' \in [Periods -> BOOLEAN]
    BY <1>2 DEF JoinSampler, Periods, TypeOK
  <2> QED
    BY <1>2, <2>1, <2>2, <2>3 DEF durable, Goto, JoinSampler, observed, trace,
        TypeOK
<1>3. CASE Cleanup(j)
  <2>1. exec' \in [Jobs -> ExecType]
    <3>1. PICK complete \in BOOLEAN :
            exec' = [exec EXCEPT ![j].complete = complete /\ exec[j].joined]
      BY <1>3 DEF Cleanup
    <3> QED
      BY <3>1, <1>exec DEF ExecType
  <2>2. pc' \in [Jobs -> Labels]
    BY <1>3 DEF Cleanup, Goto, Labels, TypeOK
  <2>3. live' \in [Periods -> {"none", "run", "left", "cleaned"}]
    BY <1>3 DEF Cleanup, Periods, TypeOK
  <2> QED
    BY <1>3, <2>1, <2>2, <2>3 DEF Cleanup, durable, Goto, observed, trace,
        TypeOK
<1> QED
  BY <1>1, <1>2, <1>3 DEF Ending

LEMMA SettlingTyped ==
  ASSUME TypeOK, NEW j \in Jobs, Settling(j)
  PROVE  TypeOK'
<1>ev. ev \in [Periods -> TraceType]
  BY DEF TypeOK
<1>exec. exec \in [Jobs -> ExecType]
  BY DEF TypeOK
<1>period. period \in [Jobs -> Periods]
  BY DEF TypeOK
<1>res. res \in [Jobs -> ResultType]
  BY DEF TypeOK
<1>1. CASE Assess(j)
  <2>1. res' \in [Jobs -> ResultType]
    BY <1>1, <1>exec, <1>res DEF Assess, Assessment, ExecType, ResultType,
       Sound, Statuses
  <2>2. pc' \in [Jobs -> Labels]
    BY <1>1 DEF Assess, Goto, Labels, TypeOK
  <2> QED
    BY <1>1, <2>1, <2>2 DEF Assess, durable, Goto, machine, observed, trace,
        TypeOK
<1>2. CASE AssessRaises(j)
  <2>1. res' \in [Jobs -> ResultType]
    BY <1>2, <1>exec, <1>res DEF AssessRaises, ExecType, Raised, ResultType,
       Statuses
  <2>2. pc' \in [Jobs -> Labels]
    BY <1>2 DEF AssessRaises, Goto, Labels, TypeOK
  <2> QED
    BY <1>2, <2>1, <2>2 DEF AssessRaises, durable, Goto, machine, observed,
        trace, TypeOK
<1>3. CASE PostIdle(j)
  <2>1. ev' \in [Periods -> TraceType]
    BY <1>3, <1>ev, <1>period DEF Periods, PostIdle, TraceType
  <2>2. pc' \in [Jobs -> Labels]
    BY <1>3 DEF Goto, Labels, PostIdle, TypeOK
  <2>3. fatal' \in [Jobs -> BOOLEAN]
    BY <1>3 DEF PostIdle, TypeOK
  <2> QED
    BY <1>3, <2>1, <2>2, <2>3 DEF durable, Goto, machine, observed, PostIdle,
        TypeOK
<1>4. CASE PostNotIdle(j)
  BY <1>4 DEF durable, Goto, Labels, machine, observed, Periods, PostNotIdle,
        trace, TypeOK
<1>5. CASE PostRaises(j)
  BY <1>5 DEF durable, Goto, Labels, machine, observed, Periods, PostRaises,
        Raised, ResultType, Statuses, trace, TypeOK
<1>6. CASE Finish(j)
  BY <1>6, ValueTypes DEF Ends, ExecType, Finish, frame, Goto, Labels,
        machine, observed, Periods, RecordOf, RecordType, ResultType, Sound,
        Statuses, trace, TypeOK
<1>7. CASE Terminal(j)
  <2>1. ledger' \in Seq(EventType)
    <3>1. period[j] \in 0..2
      BY <1>period DEF Periods
    <3>2. Emit(j, "terminal", period[j])
      BY <1>7 DEF Terminal
    <3> QED
      BY <3>1, <3>2, EmitTyped DEF PeriodEvents
  <2>2. exec' \in [Jobs -> ExecType]
    BY <1>7, ValueTypes, <1>exec, <1>period DEF Ends, ExecType, Terminal
  <2>3. res' \in [Jobs -> ResultType]
    BY <1>7, ValueTypes, <1>res DEF ExecType, ResultType, Statuses, Terminal
  <2>4. pc' \in [Jobs -> Labels]
    BY <1>7 DEF AfterPeriod, Labels, Terminal, TypeOK
  <2>5. period' \in [Jobs -> Periods]
    BY <1>7, <1>period DEF AfterPeriod, Periods, Terminal
  <2>6. seq' \in [Jobs -> Nat]
    BY <1>7 DEF Emit, Terminal, TypeOK
  <2> QED
    BY <1>7, <2>1, <2>2, <2>3, <2>4, <2>5, <2>6 DEF AfterPeriod, machine,
        observed, Terminal, trace, TypeOK
<1>8. CASE Summarise(j)
  BY <1>8 DEF frame, Goto, Labels, machine, observed, Periods, Summarise,
        trace, TypeOK
<1>9. CASE ClosePair(j)
  BY <1>9, ValueTypes DEF ClosePair, Ends, Event, EventType, ExecType, Goto,
        JobEnds, Labels, observed, PairEvents, PeriodEvents, Periods,
        ResultType, Statuses, trace, TypeOK, Write
<1> QED
  BY <1>1, <1>2, <1>3, <1>4, <1>5, <1>6, <1>7, <1>8, <1>9 DEF Settling

LEMMA InterruptTyped ==
  ASSUME TypeOK, NEW j \in Jobs, Interrupt(j)
  PROVE  TypeOK'
<1>ev. ev \in [Periods -> TraceType]
  BY DEF TypeOK
<1>exec. exec \in [Jobs -> ExecType]
  BY DEF TypeOK
<1>period. period \in [Jobs -> Periods]
  BY DEF TypeOK
<1>record. record \in [Periods -> RecordType]
  BY DEF TypeOK
<1>res. res \in [Jobs -> ResultType]
  BY DEF TypeOK
<1>1. CASE InterruptEarly(j)
  BY <1>1, MaxSignalsAssumption DEF Deliver, durable, frame, InterruptEarly,
        Labels, machine, Periods, trace, TypeOK, Unheard
<1>2. CASE InterruptBare(j)
  <2>1. ledger' \in Seq(EventType)
    BY <1>2, InterruptedEmitTyped DEF InterruptBare
  <2>2. record' \in [Periods -> RecordType]
    BY <1>2, ValueTypes, <1>period, <1>record DEF InterruptBare, Periods,
       RecordType, Statuses
  <2>3. exec' \in [Jobs -> ExecType]
    BY <1>2, ValueTypes, <1>exec, <1>period DEF Ends, ExecType, InterruptBare,
       JobEnds
  <2>4. res' \in [Jobs -> ResultType]
    BY <1>2, ValueTypes, <1>res DEF ExecType, InterruptBare, JobEnds,
       ResultType, Statuses
  <2>5. pc' \in [Jobs -> Labels]
    BY <1>2 DEF InterruptBare, Labels, TypeOK
  <2>6. period' \in [Jobs -> Periods]
    BY <1>2, <1>period DEF InterruptBare, JobEnds, Periods
  <2>7. live' \in [Periods -> {"none", "run", "left", "cleaned"}]
    BY <1>2 DEF InterruptBare, JobEnds, Periods, TypeOK
  <2>8. fatal' \in [Jobs -> BOOLEAN]
    BY <1>2 DEF InterruptBare, JobEnds, TypeOK
  <2>9. sampler' \in [Periods -> BOOLEAN]
    BY <1>2 DEF InterruptBare, JobEnds, Periods, TypeOK
  <2>10. seq' \in [Jobs -> Nat]
    BY <1>2 DEF InterruptBare, JobEnds, TypeOK
  <2>11. manifest' \in {"none", "partial", "noalloc", "alloc"}
    BY <1>2 DEF InterruptBare, TypeOK
  <2>12. signals' \in 0..MaxSignals
    BY <1>2, MaxSignalsAssumption DEF Deliver, InterruptBare, TypeOK
  <2> QED
    BY <1>2, <2>1, <2>2, <2>3, <2>4, <2>5, <2>6, <2>7, <2>8, <2>9, <2>10, <2>11, <2>12 DEF
        InterruptBare, JobEnds, trace, TypeOK, Unheard
<1>3. CASE InterruptVerify(j)
  BY <1>3, MaxSignalsAssumption DEF Deliver, durable, frame, Goto,
        InterruptVerify, Labels, machine, Periods, trace, TypeOK, Unheard
<1>4. CASE InterruptStart(j)
  BY <1>4, MaxSignalsAssumption, InterruptedEmitTyped DEF Deliver, frame,
        Goto, InterruptStart, Labels, machine, Periods, trace, TypeOK, Unheard
<1>5. CASE InterruptTry(j)
  <2>1. ledger' \in Seq(EventType)
    BY <1>5, InterruptedEmitTyped DEF InterruptTry
  <2>2. pc' \in [Jobs -> Labels]
    BY <1>5 DEF InterruptTry, Labels, TypeOK
  <2>3. fatal' \in [Jobs -> BOOLEAN]
    BY <1>5 DEF InterruptTry, TypeOK
  <2>4. signals' \in 0..MaxSignals
    BY <1>5, MaxSignalsAssumption DEF Deliver, InterruptTry, TypeOK
  <2>5. ev' \in [Periods -> TraceType]
    BY <1>5, <1>ev DEF InterruptTry, TraceType, trace
  <2>6. res' \in [Jobs -> ResultType]
    BY <1>5, <1>res DEF InterruptTry, ResultType
  <2> QED
    BY <1>5, <2>1, <2>2, <2>3, <2>4, <2>5, <2>6
       DEF InterruptTry, Sampled, machine, trace, TypeOK, Unheard
<1>6. CASE InterruptPayload(j)
  <2>1. ledger' \in Seq(EventType)
    BY <1>6, InterruptedEmitTyped DEF InterruptPayload
  <2>2. exec' \in [Jobs -> ExecType]
    <3>1. exec[j].tracked \in BOOLEAN
      BY <1>exec DEF ExecType
    <3>2. PICK tracked \in BOOLEAN :
            exec' = [exec EXCEPT ![j].tracked = tracked, ![j].invalid = TRUE,
                                 ![j].interrupted = TRUE]
      BY <1>6, <3>1 DEF InterruptPayload
    <3>3. [exec[j] EXCEPT !.tracked = tracked, !.invalid = TRUE,
                          !.interrupted = TRUE] \in ExecType
      BY <1>exec DEF ExecType
    <3> QED
      BY <3>2, <3>3, <1>exec
  <2>3. pc' \in [Jobs -> Labels]
    BY <1>6 DEF InterruptPayload, Labels, TypeOK
  <2>4. hit' \in [Periods -> BOOLEAN]
    BY <1>6 DEF InterruptPayload, Periods, TypeOK
  <2>5. signals' \in 0..MaxSignals
    BY <1>6, MaxSignalsAssumption DEF Deliver, InterruptPayload, TypeOK
  <2> QED
    BY <1>6, <2>1, <2>2, <2>3, <2>4, <2>5 DEF InterruptPayload, machine,
        trace, TypeOK
<1>7. CASE InterruptCleanup(j)
  <2>1. exec' \in [Jobs -> ExecType]
    BY <1>7, ValueTypes, <1>exec, <1>period DEF Ends, ExecType,
       InterruptCleanup
  <2>2. pc' \in [Jobs -> Labels]
    BY <1>7 DEF InterruptCleanup, Labels, TypeOK
  <2>3. live' \in [Periods -> {"none", "run", "left", "cleaned"}]
    BY <1>7 DEF InterruptCleanup, Periods, TypeOK
  <2>4. fatal' \in [Jobs -> BOOLEAN]
    BY <1>7 DEF InterruptCleanup, TypeOK
  <2>5. hit' \in [Periods -> BOOLEAN]
    BY <1>7 DEF InterruptCleanup, Periods, TypeOK
  <2>6. signals' \in 0..MaxSignals
    BY <1>7, MaxSignalsAssumption DEF Deliver, InterruptCleanup, TypeOK
  <2> QED
    BY <1>7, <2>1, <2>2, <2>3, <2>4, <2>5, <2>6 DEF durable, InterruptCleanup,
        trace, TypeOK
<1>8. CASE InterruptAssess(j)
  <2>1. ev' \in [Periods -> TraceType]
    <3>1. \/ ev' = ev
          \/ ev' = [ev EXCEPT ![period[j]].post = TRUE]
      BY <1>8 DEF InterruptAssess
    <3>2. [ev EXCEPT ![period[j]].post = TRUE] \in [Periods -> TraceType]
      BY <1>ev, <1>period DEF TraceType
    <3> QED
      BY <3>1, <3>2, <1>ev
  <2>2. exec' \in [Jobs -> ExecType]
    BY <1>8, ValueTypes, <1>exec, <1>period DEF Ends, ExecType,
       InterruptAssess
  <2>3. res' \in [Jobs -> ResultType]
    <3>1. exec[j].spawned \in BOOLEAN
      BY <1>exec DEF ExecType
    <3>2. [res[j] EXCEPT !.launched = exec[j].spawned] \in ResultType
      BY <3>1, <1>res DEF ResultType
    <3>3. \/ res' = res
          \/ res' = [res EXCEPT ![j] = Raised(
                      [res[j] EXCEPT !.launched = exec[j].spawned])]
          \/ res' = [res EXCEPT ![j] = Raised(res[j])]
      BY <1>8 DEF InterruptAssess
    <3> QED
      BY <3>2, <3>3, <1>res, RaisedTyped
  <2>4. pc' \in [Jobs -> Labels]
    BY <1>8 DEF InterruptAssess, Labels, TypeOK
  <2>5. fatal' \in [Jobs -> BOOLEAN]
    BY <1>8 DEF InterruptAssess, TypeOK
  <2>6. signals' \in 0..MaxSignals
    BY <1>8, MaxSignalsAssumption DEF Deliver, InterruptAssess, TypeOK
  <2> QED
    BY <1>8, <2>1, <2>2, <2>3, <2>4, <2>5, <2>6 DEF durable, InterruptAssess,
        machine, TypeOK, Unheard
<1>9. CASE InterruptFinally(j)
  <2>1. ledger' \in Seq(EventType)
    BY <1>9, InterruptedEmitTyped DEF InterruptFinally
  <2>2. record' \in [Periods -> RecordType]
    BY <1>9, ValueTypes, <1>period, <1>record DEF InterruptFinally, Periods,
       RecordType, Statuses
  <2>3. pc' \in [Jobs -> Labels]
    BY <1>9 DEF InterruptFinally, Labels, TypeOK
  <2>4. signals' \in 0..MaxSignals
    BY <1>9, MaxSignalsAssumption DEF Deliver, InterruptFinally, TypeOK
  <2> QED
    BY <1>9, <2>1, <2>2, <2>3, <2>4 DEF frame, InterruptFinally, machine,
        trace, TypeOK, Unheard
<1>10. CASE InterruptUnstarted(j)
  <2>1. ledger' \in Seq(EventType)
    <3>1. period[j] \in 0..2
      BY <1>period DEF Periods
    <3>2. Emit(j, "spawned", period[j])
      BY <1>10 DEF InterruptUnstarted
    <3> QED
      BY <3>1, <3>2, EmitTyped DEF PeriodEvents
  <2>2. exec' \in [Jobs -> ExecType]
    BY <1>10, <1>exec, ValueTypes DEF InterruptUnstarted
  <2>3. pc' \in [Jobs -> Labels]
    BY <1>10 DEF InterruptUnstarted, Goto, Labels, TypeOK
  <2>4. seq' \in [Jobs -> Nat]
    BY <1>10 DEF InterruptUnstarted, Emit, TypeOK
  <2>5. hit' \in [Periods -> BOOLEAN] /\ signals' \in 0..MaxSignals
    BY <1>10, MaxSignalsAssumption DEF InterruptUnstarted, Deliver, TypeOK
  <2> QED
    BY <1>10, <2>1, <2>2, <2>3, <2>4, <2>5
       DEF InterruptUnstarted, machine, trace, TypeOK
<1> QED
  BY <1>1, <1>2, <1>3, <1>4, <1>5, <1>6, <1>7, <1>8, <1>9, <1>10
     DEF Interrupt

LEMMA PayloadExitTyped ==
  ASSUME TypeOK, NEW j \in Jobs, PayloadExit(j)
  PROVE  TypeOK'
<1>exec. exec \in [Jobs -> ExecType]
  BY DEF TypeOK
<1>period. period \in [Jobs -> Periods]
  BY DEF TypeOK
<1>1. exec' \in [Jobs -> ExecType]
  BY <1>exec, <1>period DEF Ends, ExecType, PayloadExit
<1>2. pc' \in [Jobs -> Labels]
  BY DEF Goto, Labels, PayloadExit, TypeOK
<1>3. proof' \in [Periods -> BOOLEAN]
  BY DEF PayloadExit, Periods, TypeOK
<1> QED
  BY <1>1, <1>2, <1>3 DEF durable, Goto, observed, PayloadExit, trace,
     TypeOK

LEMMA SamplingTyped ==
  ASSUME TypeOK, NEW j \in Jobs, Sampling(j)
  PROVE  TypeOK'
<1>ev. ev \in [Periods -> TraceType]
  BY DEF TypeOK
<1>exec. exec \in [Jobs -> ExecType]
  BY DEF TypeOK
<1>period. period \in [Jobs -> Periods]
  BY DEF TypeOK
<1>1. CASE Tick(j)
  <2>1. ev' \in [Periods -> TraceType]
    <3>1. PICK bad \in BOOLEAN :
            ev' = [ev EXCEPT ![period[j]].samples = TRUE,
                             ![period[j]].tainted = @ \/ bad]
      BY <1>1 DEF Tick
    <3> QED
      BY <3>1, <1>ev, <1>period DEF TraceType
  <2>2. exec' \in [Jobs -> ExecType]
    BY <1>1, <1>exec, <1>period DEF Ends, ExecType, Tick
  <2> QED
    BY <1>1, <2>1, <2>2 DEF durable, machine, observed, Tick, TypeOK
<1>2. CASE SamplerFail(j)
  <2>1. exec' \in [Jobs -> ExecType]
    BY <1>2, <1>exec DEF SamplerFail, ExecType
  <2> QED
    BY <1>2, <2>1 DEF SamplerFail, trace, TypeOK, Periods, durable, observed
<1>3. ASSUME NEW p \in Periods, LateTick(j, p) PROVE TypeOK'
  BY <1>3 DEF LateTick, frame, machine, TypeOK, Periods, ExecType, TraceType,
       durable, observed
<1>4. ASSUME NEW p \in Periods, LateStop(j, p) PROVE TypeOK'
  BY <1>4 DEF LateStop, trace, frame, TypeOK, Periods, ExecType, TraceType,
       durable, observed
<1> QED
  BY <1>1, <1>2, <1>3, <1>4 DEF Sampling

LEMMA CrashTyped ==
  ASSUME TypeOK, NEW j \in Jobs, Crash(j)
  PROVE  TypeOK'
<1>exec. exec \in [Jobs -> ExecType]
  BY DEF TypeOK
<1>period. period \in [Jobs -> Periods]
  BY DEF TypeOK
<1>record. record \in [Periods -> RecordType]
  BY DEF TypeOK
<1>res. res \in [Jobs -> ResultType]
  BY DEF TypeOK
<1>1. ledger' \in Seq(EventType)
    <2>1. \/ ledger' = ledger
          \/ ledger' = Append(ledger, Torn)
      BY DEF Crash
    <2>2. ledger \in Seq(EventType)
      BY DEF TypeOK
    <2> QED
      BY <2>1, <2>2, ValueTypes
<1>2. record' \in [Periods -> RecordType]
  BY ValueTypes, <1>period, <1>record DEF Crash, Periods, RecordType,
       Statuses
<1>3. exec' \in [Jobs -> ExecType]
  BY ValueTypes, <1>exec, <1>period DEF Crash, Ends, ExecType, JobEnds
<1>4. res' \in [Jobs -> ResultType]
  BY ValueTypes, <1>res DEF Crash, ExecType, JobEnds, ResultType, Statuses
<1>5. pc' \in [Jobs -> Labels]
  BY DEF Crash, Labels, TypeOK
<1>6. period' \in [Jobs -> Periods]
  BY <1>period DEF Crash, JobEnds, Periods
<1>7. live' \in [Periods -> {"none", "run", "left", "cleaned"}]
  BY DEF Crash, JobEnds, Periods, TypeOK
<1>8. fatal' \in [Jobs -> BOOLEAN]
  BY DEF Crash, JobEnds, TypeOK
<1>9. sampler' \in [Periods -> BOOLEAN]
  BY DEF Crash, JobEnds, Periods, TypeOK
<1>10. seq' \in [Jobs -> Nat]
  BY DEF Crash, JobEnds, TypeOK
<1>11. manifest' \in {"none", "partial", "noalloc", "alloc"}
  BY DEF Crash, TypeOK
<1> QED
  BY <1>1, <1>2, <1>3, <1>4, <1>5, <1>6, <1>7, <1>8, <1>9, <1>10, <1>11 DEF
     Crash, JobEnds, observed, TypeOK

LEMMA TypeStep == TypeOK /\ [Next]_vars => TypeOK'
<1> SUFFICES ASSUME TypeOK, [Next]_vars PROVE TypeOK'
  OBVIOUS
<1>1. CASE UNCHANGED vars
  BY <1>1 DEF TypeOK, vars, durable, trace, frame, machine, observed
<1>2. ASSUME NEW j \in Jobs, Runner(j) PROVE TypeOK'
  BY <1>2, ClaimingTyped, RejectingTyped, StartingTyped, LaunchingTyped,
     EndingTyped, SettlingTyped DEF Runner
<1>3. ASSUME NEW j \in Jobs, PayloadExit(j) PROVE TypeOK'
  BY <1>3, PayloadExitTyped
<1>4. ASSUME NEW j \in Jobs, Sampling(j) PROVE TypeOK'
  BY <1>4, SamplingTyped
<1>5. ASSUME NEW j \in Jobs, Interrupt(j) PROVE TypeOK'
  BY <1>5, InterruptTyped
<1>6. ASSUME NEW j \in Jobs, Crash(j) PROVE TypeOK'
  BY <1>6, CrashTyped
<1> QED
  BY <1>1, <1>2, <1>3, <1>4, <1>5, <1>6 DEF Next

(* Every variable of the runner has its type for ever. *)
THEOREM TypeCorrect == Spec => []TypeOK
BY TypeInit, TypeStep, PTL DEF Spec


-----------------------------------------------------------------------------
(* The one-shot promise, for any set of jobs and any number of signals: a  *)
(* slot's payload is started at most once, and MatchedPair implements      *)
(* OneShotPair.  Both rest on OneShotInv.                                  *)

LEMMA OneShotTypes ==
  ASSUME TypeOK
  PROVE  /\ pc \in [Jobs -> Labels]
         /\ period \in [Jobs -> Periods]
         /\ spawns \in [Periods -> Nat]
         /\ record \in [Periods -> RecordType]
         /\ res \in [Jobs -> ResultType]
BY DEF TypeOK

-----------------------------------------------------------------------------
(* The invariant is inductive. *)

LEMMA OneShotInit == Init => OneShotInv
BY NoJobAssumption
   DEF Init, OneShotInv, OwnerActs, UnclaimedEmpty, InOrder, Ended, Settled,
       LaunchedAtMostOnce, Periods, NoRecord, Blank, Statuses

LEMMA ClaimingKeepsOneShot ==
  ASSUME TypeOK, OneShotInv, NEW j \in Jobs, Claiming(j)
  PROVE  OneShotInv'
<1> USE OneShotTypes, NoJobAssumption DEF OneShotInv, OwnerActs,
        UnclaimedEmpty, InOrder, Ended, Settled, LaunchedAtMostOnce,
        Unlaunched, Unrecorded, Periods
<1>1. CASE Enter(j)
  BY <1>1 DEF durable, Enter, frame, machine, observed, trace
<1>2. CASE ClaimPair(j)
  BY <1>2 DEF ClaimFree, ClaimPair, frame, Goto, machine, observed, trace
<1>3. CASE ClaimTaken(j)
  BY <1>3 DEF ClaimFree, ClaimTaken, durable, frame, Goto, machine, observed,
        trace
<1>4. CASE RecordClaim(j)
  BY <1>4 DEF frame, Goto, machine, observed, RecordClaim, trace
<1>5. CASE Verify(j)
  BY <1>5 DEF durable, frame, machine, observed, trace, Verify, AllocationContext
<1> QED
  BY <1>1, <1>2, <1>3, <1>4, <1>5 DEF Claiming

LEMMA RejectingKeepsOneShot ==
  ASSUME TypeOK, OneShotInv, NEW j \in Jobs, Rejecting(j)
  PROVE  OneShotInv'
<1> USE OneShotTypes, NoJobAssumption DEF OneShotInv, OwnerActs,
        UnclaimedEmpty, InOrder, Ended, Settled, LaunchedAtMostOnce,
        Unlaunched, Unrecorded, Periods
<1>1. CASE RejectManifest(j)
  BY <1>1 DEF frame, Goto, machine, observed, RejectManifest, trace
<1>2. CASE RejectRecord(j)
  BY <1>2 DEF Blank, frame, Goto, machine, observed, Partial, RejectRecord,
        Statuses, trace
<1>3. CASE RejectTerminal(j)
  BY <1>3 DEF AfterPeriod, machine, observed, RejectTerminal, trace
<1>4. CASE RejectSummary(j)
  BY <1>4 DEF frame, Goto, machine, observed, RejectSummary, trace
<1>5. CASE RejectClose(j)
  BY <1>5 DEF Goto, JobEnds, observed, RejectClose, trace
<1> QED
  BY <1>1, <1>2, <1>3, <1>4, <1>5 DEF Rejecting

LEMMA StartingKeepsOneShot ==
  ASSUME TypeOK, OneShotInv, NEW j \in Jobs, Starting(j)
  PROVE  OneShotInv'
<1> USE OneShotTypes, NoJobAssumption DEF OneShotInv, OwnerActs,
        UnclaimedEmpty, InOrder, Ended, Settled, LaunchedAtMostOnce,
        Unlaunched, Unrecorded, Periods
<1>1. CASE WriteManifest(j)
  BY <1>1 DEF frame, Goto, machine, observed, trace, WriteManifest
<1>2. CASE OpenTrace(j)
  BY <1>2 DEF durable, Goto, machine, observed, OpenTrace, trace
<1>3. CASE StartPair(j)
  BY <1>3 DEF frame, Goto, machine, observed, StartPair, trace
<1> QED
  BY <1>1, <1>2, <1>3 DEF Starting

LEMMA LaunchingKeepsOneShot ==
  ASSUME TypeOK, OneShotInv, NEW j \in Jobs, Launching(j)
  PROVE  OneShotInv'
<1> USE OneShotTypes, NoJobAssumption DEF OneShotInv, OwnerActs,
        UnclaimedEmpty, InOrder, Ended, Settled, LaunchedAtMostOnce,
        Unlaunched, Unrecorded, Periods
<1>1. CASE GatePass(j)
  BY <1>1 DEF durable, frame, GatePass, Goto, machine, observed
<1>2. CASE GateFail(j)
  BY <1>2 DEF durable, GateFail, Goto, machine, observed
<1>3. CASE Prepare(j)
  BY <1>3 DEF durable, Goto, machine, observed, Prepare, trace
<1>4. CASE PrepareFail(j)
  BY <1>4 DEF durable, Goto, machine, observed, PrepareFail, trace
<1>5. CASE Dispatch(j)
  BY <1>5 DEF Dispatch, frame, Goto, machine, observed, trace
<1>6. CASE Popen(j)
  BY <1>6 DEF durable, frame, Goto, Popen, Remains, trace
<1>7. CASE PopenFail(j)
  BY <1>7 DEF durable, Goto, machine, observed, PopenFail, trace
<1>8. CASE Mark(j)
  BY <1>8 DEF durable, Goto, machine, Mark, observed, trace
<1>9. CASE RecordSpawn(j)
  BY <1>9 DEF frame, Goto, observed, RecordSpawn, trace
<1> QED
  BY <1>1, <1>2, <1>3, <1>4, <1>5, <1>6, <1>7, <1>8, <1>9 DEF Launching

LEMMA EndingKeepsOneShot ==
  ASSUME TypeOK, OneShotInv, NEW j \in Jobs, Ending(j)
  PROVE  OneShotInv'
<1> USE OneShotTypes, NoJobAssumption DEF OneShotInv, OwnerActs,
        UnclaimedEmpty, InOrder, Ended, Settled, LaunchedAtMostOnce,
        Unlaunched, Unrecorded, Periods
<1>1. CASE PayloadStopped(j)
  BY <1>1 DEF durable, Goto, machine, observed, PayloadStopped, trace
<1>2. CASE JoinSampler(j)
  BY <1>2 DEF durable, Goto, JoinSampler, observed, trace
<1>3. CASE Cleanup(j)
  BY <1>3 DEF Cleanup, durable, Goto, observed, trace
<1> QED
  BY <1>1, <1>2, <1>3 DEF Ending

LEMMA SettlingKeepsOneShot ==
  ASSUME TypeOK, OneShotInv, NEW j \in Jobs, Settling(j)
  PROVE  OneShotInv'
<1> USE OneShotTypes, NoJobAssumption DEF OneShotInv, OwnerActs,
        UnclaimedEmpty, InOrder, Ended, Settled, LaunchedAtMostOnce,
        Unlaunched, Unrecorded, Periods
<1>1. CASE Assess(j)
  BY <1>1 DEF Assess, durable, Goto, machine, observed, trace
<1>2. CASE AssessRaises(j)
  BY <1>2 DEF AssessRaises, durable, Goto, machine, observed, trace
<1>3. CASE PostIdle(j)
  BY <1>3 DEF durable, Goto, machine, observed, PostIdle
<1>4. CASE PostNotIdle(j)
  BY <1>4 DEF durable, Goto, machine, observed, PostNotIdle, trace
<1>5. CASE PostRaises(j)
  BY <1>5 DEF durable, Goto, machine, observed, PostRaises, trace
<1>6. CASE Finish(j)
  BY <1>6 DEF Blank, Finish, frame, Goto, machine, observed, Partial,
        RecordOf, ResultType, Statuses, trace
<1>7. CASE Terminal(j)
  BY <1>7 DEF AfterPeriod, machine, observed, Terminal, trace
<1>8. CASE Summarise(j)
  BY <1>8 DEF frame, Goto, machine, observed, Summarise, trace
<1>9. CASE ClosePair(j)
  BY <1>9 DEF ClosePair, Goto, JobEnds, observed, trace
<1> QED
  BY <1>1, <1>2, <1>3, <1>4, <1>5, <1>6, <1>7, <1>8, <1>9 DEF Settling

LEMMA InterruptKeepsOneShot ==
  ASSUME TypeOK, OneShotInv, NEW j \in Jobs, Interrupt(j)
  PROVE  OneShotInv'
<1> USE OneShotTypes, NoJobAssumption DEF OneShotInv, OwnerActs,
        UnclaimedEmpty, InOrder, Ended, Settled, LaunchedAtMostOnce,
        Unlaunched, Unrecorded, Periods
<1>1. CASE InterruptEarly(j)
  BY <1>1 DEF durable, frame, InterruptEarly, machine, trace, Unheard
<1>2. CASE InterruptBare(j)
  BY <1>2 DEF Blank, InterruptBare, JobEnds, Partial, Statuses, trace, Unheard
<1>3. CASE InterruptVerify(j)
  BY <1>3 DEF durable, frame, Goto, InterruptVerify, machine, trace, Unheard
<1>4. CASE InterruptStart(j)
  BY <1>4 DEF frame, Goto, InterruptStart, machine, trace, Unheard
<1>5. CASE InterruptTry(j)
  BY <1>5 DEF InterruptTry, machine, trace, Unheard
<1>6. CASE InterruptPayload(j)
  BY <1>6 DEF InterruptPayload, machine, trace
<1>7. CASE InterruptCleanup(j)
  BY <1>7 DEF durable, InterruptCleanup, trace
<1>8. CASE InterruptAssess(j)
  BY <1>8 DEF durable, InterruptAssess, machine, Unheard
<1>9. CASE InterruptFinally(j)
  BY <1>9 DEF Blank, frame, InterruptFinally, machine, Partial, Statuses,
        trace, Unheard
<1>10. CASE InterruptUnstarted(j)
  BY <1>10 DEF Goto, InterruptUnstarted, machine, trace
<1> QED
  BY <1>1, <1>2, <1>3, <1>4, <1>5, <1>6, <1>7, <1>8, <1>9, <1>10 DEF Interrupt

LEMMA SamplingKeepsOneShot ==
  ASSUME TypeOK, OneShotInv, NEW j \in Jobs, Sampling(j)
  PROVE  OneShotInv'
<1> USE OneShotTypes, NoJobAssumption DEF OneShotInv, OwnerActs,
        UnclaimedEmpty, InOrder, Ended, Settled, LaunchedAtMostOnce,
        Unlaunched, Unrecorded, Periods
<1>1. CASE Tick(j)
  BY <1>1 DEF durable, machine, observed, Tick
<1>2. CASE SamplerFail(j)
  BY <1>2 DEF durable, observed, SamplerFail, trace
<1>3. ASSUME NEW p \in Periods, LateTick(j, p) PROVE OneShotInv'
  BY <1>3 DEF LateTick, durable, frame, machine, observed
<1>4. ASSUME NEW p \in Periods, LateStop(j, p) PROVE OneShotInv'
  BY <1>4 DEF LateStop, durable, trace, frame, observed
<1> QED
  BY <1>1, <1>2, <1>3, <1>4 DEF Sampling

LEMMA PayloadExitKeepsOneShot ==
  ASSUME TypeOK, OneShotInv, NEW j \in Jobs, PayloadExit(j)
  PROVE  OneShotInv'
BY OneShotTypes, NoJobAssumption DEF durable, Ended, Goto, InOrder,
        LaunchedAtMostOnce, observed, OneShotInv, OwnerActs, PayloadExit,
        Periods, Settled, trace, UnclaimedEmpty, Unlaunched, Unrecorded

LEMMA CrashKeepsOneShot ==
  ASSUME TypeOK, OneShotInv, NEW j \in Jobs, Crash(j)
  PROVE  OneShotInv'
BY OneShotTypes, NoJobAssumption DEF Blank, Crash, Ended, InOrder, JobEnds,
        LaunchedAtMostOnce, observed, OneShotInv, OwnerActs, Partial, Periods,
        Settled, Statuses, UnclaimedEmpty, Unlaunched, Unrecorded

LEMMA OneShotStep ==
  ASSUME TypeOK, OneShotInv, [Next]_vars
  PROVE  OneShotInv'
<1>1. CASE UNCHANGED vars
  BY <1>1 DEF vars, durable, trace, frame, machine, observed,
     OneShotInv, OwnerActs, UnclaimedEmpty, InOrder, Ended, Settled,
     LaunchedAtMostOnce
<1>2. ASSUME NEW j \in Jobs, Runner(j) PROVE OneShotInv'
  BY <1>2, ClaimingKeepsOneShot, RejectingKeepsOneShot, StartingKeepsOneShot, LaunchingKeepsOneShot,
     EndingKeepsOneShot, SettlingKeepsOneShot DEF Runner
<1>3. ASSUME NEW j \in Jobs, PayloadExit(j) PROVE OneShotInv'
  BY <1>3, PayloadExitKeepsOneShot
<1>4. ASSUME NEW j \in Jobs, Sampling(j) PROVE OneShotInv'
  BY <1>4, SamplingKeepsOneShot
<1>5. ASSUME NEW j \in Jobs, Interrupt(j) PROVE OneShotInv'
  BY <1>5, InterruptKeepsOneShot
<1>6. ASSUME NEW j \in Jobs, Crash(j) PROVE OneShotInv'
  BY <1>6, CrashKeepsOneShot
<1> QED
  BY <1>1, <1>2, <1>3, <1>4, <1>5, <1>6 DEF Next

LEMMA OneShotAlways == Spec => []OneShotInv
<1>1. TypeOK /\ OneShotInv /\ [Next]_vars => OneShotInv'
  BY OneShotStep
<1> QED
  BY OneShotInit, TypeCorrect, <1>1, PTL DEF Spec

(* However many jobs are started for a pair, and whatever signals and      *)
(* crashes they meet, claim_pair and the loop of execute_pair start the    *)
(* payload of a slot at most once.                                         *)
THEOREM NeverRetried == Spec => []LaunchedAtMostOnce
<1>1. OneShotInv => LaunchedAtMostOnce
  BY DEF OneShotInv
<1> QED
  BY OneShotAlways, <1>1, PTL

-----------------------------------------------------------------------------
(* Every step is a step of the one-shot pair, or changes nothing of it. *)

LEMMA RefinedInit == Init => Abstract!Init
BY NoJobAssumption
   DEF Init, Abstract!Init, Settled, Periods, NoRecord, Blank, Statuses, Ended

LEMMA ClaimingRefines ==
  ASSUME TypeOK, OneShotInv, NEW j \in Jobs, Claiming(j)
  PROVE  [Abstract!Next]_(Abstract!vars)
<1> USE OneShotTypes, NoJobAssumption DEF OneShotInv, OwnerActs,
        UnclaimedEmpty, InOrder, Ended, Settled, LaunchedAtMostOnce,
        Unlaunched, Unrecorded, Periods, Abstract!vars, Abstract!Next,
        Abstract!Claim, Abstract!Launch, Abstract!Settle, Abstract!Close,
        Abstract!Periods
<1>1. CASE Enter(j)
  BY <1>1 DEF durable, Enter, frame, machine, observed, trace
<1>2. CASE ClaimPair(j)
  BY <1>2 DEF ClaimFree, ClaimPair, frame, Goto, machine, observed, trace
<1>3. CASE ClaimTaken(j)
  BY <1>3 DEF ClaimFree, ClaimTaken, durable, frame, Goto, machine, observed,
        trace
<1>4. CASE RecordClaim(j)
  BY <1>4 DEF frame, Goto, machine, observed, RecordClaim, trace
<1>5. CASE Verify(j)
  BY <1>5 DEF durable, frame, machine, observed, trace, Verify, AllocationContext
<1> QED
  BY <1>1, <1>2, <1>3, <1>4, <1>5 DEF Claiming

LEMMA RejectingRefines ==
  ASSUME TypeOK, OneShotInv, NEW j \in Jobs, Rejecting(j)
  PROVE  [Abstract!Next]_(Abstract!vars)
<1> USE OneShotTypes, NoJobAssumption DEF OneShotInv, OwnerActs,
        UnclaimedEmpty, InOrder, Ended, Settled, LaunchedAtMostOnce,
        Unlaunched, Unrecorded, Periods, Abstract!vars, Abstract!Next,
        Abstract!Claim, Abstract!Launch, Abstract!Settle, Abstract!Close,
        Abstract!Periods
<1>1. CASE RejectManifest(j)
  BY <1>1 DEF frame, Goto, machine, observed, RejectManifest, trace
<1>2. CASE RejectRecord(j)
  BY <1>2 DEF Blank, frame, Goto, machine, observed, Partial, RejectRecord,
        Statuses, trace
<1>3. CASE RejectTerminal(j)
  BY <1>3 DEF AfterPeriod, machine, observed, RejectTerminal, trace
<1>4. CASE RejectSummary(j)
  BY <1>4 DEF frame, Goto, machine, observed, RejectSummary, trace
<1>5. CASE RejectClose(j)
  BY <1>5 DEF Goto, JobEnds, observed, RejectClose, trace
<1> QED
  BY <1>1, <1>2, <1>3, <1>4, <1>5 DEF Rejecting

LEMMA StartingRefines ==
  ASSUME TypeOK, OneShotInv, NEW j \in Jobs, Starting(j)
  PROVE  [Abstract!Next]_(Abstract!vars)
<1> USE OneShotTypes, NoJobAssumption DEF OneShotInv, OwnerActs,
        UnclaimedEmpty, InOrder, Ended, Settled, LaunchedAtMostOnce,
        Unlaunched, Unrecorded, Periods, Abstract!vars, Abstract!Next,
        Abstract!Claim, Abstract!Launch, Abstract!Settle, Abstract!Close,
        Abstract!Periods
<1>1. CASE WriteManifest(j)
  BY <1>1 DEF frame, Goto, machine, observed, trace, WriteManifest
<1>2. CASE OpenTrace(j)
  BY <1>2 DEF durable, Goto, machine, observed, OpenTrace, trace
<1>3. CASE StartPair(j)
  BY <1>3 DEF frame, Goto, machine, observed, StartPair, trace
<1> QED
  BY <1>1, <1>2, <1>3 DEF Starting

LEMMA LaunchingRefines ==
  ASSUME TypeOK, OneShotInv, NEW j \in Jobs, Launching(j)
  PROVE  [Abstract!Next]_(Abstract!vars)
<1> USE OneShotTypes, NoJobAssumption DEF OneShotInv, OwnerActs,
        UnclaimedEmpty, InOrder, Ended, Settled, LaunchedAtMostOnce,
        Unlaunched, Unrecorded, Periods, Abstract!vars, Abstract!Next,
        Abstract!Claim, Abstract!Launch, Abstract!Settle, Abstract!Close,
        Abstract!Periods
<1>1. CASE GatePass(j)
  BY <1>1 DEF durable, frame, GatePass, Goto, machine, observed
<1>2. CASE GateFail(j)
  BY <1>2 DEF durable, GateFail, Goto, machine, observed
<1>3. CASE Prepare(j)
  BY <1>3 DEF durable, Goto, machine, observed, Prepare, trace
<1>4. CASE PrepareFail(j)
  BY <1>4 DEF durable, Goto, machine, observed, PrepareFail, trace
<1>5. CASE Dispatch(j)
  BY <1>5 DEF Dispatch, frame, Goto, machine, observed, trace
<1>6. CASE Popen(j)
  BY <1>6 DEF durable, frame, Goto, Popen, Remains, trace
<1>7. CASE PopenFail(j)
  BY <1>7 DEF durable, Goto, machine, observed, PopenFail, trace
<1>8. CASE Mark(j)
  BY <1>8 DEF durable, Goto, machine, Mark, observed, trace
<1>9. CASE RecordSpawn(j)
  BY <1>9 DEF frame, Goto, observed, RecordSpawn, trace
<1> QED
  BY <1>1, <1>2, <1>3, <1>4, <1>5, <1>6, <1>7, <1>8, <1>9 DEF Launching

LEMMA EndingRefines ==
  ASSUME TypeOK, OneShotInv, NEW j \in Jobs, Ending(j)
  PROVE  [Abstract!Next]_(Abstract!vars)
<1> USE OneShotTypes, NoJobAssumption DEF OneShotInv, OwnerActs,
        UnclaimedEmpty, InOrder, Ended, Settled, LaunchedAtMostOnce,
        Unlaunched, Unrecorded, Periods, Abstract!vars, Abstract!Next,
        Abstract!Claim, Abstract!Launch, Abstract!Settle, Abstract!Close,
        Abstract!Periods
<1>1. CASE PayloadStopped(j)
  BY <1>1 DEF durable, Goto, machine, observed, PayloadStopped, trace
<1>2. CASE JoinSampler(j)
  BY <1>2 DEF durable, Goto, JoinSampler, observed, trace
<1>3. CASE Cleanup(j)
  BY <1>3 DEF Cleanup, durable, Goto, observed, trace
<1> QED
  BY <1>1, <1>2, <1>3 DEF Ending

LEMMA SettlingRefines ==
  ASSUME TypeOK, OneShotInv, NEW j \in Jobs, Settling(j)
  PROVE  [Abstract!Next]_(Abstract!vars)
<1> USE OneShotTypes, NoJobAssumption DEF OneShotInv, OwnerActs,
        UnclaimedEmpty, InOrder, Ended, Settled, LaunchedAtMostOnce,
        Unlaunched, Unrecorded, Periods, Abstract!vars, Abstract!Next,
        Abstract!Claim, Abstract!Launch, Abstract!Settle, Abstract!Close,
        Abstract!Periods
<1>1. CASE Assess(j)
  BY <1>1 DEF Assess, durable, Goto, machine, observed, trace
<1>2. CASE AssessRaises(j)
  BY <1>2 DEF AssessRaises, durable, Goto, machine, observed, trace
<1>3. CASE PostIdle(j)
  BY <1>3 DEF durable, Goto, machine, observed, PostIdle
<1>4. CASE PostNotIdle(j)
  BY <1>4 DEF durable, Goto, machine, observed, PostNotIdle, trace
<1>5. CASE PostRaises(j)
  BY <1>5 DEF durable, Goto, machine, observed, PostRaises, trace
<1>6. CASE Finish(j)
  BY <1>6 DEF Blank, Finish, frame, Goto, machine, observed, Partial,
        RecordOf, ResultType, Statuses, trace
<1>7. CASE Terminal(j)
  BY <1>7 DEF AfterPeriod, machine, observed, Terminal, trace
<1>8. CASE Summarise(j)
  BY <1>8 DEF frame, Goto, machine, observed, Summarise, trace
<1>9. CASE ClosePair(j)
  BY <1>9 DEF ClosePair, Goto, JobEnds, observed, trace
<1> QED
  BY <1>1, <1>2, <1>3, <1>4, <1>5, <1>6, <1>7, <1>8, <1>9 DEF Settling

LEMMA InterruptRefines ==
  ASSUME TypeOK, OneShotInv, NEW j \in Jobs, Interrupt(j)
  PROVE  [Abstract!Next]_(Abstract!vars)
<1> USE OneShotTypes, NoJobAssumption DEF OneShotInv, OwnerActs,
        UnclaimedEmpty, InOrder, Ended, Settled, LaunchedAtMostOnce,
        Unlaunched, Unrecorded, Periods, Abstract!vars, Abstract!Next,
        Abstract!Claim, Abstract!Launch, Abstract!Settle, Abstract!Close,
        Abstract!Periods
<1>1. CASE InterruptEarly(j)
  BY <1>1 DEF durable, frame, InterruptEarly, machine, trace, Unheard
<1>2. CASE InterruptBare(j)
  BY <1>2 DEF Blank, InterruptBare, JobEnds, Partial, Statuses, trace, Unheard
<1>3. CASE InterruptVerify(j)
  BY <1>3 DEF durable, frame, Goto, InterruptVerify, machine, trace, Unheard
<1>4. CASE InterruptStart(j)
  BY <1>4 DEF frame, Goto, InterruptStart, machine, trace, Unheard
<1>5. CASE InterruptTry(j)
  BY <1>5 DEF InterruptTry, machine, trace, Unheard
<1>6. CASE InterruptPayload(j)
  BY <1>6 DEF InterruptPayload, machine, trace
<1>7. CASE InterruptCleanup(j)
  BY <1>7 DEF durable, InterruptCleanup, trace
<1>8. CASE InterruptAssess(j)
  BY <1>8 DEF durable, InterruptAssess, machine, Unheard
<1>9. CASE InterruptFinally(j)
  BY <1>9 DEF Blank, frame, InterruptFinally, machine, Partial, Statuses,
        trace, Unheard
<1>10. CASE InterruptUnstarted(j)
  BY <1>10 DEF Goto, InterruptUnstarted, machine, trace
<1> QED
  BY <1>1, <1>2, <1>3, <1>4, <1>5, <1>6, <1>7, <1>8, <1>9, <1>10 DEF Interrupt

LEMMA SamplingRefines ==
  ASSUME TypeOK, OneShotInv, NEW j \in Jobs, Sampling(j)
  PROVE  [Abstract!Next]_(Abstract!vars)
<1> USE OneShotTypes, NoJobAssumption DEF OneShotInv, OwnerActs,
        UnclaimedEmpty, InOrder, Ended, Settled, LaunchedAtMostOnce,
        Unlaunched, Unrecorded, Periods, Abstract!vars, Abstract!Next,
        Abstract!Claim, Abstract!Launch, Abstract!Settle, Abstract!Close,
        Abstract!Periods
<1>1. CASE Tick(j)
  BY <1>1 DEF durable, machine, observed, Tick
<1>2. CASE SamplerFail(j)
  BY <1>2 DEF durable, observed, SamplerFail, trace
<1>3. ASSUME NEW p \in Periods, LateTick(j, p) PROVE [Abstract!Next]_(Abstract!vars)
  BY <1>3 DEF LateTick, durable, frame, machine, observed
<1>4. ASSUME NEW p \in Periods, LateStop(j, p) PROVE [Abstract!Next]_(Abstract!vars)
  BY <1>4 DEF LateStop, durable, trace, frame, observed
<1> QED
  BY <1>1, <1>2, <1>3, <1>4 DEF Sampling

LEMMA PayloadExitRefines ==
  ASSUME TypeOK, OneShotInv, NEW j \in Jobs, PayloadExit(j)
  PROVE  [Abstract!Next]_(Abstract!vars)
BY OneShotTypes, NoJobAssumption DEF Abstract!Claim, Abstract!Close,
        Abstract!Launch, Abstract!Next, Abstract!Periods, Abstract!Settle,
        Abstract!vars, durable, Ended, Goto, InOrder, LaunchedAtMostOnce,
        observed, OneShotInv, OwnerActs, PayloadExit, Periods, Settled, trace,
        UnclaimedEmpty, Unlaunched, Unrecorded

LEMMA CrashRefines ==
  ASSUME TypeOK, OneShotInv, NEW j \in Jobs, Crash(j)
  PROVE  [Abstract!Next]_(Abstract!vars)
BY OneShotTypes, NoJobAssumption DEF Abstract!Claim, Abstract!Close,
        Abstract!Launch, Abstract!Next, Abstract!Periods, Abstract!Settle,
        Abstract!vars, Blank, Crash, Ended, InOrder, JobEnds,
        LaunchedAtMostOnce, observed, OneShotInv, OwnerActs, Partial, Periods,
        Settled, Statuses, UnclaimedEmpty, Unlaunched, Unrecorded

LEMMA RefinedStep ==
  ASSUME TypeOK, OneShotInv, [Next]_vars
  PROVE  [Abstract!Next]_(Abstract!vars)
<1>1. CASE UNCHANGED vars
  BY <1>1 DEF vars, durable, trace, frame, machine, observed,
     Abstract!vars, Settled, Ended
<1>2. ASSUME NEW j \in Jobs, Runner(j) PROVE [Abstract!Next]_(Abstract!vars)
  BY <1>2, ClaimingRefines, RejectingRefines, StartingRefines, LaunchingRefines,
     EndingRefines, SettlingRefines DEF Runner
<1>3. ASSUME NEW j \in Jobs, PayloadExit(j) PROVE [Abstract!Next]_(Abstract!vars)
  BY <1>3, PayloadExitRefines
<1>4. ASSUME NEW j \in Jobs, Sampling(j) PROVE [Abstract!Next]_(Abstract!vars)
  BY <1>4, SamplingRefines
<1>5. ASSUME NEW j \in Jobs, Interrupt(j) PROVE [Abstract!Next]_(Abstract!vars)
  BY <1>5, InterruptRefines
<1>6. ASSUME NEW j \in Jobs, Crash(j) PROVE [Abstract!Next]_(Abstract!vars)
  BY <1>6, CrashRefines
<1> QED
  BY <1>1, <1>2, <1>3, <1>4, <1>5, <1>6 DEF Next

(* The runner keeps every promise of the one-shot pair: one claimant, each *)
(* slot launched at most once and in order, a settled slot settled for     *)
(* ever, and nothing after the claimant has stopped.                       *)
THEOREM RunnerIsOneShot == Spec => ImplementsOneShot
<1>1. TypeOK /\ OneShotInv /\ [Next]_vars => [Abstract!Next]_(Abstract!vars)
  BY RefinedStep
<1> QED
  BY RefinedInit, TypeCorrect, OneShotAlways, <1>1, PTL
     DEF Spec, ImplementsOneShot, Abstract!Spec

-----------------------------------------------------------------------------
(* What a claim leaves behind, for any number of signals: the invariant    *)
(* says what has been written when the claimant is where it is.            *)

(* What the ledger says has come to its end.                               *)
Terminated == {p \in Periods : Logged("terminal", p)}
PairTerminated == Logged("pair_terminal", 0)

(* Where both periods have been settled, and where the summary is written. *)
Closing == {"rejSummary", "rejClose", "summary", "close", "done"}
Summarised == {"rejClose", "close", "done"}

(* The claimant has written what the steps behind it write: the manifest,  *)
(* the record and the terminal event of each period before its own, or of  *)
(* both, and then the summary and the last event.                          *)
WrittenBehind(j) ==
  /\ pc[j] \notin {"claimed", "verify", "manifest", "rejManifest"} =>
       manifest \in {"noalloc", "alloc"}
  /\ \A p \in Periods : p < period[j] \/ pc[j] \in Closing => Settled(p) /\ p \in Terminated
  /\ pc[j] \in Summarised => summary
  /\ pc[j] = "done" => PairTerminated

AccountInv == \A j \in Jobs : claim = j /\ pc[j] # "dead" /\ ~unguarded => WrittenBehind(j)

Grows == ledger' = ledger \/ \E e \in EventType : ledger' = Append(ledger, e)
LogKept ==
  (\A p \in Periods : p \in Terminated => p \in Terminated') /\ (PairTerminated => PairTerminated')

(* An event in the ledger stays there, and one that is written is there.   *)
LEMMA LoggedKept ==
  ASSUME TypeOK, Grows
  PROVE  LogKept
<1> ledger \in Seq(EventType)
  BY DEF TypeOK
<1>1. ASSUME NEW e \in EventType, ledger' = Append(ledger, e) PROVE LogKept
  <2>1. Len(ledger') = Len(ledger) + 1 /\ \A i \in 1..Len(ledger) : ledger'[i] = ledger[i]
    BY <1>1
  <2>2. 1..Len(ledger) \subseteq 1..Len(ledger')
    BY <2>1
  <2> QED
    BY <2>1, <2>2 DEF LogKept, Terminated, PairTerminated, Logged
<1>2. CASE ledger' = ledger
  BY <1>2 DEF LogKept, Terminated, PairTerminated, Logged
<1> QED
  BY <1>1, <1>2 DEF Grows

LEMMA EventWritten ==
  ASSUME TypeOK, NEW e \in PairEvents \cup PeriodEvents, NEW p \in 0..2, NEW n \in Nat,
         Write(e, p, n)
  PROVE  \E i \in 1..Len(ledger') : ledger'[i].event = e /\ ledger'[i].period = p
<1>1. ledger \in Seq(EventType) /\ Event(e, p, n) \in EventType
  BY EventTyped DEF TypeOK
<1>2. ledger' = Append(ledger, Event(e, p, n))
  BY DEF Write
<1>3. Len(ledger) + 1 \in 1..Len(ledger') /\ ledger'[Len(ledger) + 1] = Event(e, p, n)
  BY <1>1, <1>2
<1> QED
  BY <1>3 DEF Event

LEMMA TerminalWritten ==
  ASSUME TypeOK, NEW j \in Jobs, Emit(j, "terminal", period[j])
  PROVE  period[j] \in Periods /\ period[j] \in Terminated'
<1>1. period[j] \in Periods /\ period[j] \in 0..2 /\ seq[j] \in Nat
  BY DEF TypeOK, Periods
<1>2. "terminal" \in PairEvents \cup PeriodEvents
  BY DEF PeriodEvents
<1> QED
  BY <1>1, <1>2, EventWritten DEF Emit, Terminated, Logged

LEMMA PairTerminalWritten ==
  ASSUME TypeOK, NEW j \in Jobs, Write("pair_terminal", 0, seq[j])
  PROVE  PairTerminated'
<1>1. seq[j] \in Nat /\ 0 \in 0..2
  BY DEF TypeOK
<1>2. "pair_terminal" \in PairEvents \cup PeriodEvents
  BY DEF PairEvents
<1> QED
  BY <1>1, <1>2, EventWritten DEF PairTerminated, Logged

(* Whatever happens, a line is appended to the ledger or none is.          *)
LEMMA WriteGrows ==
  ASSUME TypeOK, NEW e \in PairEvents \cup PeriodEvents, NEW p \in 0..2, NEW j \in Jobs,
         Write(e, p, seq[j])
  PROVE  Grows
<1>1. seq[j] \in Nat
  BY DEF TypeOK
<1> QED
  BY <1>1, EventTyped DEF Write, Grows

LEMMA InterruptedGrows ==
  ASSUME TypeOK, NEW j \in Jobs, InterruptedEmit(j)
  PROVE  Grows
BY EmitsTyped DEF InterruptedEmit, Grows

LEMMA LedgerGrows ==
  ASSUME TypeOK, [Next]_vars
  PROVE  Grows
<1> \A j \in Jobs : period[j] \in 0..2
  BY DEF TypeOK, Periods
<1>1. CASE UNCHANGED vars
  BY <1>1 DEF vars, durable, Grows
<1>2. ASSUME NEW j \in Jobs, Runner(j) PROVE Grows
  <2>1. CASE Claiming(j)
    BY <2>1, WriteGrows DEF Claiming, Enter, ClaimPair, ClaimTaken, RecordClaim, Verify, AllocationContext,
       durable, Emit, PairEvents, Grows
  <2>2. CASE Rejecting(j)
    BY <2>2, WriteGrows DEF Rejecting, RejectManifest, RejectRecord, RejectTerminal,
       RejectSummary, RejectClose, Emit, PairEvents, PeriodEvents, Grows
  <2>3. CASE Starting(j)
    BY <2>3, WriteGrows DEF Starting, WriteManifest, OpenTrace, StartPair, durable, Emit,
       PairEvents, Grows
  <2>4. CASE Launching(j)
    BY <2>4, WriteGrows DEF Launching, GatePass, GateFail, Prepare, PrepareFail, Dispatch, Popen,
       PopenFail, Mark, RecordSpawn, durable, Emit, PeriodEvents, Grows
  <2>5. CASE Ending(j)
    BY <2>5 DEF Ending, PayloadStopped, JoinSampler, Cleanup, durable, Grows
  <2>6. CASE Settling(j)
    BY <2>6, WriteGrows DEF Settling, Assess, AssessRaises, PostIdle, PostNotIdle, PostRaises,
       Finish, Terminal, Summarise, ClosePair, durable, Emit, PairEvents, PeriodEvents, Grows
  <2> QED
    BY <1>2, <2>1, <2>2, <2>3, <2>4, <2>5, <2>6 DEF Runner
<1>3. ASSUME NEW j \in Jobs, PayloadExit(j) PROVE Grows
  BY <1>3 DEF PayloadExit, durable, Grows
<1>4. ASSUME NEW j \in Jobs, Sampling(j) PROVE Grows
  <2>1. CASE Tick(j) \/ SamplerFail(j)
    BY <2>1 DEF Tick, SamplerFail, durable, Grows
  <2>2. ASSUME NEW p \in Periods, LateTick(j, p) \/ LateStop(j, p) PROVE Grows
    BY <2>2 DEF LateTick, LateStop, durable, Grows
  <2> QED
    BY <1>4, <2>1, <2>2 DEF Sampling
<1>5. ASSUME NEW j \in Jobs, Interrupt(j) PROVE Grows
  <2>1. CASE InterruptUnstarted(j)
    BY <2>1, WriteGrows DEF InterruptUnstarted, Emit, PeriodEvents
  <2>2. CASE InterruptEarly(j)
    BY <2>2, InterruptedGrows DEF InterruptEarly, durable, Grows
  <2>3. CASE InterruptBare(j)
    BY <2>3, InterruptedGrows DEF InterruptBare, durable, Grows
  <2>4. CASE InterruptVerify(j) \/ InterruptCleanup(j) \/ InterruptAssess(j)
    BY <2>4 DEF InterruptVerify, InterruptCleanup, InterruptAssess, durable, Grows
  <2>5. CASE InterruptStart(j) \/ InterruptTry(j)
    BY <2>5, InterruptedGrows DEF InterruptStart, InterruptTry
  <2>6. CASE InterruptPayload(j)
    <3>1. InterruptedEmit(j)
      BY <2>6, Zenon DEF InterruptPayload
    <3> QED
      BY <3>1, InterruptedGrows
  <2>7. CASE InterruptFinally(j)
    BY <2>7, InterruptedGrows DEF InterruptFinally
  <2> QED
    BY <1>5, <2>1, <2>2, <2>3, <2>4, <2>5, <2>6, <2>7 DEF Interrupt
<1>6. ASSUME NEW j \in Jobs, Crash(j) PROVE Grows
  BY <1>6, ValueTypes DEF Crash, Grows
<1> QED
  BY <1>1, <1>2, <1>3, <1>4, <1>5, <1>6 DEF Next

LEMMA AccountInit == Init => AccountInv
BY NoJobAssumption DEF Init, AccountInv

LEMMA ClaimingKeepsAccount ==
  ASSUME TypeOK, OneShotInv, AccountInv, LogKept, NEW j \in Jobs,
         Claiming(j)
  PROVE  AccountInv'
<1> USE OneShotTypes DEF OneShotInv, OwnerActs, InOrder, Ended, Settled, Periods,
        Unrecorded, LogKept, AccountInv, WrittenBehind, Closing, Summarised
<1>1. CASE Enter(j)
  BY <1>1 DEF durable, Enter, frame, machine, observed, trace
<1>2. CASE ClaimPair(j)
  BY <1>2 DEF ClaimFree, ClaimPair, frame, Goto, machine, observed, trace
<1>3. CASE ClaimTaken(j)
  BY <1>3 DEF ClaimFree, ClaimTaken, durable, frame, Goto, machine, observed,
        trace
<1>4. CASE RecordClaim(j)
  BY <1>4 DEF frame, Goto, machine, observed, RecordClaim, trace
<1>5. CASE Verify(j)
  BY <1>5 DEF durable, frame, machine, observed, trace, Verify, AllocationContext
<1> QED
  BY <1>1, <1>2, <1>3, <1>4, <1>5 DEF Claiming

LEMMA RejectingKeepsAccount ==
  ASSUME TypeOK, OneShotInv, AccountInv, LogKept, NEW j \in Jobs,
         Rejecting(j)
  PROVE  AccountInv'
<1> USE OneShotTypes DEF OneShotInv, OwnerActs, InOrder, Ended, Settled, Periods,
        Unrecorded, LogKept, AccountInv, WrittenBehind, Closing, Summarised
<1>1. CASE RejectManifest(j)
  BY <1>1 DEF frame, Goto, machine, observed, RejectManifest, trace
<1>2. CASE RejectRecord(j)
  BY <1>2 DEF Blank, frame, Goto, machine, observed, Partial, RejectRecord,
        Statuses, trace
<1>3. CASE RejectTerminal(j)
  BY <1>3, TerminalWritten DEF AfterPeriod, machine, observed, RejectTerminal, trace
<1>4. CASE RejectSummary(j)
  BY <1>4 DEF frame, Goto, machine, observed, RejectSummary, trace
<1>5. CASE RejectClose(j)
  BY <1>5, PairTerminalWritten DEF Goto, JobEnds, observed, RejectClose, trace
<1> QED
  BY <1>1, <1>2, <1>3, <1>4, <1>5 DEF Rejecting

LEMMA StartingKeepsAccount ==
  ASSUME TypeOK, OneShotInv, AccountInv, LogKept, NEW j \in Jobs,
         Starting(j)
  PROVE  AccountInv'
<1> USE OneShotTypes DEF OneShotInv, OwnerActs, InOrder, Ended, Settled, Periods,
        Unrecorded, LogKept, AccountInv, WrittenBehind, Closing, Summarised
<1>1. CASE WriteManifest(j)
  BY <1>1 DEF frame, Goto, machine, observed, trace, WriteManifest
<1>2. CASE OpenTrace(j)
  BY <1>2 DEF durable, Goto, machine, observed, OpenTrace, trace
<1>3. CASE StartPair(j)
  BY <1>3 DEF frame, Goto, machine, observed, StartPair, trace
<1> QED
  BY <1>1, <1>2, <1>3 DEF Starting

LEMMA LaunchingKeepsAccount ==
  ASSUME TypeOK, OneShotInv, AccountInv, LogKept, NEW j \in Jobs,
         Launching(j)
  PROVE  AccountInv'
<1> USE OneShotTypes DEF OneShotInv, OwnerActs, InOrder, Ended, Settled, Periods,
        Unrecorded, LogKept, AccountInv, WrittenBehind, Closing, Summarised
<1>1. CASE GatePass(j)
  BY <1>1 DEF durable, frame, GatePass, Goto, machine, observed
<1>2. CASE GateFail(j)
  BY <1>2 DEF durable, GateFail, Goto, machine, observed
<1>3. CASE Prepare(j)
  BY <1>3 DEF durable, Goto, machine, observed, Prepare, trace
<1>4. CASE PrepareFail(j)
  BY <1>4 DEF durable, Goto, machine, observed, PrepareFail, trace
<1>5. CASE Dispatch(j)
  BY <1>5 DEF Dispatch, frame, Goto, machine, observed, trace
<1>6. CASE Popen(j)
  BY <1>6 DEF durable, frame, Goto, Popen, Remains, trace
<1>7. CASE PopenFail(j)
  BY <1>7 DEF durable, Goto, machine, observed, PopenFail, trace
<1>8. CASE Mark(j)
  BY <1>8 DEF durable, Goto, machine, Mark, observed, trace
<1>9. CASE RecordSpawn(j)
  BY <1>9 DEF frame, Goto, observed, RecordSpawn, trace
<1> QED
  BY <1>1, <1>2, <1>3, <1>4, <1>5, <1>6, <1>7, <1>8, <1>9 DEF Launching

LEMMA EndingKeepsAccount ==
  ASSUME TypeOK, OneShotInv, AccountInv, LogKept, NEW j \in Jobs,
         Ending(j)
  PROVE  AccountInv'
<1> USE OneShotTypes DEF OneShotInv, OwnerActs, InOrder, Ended, Settled, Periods,
        Unrecorded, LogKept, AccountInv, WrittenBehind, Closing, Summarised
<1>1. CASE PayloadStopped(j)
  BY <1>1 DEF durable, Goto, machine, observed, PayloadStopped, trace
<1>2. CASE JoinSampler(j)
  BY <1>2 DEF durable, Goto, JoinSampler, observed, trace
<1>3. CASE Cleanup(j)
  BY <1>3 DEF Cleanup, durable, Goto, observed, trace
<1> QED
  BY <1>1, <1>2, <1>3 DEF Ending

LEMMA SettlingKeepsAccount ==
  ASSUME TypeOK, OneShotInv, AccountInv, LogKept, NEW j \in Jobs,
         Settling(j)
  PROVE  AccountInv'
<1> USE OneShotTypes DEF OneShotInv, OwnerActs, InOrder, Ended, Settled, Periods,
        Unrecorded, LogKept, AccountInv, WrittenBehind, Closing, Summarised
<1>1. CASE Assess(j)
  BY <1>1 DEF Assess, durable, Goto, machine, observed, trace
<1>2. CASE AssessRaises(j)
  BY <1>2 DEF AssessRaises, durable, Goto, machine, observed, trace
<1>3. CASE PostIdle(j)
  BY <1>3 DEF durable, Goto, machine, observed, PostIdle
<1>4. CASE PostNotIdle(j)
  BY <1>4 DEF durable, Goto, machine, observed, PostNotIdle, trace
<1>5. CASE PostRaises(j)
  BY <1>5 DEF durable, Goto, machine, observed, PostRaises, trace
<1>6. CASE Finish(j)
  BY <1>6 DEF Blank, Finish, frame, Goto, machine, observed, Partial,
        RecordOf, ResultType, Statuses, trace
<1>7. CASE Terminal(j)
  BY <1>7, TerminalWritten DEF AfterPeriod, machine, observed, Terminal, trace
<1>8. CASE Summarise(j)
  BY <1>8 DEF frame, Goto, machine, observed, Summarise, trace
<1>9. CASE ClosePair(j)
  BY <1>9, PairTerminalWritten DEF ClosePair, Goto, JobEnds, observed, trace
<1> QED
  BY <1>1, <1>2, <1>3, <1>4, <1>5, <1>6, <1>7, <1>8, <1>9 DEF Settling

LEMMA InterruptKeepsAccount ==
  ASSUME TypeOK, OneShotInv, AccountInv, LogKept, NEW j \in Jobs,
         Interrupt(j)
  PROVE  AccountInv'
<1> USE OneShotTypes DEF OneShotInv, OwnerActs, InOrder, Ended, Settled, Periods,
        Unrecorded, LogKept, AccountInv, WrittenBehind, Closing, Summarised
<1>1. CASE InterruptEarly(j)
  BY <1>1 DEF durable, frame, InterruptEarly, machine, trace, Unheard
<1>2. CASE InterruptBare(j)
  BY <1>2 DEF Blank, InterruptBare, JobEnds, Partial, Statuses, trace, Unheard
<1>3. CASE InterruptVerify(j)
  BY <1>3 DEF durable, frame, Goto, InterruptVerify, machine, trace, Unheard
<1>4. CASE InterruptStart(j)
  BY <1>4 DEF frame, Goto, InterruptStart, machine, trace, Unheard
<1>5. CASE InterruptTry(j)
  BY <1>5 DEF InterruptTry, machine, trace, Unheard
<1>6. CASE InterruptPayload(j)
  BY <1>6 DEF InterruptPayload, machine, trace
<1>7. CASE InterruptCleanup(j)
  BY <1>7 DEF durable, InterruptCleanup, trace
<1>8. CASE InterruptAssess(j)
  BY <1>8 DEF durable, InterruptAssess, machine, Unheard
<1>9. CASE InterruptFinally(j)
  BY <1>9 DEF Blank, frame, InterruptFinally, machine, Partial, Statuses,
        trace, Unheard
<1>10. CASE InterruptUnstarted(j)
  BY <1>10 DEF Goto, InterruptUnstarted, machine, trace
<1> QED
  BY <1>1, <1>2, <1>3, <1>4, <1>5, <1>6, <1>7, <1>8, <1>9, <1>10 DEF Interrupt

LEMMA SamplingKeepsAccount ==
  ASSUME TypeOK, OneShotInv, AccountInv, LogKept, NEW j \in Jobs,
         Sampling(j)
  PROVE  AccountInv'
<1> USE OneShotTypes DEF OneShotInv, OwnerActs, InOrder, Ended, Settled, Periods,
        Unrecorded, LogKept, AccountInv, WrittenBehind, Closing, Summarised
<1>1. CASE Tick(j)
  BY <1>1 DEF durable, machine, observed, Tick
<1>2. CASE SamplerFail(j)
  BY <1>2 DEF durable, observed, SamplerFail, trace
<1>3. ASSUME NEW p \in Periods, LateTick(j, p) PROVE AccountInv'
  BY <1>3 DEF LateTick, durable, frame, machine, observed
<1>4. ASSUME NEW p \in Periods, LateStop(j, p) PROVE AccountInv'
  BY <1>4 DEF LateStop, durable, trace, frame, observed
<1> QED
  BY <1>1, <1>2, <1>3, <1>4 DEF Sampling

LEMMA PayloadExitKeepsAccount ==
  ASSUME TypeOK, OneShotInv, AccountInv, LogKept, NEW j \in Jobs,
         PayloadExit(j)
  PROVE  AccountInv'
BY OneShotTypes DEF durable, Ended, Goto, InOrder, observed, OneShotInv, OwnerActs,
        PayloadExit, Periods, Settled, trace, LogKept, AccountInv, WrittenBehind,
        Closing, Summarised

LEMMA CrashKeepsAccount ==
  ASSUME TypeOK, OneShotInv, AccountInv, LogKept, NEW j \in Jobs,
         Crash(j)
  PROVE  AccountInv'
BY OneShotTypes DEF Crash, JobEnds, observed, OneShotInv, OwnerActs, AccountInv

LEMMA AccountStep ==
  ASSUME TypeOK, OneShotInv, AccountInv, [Next]_vars
  PROVE  AccountInv'
<1>log. LogKept
  BY LedgerGrows, LoggedKept
<1>1. CASE UNCHANGED vars
  BY <1>1, <1>log DEF vars, durable, trace, frame, machine, observed,
     AccountInv, WrittenBehind, LogKept, Settled
<1>2. ASSUME NEW j \in Jobs, Runner(j) PROVE AccountInv'
  BY <1>log, <1>2, ClaimingKeepsAccount, RejectingKeepsAccount, StartingKeepsAccount,
     LaunchingKeepsAccount, EndingKeepsAccount, SettlingKeepsAccount DEF Runner
<1>3. ASSUME NEW j \in Jobs, PayloadExit(j) PROVE AccountInv'
  BY <1>log, <1>3, PayloadExitKeepsAccount
<1>4. ASSUME NEW j \in Jobs, Sampling(j) PROVE AccountInv'
  BY <1>log, <1>4, SamplingKeepsAccount
<1>5. ASSUME NEW j \in Jobs, Interrupt(j) PROVE AccountInv'
  BY <1>log, <1>5, InterruptKeepsAccount
<1>6. ASSUME NEW j \in Jobs, Crash(j) PROVE AccountInv'
  BY <1>log, <1>6, CrashKeepsAccount
<1> QED
  BY <1>1, <1>2, <1>3, <1>4, <1>5, <1>6 DEF Next

LEMMA AccountAlways == Spec => []AccountInv
<1>1. TypeOK /\ OneShotInv /\ AccountInv /\ [Next]_vars => AccountInv'
  BY AccountStep
<1> QED
  BY AccountInit, TypeCorrect, OneShotAlways, <1>1, PTL DEF Spec

(* The finally clauses of execute_pair: whatever is signalled where a      *)
(* handler accounts for the slot, a claimed pair that ends has its         *)
(* manifest, both records, both terminal events, the summary and its own   *)
(* terminal event.                                                         *)
THEOREM ClaimAccounted == Spec => []Accounted
<1>1. AccountInv => Accounted
  BY DEF AccountInv, WrittenBehind, Closing, Summarised, Terminated, PairTerminated, Settled,
     Accounted
<1> QED
  BY AccountAlways, <1>1, PTL

-----------------------------------------------------------------------------
(* The collector.  What it says of a slot is true whatever the runner met. *)

(* The steps of a period by what they have behind them. *)
Rejected == {"rejManifest", "rejRecord", "rejTerminal", "rejSummary", "rejClose"}
BeforePeriods == {"claimed", "verify", "rejManifest", "manifest", "trace", "started"}
Supervised == {"stop", "cleanup", "assess", "post"}
Prepared == {"dispatch", "popen", "mark", "emitSpawn", "wait"} \cup Supervised

(* Of the period the claimant is in: nothing of an execution is there      *)
(* before the payload, a payload process and its files are there from      *)
(* Popen on, and an execution a signal has reached is not sound.           *)
Frame(j) ==
  LET p == period[j] IN
  /\ pc[j] \in Unlaunched \cup Rejected =>
       exec[j] = NoExec /\ ~hit[p] /\ res[j].status = "not_launched" /\ ~res[j].launched
  /\ pc[j] \in BeforePeriods => p = 1
  /\ pc[j] \in Rejected => \A q \in Periods : spawns[q] = 0
  /\ pc[j] \in Prepared \/ (pc[j] = "finish" /\ spawns[p] > 0) => res[j].files
  /\ pc[j] \in {"mark", "emitSpawn", "wait"} => spawns[p] = 1 /\ ~hit[p]
  /\ exec[j].spawned \/ res[j].launched => spawns[p] = 1
  /\ hit[p] /\ pc[j] \in Supervised => exec[j].invalid
  /\ hit[p] /\ pc[j] = "finish" => ~Sound(exec[j])
  /\ \A q \in Periods : q > p => ~hit[q]

(* What a record says of its slot is true.                                 *)
RecordTrue(p) ==
  Settled(p) =>
    /\ record[p].sound => ~hit[p]
    /\ record[p].launched => spawns[p] = 1
    /\ spawns[p] > 0 => record[p].files

(* Nothing is left of the period's payload, process or sampler. *)
Gone(p) == live[p] \notin {"run", "left"} /\ ~sampler[p]

(* How a post gate comes to say that nothing is left: an execution that is *)
(* complete and was not interrupted has left nothing, any other is fatal.  *)
Gate(j) ==
  LET p == period[j] IN
  /\ pc[j] \in Unlaunched \cup Rejected \cup {"mark", "emitSpawn", "wait"} \cup Supervised =>
       ~ev[p].post
  /\ \A q \in Periods : q > p => ~ev[q].post
  /\ \A q \in Periods : q > p \/ (q = p /\ pc[j] \in Unlaunched \cup Rejected) =>
       live[q] = "none" /\ ~sampler[q]
  /\ pc[j] \in {"prep", "dispatch", "popen"} => ~fatal[j]
  /\ pc[j] \in {"emitSpawn", "wait"} => exec[j].tracked
  /\ pc[j] \in {"stop", "cleanup"} /\ ~exec[j].tracked /\ ~exec[j].interrupted => live[p] = "none"
  /\ pc[j] = "cleanup" /\ exec[j].joined => ~sampler[p]
  /\ pc[j] \in {"assess", "post"} /\ exec[j].complete /\ ~exec[j].interrupted => Gone(p)
  /\ p = 2 \/ pc[j] \in {"finish", "terminal"} => (ev[1].post /\ ~fatal[j] => Gone(1))
  /\ overlap => p = 2

VerdictInv ==
  /\ \A j \in Jobs : claim = j /\ ~Ended(j) => Frame(j) /\ Gate(j)
  /\ \A p \in Periods : RecordTrue(p)
  /\ overlap => ~ev[1].post
  /\ claim = NoJob => ~overlap /\ \A p \in Periods :
       ~hit[p] /\ ev[p] = NoTrace /\ live[p] = "none" /\ ~sampler[p]
  /\ \A j \in Jobs : pc[j] \in {"start", "mkdir"} => exec[j] = NoExec /\ res[j] = NoResult


LEMMA VerdictTypes ==
  ASSUME TypeOK
  PROVE  /\ pc \in [Jobs -> Labels] /\ period \in [Jobs -> Periods]
         /\ spawns \in [Periods -> Nat] /\ hit \in [Periods -> BOOLEAN]
         /\ record \in [Periods -> RecordType] /\ ev \in [Periods -> TraceType]
         /\ exec \in [Jobs -> ExecType] /\ res \in [Jobs -> ResultType]
         /\ fatal \in [Jobs -> BOOLEAN] /\ sampler \in [Periods -> BOOLEAN]
         /\ live \in [Periods -> {"none", "run", "left", "cleaned"}]
         /\ proof \in [Periods -> BOOLEAN] /\ signals \in Nat /\ seq \in [Jobs -> Nat]
BY DEF TypeOK

(* What the lines after the post gate let pass as not fatal.               *)
LEMMA IdleStops ==
  ASSUME TypeOK, NEW j \in Jobs, PostIdle(j), ~fatal'[j]
  PROVE  ~fatal[j] /\ exec[j].complete /\ ~exec[j].interrupted
<1>1. fatal \in [Jobs -> BOOLEAN]
  BY DEF TypeOK
<1>2. fatal'[j] = (fatal[j] \/ ~exec[j].complete \/ exec[j].interrupted)
  BY <1>1, Zenon DEF PostIdle
<1> QED
  BY <1>2, Zenon

(* The record is what the frame holds.                                     *)
LEMMA RecordWritten ==
  ASSUME TypeOK, NEW j \in Jobs, Finish(j)
  PROVE  /\ \A q \in Periods : q # period[j] => record'[q] = record[q]
         /\ record'[period[j]].launched = res[j].launched
         /\ record'[period[j]].status = res[j].status
         /\ record'[period[j]].files = res[j].files
         /\ record'[period[j]].dirty = exec[j].dirty
         /\ record'[period[j]].sound <=> Sound(exec[j])
<1>1. record \in [Periods -> RecordType] /\ period[j] \in Periods
  BY DEF TypeOK
<1>2. record' = [record EXCEPT ![period[j]] = RecordOf(j)]
  BY DEF Finish
<1> DEFINE s == Sound(exec[j])
<1>3. record'[period[j]].sound = s
  BY <1>1, <1>2, Zenon DEF RecordOf
<1>4. record'[period[j]].sound <=> s
  BY <1>3, Zenon
<1> HIDE DEF s
<1>5. /\ \A q \in Periods : q # period[j] => record'[q] = record[q]
      /\ record'[period[j]].launched = res[j].launched
      /\ record'[period[j]].status = res[j].status
      /\ record'[period[j]].files = res[j].files
      /\ record'[period[j]].dirty = exec[j].dirty
  BY <1>1, <1>2 DEF RecordOf
<1> QED
  BY <1>4, <1>5 DEF s

LEMMA VerdictInit == Init => VerdictInv
BY NoJobAssumption DEF Init, VerdictInv, RecordTrue, Settled, NoRecord, Blank, Statuses,
   Periods, Gone

LEMMA ClaimingKeepsVerdicts ==
  ASSUME TypeOK, OneShotInv, VerdictInv, NEW j \in Jobs,
         Claiming(j)
  PROVE  VerdictInv'
<1> USE VerdictTypes, NoJobAssumption DEF OneShotInv, OwnerActs, InOrder, Ended, Settled,
        Periods, Unlaunched, Unrecorded, LaunchedAtMostOnce, UnclaimedEmpty, VerdictInv, Frame,
        RecordTrue, Gate, Gone, Rejected, BeforePeriods, Supervised, Prepared, Sound
<1>1. CASE Enter(j)
  BY <1>1 DEF durable, Enter, frame, machine, observed, trace
<1>2. CASE ClaimPair(j)
  BY <1>2 DEF NoExec, NoResult, NoTrace, ClaimFree, ClaimPair, frame, Goto, machine, observed, trace
<1>3. CASE ClaimTaken(j)
  BY <1>3 DEF ClaimFree, ClaimTaken, durable, frame, Goto, machine, observed,
        trace
<1>4. CASE RecordClaim(j)
  BY <1>4 DEF frame, Goto, machine, observed, RecordClaim, trace
<1>5. CASE Verify(j)
  BY <1>5 DEF durable, frame, machine, observed, trace, Verify, AllocationContext
<1> HIDE DEF VerdictInv
<1> QED
  BY <1>1, <1>2, <1>3, <1>4, <1>5 DEF Claiming

LEMMA RejectingKeepsVerdicts ==
  ASSUME TypeOK, OneShotInv, VerdictInv, NEW j \in Jobs,
         Rejecting(j)
  PROVE  VerdictInv'
<1> USE VerdictTypes, NoJobAssumption DEF OneShotInv, OwnerActs, InOrder, Ended, Settled,
        Periods, Unlaunched, Unrecorded, LaunchedAtMostOnce, UnclaimedEmpty, VerdictInv, Frame,
        RecordTrue, Gate, Gone, Rejected, BeforePeriods, Supervised, Prepared, Sound
<1>1. CASE RejectManifest(j)
  BY <1>1 DEF frame, Goto, machine, observed, RejectManifest, trace
<1>2. CASE RejectRecord(j)
  BY <1>2 DEF Blank, frame, Goto, machine, observed, Partial, RejectRecord,
        Statuses, trace
<1>3. CASE RejectTerminal(j)
  BY <1>3 DEF AfterPeriod, machine, observed, RejectTerminal, trace
<1>4. CASE RejectSummary(j)
  BY <1>4 DEF frame, Goto, machine, observed, RejectSummary, trace
<1>5. CASE RejectClose(j)
  BY <1>5 DEF Goto, JobEnds, observed, RejectClose, trace
<1> HIDE DEF VerdictInv
<1> QED
  BY <1>1, <1>2, <1>3, <1>4, <1>5 DEF Rejecting

LEMMA StartingKeepsVerdicts ==
  ASSUME TypeOK, OneShotInv, VerdictInv, NEW j \in Jobs,
         Starting(j)
  PROVE  VerdictInv'
<1> USE VerdictTypes, NoJobAssumption DEF OneShotInv, OwnerActs, InOrder, Ended, Settled,
        Periods, Unlaunched, Unrecorded, LaunchedAtMostOnce, UnclaimedEmpty, VerdictInv, Frame,
        RecordTrue, Gate, Gone, Rejected, BeforePeriods, Supervised, Prepared, Sound
<1>1. CASE WriteManifest(j)
  BY <1>1 DEF frame, Goto, machine, observed, trace, WriteManifest
<1>2. CASE OpenTrace(j)
  BY <1>2 DEF durable, Goto, machine, observed, OpenTrace, trace
<1>3. CASE StartPair(j)
  BY <1>3 DEF frame, Goto, machine, observed, StartPair, trace
<1> HIDE DEF VerdictInv
<1> QED
  BY <1>1, <1>2, <1>3 DEF Starting

LEMMA LaunchingKeepsVerdicts ==
  ASSUME TypeOK, OneShotInv, VerdictInv, NEW j \in Jobs,
         Launching(j)
  PROVE  VerdictInv'
<1> USE VerdictTypes, NoJobAssumption DEF OneShotInv, OwnerActs, InOrder, Ended, Settled,
        Periods, Unlaunched, Unrecorded, LaunchedAtMostOnce, UnclaimedEmpty, VerdictInv, Frame,
        RecordTrue, Gate, Gone, Rejected, BeforePeriods, Supervised, Prepared, Sound
<1>1. CASE GatePass(j)
  BY <1>1 DEF durable, frame, GatePass, Goto, machine, observed
<1>2. CASE GateFail(j)
  BY <1>2 DEF durable, GateFail, Goto, machine, observed
<1>3. CASE Prepare(j)
  BY <1>3 DEF durable, Goto, machine, observed, Prepare, trace
<1>4. CASE PrepareFail(j)
  BY <1>4 DEF durable, Goto, machine, observed, PrepareFail, trace
<1>5. CASE Dispatch(j)
  BY <1>5 DEF Dispatch, frame, Goto, machine, observed, trace
<1>6. CASE Popen(j)
  BY <1>6 DEF durable, frame, Goto, Popen, Remains, trace
<1>7. CASE PopenFail(j)
  BY <1>7 DEF durable, Goto, machine, observed, PopenFail, trace
<1>8. CASE Mark(j)
  BY <1>8 DEF durable, Goto, machine, Mark, observed, trace
<1>9. CASE RecordSpawn(j)
  BY <1>9 DEF frame, Goto, observed, RecordSpawn, trace
<1> HIDE DEF VerdictInv
<1> QED
  BY <1>1, <1>2, <1>3, <1>4, <1>5, <1>6, <1>7, <1>8, <1>9 DEF Launching

LEMMA EndingKeepsVerdicts ==
  ASSUME TypeOK, OneShotInv, VerdictInv, NEW j \in Jobs,
         Ending(j)
  PROVE  VerdictInv'
<1> USE VerdictTypes, NoJobAssumption DEF OneShotInv, OwnerActs, InOrder, Ended, Settled,
        Periods, Unlaunched, Unrecorded, LaunchedAtMostOnce, UnclaimedEmpty, VerdictInv, Frame,
        RecordTrue, Gate, Gone, Rejected, BeforePeriods, Supervised, Prepared, Sound
<1>1. CASE PayloadStopped(j)
  BY <1>1 DEF ExecType, TraceType, durable, Goto, machine, observed, PayloadStopped, trace
<1>2. CASE JoinSampler(j)
  BY <1>2 DEF ExecType, TraceType, durable, Goto, JoinSampler, observed, trace
<1>3. CASE Cleanup(j)
  BY <1>3 DEF ExecType, TraceType, Cleanup, durable, Goto, observed, trace
<1> HIDE DEF VerdictInv
<1> QED
  BY <1>1, <1>2, <1>3 DEF Ending

LEMMA SettlingKeepsVerdicts ==
  ASSUME TypeOK, OneShotInv, VerdictInv, NEW j \in Jobs,
         Settling(j)
  PROVE  VerdictInv'
<1> USE VerdictTypes, NoJobAssumption DEF OneShotInv, OwnerActs, InOrder, Ended, Settled,
        Periods, Unlaunched, Unrecorded, LaunchedAtMostOnce, UnclaimedEmpty, VerdictInv, Frame,
        RecordTrue, Gate, Gone, Rejected, BeforePeriods, Supervised, Prepared, Sound
<1>1. CASE Assess(j)
  BY <1>1 DEF Assess, durable, Goto, machine, observed, trace
<1>2. CASE AssessRaises(j)
  BY <1>2 DEF ResultType, Raised, AssessRaises, durable, Goto, machine, observed, trace
<1>3. CASE PostIdle(j)
  <2>0. /\ claim = j /\ claim' = j /\ ~Ended(j) /\ pc[j] \notin {"start", "mkdir"}
        /\ InOrder(j) /\ Frame(j) /\ Gate(j)
    BY <1>3 DEF durable, Goto, machine, observed, PostIdle
  <2> HIDE DEF VerdictInv, OneShotInv, OwnerActs, UnclaimedEmpty, LaunchedAtMostOnce
  <2>1. Frame(j)'
    BY <1>3, <2>0 DEF ExecType, TraceType, durable, Goto, machine, observed, PostIdle
  <2>2. Gate(j)'
    <3>1. ~fatal'[j] => ~fatal[j] /\ exec[j].complete /\ ~exec[j].interrupted
      BY <1>3, IdleStops
    <3>2. CASE period[j] = 1
      BY <1>3, <2>0, <3>1, <3>2 DEF ExecType, TraceType, durable, Goto, machine, observed, PostIdle
    <3>3. CASE period[j] = 2
      BY <1>3, <2>0, <3>1, <3>3 DEF ExecType, TraceType, durable, Goto, machine, observed, PostIdle
    <3> QED
      BY <3>2, <3>3
  <2>3. ASSUME NEW p \in Periods, RecordTrue(p) PROVE RecordTrue(p)'
    BY <1>3, <2>0, <2>3 DEF ExecType, TraceType, durable, Goto, machine, observed,
       PostIdle
  <2>4. ASSUME overlap => ~ev[1].post PROVE (overlap => ~ev[1].post)'
    BY <1>3, <2>0, <2>4 DEF ExecType, TraceType, durable, Goto, machine, observed,
       PostIdle
  <2> HIDE DEF Frame, Gate, RecordTrue, Ended, InOrder
  <2>5. \A k \in Jobs : k # j => pc'[k] = pc[k] /\ exec'[k] = exec[k] /\ res'[k] = res[k]
    BY <1>3 DEF durable, Goto, machine, observed, PostIdle
  <2>6. pc'[j] \notin {"start", "mkdir"}
    BY <1>3, <2>0 DEF durable, Goto, machine, observed, PostIdle
  <2> QED
    BY <2>0, <2>1, <2>2, <2>3, <2>4, <2>5, <2>6 DEF VerdictInv
<1>4. CASE PostNotIdle(j)
  BY <1>4 DEF durable, Goto, machine, observed, PostNotIdle, trace
<1>5. CASE PostRaises(j)
  BY <1>5 DEF ResultType, Raised, durable, Goto, machine, observed, PostRaises, trace
<1>6. CASE Finish(j)
  <2>0. /\ claim = j /\ claim' = j /\ ~Ended(j) /\ pc[j] \notin {"start", "mkdir"}
        /\ InOrder(j) /\ Frame(j) /\ Gate(j)
    BY <1>6 DEF Finish, frame, Goto, machine, observed, Partial,
       trace
  <2> HIDE DEF VerdictInv, OneShotInv, OwnerActs, UnclaimedEmpty, LaunchedAtMostOnce
  <2>1. Frame(j)'
    BY <1>6, <2>0 DEF RecordOf, Blank, Finish, frame, Goto, machine, observed, Partial,
       ResultType, Statuses, trace
  <2>2. Gate(j)'
    BY <1>6, <2>0 DEF RecordOf, Blank, Finish, frame, Goto, machine, observed, Partial,
       ResultType, Statuses, trace
  <2>3. ASSUME NEW p \in Periods, RecordTrue(p) PROVE RecordTrue(p)'
    <3>1. CASE p = period[j]
      <4>1. /\ record'[p].launched = res[j].launched
            /\ record'[p].files = res[j].files
            /\ record'[p].sound <=> Sound(exec[j])
        BY <1>6, <3>1, RecordWritten
      <4> QED
        BY <1>6, <2>0, <3>1, <4>1 DEF Finish, Goto, frame, observed
    <3>2. CASE p # period[j]
      BY <1>6, <2>3, <3>2, RecordWritten DEF Finish, observed
    <3> QED
      BY <3>1, <3>2
  <2>4. ASSUME overlap => ~ev[1].post PROVE (overlap => ~ev[1].post)'
    BY <1>6, <2>0, <2>4 DEF RecordOf, Blank, Finish, frame, Goto, machine, observed,
       Partial, ResultType, Statuses, trace
  <2> HIDE DEF Frame, Gate, RecordTrue, Ended, InOrder
  <2>5. \A k \in Jobs : k # j => pc'[k] = pc[k] /\ exec'[k] = exec[k] /\ res'[k] = res[k]
    BY <1>6 DEF Finish, frame, Goto, machine, observed, Partial,
       trace
  <2>6. pc'[j] \notin {"start", "mkdir"}
    BY <1>6, <2>0 DEF Finish, frame, Goto, machine, observed, Partial,
       trace
  <2> QED
    BY <2>0, <2>1, <2>2, <2>3, <2>4, <2>5, <2>6 DEF VerdictInv
<1>7. CASE Terminal(j)
  <2>0. /\ claim = j /\ claim' = j /\ ~Ended(j) /\ pc[j] \notin {"start", "mkdir"}
        /\ InOrder(j) /\ Frame(j) /\ Gate(j)
    BY <1>7 DEF AfterPeriod, machine, observed, Terminal, trace
  <2> HIDE DEF VerdictInv, OneShotInv, OwnerActs, UnclaimedEmpty, LaunchedAtMostOnce
  <2>1. Frame(j)'
    BY <1>7, <2>0 DEF NoExec, NoResult, AfterPeriod, machine, observed, Terminal, trace
  <2>2. Gate(j)'
    BY <1>7, <2>0 DEF NoExec, NoResult, AfterPeriod, machine, observed, Terminal, trace
  <2>3. ASSUME NEW p \in Periods, RecordTrue(p) PROVE RecordTrue(p)'
    BY <1>7, <2>0, <2>3 DEF NoExec, NoResult, AfterPeriod, machine, observed, Terminal,
       trace
  <2>4. ASSUME overlap => ~ev[1].post PROVE (overlap => ~ev[1].post)'
    BY <1>7, <2>0, <2>4 DEF NoExec, NoResult, AfterPeriod, machine, observed, Terminal,
       trace
  <2> HIDE DEF Frame, Gate, RecordTrue, Ended, InOrder
  <2>5. \A k \in Jobs : k # j => pc'[k] = pc[k] /\ exec'[k] = exec[k] /\ res'[k] = res[k]
    BY <1>7 DEF AfterPeriod, machine, observed, Terminal, trace
  <2>6. pc'[j] \notin {"start", "mkdir"}
    BY <1>7, <2>0 DEF AfterPeriod, machine, observed, Terminal, trace
  <2> QED
    BY <2>0, <2>1, <2>2, <2>3, <2>4, <2>5, <2>6 DEF VerdictInv
<1>8. CASE Summarise(j)
  BY <1>8 DEF frame, Goto, machine, observed, Summarise, trace
<1>9. CASE ClosePair(j)
  BY <1>9 DEF ClosePair, Goto, JobEnds, observed, trace
<1> HIDE DEF VerdictInv
<1> QED
  BY <1>1, <1>2, <1>3, <1>4, <1>5, <1>6, <1>7, <1>8, <1>9 DEF Settling

LEMMA InterruptKeepsVerdicts ==
  ASSUME TypeOK, OneShotInv, VerdictInv, NEW j \in Jobs,
         Interrupt(j)
  PROVE  VerdictInv'
<1> USE VerdictTypes, NoJobAssumption DEF OneShotInv, OwnerActs, InOrder, Ended, Settled,
        Periods, Unlaunched, Unrecorded, LaunchedAtMostOnce, UnclaimedEmpty, VerdictInv, Frame,
        RecordTrue, Gate, Gone, Rejected, BeforePeriods, Supervised, Prepared, Sound
<1>1. CASE InterruptEarly(j)
  BY <1>1 DEF durable, frame, InterruptEarly, machine, trace, Unheard
<1>2. CASE InterruptBare(j)
  BY <1>2 DEF Blank, InterruptBare, JobEnds, Partial, Statuses, trace, Unheard
<1>3. CASE InterruptVerify(j)
  BY <1>3 DEF durable, frame, Goto, InterruptVerify, machine, trace, Unheard
<1>4. CASE InterruptStart(j)
  BY <1>4 DEF frame, Goto, InterruptStart, machine, trace, Unheard
<1>5. CASE InterruptTry(j)
  <2>0. /\ claim = j /\ claim' = j /\ ~Ended(j) /\ pc[j] \notin {"start", "mkdir"}
        /\ InOrder(j) /\ Frame(j) /\ Gate(j)
    BY <1>5 DEF InterruptTry, machine,
       trace, Unheard
  <2> HIDE DEF VerdictInv, OneShotInv, OwnerActs, UnclaimedEmpty, LaunchedAtMostOnce
  <2>1. Frame(j)'
    <3>1. /\ res'[j].launched = res[j].launched /\ res'[j].status = res[j].status
          /\ res[j].files => res'[j].files
      BY <1>5 DEF InterruptTry, ResultType
    <3>2. /\ pc[j] \in Unlaunched /\ pc'[j] = "finish" /\ period' = period
          /\ exec' = exec /\ hit' = hit /\ spawns' = spawns
      BY <1>5 DEF InterruptTry, Unheard
    <3> QED
      BY <2>0, <3>1, <3>2 DEF NoExec
  <2>2. Gate(j)'
    <3>1. \A q \in Periods : ev'[q].post = ev[q].post
      BY <1>5 DEF InterruptTry, TraceType, trace
    <3> QED
      BY <1>5, <2>0, <3>1 DEF InterruptTry, machine, Unheard
  <2>3. ASSUME NEW p \in Periods, RecordTrue(p) PROVE RecordTrue(p)'
    BY <1>5, <2>0, <2>3 DEF ExecType, ResultType, TraceType, NoExec, Raised,
       InterruptTry, machine, trace, Unheard
  <2>4. ASSUME overlap => ~ev[1].post PROVE (overlap => ~ev[1].post)'
    <3>1. ev'[1].post = ev[1].post
      BY <1>5 DEF InterruptTry, TraceType, trace
    <3> QED
      BY <1>5, <2>4, <3>1 DEF InterruptTry, Unheard
  <2> HIDE DEF Frame, Gate, RecordTrue, Ended, InOrder
  <2>5. \A k \in Jobs : k # j => pc'[k] = pc[k] /\ exec'[k] = exec[k] /\ res'[k] = res[k]
    BY <1>5 DEF InterruptTry, machine,
       trace, Unheard
  <2>6. pc'[j] \notin {"start", "mkdir"}
    BY <1>5, <2>0 DEF InterruptTry,
       machine, trace, Unheard
  <2> QED
    BY <2>0, <2>1, <2>2, <2>3, <2>4, <2>5, <2>6 DEF VerdictInv
<1>6. CASE InterruptPayload(j)
  BY <1>6 DEF InterruptPayload, machine, trace
<1>7. CASE InterruptCleanup(j)
  <2>0. /\ claim = j /\ claim' = j /\ ~Ended(j) /\ pc[j] \notin {"start", "mkdir"}
        /\ InOrder(j) /\ Frame(j) /\ Gate(j)
    BY <1>7 DEF durable,
       InterruptCleanup, trace
  <2> HIDE DEF VerdictInv, OneShotInv, OwnerActs, UnclaimedEmpty, LaunchedAtMostOnce
  <2>1. Frame(j)'
    BY <1>7, <2>0 DEF ExecType, ResultType, TraceType, NoExec, Raised, durable,
       InterruptCleanup, trace
  <2>2. Gate(j)'
    BY <1>7, <2>0 DEF ExecType, ResultType, TraceType, NoExec, Raised, durable,
       InterruptCleanup, trace
  <2>3. ASSUME NEW p \in Periods, RecordTrue(p) PROVE RecordTrue(p)'
    BY <1>7, <2>0, <2>3 DEF ExecType, ResultType, TraceType, NoExec, Raised, durable,
       InterruptCleanup, trace
  <2>4. ASSUME overlap => ~ev[1].post PROVE (overlap => ~ev[1].post)'
    BY <1>7, <2>0, <2>4 DEF ExecType, ResultType, TraceType, NoExec, Raised, durable,
       InterruptCleanup, trace
  <2> HIDE DEF Frame, Gate, RecordTrue, Ended, InOrder
  <2>5. \A k \in Jobs : k # j => pc'[k] = pc[k] /\ exec'[k] = exec[k] /\ res'[k] = res[k]
    BY <1>7 DEF durable,
       InterruptCleanup, trace
  <2>6. pc'[j] \notin {"start", "mkdir"}
    BY <1>7, <2>0 DEF durable,
       InterruptCleanup, trace
  <2> QED
    BY <2>0, <2>1, <2>2, <2>3, <2>4, <2>5, <2>6 DEF VerdictInv
<1>8. CASE InterruptAssess(j)
  <2>0. /\ claim = j /\ claim' = j /\ ~Ended(j) /\ pc[j] \notin {"start", "mkdir"}
        /\ InOrder(j) /\ Frame(j) /\ Gate(j)
    BY <1>8 DEF durable,
       InterruptAssess, machine, Unheard
  <2> HIDE DEF VerdictInv, OneShotInv, OwnerActs, UnclaimedEmpty, LaunchedAtMostOnce
  <2>1. Frame(j)'
    <3>1. CASE pc[j] = "assess" /\ exec' = [exec EXCEPT ![j] = NoExec] /\ UNCHANGED res
      BY <1>8, <2>0, <3>1 DEF InterruptAssess, NoExec, Unheard
    <3>2. CASE /\ pc[j] = "assess" /\ UNCHANGED exec
               /\ res' = [res EXCEPT ![j] = Raised([@ EXCEPT !.launched = exec[j].spawned])]
      <4>1. res'[j].launched = exec[j].spawned /\ res'[j].files = res[j].files
        BY <3>2 DEF ResultType, Raised
      <4> QED
        BY <1>8, <2>0, <3>2, <4>1 DEF InterruptAssess, Unheard
    <3>3. CASE pc[j] = "post"
      <4>1. res'[j].launched = res[j].launched /\ res'[j].files = res[j].files
        BY <1>8, <3>3 DEF InterruptAssess, ResultType, Raised
      <4> QED
        BY <1>8, <2>0, <3>3, <4>1 DEF InterruptAssess, Unheard
    <3> QED
      BY <1>8, <3>1, <3>2, <3>3 DEF InterruptAssess
  <2>2. Gate(j)'
    BY <1>8, <2>0 DEF ExecType, ResultType, TraceType, NoExec, Raised, durable,
       InterruptAssess, machine, Unheard
  <2>3. ASSUME NEW p \in Periods, RecordTrue(p) PROVE RecordTrue(p)'
    BY <1>8, <2>0, <2>3 DEF ExecType, ResultType, TraceType, NoExec, Raised, durable,
       InterruptAssess, machine, Unheard
  <2>4. ASSUME overlap => ~ev[1].post PROVE (overlap => ~ev[1].post)'
    <3>1. overlap => ev'[1] = ev[1]
      BY <1>8, <2>0 DEF InterruptAssess
    <3> QED
      BY <1>8, <2>4, <3>1 DEF InterruptAssess, Unheard
  <2> HIDE DEF Frame, Gate, RecordTrue, Ended, InOrder
  <2>5. \A k \in Jobs : k # j => pc'[k] = pc[k] /\ exec'[k] = exec[k] /\ res'[k] = res[k]
    BY <1>8 DEF durable,
       InterruptAssess, machine, Unheard
  <2>6. pc'[j] \notin {"start", "mkdir"}
    BY <1>8, <2>0 DEF durable,
       InterruptAssess, machine, Unheard
  <2> QED
    BY <2>0, <2>1, <2>2, <2>3, <2>4, <2>5, <2>6 DEF VerdictInv
<1>9. CASE InterruptFinally(j)
  BY <1>9 DEF Blank, frame, InterruptFinally, machine, Partial, Statuses,
        trace, Unheard
<1>10. CASE InterruptUnstarted(j)
  <2>0. /\ claim = j /\ claim' = j /\ ~Ended(j) /\ pc[j] \notin {"start", "mkdir"}
        /\ InOrder(j) /\ Frame(j) /\ Gate(j)
    BY <1>10 DEF Goto,
       InterruptUnstarted, machine, trace
  <2> HIDE DEF VerdictInv, OneShotInv, OwnerActs, UnclaimedEmpty, LaunchedAtMostOnce
  <2>1. Frame(j)'
    BY <1>10, <2>0 DEF ExecType, ResultType, TraceType, NoExec, Raised, Goto,
       InterruptUnstarted, machine, trace
  <2>2. Gate(j)'
    BY <1>10, <2>0 DEF ExecType, ResultType, TraceType, NoExec, Raised, Goto,
       InterruptUnstarted, machine, trace
  <2>3. ASSUME NEW p \in Periods, RecordTrue(p) PROVE RecordTrue(p)'
    BY <1>10, <2>0, <2>3 DEF ExecType, ResultType, TraceType, NoExec, Raised, Goto,
       InterruptUnstarted, machine, trace
  <2>4. ASSUME overlap => ~ev[1].post PROVE (overlap => ~ev[1].post)'
    BY <1>10, <2>0, <2>4 DEF ExecType, ResultType, TraceType, NoExec, Raised, Goto,
       InterruptUnstarted, machine, trace
  <2> HIDE DEF Frame, Gate, RecordTrue, Ended, InOrder
  <2>5. \A k \in Jobs : k # j => pc'[k] = pc[k] /\ exec'[k] = exec[k] /\ res'[k] = res[k]
    BY <1>10 DEF Goto,
       InterruptUnstarted, machine, trace
  <2>6. pc'[j] \notin {"start", "mkdir"}
    BY <1>10, <2>0 DEF Goto,
       InterruptUnstarted, machine, trace
  <2> QED
    BY <2>0, <2>1, <2>2, <2>3, <2>4, <2>5, <2>6 DEF VerdictInv
<1> HIDE DEF VerdictInv
<1> QED
  BY <1>1, <1>2, <1>3, <1>4, <1>5, <1>6, <1>7, <1>8, <1>9, <1>10 DEF Interrupt

LEMMA SamplingKeepsVerdicts ==
  ASSUME TypeOK, OneShotInv, VerdictInv, NEW j \in Jobs,
         Sampling(j)
  PROVE  VerdictInv'
<1> USE VerdictTypes, NoJobAssumption DEF OneShotInv, OwnerActs, InOrder, Ended, Settled,
        Periods, Unlaunched, Unrecorded, LaunchedAtMostOnce, UnclaimedEmpty, VerdictInv, Frame,
        RecordTrue, Gate, Gone, Rejected, BeforePeriods, Supervised, Prepared, Sound
<1>1. CASE Tick(j)
  BY <1>1 DEF durable, machine, observed, Tick
<1>2. CASE SamplerFail(j)
  BY <1>2 DEF durable, observed, SamplerFail, trace
<1>3. ASSUME NEW p \in Periods, LateTick(j, p) PROVE VerdictInv'
  <2>0. /\ claim = j /\ claim' = j /\ ~Ended(j) /\ pc[j] \notin {"start", "mkdir"}
        /\ InOrder(j) /\ Frame(j) /\ Gate(j)
    BY <1>3 DEF Outlived, LateTick, durable, frame, machine, observed
  <2> HIDE DEF VerdictInv, OneShotInv, OwnerActs, UnclaimedEmpty, LaunchedAtMostOnce
  <2>1. Frame(j)'
    BY <1>3, <2>0 DEF TraceType, Outlived, LateTick, durable, frame, machine, observed
  <2>2. Gate(j)'
    BY <1>3, <2>0 DEF TraceType, Outlived, LateTick, durable, frame, machine, observed
  <2>3. ASSUME NEW q \in Periods, RecordTrue(q) PROVE RecordTrue(q)'
    BY <1>3, <2>0, <2>3 DEF TraceType, Outlived, LateTick, durable, frame, machine,
       observed
  <2>4. ASSUME overlap => ~ev[1].post PROVE (overlap => ~ev[1].post)'
    BY <1>3, <2>0, <2>4 DEF TraceType, Outlived, LateTick, durable, frame, machine,
       observed
  <2> HIDE DEF Frame, Gate, RecordTrue, Ended, InOrder
  <2>5. \A k \in Jobs : k # j => pc'[k] = pc[k] /\ exec'[k] = exec[k] /\ res'[k] = res[k]
    BY <1>3 DEF Outlived, LateTick, durable, frame, machine, observed
  <2>6. pc'[j] \notin {"start", "mkdir"}
    BY <1>3, <2>0 DEF Outlived, LateTick, durable, frame, machine, observed
  <2> QED
    BY <2>0, <2>1, <2>2, <2>3, <2>4, <2>5, <2>6 DEF VerdictInv
<1>4. ASSUME NEW p \in Periods, LateStop(j, p) PROVE VerdictInv'
  BY <1>4 DEF LateStop, durable, trace, frame, observed
<1> HIDE DEF VerdictInv
<1> QED
  BY <1>1, <1>2, <1>3, <1>4 DEF Sampling

LEMMA PayloadExitKeepsVerdicts ==
  ASSUME TypeOK, OneShotInv, VerdictInv, NEW j \in Jobs,
         PayloadExit(j)
  PROVE  VerdictInv'
BY VerdictTypes, NoJobAssumption DEF OneShotInv, OwnerActs, InOrder, Ended, Settled,
        Periods, Unlaunched, Unrecorded, LaunchedAtMostOnce, UnclaimedEmpty, VerdictInv, Frame,
        RecordTrue, Gate, Gone, Rejected, BeforePeriods, Supervised, Prepared, Sound,
        PayloadExit, durable, Goto, observed, trace

LEMMA CrashKeepsVerdicts ==
  ASSUME TypeOK, OneShotInv, VerdictInv, NEW j \in Jobs,
         Crash(j)
  PROVE  VerdictInv'
<1> USE VerdictTypes, NoJobAssumption DEF OneShotInv, OwnerActs, InOrder, Ended, Settled,
        Periods, Unlaunched, Unrecorded, LaunchedAtMostOnce, UnclaimedEmpty, VerdictInv, Frame,
        RecordTrue, Gate, Gone, Rejected, BeforePeriods, Supervised, Prepared, Sound
<1>1. claim = j /\ claim' = j /\ pc' = [pc EXCEPT ![j] = "dead"]
  BY DEF Crash
<1>2. ASSUME NEW k \in Jobs, claim' = k, ~Ended(k)' PROVE FALSE
  BY <1>1, <1>2
<1>3. \A p \in Periods : RecordTrue(p)'
  BY <1>1 DEF Crash, Blank, Partial, Statuses, observed
<1>4. (overlap => ~ev[1].post)'
  BY <1>1 DEF Crash, observed
<1> HIDE DEF Frame, Gate, RecordTrue, Ended, InOrder
<1>5. claim' # NoJob /\ \A k \in Jobs :
         pc'[k] \in {"start", "mkdir"} => exec'[k] = NoExec /\ res'[k] = NoResult
  BY <1>1 DEF Crash, JobEnds
<1> HIDE DEF VerdictInv
<1> QED
  BY <1>2, <1>3, <1>4, <1>5 DEF VerdictInv

LEMMA VerdictStep ==
  ASSUME TypeOK, OneShotInv, VerdictInv, [Next]_vars
  PROVE  VerdictInv'
<1>1. CASE UNCHANGED vars
  BY <1>1 DEF vars, durable, trace, frame, machine, observed, VerdictInv, Frame, Gate, Gone,
     RecordTrue, Settled, Ended
<1>2. ASSUME NEW j \in Jobs, Runner(j) PROVE VerdictInv'
  BY <1>2, ClaimingKeepsVerdicts, RejectingKeepsVerdicts, StartingKeepsVerdicts,
     LaunchingKeepsVerdicts, EndingKeepsVerdicts, SettlingKeepsVerdicts DEF Runner
<1>3. ASSUME NEW j \in Jobs, PayloadExit(j) PROVE VerdictInv'
  BY <1>3, PayloadExitKeepsVerdicts
<1>4. ASSUME NEW j \in Jobs, Sampling(j) PROVE VerdictInv'
  BY <1>4, SamplingKeepsVerdicts
<1>5. ASSUME NEW j \in Jobs, Interrupt(j) PROVE VerdictInv'
  BY <1>5, InterruptKeepsVerdicts
<1>6. ASSUME NEW j \in Jobs, Crash(j) PROVE VerdictInv'
  BY <1>6, CrashKeepsVerdicts
<1> QED
  BY <1>1, <1>2, <1>3, <1>4, <1>5, <1>6 DEF Next

LEMMA VerdictAlways == Spec => []VerdictInv
<1>1. TypeOK /\ OneShotInv /\ VerdictInv /\ [Next]_vars => VerdictInv'
  BY VerdictStep
<1> QED
  BY VerdictInit, TypeCorrect, OneShotAlways, <1>1, PTL DEF Spec

(* validate_period_provenance and process_slot: whenever the collector      *)
(* reads, a slot it takes into the study had its one payload, no signal    *)
(* and nothing of period 1 beside it, and a slot it reports as never       *)
(* started had no payload, for any jobs and any number of signals.         *)
THEOREM CollectorTellsTruth == Spec => []VerdictsTrue
<1>1. TypeOK /\ VerdictInv => VerdictsTrue
  <2> SUFFICES ASSUME TypeOK, VerdictInv PROVE VerdictsTrue
    OBVIOUS
  <2> \A p \in Periods : RecordTrue(p) /\ (RecordAgrees(p) => Settled(p)) /\ spawns[p] \in Nat
    BY DEF VerdictInv, RecordAgrees, Settled, TypeOK
  <2>1. EligibleRanAlone
    BY DEF EligibleRanAlone, Eligible, AssessAgain, RawEvidence, Provenance, RecordTrue
  <2>2. EligibleNotBesideRemains
    BY DEF EligibleNotBesideRemains, Eligible, Provenance, PreviousGate, VerdictInv
  <2>3. NotStartedNeverSpawned
    BY DEF NotStartedNeverSpawned, NotStarted, RecordTrue
  <2> QED
    BY <2>1, <2>2, <2>3 DEF VerdictsTrue
<1> QED
  BY TypeCorrect, VerdictAlways, <1>1, PTL

-----------------------------------------------------------------------------
(* And complete: with no signal, what the runner validated is found again. *)

(* While no signal has come and the claimant was not killed, the record    *)
(* can be followed step by step.                                           *)
Calm(j) == claim = j /\ pc[j] # "dead" /\ signals = 0

Running == {"gate"} \cup Prepared \cup {"prep", "finish"}
Launchers == {"claimed", "verify", "manifest", "trace", "started", "gate", "prep", "dispatch"}

(* The ledger: numbered without a gap from the claim on, every event once, *)
(* and those of a period in their order.                                   *)
Orderly ==
  /\ \A i \in 1..Len(ledger) : ledger[i].sequence = i - 1
  /\ \A i, k \in 1..Len(ledger) :
       ledger[i].event = ledger[k].event /\ ledger[i].period = ledger[k].period => i = k
  /\ ledger # << >> => ledger[1].event = "pair_claimed" /\ ledger[1].period = 0
  /\ \A p \in Periods :
       Precedes("dispatched", "spawned", p) /\ Precedes("spawned", "terminal", p)

(* No event is in the ledger before the step that writes it.               *)
Script(j) ==
  /\ seq[j] = Len(ledger) /\ ~PairTerminated
  /\ pc[j] = "claimed" <=> ledger = << >>
  /\ pc[j] \in BeforePeriods => ~Logged("pair_started", 0)
  /\ pc[j] = "claimed" => ~Logged("pair_claimed", 0)
  /\ \A p \in Periods :
       /\ p > period[j] \/ (p = period[j] /\ pc[j] \in Launchers) => ~Logged("dispatched", p)
       /\ p > period[j] \/ (p = period[j]
                            /\ pc[j] \in Launchers \cup {"popen", "mark", "emitSpawn"})
            => ~Logged("spawned", p)
       /\ p > period[j] \/ (p = period[j] /\ pc[j] \in Unrecorded \cup {"terminal", "rejTerminal"})
            => ~Logged("terminal", p)

(* The evidence a validated period has left.                               *)
Evidence(p) ==
  /\ ev[p].pre /\ ev[p].samples /\ ~ev[p].tainted /\ proof[p]
  /\ Logged("dispatched", p) /\ Logged("spawned", p)

(* The evidence of the period the claimant is in, as it grows.             *)
Growing(j) ==
  LET p == period[j] IN
  /\ pc[j] \in {"trace", "started"} \cup Running \cup {"terminal"} => manifest = "alloc"
  /\ pc[j] \in Running \cup {"terminal"} => Logged("pair_started", 0)
  /\ pc[j] \in {"prep"} \cup Prepared => ev[p].pre
  /\ pc[j] \in Prepared \ {"dispatch"} => Logged("dispatched", p)
  /\ pc[j] \in {"wait"} \cup Supervised => (exec[j].spawned <=> Logged("spawned", p))
  /\ pc[j] \in {"emitSpawn", "wait"} => exec[j].spawned
  /\ pc[j] \in {"popen", "mark", "emitSpawn"} => exec[j].end = "none"
  /\ exec[j].end = "exit" => exec[j].spawned
  /\ pc[j] \in {"cleanup", "assess", "post"} /\ ~exec[j].invalid => ev[p].samples
  /\ pc[j] \in Running => (exec[j].dirty <=> ev[p].tainted)
  /\ pc[j] \in BeforePeriods \cup Rejected => ~ev[p].tainted
  /\ \A q \in Periods : q > p => ~ev[q].tainted
  /\ pc[j] \in Prepared \ {"post"} => res[j].status = "not_launched"
  /\ pc[j] = "post" \/ (pc[j] = "finish" /\ ev[p].post) =>
       /\ res[j].launched = exec[j].spawned
       /\ res[j].status = Assessment(exec[j], proof[p])
  /\ pc[j] \in {"post", "finish"} /\ res[j].status = "validated" =>
       res[j].launched /\ Sound(exec[j]) /\ ~exec[j].dirty /\ Evidence(p)

(* What a record says of an undisturbed slot is what the collector finds.  *)
RecordFound(p) ==
  /\ record[p].status = "validated" =>
       /\ record[p].launched /\ record[p].sound /\ ~record[p].dirty
       /\ Evidence(p) /\ manifest = "alloc" /\ Logged("pair_started", 0)
  /\ Settled(p) /\ ev[p].post /\ record[p].sound /\ ~record[p].dirty /\ proof[p] =>
       record[p].status = "validated"

AgreeInv ==
  /\ signals = 0 => ~unguarded
  /\ \A p \in Periods : ev[p].pre => traceState # "empty"
  /\ signals = 0 => \A p \in Periods : RecordFound(p)
  /\ \A j \in Jobs : Calm(j) => Orderly
  /\ \A j \in Jobs : Calm(j) /\ pc[j] # "done" => Script(j) /\ Growing(j)
  /\ \A j \in Jobs : Calm(j) /\ pc[j] = "done" => ledger # << >>
  /\ claim = NoJob => ledger = << >> /\ \A p \in Periods : ev[p] = NoTrace
  /\ \A j \in Jobs : pc[j] \in {"start", "mkdir"} => seq[j] = 0

LEMMA SameLedger ==
  ASSUME UNCHANGED ledger
  PROVE  /\ Orderly' <=> Orderly
         /\ \A e, q : Logged(e, q)' <=> Logged(e, q)
         /\ Len(ledger') = Len(ledger) /\ (ledger' = << >> <=> ledger = << >>)
BY DEF Orderly, Logged, Precedes, Positions

(* A line that is written is the last, and nothing else changes.           *)
LEMMA LineWritten ==
  ASSUME TypeOK, NEW j \in Jobs, NEW e \in PairEvents \cup PeriodEvents, NEW p \in 0..2,
         Write(e, p, seq[j])
  PROVE  /\ Len(ledger') = Len(ledger) + 1 /\ Len(ledger) \in Nat /\ ledger' # << >>
         /\ \A i \in 1..Len(ledger) : ledger'[i] = ledger[i]
         /\ ledger'[Len(ledger) + 1].event = e
         /\ ledger'[Len(ledger) + 1].period = p
         /\ ledger'[Len(ledger) + 1].sequence = seq[j]
<1>1. ledger \in Seq(EventType) /\ seq[j] \in Nat
  BY DEF TypeOK
<1>2. Event(e, p, seq[j]) \in EventType /\ ledger' = Append(ledger, Event(e, p, seq[j]))
  BY <1>1, EventTyped DEF Write
<1> QED
  BY <1>1, <1>2 DEF Event

LEMMA NowLogged ==
  ASSUME TypeOK, NEW j \in Jobs, NEW e \in PairEvents \cup PeriodEvents, NEW p \in 0..2,
         Write(e, p, seq[j])
  PROVE  \A f, q : Logged(f, q)' <=> Logged(f, q) \/ (f = e /\ q = p)
<1>1. /\ Len(ledger') = Len(ledger) + 1 /\ Len(ledger) \in Nat
      /\ \A i \in 1..Len(ledger) : ledger'[i] = ledger[i]
      /\ ledger'[Len(ledger) + 1].event = e /\ ledger'[Len(ledger) + 1].period = p
  BY LineWritten
<1>2. 1..Len(ledger') = 1..Len(ledger) \cup {Len(ledger) + 1}
  BY <1>1
<1> QED
  BY <1>1, <1>2 DEF Logged

(* The ledger stays in order if the event that is written is new and none  *)
(* that follows it is there.                                               *)
LEMMA OrderlyGrows ==
  ASSUME TypeOK, NEW j \in Jobs, NEW e \in PairEvents \cup PeriodEvents, NEW p \in 0..2,
         Write(e, p, seq[j]), Orderly, seq[j] = Len(ledger), ~Logged(e, p),
         ledger = << >> => e = "pair_claimed" /\ p = 0,
         e = "dispatched" => ~Logged("spawned", p),
         e = "spawned" => ~Logged("terminal", p)
  PROVE  Orderly'
<1> DEFINE n == Len(ledger)
<1>1. /\ Len(ledger') = n + 1 /\ n \in Nat
      /\ \A i \in 1..n : ledger'[i] = ledger[i]
      /\ ledger'[n + 1].event = e /\ ledger'[n + 1].period = p /\ ledger'[n + 1].sequence = n
  BY LineWritten
<1>2. 1..Len(ledger') = 1..n \cup {n + 1} /\ n + 1 \notin 1..n
  BY <1>1
<1>3. \A i \in 1..n : ~(ledger[i].event = e /\ ledger[i].period = p)
  BY DEF Logged
<1>4. ledger # << >> => 1 \in 1..n
  <2>1. ledger \in Seq(EventType)
    BY DEF TypeOK
  <2> QED
    BY <2>1
<1>5. n = 0 => ledger = << >>
  BY DEF TypeOK
<1>6. \A i \in 1..Len(ledger') : ledger'[i].sequence = i - 1
  BY <1>1, <1>2 DEF Orderly
<1>7. \A i, k \in 1..Len(ledger') :
        ledger'[i].event = ledger'[k].event /\ ledger'[i].period = ledger'[k].period => i = k
  <2> SUFFICES ASSUME NEW i \in 1..Len(ledger'), NEW k \in 1..Len(ledger'),
                      ledger'[i].event = ledger'[k].event, ledger'[i].period = ledger'[k].period
               PROVE  i = k
    OBVIOUS
  <2>1. CASE i \in 1..n /\ k \in 1..n
    BY <1>1, <2>1 DEF Orderly
  <2>2. CASE i = n + 1
    BY <1>1, <1>2, <1>3, <2>2
  <2>3. CASE k = n + 1
    BY <1>1, <1>2, <1>3, <2>3
  <2> QED
    BY <1>2, <2>1, <2>2, <2>3
<1>8. ledger'[1].event = "pair_claimed" /\ ledger'[1].period = 0
  BY <1>1, <1>4, <1>5 DEF Orderly
<1>9. ASSUME NEW q \in Periods, NEW f, NEW g, Precedes(f, g, q),
             f = e /\ q = p => ~Logged(g, p), f # g
      PROVE  Precedes(f, g, q)'
  <2> SUFFICES ASSUME NEW i \in 1..Len(ledger'), NEW k \in 1..Len(ledger'),
                      ledger'[i].event = f, ledger'[i].period = q,
                      ledger'[k].event = g, ledger'[k].period = q
               PROVE  i < k
    BY DEF Precedes, Positions
  <2>1. CASE i \in 1..n /\ k \in 1..n
    BY <1>1, <1>9, <2>1 DEF Precedes, Positions
  <2>2. CASE i \in 1..n /\ k = n + 1
    BY <1>1, <2>2
  <2>3. CASE i = n + 1
    <3>1. k \in 1..n
      BY <1>1, <1>2, <1>9, <2>3
    <3> QED
      BY <1>1, <1>9, <2>3, <3>1 DEF Logged
  <2> QED
    BY <1>2, <2>1, <2>2, <2>3
<1>10. \A q \in Periods :
         Precedes("dispatched", "spawned", q)' /\ Precedes("spawned", "terminal", q)'
  BY <1>9 DEF Orderly
<1> QED
  BY <1>6, <1>7, <1>8, <1>10 DEF Orderly


(* A step of a job that has claimed nothing changes nothing of the claim.  *)
LEMMA AgreementApart ==
  ASSUME TypeOK, AgreeInv, NEW j \in Jobs, claim # j, NEW l, pc' = [pc EXCEPT ![j] = l],
         pc[j] \in {"start", "mkdir"},
         UNCHANGED <<durable, trace, frame, seq, machine, observed>>
  PROVE  AgreeInv'
<1> USE DEF durable, trace, frame, machine, observed
<1>1. ASSUME NEW k \in Jobs, Calm(k)' PROVE Calm(k) /\ pc'[k] = pc[k]
  BY <1>1, VerdictTypes DEF Calm
<1>2. /\ Orderly' <=> Orderly
      /\ \A e, q : Logged(e, q)' <=> Logged(e, q)
  BY SameLedger
<1>3. \A p \in Periods : RecordFound(p)' <=> RecordFound(p)
  BY <1>2 DEF RecordFound, Evidence, Settled
<1>4. ASSUME NEW k \in Jobs, Calm(k)'
      PROVE  (Script(k)' <=> Script(k)) /\ (Growing(k)' <=> Growing(k))
  BY <1>1, <1>2, <1>4 DEF Script, PairTerminated, Growing, Evidence
<1>5. \A k \in Jobs : pc'[k] \in {"start", "mkdir"} => seq'[k] = 0
  BY VerdictTypes DEF AgreeInv
<1> QED
  BY <1>1, <1>2, <1>3, <1>4, <1>5 DEF AgreeInv, Calm

(* What a step of the claimant has to keep. *)
LEMMA AgreementFrom ==
  ASSUME AgreeInv, NEW j \in Jobs, claim = j, claim' = j, ~Ended(j), signals' = signals,
         unguarded' = unguarded, Calm(j) => Orderly',
         \A p \in Periods : ev'[p].pre => traceState' # "empty",
         \A p \in Periods : Calm(j) => RecordFound(p)',
         Calm(j) /\ pc'[j] # "done" => Script(j)',
         Calm(j) /\ pc'[j] # "done" => Growing(j)',
         \A k \in Jobs : k # j => pc'[k] = pc[k] /\ seq'[k] = seq[k],
         pc'[j] \notin {"start", "mkdir"}, 
         Calm(j) /\ pc'[j] = "done" => ledger' # << >>
  PROVE  AgreeInv'
BY NoJobAssumption DEF AgreeInv, Calm, Ended

LEMMA ClaimingKeepsAgreement ==
  ASSUME TypeOK, OneShotInv, VerdictInv, AgreeInv, NEW j \in Jobs,
         Claiming(j)
  PROVE  AgreeInv'
<1> USE VerdictTypes DEF Ended, Settled, Periods, Unlaunched, Unrecorded, Launchers, Running,
        BeforePeriods, Supervised, Prepared, Rejected
<1>1. CASE Enter(j)
  <2>1. claim # j /\ pc[j] = "start"
    BY <1>1 DEF Enter, OneShotInv, OwnerActs
  <2>2. PICK next \in {"mkdir", "done"} : pc' = [pc EXCEPT ![j] = next]
    BY <1>1 DEF Enter
  <2> QED
    BY <1>1, <2>1, <2>2, AgreementApart DEF Enter
<1>2. CASE ClaimPair(j)
  <2>0. /\ claim = NoJob /\ claim' = j /\ ledger = << >> /\ period[j] = 1 /\ seq[j] = 0
        /\ pc[j] = "mkdir" /\ \A p \in Periods : ev[p] = NoTrace
        /\ exec[j] = NoExec /\ res[j] = NoResult
    BY <1>2, NoJobAssumption
       DEF ClaimPair, ClaimFree, Goto, OneShotInv, OwnerActs, VerdictInv, AgreeInv
  <2>1. /\ Orderly' <=> Orderly
        /\ \A e, q : Logged(e, q)' <=> Logged(e, q)
    BY <1>2, SameLedger DEF ClaimPair
  <2>2. Len(ledger) = 0 /\ \A e, q : ~Logged(e, q)
    BY <2>0 DEF Logged
  <2>3. Orderly
    BY <2>0, <2>2 DEF Orderly, Precedes, Positions
  <2>4. pc'[j] = "claimed"
    BY <1>2 DEF ClaimPair, Goto
  <2>5. Script(j)'
    BY <1>2, <2>0, <2>1, <2>2, <2>4 DEF ClaimPair, frame, Script, PairTerminated
  <2>6. Growing(j)'
    BY <1>2, <2>0, <2>4 DEF ClaimPair, frame, trace, Growing, NoTrace, NoExec, NoResult
  <2>7. \A p \in Periods : RecordFound(p)' <=> RecordFound(p)
    BY <1>2, <2>1 DEF ClaimPair, trace, machine, RecordFound, Evidence
  <2>8. \A k \in Jobs : k # j => ~Calm(k)'
    BY <2>0 DEF Calm
  <2>9. /\ \A k \in Jobs : pc'[k] \in {"start", "mkdir"} => seq'[k] = 0
        /\ \A p \in Periods : ev'[p].pre => traceState' # "empty"
        /\ signals' = 0 => signals = 0 /\ ~unguarded'
    BY <1>2 DEF ClaimPair, Goto, trace, observed, AgreeInv
  <2> QED
    BY <2>0, <2>1, <2>3, <2>4, <2>5, <2>6, <2>7, <2>8, <2>9, NoJobAssumption DEF AgreeInv
<1>3. CASE ClaimTaken(j)
  <2>1. claim # j /\ pc[j] = "mkdir" /\ pc' = [pc EXCEPT ![j] = "done"]
    BY <1>3 DEF ClaimTaken, Goto, OneShotInv, OwnerActs
  <2> QED
    BY <1>3, <2>1, AgreementApart DEF ClaimTaken
<1>4. CASE RecordClaim(j)
  <2>0. /\ claim = j /\ claim' = j /\ ~Ended(j) /\ pc[j] \notin {"start", "mkdir"}
        /\ InOrder(j) /\ Frame(j) /\ Gate(j) /\ signals' = signals /\ unguarded' = unguarded
        /\ Calm(j) => Orderly /\ Script(j) /\ Growing(j) /\ \A p \in Periods : RecordFound(p)
    BY <1>4 DEF RecordClaim, Goto, durable, trace, frame, machine, observed, OneShotInv,
       OwnerActs, VerdictInv, AgreeInv, Calm
  <2>1. /\ \A f, q : Logged(f, q)' <=> Logged(f, q) \/ (f = "pair_claimed" /\ q = 0)
        /\ Len(ledger') = Len(ledger) + 1 /\ ledger' # << >>
    BY <1>4, NowLogged, LineWritten DEF RecordClaim, Emit, PairEvents, PeriodEvents
  <2>2. Calm(j) => Orderly'
    BY <1>4, <2>0, OrderlyGrows DEF RecordClaim, Goto, Emit, Script, PairEvents,
       PeriodEvents, PairTerminated
  <2>3. \A p \in Periods : ev'[p].pre => traceState' # "empty"
    BY <1>4 DEF RecordClaim, Goto, durable, trace, frame, machine, observed, Emit,
       AgreeInv
  <2>4. ASSUME NEW p \in Periods, Calm(j) PROVE RecordFound(p)'
    BY <1>4, <2>0, <2>1, <2>4 DEF RecordClaim, Goto, durable, trace, frame, machine,
       observed, Emit, RecordFound, Evidence, InOrder, Gate
  <2>5. ASSUME Calm(j), pc'[j] # "done" PROVE Script(j)'
    <3>1. pc'[j] = "verify" /\ seq'[j] = seq[j] + 1 /\ period' = period
      BY <1>4 DEF RecordClaim, Goto, Emit, frame
    <3>2. Script(j) /\ pc[j] = "claimed"
      BY <1>4, <2>0, <2>5 DEF RecordClaim, Goto
    <3>3. \A f, q : f # "pair_claimed" => (Logged(f, q)' <=> Logged(f, q))
      BY <2>1
    <3> QED
      BY <2>1, <3>1, <3>2, <3>3 DEF Script, PairTerminated
  <2>6. ASSUME Calm(j), pc'[j] # "done" PROVE Growing(j)'
    BY <1>4, <2>0, <2>1, <2>6 DEF RecordClaim, Goto, durable, trace, frame, machine,
       observed, Emit, Growing, Evidence, Frame, Gate
  <2>7. \A k \in Jobs : k # j => pc'[k] = pc[k] /\ seq'[k] = seq[k]
    BY <1>4 DEF RecordClaim, Goto, durable, trace, frame, machine, observed, Emit
  <2>8. pc'[j] \notin {"start", "mkdir"}
    BY <1>4, <2>0 DEF RecordClaim, Goto, durable, trace, frame, machine, observed, Emit
  <2>9. Calm(j) /\ pc'[j] = "done" => ledger' # << >>
    BY <1>4, <2>0, <2>1 DEF RecordClaim, Goto, Script
  <2> QED
    BY <2>0, <2>2, <2>3, <2>4, <2>5, <2>6, <2>7, <2>8, <2>9, AgreementFrom
<1>5. CASE Verify(j)
  <2>0. /\ claim = j /\ claim' = j /\ ~Ended(j) /\ pc[j] \notin {"start", "mkdir"}
        /\ InOrder(j) /\ Frame(j) /\ Gate(j) /\ signals' = signals /\ unguarded' = unguarded
        /\ Calm(j) => Orderly /\ Script(j) /\ Growing(j) /\ \A p \in Periods : RecordFound(p)
    BY <1>5 DEF Verify, AllocationContext, Goto, durable, trace, frame, machine, observed, OneShotInv,
       OwnerActs, VerdictInv, AgreeInv, Calm
  <2>1. /\ \A f, q : Logged(f, q)' <=> Logged(f, q)
        /\ Len(ledger') = Len(ledger) /\ (ledger' = << >> <=> ledger = << >>)
        /\ Orderly' <=> Orderly
    BY <1>5, SameLedger DEF Verify, AllocationContext, durable
  <2>2. Calm(j) => Orderly'
    BY <2>0, <2>1
  <2>3. \A p \in Periods : ev'[p].pre => traceState' # "empty"
    BY <1>5 DEF Verify, AllocationContext, Goto, durable, trace, frame, machine, observed, AgreeInv
  <2>4. ASSUME NEW p \in Periods, Calm(j) PROVE RecordFound(p)'
    BY <1>5, <2>0, <2>1, <2>4 DEF Verify, AllocationContext, Goto, durable, trace, frame, machine,
       observed, RecordFound, Evidence, InOrder, Gate
  <2>5. ASSUME Calm(j), pc'[j] # "done" PROVE Script(j)'
    BY <1>5, <2>0, <2>1, <2>5 DEF Verify, AllocationContext, Goto, durable, trace, frame, machine,
       observed, Script, PairTerminated
  <2>6. ASSUME Calm(j), pc'[j] # "done" PROVE Growing(j)'
    BY <1>5, <2>0, <2>1, <2>6 DEF Verify, AllocationContext, Goto, durable, trace, frame, machine,
       observed, Growing, Evidence, Frame, Gate
  <2>7. \A k \in Jobs : k # j => pc'[k] = pc[k] /\ seq'[k] = seq[k]
    BY <1>5 DEF Verify, AllocationContext, Goto, durable, trace, frame, machine, observed
  <2>8. pc'[j] \notin {"start", "mkdir"}
    BY <1>5, <2>0 DEF Verify, AllocationContext, Goto, durable, trace, frame, machine, observed
  <2>9. Calm(j) /\ pc'[j] = "done" => ledger' # << >>
    BY <1>5, <2>0, <2>1 DEF Verify, AllocationContext, Goto, Script
  <2> QED
    BY <2>0, <2>2, <2>3, <2>4, <2>5, <2>6, <2>7, <2>8, <2>9, AgreementFrom
<1> QED
  BY <1>1, <1>2, <1>3, <1>4, <1>5 DEF Claiming

LEMMA RejectingKeepsAgreement ==
  ASSUME TypeOK, OneShotInv, VerdictInv, AgreeInv, NEW j \in Jobs,
         Rejecting(j)
  PROVE  AgreeInv'
<1> USE VerdictTypes DEF Ended, Settled, Periods, Unlaunched, Unrecorded, Launchers, Running,
        BeforePeriods, Supervised, Prepared, Rejected
<1>1. CASE RejectManifest(j)
  <2>0. /\ claim = j /\ claim' = j /\ ~Ended(j) /\ pc[j] \notin {"start", "mkdir"}
        /\ InOrder(j) /\ Frame(j) /\ Gate(j) /\ signals' = signals /\ unguarded' = unguarded
        /\ Calm(j) => Orderly /\ Script(j) /\ Growing(j) /\ \A p \in Periods : RecordFound(p)
    BY <1>1 DEF RejectManifest, Goto, durable, trace, frame, machine, observed,
       OneShotInv, OwnerActs, VerdictInv, AgreeInv, Calm
  <2>1. /\ \A f, q : Logged(f, q)' <=> Logged(f, q)
        /\ Len(ledger') = Len(ledger) /\ (ledger' = << >> <=> ledger = << >>)
        /\ Orderly' <=> Orderly
    BY <1>1, SameLedger DEF RejectManifest, durable
  <2>2. Calm(j) => Orderly'
    BY <2>0, <2>1
  <2>3. \A p \in Periods : ev'[p].pre => traceState' # "empty"
    BY <1>1 DEF RejectManifest, Goto, durable, trace, frame, machine, observed, AgreeInv
  <2>4. ASSUME NEW p \in Periods, Calm(j) PROVE RecordFound(p)'
    <3>1. record' = record /\ ev' = ev /\ proof' = proof
      BY <1>1 DEF RejectManifest, trace, machine
    <3>2. ~Settled(p)
      BY <1>1, <2>0 DEF RejectManifest, Goto, InOrder, Frame
    <3> QED
      BY <3>1, <3>2 DEF RecordFound, Statuses
  <2>5. ASSUME Calm(j), pc'[j] # "done" PROVE Script(j)'
    BY <1>1, <2>0, <2>1, <2>5 DEF RejectManifest, Goto, durable, trace, frame, machine,
       observed, Script, PairTerminated
  <2>6. ASSUME Calm(j), pc'[j] # "done" PROVE Growing(j)'
    BY <1>1, <2>0, <2>1, <2>6 DEF RejectManifest, Goto, durable, trace, frame, machine,
       observed, Growing, Evidence, Frame, Gate
  <2>7. \A k \in Jobs : k # j => pc'[k] = pc[k] /\ seq'[k] = seq[k]
    BY <1>1 DEF RejectManifest, Goto, durable, trace, frame, machine, observed
  <2>8. pc'[j] \notin {"start", "mkdir"}
    BY <1>1, <2>0 DEF RejectManifest, Goto, durable, trace, frame, machine, observed
  <2>9. Calm(j) /\ pc'[j] = "done" => ledger' # << >>
    BY <1>1, <2>0, <2>1 DEF RejectManifest, Goto, Script
  <2> QED
    BY <2>0, <2>2, <2>3, <2>4, <2>5, <2>6, <2>7, <2>8, <2>9, AgreementFrom
<1>2. CASE RejectRecord(j)
  <2>0. /\ claim = j /\ claim' = j /\ ~Ended(j) /\ pc[j] \notin {"start", "mkdir"}
        /\ InOrder(j) /\ Frame(j) /\ Gate(j) /\ signals' = signals /\ unguarded' = unguarded
        /\ Calm(j) => Orderly /\ Script(j) /\ Growing(j) /\ \A p \in Periods : RecordFound(p)
    BY <1>2 DEF RejectRecord, Goto, durable, trace, frame, machine, observed,
       OneShotInv, OwnerActs, VerdictInv, AgreeInv, Calm
  <2>1. /\ \A f, q : Logged(f, q)' <=> Logged(f, q)
        /\ Len(ledger') = Len(ledger) /\ (ledger' = << >> <=> ledger = << >>)
        /\ Orderly' <=> Orderly
    BY <1>2, SameLedger DEF RejectRecord, durable
  <2>2. Calm(j) => Orderly'
    BY <2>0, <2>1
  <2>3. \A p \in Periods : ev'[p].pre => traceState' # "empty"
    BY <1>2 DEF RejectRecord, Goto, durable, trace, frame, machine, observed, Blank,
       Statuses, RecordType, AgreeInv
  <2>4. ASSUME NEW p \in Periods, Calm(j) PROVE RecordFound(p)'
    BY <1>2, <2>0, <2>1, <2>4 DEF RejectRecord, Goto, durable, trace, frame, machine,
       observed, Blank, Statuses, RecordType, RecordFound, Evidence, InOrder, Gate
  <2>5. ASSUME Calm(j), pc'[j] # "done" PROVE Script(j)'
    BY <1>2, <2>0, <2>1, <2>5 DEF RejectRecord, Goto, durable, trace, frame, machine,
       observed, Blank, Statuses, RecordType, Script, PairTerminated
  <2>6. ASSUME Calm(j), pc'[j] # "done" PROVE Growing(j)'
    BY <1>2, <2>0, <2>1, <2>6 DEF RejectRecord, Goto, durable, trace, frame, machine,
       observed, Blank, Statuses, RecordType, Growing, Evidence, Frame, Gate
  <2>7. \A k \in Jobs : k # j => pc'[k] = pc[k] /\ seq'[k] = seq[k]
    BY <1>2 DEF RejectRecord, Goto, durable, trace, frame, machine, observed
  <2>8. pc'[j] \notin {"start", "mkdir"}
    BY <1>2, <2>0 DEF RejectRecord, Goto, durable, trace, frame, machine, observed
  <2>9. Calm(j) /\ pc'[j] = "done" => ledger' # << >>
    BY <1>2, <2>0, <2>1 DEF RejectRecord, Goto, Script
  <2> QED
    BY <2>0, <2>2, <2>3, <2>4, <2>5, <2>6, <2>7, <2>8, <2>9, AgreementFrom
<1>3. CASE RejectTerminal(j)
  <2>0. /\ claim = j /\ claim' = j /\ ~Ended(j) /\ pc[j] \notin {"start", "mkdir"}
        /\ InOrder(j) /\ Frame(j) /\ Gate(j) /\ signals' = signals /\ unguarded' = unguarded
        /\ Calm(j) => Orderly /\ Script(j) /\ Growing(j) /\ \A p \in Periods : RecordFound(p)
    BY <1>3 DEF RejectTerminal, Goto, durable, trace, frame, machine, observed,
       OneShotInv, OwnerActs, VerdictInv, AgreeInv, Calm
  <2>1. /\ \A f, q : Logged(f, q)' <=> Logged(f, q) \/ (f = "terminal" /\ q = period[j])
        /\ Len(ledger') = Len(ledger) + 1 /\ ledger' # << >>
    <3>1. period[j] \in 0..2 /\ 0 \in 0..2
      OBVIOUS
    <3>2. Write("terminal", period[j], seq[j])
      BY <1>3 DEF RejectTerminal, Emit
    <3>3. "terminal" \in PairEvents \cup PeriodEvents
      BY DEF PairEvents, PeriodEvents
    <3>4. \A f, q : Logged(f, q)' <=> Logged(f, q) \/ (f = "terminal" /\ q = period[j])
      BY <3>1, <3>2, <3>3, NowLogged
    <3> QED
      BY <3>1, <3>2, <3>3, <3>4, LineWritten
  <2>2. Calm(j) => Orderly'
    BY <1>3, <2>0, OrderlyGrows DEF RejectTerminal, Goto, Emit, Script, PairEvents,
       PeriodEvents, PairTerminated
  <2>3. \A p \in Periods : ev'[p].pre => traceState' # "empty"
    BY <1>3 DEF RejectTerminal, Goto, durable, trace, frame, machine, observed,
       AfterPeriod, Emit, AgreeInv
  <2>4. ASSUME NEW p \in Periods, Calm(j) PROVE RecordFound(p)'
    BY <1>3, <2>0, <2>1, <2>4 DEF RejectTerminal, Goto, durable, trace, frame, machine,
       observed, AfterPeriod, Emit, RecordFound, Evidence, InOrder, Gate
  <2>5. ASSUME Calm(j), pc'[j] # "done" PROVE Script(j)'
    BY <1>3, <2>0, <2>1, <2>5 DEF RejectTerminal, Goto, durable, trace, frame, machine,
       observed, AfterPeriod, Emit, Script, PairTerminated
  <2>6. ASSUME Calm(j), pc'[j] # "done" PROVE Growing(j)'
    BY <1>3, <2>0, <2>1, <2>6 DEF RejectTerminal, Goto, durable, trace, frame, machine,
       observed, AfterPeriod, Emit, Growing, Evidence, Frame, Gate
  <2>7. \A k \in Jobs : k # j => pc'[k] = pc[k] /\ seq'[k] = seq[k]
    BY <1>3 DEF RejectTerminal, Goto, durable, trace, frame, machine, observed,
       AfterPeriod, Emit
  <2>8. pc'[j] \notin {"start", "mkdir"}
    BY <1>3, <2>0 DEF RejectTerminal, Goto, durable, trace, frame, machine, observed,
       AfterPeriod, Emit
  <2>9. Calm(j) /\ pc'[j] = "done" => ledger' # << >>
    BY <1>3, <2>0, <2>1 DEF RejectTerminal, Goto, Script
  <2> QED
    BY <2>0, <2>2, <2>3, <2>4, <2>5, <2>6, <2>7, <2>8, <2>9, AgreementFrom
<1>4. CASE RejectSummary(j)
  <2>0. /\ claim = j /\ claim' = j /\ ~Ended(j) /\ pc[j] \notin {"start", "mkdir"}
        /\ InOrder(j) /\ Frame(j) /\ Gate(j) /\ signals' = signals /\ unguarded' = unguarded
        /\ Calm(j) => Orderly /\ Script(j) /\ Growing(j) /\ \A p \in Periods : RecordFound(p)
    BY <1>4 DEF RejectSummary, Goto, durable, trace, frame, machine, observed,
       OneShotInv, OwnerActs, VerdictInv, AgreeInv, Calm
  <2>1. /\ \A f, q : Logged(f, q)' <=> Logged(f, q)
        /\ Len(ledger') = Len(ledger) /\ (ledger' = << >> <=> ledger = << >>)
        /\ Orderly' <=> Orderly
    BY <1>4, SameLedger DEF RejectSummary, durable
  <2>2. Calm(j) => Orderly'
    BY <2>0, <2>1
  <2>3. \A p \in Periods : ev'[p].pre => traceState' # "empty"
    BY <1>4 DEF RejectSummary, Goto, durable, trace, frame, machine, observed, AgreeInv
  <2>4. ASSUME NEW p \in Periods, Calm(j) PROVE RecordFound(p)'
    BY <1>4, <2>0, <2>1, <2>4 DEF RejectSummary, Goto, durable, trace, frame, machine,
       observed, RecordFound, Evidence, InOrder, Gate
  <2>5. ASSUME Calm(j), pc'[j] # "done" PROVE Script(j)'
    BY <1>4, <2>0, <2>1, <2>5 DEF RejectSummary, Goto, durable, trace, frame, machine,
       observed, Script, PairTerminated
  <2>6. ASSUME Calm(j), pc'[j] # "done" PROVE Growing(j)'
    BY <1>4, <2>0, <2>1, <2>6 DEF RejectSummary, Goto, durable, trace, frame, machine,
       observed, Growing, Evidence, Frame, Gate
  <2>7. \A k \in Jobs : k # j => pc'[k] = pc[k] /\ seq'[k] = seq[k]
    BY <1>4 DEF RejectSummary, Goto, durable, trace, frame, machine, observed
  <2>8. pc'[j] \notin {"start", "mkdir"}
    BY <1>4, <2>0 DEF RejectSummary, Goto, durable, trace, frame, machine, observed
  <2>9. Calm(j) /\ pc'[j] = "done" => ledger' # << >>
    BY <1>4, <2>0, <2>1 DEF RejectSummary, Goto, Script
  <2> QED
    BY <2>0, <2>2, <2>3, <2>4, <2>5, <2>6, <2>7, <2>8, <2>9, AgreementFrom
<1>5. CASE RejectClose(j)
  <2>0. /\ claim = j /\ claim' = j /\ ~Ended(j) /\ pc[j] \notin {"start", "mkdir"}
        /\ InOrder(j) /\ Frame(j) /\ Gate(j) /\ signals' = signals /\ unguarded' = unguarded
        /\ Calm(j) => Orderly /\ Script(j) /\ Growing(j) /\ \A p \in Periods : RecordFound(p)
    BY <1>5 DEF RejectClose, Goto, durable, trace, frame, machine, observed, OneShotInv,
       OwnerActs, VerdictInv, AgreeInv, Calm, JobEnds
  <2>1. /\ \A f, q : Logged(f, q)' <=> Logged(f, q) \/ (f = "pair_terminal" /\ q = 0)
        /\ Len(ledger') = Len(ledger) + 1 /\ ledger' # << >>
    BY <1>5, NowLogged, LineWritten DEF RejectClose, Emit, PairEvents, PeriodEvents
  <2>2. Calm(j) => Orderly'
    BY <1>5, <2>0, OrderlyGrows DEF RejectClose, Goto, Emit, Script, PairEvents,
       PeriodEvents, PairTerminated
  <2>3. \A p \in Periods : ev'[p].pre => traceState' # "empty"
    BY <1>5 DEF RejectClose, Goto, durable, trace, frame, machine, observed, JobEnds,
       AgreeInv
  <2>4. ASSUME NEW p \in Periods, Calm(j) PROVE RecordFound(p)'
    BY <1>5, <2>0, <2>1, <2>4 DEF RejectClose, Goto, durable, trace, frame, machine,
       observed, JobEnds, RecordFound, Evidence, InOrder, Gate
  <2>5. ASSUME Calm(j), pc'[j] # "done" PROVE Script(j)'
    BY <1>5, <2>0, <2>1, <2>5 DEF RejectClose, Goto, durable, trace, frame, machine,
       observed, JobEnds, Script, PairTerminated
  <2>6. ASSUME Calm(j), pc'[j] # "done" PROVE Growing(j)'
    BY <1>5, <2>0, <2>1, <2>6 DEF RejectClose, Goto, durable, trace, frame, machine,
       observed, JobEnds, Growing, Evidence, Frame, Gate
  <2>7. \A k \in Jobs : k # j => pc'[k] = pc[k] /\ seq'[k] = seq[k]
    BY <1>5 DEF RejectClose, Goto, durable, trace, frame, machine, observed, JobEnds
  <2>8. pc'[j] \notin {"start", "mkdir"}
    BY <1>5, <2>0 DEF RejectClose, Goto, durable, trace, frame, machine, observed,
       JobEnds
  <2>9. Calm(j) /\ pc'[j] = "done" => ledger' # << >>
    BY <1>5, <2>0, <2>1 DEF RejectClose, Goto, Script
  <2> QED
    BY <2>0, <2>2, <2>3, <2>4, <2>5, <2>6, <2>7, <2>8, <2>9, AgreementFrom
<1> QED
  BY <1>1, <1>2, <1>3, <1>4, <1>5 DEF Rejecting

LEMMA StartingKeepsAgreement ==
  ASSUME TypeOK, OneShotInv, VerdictInv, AgreeInv, NEW j \in Jobs,
         Starting(j)
  PROVE  AgreeInv'
<1> USE VerdictTypes DEF Ended, Settled, Periods, Unlaunched, Unrecorded, Launchers, Running,
        BeforePeriods, Supervised, Prepared, Rejected
<1>1. CASE WriteManifest(j)
  <2>0. /\ claim = j /\ claim' = j /\ ~Ended(j) /\ pc[j] \notin {"start", "mkdir"}
        /\ InOrder(j) /\ Frame(j) /\ Gate(j) /\ signals' = signals /\ unguarded' = unguarded
        /\ Calm(j) => Orderly /\ Script(j) /\ Growing(j) /\ \A p \in Periods : RecordFound(p)
    BY <1>1 DEF WriteManifest, Goto, durable, trace, frame, machine, observed,
       OneShotInv, OwnerActs, VerdictInv, AgreeInv, Calm
  <2>1. /\ \A f, q : Logged(f, q)' <=> Logged(f, q)
        /\ Len(ledger') = Len(ledger) /\ (ledger' = << >> <=> ledger = << >>)
        /\ Orderly' <=> Orderly
    BY <1>1, SameLedger DEF WriteManifest, durable
  <2>2. Calm(j) => Orderly'
    BY <2>0, <2>1
  <2>3. \A p \in Periods : ev'[p].pre => traceState' # "empty"
    BY <1>1 DEF WriteManifest, Goto, durable, trace, frame, machine, observed, AgreeInv
  <2>4. ASSUME NEW p \in Periods, Calm(j) PROVE RecordFound(p)'
    BY <1>1, <2>0, <2>1, <2>4 DEF WriteManifest, Goto, durable, trace, frame, machine,
       observed, RecordFound, Evidence, InOrder, Gate
  <2>5. ASSUME Calm(j), pc'[j] # "done" PROVE Script(j)'
    BY <1>1, <2>0, <2>1, <2>5 DEF WriteManifest, Goto, durable, trace, frame, machine,
       observed, Script, PairTerminated
  <2>6. ASSUME Calm(j), pc'[j] # "done" PROVE Growing(j)'
    BY <1>1, <2>0, <2>1, <2>6 DEF WriteManifest, Goto, durable, trace, frame, machine,
       observed, Growing, Evidence, Frame, Gate
  <2>7. \A k \in Jobs : k # j => pc'[k] = pc[k] /\ seq'[k] = seq[k]
    BY <1>1 DEF WriteManifest, Goto, durable, trace, frame, machine, observed
  <2>8. pc'[j] \notin {"start", "mkdir"}
    BY <1>1, <2>0 DEF WriteManifest, Goto, durable, trace, frame, machine, observed
  <2>9. Calm(j) /\ pc'[j] = "done" => ledger' # << >>
    BY <1>1, <2>0, <2>1 DEF WriteManifest, Goto, Script
  <2> QED
    BY <2>0, <2>2, <2>3, <2>4, <2>5, <2>6, <2>7, <2>8, <2>9, AgreementFrom
<1>2. CASE OpenTrace(j)
  <2>0. /\ claim = j /\ claim' = j /\ ~Ended(j) /\ pc[j] \notin {"start", "mkdir"}
        /\ InOrder(j) /\ Frame(j) /\ Gate(j) /\ signals' = signals /\ unguarded' = unguarded
        /\ Calm(j) => Orderly /\ Script(j) /\ Growing(j) /\ \A p \in Periods : RecordFound(p)
    BY <1>2 DEF OpenTrace, Goto, durable, trace, frame, machine, observed, OneShotInv,
       OwnerActs, VerdictInv, AgreeInv, Calm
  <2>1. /\ \A f, q : Logged(f, q)' <=> Logged(f, q)
        /\ Len(ledger') = Len(ledger) /\ (ledger' = << >> <=> ledger = << >>)
        /\ Orderly' <=> Orderly
    BY <1>2, SameLedger DEF OpenTrace, durable
  <2>2. Calm(j) => Orderly'
    BY <2>0, <2>1
  <2>3. \A p \in Periods : ev'[p].pre => traceState' # "empty"
    BY <1>2 DEF OpenTrace, Goto, durable, trace, frame, machine, observed, AgreeInv
  <2>4. ASSUME NEW p \in Periods, Calm(j) PROVE RecordFound(p)'
    BY <1>2, <2>0, <2>1, <2>4 DEF OpenTrace, Goto, durable, trace, frame, machine,
       observed, RecordFound, Evidence, InOrder, Gate
  <2>5. ASSUME Calm(j), pc'[j] # "done" PROVE Script(j)'
    BY <1>2, <2>0, <2>1, <2>5 DEF OpenTrace, Goto, durable, trace, frame, machine,
       observed, Script, PairTerminated
  <2>6. ASSUME Calm(j), pc'[j] # "done" PROVE Growing(j)'
    BY <1>2, <2>0, <2>1, <2>6 DEF OpenTrace, Goto, durable, trace, frame, machine,
       observed, Growing, Evidence, Frame, Gate
  <2>7. \A k \in Jobs : k # j => pc'[k] = pc[k] /\ seq'[k] = seq[k]
    BY <1>2 DEF OpenTrace, Goto, durable, trace, frame, machine, observed
  <2>8. pc'[j] \notin {"start", "mkdir"}
    BY <1>2, <2>0 DEF OpenTrace, Goto, durable, trace, frame, machine, observed
  <2>9. Calm(j) /\ pc'[j] = "done" => ledger' # << >>
    BY <1>2, <2>0, <2>1 DEF OpenTrace, Goto, Script
  <2> QED
    BY <2>0, <2>2, <2>3, <2>4, <2>5, <2>6, <2>7, <2>8, <2>9, AgreementFrom
<1>3. CASE StartPair(j)
  <2>0. /\ claim = j /\ claim' = j /\ ~Ended(j) /\ pc[j] \notin {"start", "mkdir"}
        /\ InOrder(j) /\ Frame(j) /\ Gate(j) /\ signals' = signals /\ unguarded' = unguarded
        /\ Calm(j) => Orderly /\ Script(j) /\ Growing(j) /\ \A p \in Periods : RecordFound(p)
    BY <1>3 DEF StartPair, Goto, durable, trace, frame, machine, observed, OneShotInv,
       OwnerActs, VerdictInv, AgreeInv, Calm
  <2>1. /\ \A f, q : Logged(f, q)' <=> Logged(f, q) \/ (f = "pair_started" /\ q = 0)
        /\ Len(ledger') = Len(ledger) + 1 /\ ledger' # << >>
    BY <1>3, NowLogged, LineWritten DEF StartPair, Emit, PairEvents, PeriodEvents
  <2>2. Calm(j) => Orderly'
    BY <1>3, <2>0, OrderlyGrows DEF StartPair, Goto, Emit, Script, PairEvents,
       PeriodEvents, PairTerminated
  <2>3. \A p \in Periods : ev'[p].pre => traceState' # "empty"
    BY <1>3 DEF StartPair, Goto, durable, trace, frame, machine, observed, Emit, NoExec,
       AgreeInv
  <2>4. ASSUME NEW p \in Periods, Calm(j) PROVE RecordFound(p)'
    BY <1>3, <2>0, <2>1, <2>4 DEF StartPair, Goto, durable, trace, frame, machine,
       observed, Emit, RecordFound, Evidence, InOrder, Gate
  <2>5. ASSUME Calm(j), pc'[j] # "done" PROVE Script(j)'
    BY <1>3, <2>0, <2>1, <2>5 DEF StartPair, Goto, durable, trace, frame, machine,
       observed, Emit, Script, PairTerminated
  <2>6. ASSUME Calm(j), pc'[j] # "done" PROVE Growing(j)'
    BY <1>3, <2>0, <2>1, <2>6 DEF StartPair, Goto, durable, trace, frame, machine,
       observed, Emit, NoExec, Growing, Evidence, Frame, Gate
  <2>7. \A k \in Jobs : k # j => pc'[k] = pc[k] /\ seq'[k] = seq[k]
    BY <1>3 DEF StartPair, Goto, durable, trace, frame, machine, observed, Emit
  <2>8. pc'[j] \notin {"start", "mkdir"}
    BY <1>3, <2>0 DEF StartPair, Goto, durable, trace, frame, machine, observed, Emit
  <2>9. Calm(j) /\ pc'[j] = "done" => ledger' # << >>
    BY <1>3, <2>0, <2>1 DEF StartPair, Goto, Script
  <2> QED
    BY <2>0, <2>2, <2>3, <2>4, <2>5, <2>6, <2>7, <2>8, <2>9, AgreementFrom
<1> QED
  BY <1>1, <1>2, <1>3 DEF Starting

LEMMA LaunchingKeepsAgreement ==
  ASSUME TypeOK, OneShotInv, VerdictInv, AgreeInv, NEW j \in Jobs,
         Launching(j)
  PROVE  AgreeInv'
<1> USE VerdictTypes DEF Ended, Settled, Periods, Unlaunched, Unrecorded, Launchers, Running,
        BeforePeriods, Supervised, Prepared, Rejected
<1>1. CASE GatePass(j)
  <2>0. /\ claim = j /\ claim' = j /\ ~Ended(j) /\ pc[j] \notin {"start", "mkdir"}
        /\ InOrder(j) /\ Frame(j) /\ Gate(j) /\ signals' = signals /\ unguarded' = unguarded
        /\ Calm(j) => Orderly /\ Script(j) /\ Growing(j) /\ \A p \in Periods : RecordFound(p)
    BY <1>1 DEF GatePass, Goto, durable, trace, frame, machine, observed, OneShotInv,
       OwnerActs, VerdictInv, AgreeInv, Calm
  <2>1. /\ \A f, q : Logged(f, q)' <=> Logged(f, q)
        /\ Len(ledger') = Len(ledger) /\ (ledger' = << >> <=> ledger = << >>)
        /\ Orderly' <=> Orderly
    BY <1>1, SameLedger DEF GatePass, durable
  <2>2. Calm(j) => Orderly'
    BY <2>0, <2>1
  <2>3. \A p \in Periods : ev'[p].pre => traceState' # "empty"
    BY <1>1 DEF GatePass, Goto, durable, trace, frame, machine, observed, TraceType,
       Sampled, AgreeInv
  <2>4. ASSUME NEW p \in Periods, Calm(j) PROVE RecordFound(p)'
    BY <1>1, <2>0, <2>1, <2>4 DEF GatePass, Goto, durable, trace, frame, machine,
       observed, TraceType, Sampled, RecordFound, Evidence, InOrder, Gate
  <2>5. ASSUME Calm(j), pc'[j] # "done" PROVE Script(j)'
    BY <1>1, <2>0, <2>1, <2>5 DEF GatePass, Goto, durable, trace, frame, machine,
       observed, TraceType, Sampled, Script, PairTerminated
  <2>6. ASSUME Calm(j), pc'[j] # "done" PROVE Growing(j)'
    BY <1>1, <2>0, <2>1, <2>6 DEF GatePass, Goto, durable, trace, frame, machine,
       observed, TraceType, Sampled, Growing, Evidence, Frame, Gate
  <2>7. \A k \in Jobs : k # j => pc'[k] = pc[k] /\ seq'[k] = seq[k]
    BY <1>1 DEF GatePass, Goto, durable, trace, frame, machine, observed
  <2>8. pc'[j] \notin {"start", "mkdir"}
    BY <1>1, <2>0 DEF GatePass, Goto, durable, trace, frame, machine, observed
  <2>9. Calm(j) /\ pc'[j] = "done" => ledger' # << >>
    BY <1>1, <2>0, <2>1 DEF GatePass, Goto, Script
  <2> QED
    BY <2>0, <2>2, <2>3, <2>4, <2>5, <2>6, <2>7, <2>8, <2>9, AgreementFrom
<1>2. CASE GateFail(j)
  <2>0. /\ claim = j /\ claim' = j /\ ~Ended(j) /\ pc[j] \notin {"start", "mkdir"}
        /\ InOrder(j) /\ Frame(j) /\ Gate(j) /\ signals' = signals /\ unguarded' = unguarded
        /\ Calm(j) => Orderly /\ Script(j) /\ Growing(j) /\ \A p \in Periods : RecordFound(p)
    BY <1>2 DEF GateFail, Goto, durable, trace, frame, machine, observed, OneShotInv,
       OwnerActs, VerdictInv, AgreeInv, Calm
  <2>1. /\ \A f, q : Logged(f, q)' <=> Logged(f, q)
        /\ Len(ledger') = Len(ledger) /\ (ledger' = << >> <=> ledger = << >>)
        /\ Orderly' <=> Orderly
    BY <1>2, SameLedger DEF GateFail, durable
  <2>2. Calm(j) => Orderly'
    BY <2>0, <2>1
  <2>3. \A p \in Periods : ev'[p].pre => traceState' # "empty"
    BY <1>2 DEF GateFail, Goto, durable, trace, frame, machine, observed, Sampled,
       AgreeInv
  <2>4. ASSUME NEW p \in Periods, Calm(j) PROVE RecordFound(p)'
    BY <1>2, <2>0, <2>1, <2>4 DEF GateFail, Goto, durable, trace, frame, machine,
       observed, Sampled, RecordFound, Evidence, InOrder, Gate
  <2>5. ASSUME Calm(j), pc'[j] # "done" PROVE Script(j)'
    BY <1>2, <2>0, <2>1, <2>5 DEF GateFail, Goto, durable, trace, frame, machine,
       observed, Sampled, Script, PairTerminated
  <2>6. ASSUME Calm(j), pc'[j] # "done" PROVE Growing(j)'
    BY <1>2, <2>0, <2>1, <2>6 DEF GateFail, Goto, durable, trace, frame, machine,
       observed, Sampled, Growing, Evidence, Frame, Gate
  <2>7. \A k \in Jobs : k # j => pc'[k] = pc[k] /\ seq'[k] = seq[k]
    BY <1>2 DEF GateFail, Goto, durable, trace, frame, machine, observed
  <2>8. pc'[j] \notin {"start", "mkdir"}
    BY <1>2, <2>0 DEF GateFail, Goto, durable, trace, frame, machine, observed
  <2>9. Calm(j) /\ pc'[j] = "done" => ledger' # << >>
    BY <1>2, <2>0, <2>1 DEF GateFail, Goto, Script
  <2> QED
    BY <2>0, <2>2, <2>3, <2>4, <2>5, <2>6, <2>7, <2>8, <2>9, AgreementFrom
<1>3. CASE Prepare(j)
  <2>0. /\ claim = j /\ claim' = j /\ ~Ended(j) /\ pc[j] \notin {"start", "mkdir"}
        /\ InOrder(j) /\ Frame(j) /\ Gate(j) /\ signals' = signals /\ unguarded' = unguarded
        /\ Calm(j) => Orderly /\ Script(j) /\ Growing(j) /\ \A p \in Periods : RecordFound(p)
    BY <1>3 DEF Prepare, Goto, durable, trace, frame, machine, observed, OneShotInv,
       OwnerActs, VerdictInv, AgreeInv, Calm
  <2>1. /\ \A f, q : Logged(f, q)' <=> Logged(f, q)
        /\ Len(ledger') = Len(ledger) /\ (ledger' = << >> <=> ledger = << >>)
        /\ Orderly' <=> Orderly
    BY <1>3, SameLedger DEF Prepare, durable
  <2>2. Calm(j) => Orderly'
    BY <2>0, <2>1
  <2>3. \A p \in Periods : ev'[p].pre => traceState' # "empty"
    BY <1>3 DEF Prepare, Goto, durable, trace, frame, machine, observed, ResultType,
       AgreeInv
  <2>4. ASSUME NEW p \in Periods, Calm(j) PROVE RecordFound(p)'
    BY <1>3, <2>0, <2>1, <2>4 DEF Prepare, Goto, durable, trace, frame, machine,
       observed, ResultType, RecordFound, Evidence, InOrder, Gate
  <2>5. ASSUME Calm(j), pc'[j] # "done" PROVE Script(j)'
    BY <1>3, <2>0, <2>1, <2>5 DEF Prepare, Goto, durable, trace, frame, machine,
       observed, Script, PairTerminated
  <2>6. ASSUME Calm(j), pc'[j] # "done" PROVE Growing(j)'
    BY <1>3, <2>0, <2>1, <2>6 DEF Prepare, Goto, durable, trace, frame, machine,
       observed, ResultType, Growing, Evidence, Frame, Gate
  <2>7. \A k \in Jobs : k # j => pc'[k] = pc[k] /\ seq'[k] = seq[k]
    BY <1>3 DEF Prepare, Goto, durable, trace, frame, machine, observed
  <2>8. pc'[j] \notin {"start", "mkdir"}
    BY <1>3, <2>0 DEF Prepare, Goto, durable, trace, frame, machine, observed
  <2>9. Calm(j) /\ pc'[j] = "done" => ledger' # << >>
    BY <1>3, <2>0, <2>1 DEF Prepare, Goto, Script
  <2> QED
    BY <2>0, <2>2, <2>3, <2>4, <2>5, <2>6, <2>7, <2>8, <2>9, AgreementFrom
<1>4. CASE PrepareFail(j)
  <2>0. /\ claim = j /\ claim' = j /\ ~Ended(j) /\ pc[j] \notin {"start", "mkdir"}
        /\ InOrder(j) /\ Frame(j) /\ Gate(j) /\ signals' = signals /\ unguarded' = unguarded
        /\ Calm(j) => Orderly /\ Script(j) /\ Growing(j) /\ \A p \in Periods : RecordFound(p)
    BY <1>4 DEF PrepareFail, Goto, durable, trace, frame, machine, observed, OneShotInv,
       OwnerActs, VerdictInv, AgreeInv, Calm
  <2>1. /\ \A f, q : Logged(f, q)' <=> Logged(f, q)
        /\ Len(ledger') = Len(ledger) /\ (ledger' = << >> <=> ledger = << >>)
        /\ Orderly' <=> Orderly
    BY <1>4, SameLedger DEF PrepareFail, durable
  <2>2. Calm(j) => Orderly'
    BY <2>0, <2>1
  <2>3. \A p \in Periods : ev'[p].pre => traceState' # "empty"
    BY <1>4 DEF PrepareFail, Goto, durable, trace, frame, machine, observed, ResultType,
       AgreeInv
  <2>4. ASSUME NEW p \in Periods, Calm(j) PROVE RecordFound(p)'
    BY <1>4, <2>0, <2>1, <2>4 DEF PrepareFail, Goto, durable, trace, frame, machine,
       observed, ResultType, RecordFound, Evidence, InOrder, Gate
  <2>5. ASSUME Calm(j), pc'[j] # "done" PROVE Script(j)'
    BY <1>4, <2>0, <2>1, <2>5 DEF PrepareFail, Goto, durable, trace, frame, machine,
       observed, Script, PairTerminated
  <2>6. ASSUME Calm(j), pc'[j] # "done" PROVE Growing(j)'
    BY <1>4, <2>0, <2>1, <2>6 DEF PrepareFail, Goto, durable, trace, frame, machine,
       observed, ResultType, Growing, Evidence, Frame, Gate
  <2>7. \A k \in Jobs : k # j => pc'[k] = pc[k] /\ seq'[k] = seq[k]
    BY <1>4 DEF PrepareFail, Goto, durable, trace, frame, machine, observed
  <2>8. pc'[j] \notin {"start", "mkdir"}
    BY <1>4, <2>0 DEF PrepareFail, Goto, durable, trace, frame, machine, observed
  <2>9. Calm(j) /\ pc'[j] = "done" => ledger' # << >>
    BY <1>4, <2>0, <2>1 DEF PrepareFail, Goto, Script
  <2> QED
    BY <2>0, <2>2, <2>3, <2>4, <2>5, <2>6, <2>7, <2>8, <2>9, AgreementFrom
<1>5. CASE Dispatch(j)
  <2>0. /\ claim = j /\ claim' = j /\ ~Ended(j) /\ pc[j] \notin {"start", "mkdir"}
        /\ InOrder(j) /\ Frame(j) /\ Gate(j) /\ signals' = signals /\ unguarded' = unguarded
        /\ Calm(j) => Orderly /\ Script(j) /\ Growing(j) /\ \A p \in Periods : RecordFound(p)
    BY <1>5 DEF Dispatch, Goto, durable, trace, frame, machine, observed, OneShotInv,
       OwnerActs, VerdictInv, AgreeInv, Calm
  <2>1. /\ \A f, q : Logged(f, q)' <=> Logged(f, q) \/ (f = "dispatched" /\ q = period[j])
        /\ Len(ledger') = Len(ledger) + 1 /\ ledger' # << >>
    <3>1. period[j] \in 0..2 /\ 0 \in 0..2
      OBVIOUS
    <3>2. Write("dispatched", period[j], seq[j])
      BY <1>5 DEF Dispatch, Emit
    <3>3. "dispatched" \in PairEvents \cup PeriodEvents
      BY DEF PairEvents, PeriodEvents
    <3>4. \A f, q : Logged(f, q)' <=> Logged(f, q) \/ (f = "dispatched" /\ q = period[j])
      BY <3>1, <3>2, <3>3, NowLogged
    <3> QED
      BY <3>1, <3>2, <3>3, <3>4, LineWritten
  <2>2. Calm(j) => Orderly'
    BY <1>5, <2>0, OrderlyGrows DEF Dispatch, Goto, Emit, Script, PairEvents,
       PeriodEvents, PairTerminated
  <2>3. \A p \in Periods : ev'[p].pre => traceState' # "empty"
    BY <1>5 DEF Dispatch, Goto, durable, trace, frame, machine, observed, Emit, NoExec,
       AgreeInv
  <2>4. ASSUME NEW p \in Periods, Calm(j) PROVE RecordFound(p)'
    BY <1>5, <2>0, <2>1, <2>4 DEF Dispatch, Goto, durable, trace, frame, machine,
       observed, Emit, RecordFound, Evidence, InOrder, Gate
  <2>5. ASSUME Calm(j), pc'[j] # "done" PROVE Script(j)'
    BY <1>5, <2>0, <2>1, <2>5 DEF Dispatch, Goto, durable, trace, frame, machine,
       observed, Emit, Script, PairTerminated
  <2>6. ASSUME Calm(j), pc'[j] # "done" PROVE Growing(j)'
    BY <1>5, <2>0, <2>1, <2>6 DEF Dispatch, Goto, durable, trace, frame, machine,
       observed, Emit, NoExec, Growing, Evidence, Frame, Gate
  <2>7. \A k \in Jobs : k # j => pc'[k] = pc[k] /\ seq'[k] = seq[k]
    BY <1>5 DEF Dispatch, Goto, durable, trace, frame, machine, observed, Emit
  <2>8. pc'[j] \notin {"start", "mkdir"}
    BY <1>5, <2>0 DEF Dispatch, Goto, durable, trace, frame, machine, observed, Emit
  <2>9. Calm(j) /\ pc'[j] = "done" => ledger' # << >>
    BY <1>5, <2>0, <2>1 DEF Dispatch, Goto, Script
  <2> QED
    BY <2>0, <2>2, <2>3, <2>4, <2>5, <2>6, <2>7, <2>8, <2>9, AgreementFrom
<1>6. CASE Popen(j)
  <2>0. /\ claim = j /\ claim' = j /\ ~Ended(j) /\ pc[j] \notin {"start", "mkdir"}
        /\ InOrder(j) /\ Frame(j) /\ Gate(j) /\ signals' = signals /\ unguarded' = unguarded
        /\ Calm(j) => Orderly /\ Script(j) /\ Growing(j) /\ \A p \in Periods : RecordFound(p)
    BY <1>6 DEF Popen, Goto, durable, trace, frame, machine, observed, OneShotInv,
       OwnerActs, VerdictInv, AgreeInv, Calm
  <2>1. /\ \A f, q : Logged(f, q)' <=> Logged(f, q)
        /\ Len(ledger') = Len(ledger) /\ (ledger' = << >> <=> ledger = << >>)
        /\ Orderly' <=> Orderly
    BY <1>6, SameLedger DEF Popen, durable
  <2>2. Calm(j) => Orderly'
    BY <2>0, <2>1
  <2>3. \A p \in Periods : ev'[p].pre => traceState' # "empty"
    BY <1>6 DEF Popen, Goto, durable, trace, frame, machine, observed, AgreeInv
  <2>4. ASSUME NEW p \in Periods, Calm(j) PROVE RecordFound(p)'
    BY <1>6, <2>0, <2>1, <2>4 DEF Popen, Goto, durable, trace, frame, machine, observed,
       RecordFound, Evidence, InOrder, Gate
  <2>5. ASSUME Calm(j), pc'[j] # "done" PROVE Script(j)'
    BY <1>6, <2>0, <2>1, <2>5 DEF Popen, Goto, durable, trace, frame, machine, observed,
       Script, PairTerminated
  <2>6. ASSUME Calm(j), pc'[j] # "done" PROVE Growing(j)'
    BY <1>6, <2>0, <2>1, <2>6 DEF Popen, Goto, durable, trace, frame, machine, observed,
       Growing, Evidence, Frame, Gate
  <2>7. \A k \in Jobs : k # j => pc'[k] = pc[k] /\ seq'[k] = seq[k]
    BY <1>6 DEF Popen, Goto, durable, trace, frame, machine, observed
  <2>8. pc'[j] \notin {"start", "mkdir"}
    BY <1>6, <2>0 DEF Popen, Goto, durable, trace, frame, machine, observed
  <2>9. Calm(j) /\ pc'[j] = "done" => ledger' # << >>
    BY <1>6, <2>0, <2>1 DEF Popen, Goto, Script
  <2> QED
    BY <2>0, <2>2, <2>3, <2>4, <2>5, <2>6, <2>7, <2>8, <2>9, AgreementFrom
<1>7. CASE PopenFail(j)
  <2>0. /\ claim = j /\ claim' = j /\ ~Ended(j) /\ pc[j] \notin {"start", "mkdir"}
        /\ InOrder(j) /\ Frame(j) /\ Gate(j) /\ signals' = signals /\ unguarded' = unguarded
        /\ Calm(j) => Orderly /\ Script(j) /\ Growing(j) /\ \A p \in Periods : RecordFound(p)
    BY <1>7 DEF PopenFail, Goto, durable, trace, frame, machine, observed, OneShotInv,
       OwnerActs, VerdictInv, AgreeInv, Calm
  <2>1. /\ \A f, q : Logged(f, q)' <=> Logged(f, q)
        /\ Len(ledger') = Len(ledger) /\ (ledger' = << >> <=> ledger = << >>)
        /\ Orderly' <=> Orderly
    BY <1>7, SameLedger DEF PopenFail, durable
  <2>2. Calm(j) => Orderly'
    BY <2>0, <2>1
  <2>3. \A p \in Periods : ev'[p].pre => traceState' # "empty"
    BY <1>7 DEF PopenFail, Goto, durable, trace, frame, machine, observed, ExecType,
       NoExec, Script, AgreeInv
  <2>4. ASSUME NEW p \in Periods, Calm(j) PROVE RecordFound(p)'
    BY <1>7, <2>0, <2>1, <2>4 DEF PopenFail, Goto, durable, trace, frame, machine,
       observed, ExecType, Script, RecordFound, Evidence, InOrder, Gate
  <2>5. ASSUME Calm(j), pc'[j] # "done" PROVE Script(j)'
    BY <1>7, <2>0, <2>1, <2>5 DEF PopenFail, Goto, durable, trace, frame, machine,
       observed, Script, Script, PairTerminated
  <2>6. ASSUME Calm(j), pc'[j] # "done" PROVE Growing(j)'
    BY <1>7, <2>0, <2>1, <2>6 DEF PopenFail, Goto, durable, trace, frame, machine,
       observed, ExecType, NoExec, Script, Growing, Evidence, Frame, Gate
  <2>7. \A k \in Jobs : k # j => pc'[k] = pc[k] /\ seq'[k] = seq[k]
    BY <1>7 DEF PopenFail, Goto, durable, trace, frame, machine, observed
  <2>8. pc'[j] \notin {"start", "mkdir"}
    BY <1>7, <2>0 DEF PopenFail, Goto, durable, trace, frame, machine, observed
  <2>9. Calm(j) /\ pc'[j] = "done" => ledger' # << >>
    BY <1>7, <2>0, <2>1 DEF PopenFail, Goto, Script
  <2> QED
    BY <2>0, <2>2, <2>3, <2>4, <2>5, <2>6, <2>7, <2>8, <2>9, AgreementFrom
<1>8. CASE Mark(j)
  <2>0. /\ claim = j /\ claim' = j /\ ~Ended(j) /\ pc[j] \notin {"start", "mkdir"}
        /\ InOrder(j) /\ Frame(j) /\ Gate(j) /\ signals' = signals /\ unguarded' = unguarded
        /\ Calm(j) => Orderly /\ Script(j) /\ Growing(j) /\ \A p \in Periods : RecordFound(p)
    BY <1>8 DEF Mark, Goto, durable, trace, frame, machine, observed, OneShotInv,
       OwnerActs, VerdictInv, AgreeInv, Calm
  <2>1. /\ \A f, q : Logged(f, q)' <=> Logged(f, q)
        /\ Len(ledger') = Len(ledger) /\ (ledger' = << >> <=> ledger = << >>)
        /\ Orderly' <=> Orderly
    BY <1>8, SameLedger DEF Mark, durable
  <2>2. Calm(j) => Orderly'
    BY <2>0, <2>1
  <2>3. \A p \in Periods : ev'[p].pre => traceState' # "empty"
    BY <1>8 DEF Mark, Goto, durable, trace, frame, machine, observed, ExecType, AgreeInv
  <2>4. ASSUME NEW p \in Periods, Calm(j) PROVE RecordFound(p)'
    BY <1>8, <2>0, <2>1, <2>4 DEF Mark, Goto, durable, trace, frame, machine, observed,
       ExecType, RecordFound, Evidence, InOrder, Gate
  <2>5. ASSUME Calm(j), pc'[j] # "done" PROVE Script(j)'
    BY <1>8, <2>0, <2>1, <2>5 DEF Mark, Goto, durable, trace, frame, machine, observed,
       Script, PairTerminated
  <2>6. ASSUME Calm(j), pc'[j] # "done" PROVE Growing(j)'
    BY <1>8, <2>0, <2>1, <2>6 DEF Mark, Goto, durable, trace, frame, machine, observed,
       ExecType, Growing, Evidence, Frame, Gate
  <2>7. \A k \in Jobs : k # j => pc'[k] = pc[k] /\ seq'[k] = seq[k]
    BY <1>8 DEF Mark, Goto, durable, trace, frame, machine, observed
  <2>8. pc'[j] \notin {"start", "mkdir"}
    BY <1>8, <2>0 DEF Mark, Goto, durable, trace, frame, machine, observed
  <2>9. Calm(j) /\ pc'[j] = "done" => ledger' # << >>
    BY <1>8, <2>0, <2>1 DEF Mark, Goto, Script
  <2> QED
    BY <2>0, <2>2, <2>3, <2>4, <2>5, <2>6, <2>7, <2>8, <2>9, AgreementFrom
<1>9. CASE RecordSpawn(j)
  <2>0. /\ claim = j /\ claim' = j /\ ~Ended(j) /\ pc[j] \notin {"start", "mkdir"}
        /\ InOrder(j) /\ Frame(j) /\ Gate(j) /\ signals' = signals /\ unguarded' = unguarded
        /\ Calm(j) => Orderly /\ Script(j) /\ Growing(j) /\ \A p \in Periods : RecordFound(p)
    BY <1>9 DEF RecordSpawn, Goto, durable, trace, frame, machine, observed, OneShotInv,
       OwnerActs, VerdictInv, AgreeInv, Calm
  <2>1. /\ \A f, q : Logged(f, q)' <=> Logged(f, q) \/ (f = "spawned" /\ q = period[j])
        /\ Len(ledger') = Len(ledger) + 1 /\ ledger' # << >>
    BY <1>9, NowLogged, LineWritten DEF RecordSpawn, Emit, PairEvents, PeriodEvents
  <2>2. Calm(j) => Orderly'
    BY <1>9, <2>0, OrderlyGrows DEF RecordSpawn, Goto, Emit, Script, PairEvents,
       PeriodEvents, PairTerminated
  <2>3. \A p \in Periods : ev'[p].pre => traceState' # "empty"
    BY <1>9 DEF RecordSpawn, Goto, durable, trace, frame, machine, observed, Emit,
       AgreeInv
  <2>4. ASSUME NEW p \in Periods, Calm(j) PROVE RecordFound(p)'
    BY <1>9, <2>0, <2>1, <2>4 DEF RecordSpawn, Goto, durable, trace, frame, machine,
       observed, Emit, RecordFound, Evidence, InOrder, Gate
  <2>5. ASSUME Calm(j), pc'[j] # "done" PROVE Script(j)'
    BY <1>9, <2>0, <2>1, <2>5 DEF RecordSpawn, Goto, durable, trace, frame, machine,
       observed, Emit, Script, PairTerminated
  <2>6. ASSUME Calm(j), pc'[j] # "done" PROVE Growing(j)'
    BY <1>9, <2>0, <2>1, <2>6 DEF RecordSpawn, Goto, durable, trace, frame, machine,
       observed, Emit, Growing, Evidence, Frame, Gate
  <2>7. \A k \in Jobs : k # j => pc'[k] = pc[k] /\ seq'[k] = seq[k]
    BY <1>9 DEF RecordSpawn, Goto, durable, trace, frame, machine, observed, Emit
  <2>8. pc'[j] \notin {"start", "mkdir"}
    BY <1>9, <2>0 DEF RecordSpawn, Goto, durable, trace, frame, machine, observed, Emit
  <2>9. Calm(j) /\ pc'[j] = "done" => ledger' # << >>
    BY <1>9, <2>0, <2>1 DEF RecordSpawn, Goto, Script
  <2> QED
    BY <2>0, <2>2, <2>3, <2>4, <2>5, <2>6, <2>7, <2>8, <2>9, AgreementFrom
<1> QED
  BY <1>1, <1>2, <1>3, <1>4, <1>5, <1>6, <1>7, <1>8, <1>9 DEF Launching

LEMMA EndingKeepsAgreement ==
  ASSUME TypeOK, OneShotInv, VerdictInv, AgreeInv, NEW j \in Jobs,
         Ending(j)
  PROVE  AgreeInv'
<1> USE VerdictTypes DEF Ended, Settled, Periods, Unlaunched, Unrecorded, Launchers, Running,
        BeforePeriods, Supervised, Prepared, Rejected
<1>1. CASE PayloadStopped(j)
  <2>0. /\ claim = j /\ claim' = j /\ ~Ended(j) /\ pc[j] \notin {"start", "mkdir"}
        /\ InOrder(j) /\ Frame(j) /\ Gate(j) /\ signals' = signals /\ unguarded' = unguarded
        /\ Calm(j) => Orderly /\ Script(j) /\ Growing(j) /\ \A p \in Periods : RecordFound(p)
    BY <1>1 DEF PayloadStopped, Goto, durable, trace, frame, machine, observed,
       OneShotInv, OwnerActs, VerdictInv, AgreeInv, Calm
  <2>1. /\ \A f, q : Logged(f, q)' <=> Logged(f, q)
        /\ Len(ledger') = Len(ledger) /\ (ledger' = << >> <=> ledger = << >>)
        /\ Orderly' <=> Orderly
    BY <1>1, SameLedger DEF PayloadStopped, durable
  <2>2. Calm(j) => Orderly'
    BY <2>0, <2>1
  <2>3. \A p \in Periods : ev'[p].pre => traceState' # "empty"
    BY <1>1 DEF PayloadStopped, Goto, durable, trace, frame, machine, observed,
       ExecType, AgreeInv
  <2>4. ASSUME NEW p \in Periods, Calm(j) PROVE RecordFound(p)'
    BY <1>1, <2>0, <2>1, <2>4 DEF PayloadStopped, Goto, durable, trace, frame, machine,
       observed, ExecType, RecordFound, Evidence, InOrder, Gate
  <2>5. ASSUME Calm(j), pc'[j] # "done" PROVE Script(j)'
    BY <1>1, <2>0, <2>1, <2>5 DEF PayloadStopped, Goto, durable, trace, frame, machine,
       observed, Script, PairTerminated
  <2>6. ASSUME Calm(j), pc'[j] # "done" PROVE Growing(j)'
    BY <1>1, <2>0, <2>1, <2>6 DEF PayloadStopped, Goto, durable, trace, frame, machine,
       observed, ExecType, Growing, Evidence, Frame, Gate
  <2>7. \A k \in Jobs : k # j => pc'[k] = pc[k] /\ seq'[k] = seq[k]
    BY <1>1 DEF PayloadStopped, Goto, durable, trace, frame, machine, observed
  <2>8. pc'[j] \notin {"start", "mkdir"}
    BY <1>1, <2>0 DEF PayloadStopped, Goto, durable, trace, frame, machine, observed
  <2>9. Calm(j) /\ pc'[j] = "done" => ledger' # << >>
    BY <1>1, <2>0, <2>1 DEF PayloadStopped, Goto, Script
  <2> QED
    BY <2>0, <2>2, <2>3, <2>4, <2>5, <2>6, <2>7, <2>8, <2>9, AgreementFrom
<1>2. CASE JoinSampler(j)
  <2>0. /\ claim = j /\ claim' = j /\ ~Ended(j) /\ pc[j] \notin {"start", "mkdir"}
        /\ InOrder(j) /\ Frame(j) /\ Gate(j) /\ signals' = signals /\ unguarded' = unguarded
        /\ Calm(j) => Orderly /\ Script(j) /\ Growing(j) /\ \A p \in Periods : RecordFound(p)
    BY <1>2 DEF JoinSampler, Goto, durable, trace, frame, machine, observed, OneShotInv,
       OwnerActs, VerdictInv, AgreeInv, Calm
  <2>1. /\ \A f, q : Logged(f, q)' <=> Logged(f, q)
        /\ Len(ledger') = Len(ledger) /\ (ledger' = << >> <=> ledger = << >>)
        /\ Orderly' <=> Orderly
    BY <1>2, SameLedger DEF JoinSampler, durable
  <2>2. Calm(j) => Orderly'
    BY <2>0, <2>1
  <2>3. \A p \in Periods : ev'[p].pre => traceState' # "empty"
    BY <1>2 DEF JoinSampler, Goto, durable, trace, frame, machine, observed, ExecType,
       TraceType, AgreeInv
  <2>4. ASSUME NEW p \in Periods, Calm(j) PROVE RecordFound(p)'
    BY <1>2, <2>0, <2>1, <2>4 DEF JoinSampler, Goto, durable, trace, frame, machine,
       observed, ExecType, TraceType, RecordFound, Evidence, InOrder, Gate
  <2>5. ASSUME Calm(j), pc'[j] # "done" PROVE Script(j)'
    BY <1>2, <2>0, <2>1, <2>5 DEF JoinSampler, Goto, durable, trace, frame, machine,
       observed, TraceType, Script, PairTerminated
  <2>6. ASSUME Calm(j), pc'[j] # "done" PROVE Growing(j)'
    BY <1>2, <2>0, <2>1, <2>6 DEF JoinSampler, Goto, durable, trace, frame, machine,
       observed, ExecType, TraceType, Growing, Evidence, Frame, Gate
  <2>7. \A k \in Jobs : k # j => pc'[k] = pc[k] /\ seq'[k] = seq[k]
    BY <1>2 DEF JoinSampler, Goto, durable, trace, frame, machine, observed
  <2>8. pc'[j] \notin {"start", "mkdir"}
    BY <1>2, <2>0 DEF JoinSampler, Goto, durable, trace, frame, machine, observed
  <2>9. Calm(j) /\ pc'[j] = "done" => ledger' # << >>
    BY <1>2, <2>0, <2>1 DEF JoinSampler, Goto, Script
  <2> QED
    BY <2>0, <2>2, <2>3, <2>4, <2>5, <2>6, <2>7, <2>8, <2>9, AgreementFrom
<1>3. CASE Cleanup(j)
  <2>0. /\ claim = j /\ claim' = j /\ ~Ended(j) /\ pc[j] \notin {"start", "mkdir"}
        /\ InOrder(j) /\ Frame(j) /\ Gate(j) /\ signals' = signals /\ unguarded' = unguarded
        /\ Calm(j) => Orderly /\ Script(j) /\ Growing(j) /\ \A p \in Periods : RecordFound(p)
    BY <1>3 DEF Cleanup, Goto, durable, trace, frame, machine, observed, OneShotInv,
       OwnerActs, VerdictInv, AgreeInv, Calm
  <2>1. /\ \A f, q : Logged(f, q)' <=> Logged(f, q)
        /\ Len(ledger') = Len(ledger) /\ (ledger' = << >> <=> ledger = << >>)
        /\ Orderly' <=> Orderly
    BY <1>3, SameLedger DEF Cleanup, durable
  <2>2. Calm(j) => Orderly'
    BY <2>0, <2>1
  <2>3. \A p \in Periods : ev'[p].pre => traceState' # "empty"
    BY <1>3 DEF Cleanup, Goto, durable, trace, frame, machine, observed, ExecType,
       AgreeInv
  <2>4. ASSUME NEW p \in Periods, Calm(j) PROVE RecordFound(p)'
    BY <1>3, <2>0, <2>1, <2>4 DEF Cleanup, Goto, durable, trace, frame, machine,
       observed, ExecType, RecordFound, Evidence, InOrder, Gate
  <2>5. ASSUME Calm(j), pc'[j] # "done" PROVE Script(j)'
    BY <1>3, <2>0, <2>1, <2>5 DEF Cleanup, Goto, durable, trace, frame, machine,
       observed, Script, PairTerminated
  <2>6. ASSUME Calm(j), pc'[j] # "done" PROVE Growing(j)'
    BY <1>3, <2>0, <2>1, <2>6 DEF Cleanup, Goto, durable, trace, frame, machine,
       observed, ExecType, Growing, Evidence, Frame, Gate
  <2>7. \A k \in Jobs : k # j => pc'[k] = pc[k] /\ seq'[k] = seq[k]
    BY <1>3 DEF Cleanup, Goto, durable, trace, frame, machine, observed
  <2>8. pc'[j] \notin {"start", "mkdir"}
    BY <1>3, <2>0 DEF Cleanup, Goto, durable, trace, frame, machine, observed
  <2>9. Calm(j) /\ pc'[j] = "done" => ledger' # << >>
    BY <1>3, <2>0, <2>1 DEF Cleanup, Goto, Script
  <2> QED
    BY <2>0, <2>2, <2>3, <2>4, <2>5, <2>6, <2>7, <2>8, <2>9, AgreementFrom
<1> QED
  BY <1>1, <1>2, <1>3 DEF Ending

LEMMA SettlingKeepsAgreement ==
  ASSUME TypeOK, OneShotInv, VerdictInv, AgreeInv, NEW j \in Jobs,
         Settling(j)
  PROVE  AgreeInv'
<1> USE VerdictTypes DEF Ended, Settled, Periods, Unlaunched, Unrecorded, Launchers, Running,
        BeforePeriods, Supervised, Prepared, Rejected
<1>1. CASE Assess(j)
  <2>0. /\ claim = j /\ claim' = j /\ ~Ended(j) /\ pc[j] \notin {"start", "mkdir"}
        /\ InOrder(j) /\ Frame(j) /\ Gate(j) /\ signals' = signals /\ unguarded' = unguarded
        /\ Calm(j) => Orderly /\ Script(j) /\ Growing(j) /\ \A p \in Periods : RecordFound(p)
    BY <1>1 DEF Assess, Goto, durable, trace, frame, machine, observed, OneShotInv,
       OwnerActs, VerdictInv, AgreeInv, Calm
  <2>1. /\ \A f, q : Logged(f, q)' <=> Logged(f, q)
        /\ Len(ledger') = Len(ledger) /\ (ledger' = << >> <=> ledger = << >>)
        /\ Orderly' <=> Orderly
    BY <1>1, SameLedger DEF Assess, durable
  <2>2. Calm(j) => Orderly'
    BY <2>0, <2>1
  <2>3. \A p \in Periods : ev'[p].pre => traceState' # "empty"
    BY <1>1 DEF Assess, Goto, durable, trace, frame, machine, observed, ResultType,
       AgreeInv
  <2>4. ASSUME NEW p \in Periods, Calm(j) PROVE RecordFound(p)'
    BY <1>1, <2>0, <2>1, <2>4 DEF Assess, Goto, durable, trace, frame, machine,
       observed, ResultType, RecordFound, Evidence, InOrder, Gate
  <2>5. ASSUME Calm(j), pc'[j] # "done" PROVE Script(j)'
    BY <1>1, <2>0, <2>1, <2>5 DEF Assess, Goto, durable, trace, frame, machine,
       observed, Script, PairTerminated
  <2>6. ASSUME Calm(j), pc'[j] # "done" PROVE Growing(j)'
    BY <1>1, <2>0, <2>1, <2>6 DEF Assess, Goto, durable, trace, frame, machine,
       observed, ResultType, Growing, Evidence, Frame, Gate
  <2>7. \A k \in Jobs : k # j => pc'[k] = pc[k] /\ seq'[k] = seq[k]
    BY <1>1 DEF Assess, Goto, durable, trace, frame, machine, observed
  <2>8. pc'[j] \notin {"start", "mkdir"}
    BY <1>1, <2>0 DEF Assess, Goto, durable, trace, frame, machine, observed
  <2>9. Calm(j) /\ pc'[j] = "done" => ledger' # << >>
    BY <1>1, <2>0, <2>1 DEF Assess, Goto, Script
  <2> QED
    BY <2>0, <2>2, <2>3, <2>4, <2>5, <2>6, <2>7, <2>8, <2>9, AgreementFrom
<1>2. CASE AssessRaises(j)
  <2>0. /\ claim = j /\ claim' = j /\ ~Ended(j) /\ pc[j] \notin {"start", "mkdir"}
        /\ InOrder(j) /\ Frame(j) /\ Gate(j) /\ signals' = signals /\ unguarded' = unguarded
        /\ Calm(j) => Orderly /\ Script(j) /\ Growing(j) /\ \A p \in Periods : RecordFound(p)
    BY <1>2 DEF AssessRaises, Goto, durable, trace, frame, machine, observed,
       OneShotInv, OwnerActs, VerdictInv, AgreeInv, Calm
  <2>1. /\ \A f, q : Logged(f, q)' <=> Logged(f, q)
        /\ Len(ledger') = Len(ledger) /\ (ledger' = << >> <=> ledger = << >>)
        /\ Orderly' <=> Orderly
    BY <1>2, SameLedger DEF AssessRaises, durable
  <2>2. Calm(j) => Orderly'
    BY <2>0, <2>1
  <2>3. \A p \in Periods : ev'[p].pre => traceState' # "empty"
    BY <1>2 DEF AssessRaises, Goto, durable, trace, frame, machine, observed,
       ResultType, Raised, AgreeInv
  <2>4. ASSUME NEW p \in Periods, Calm(j) PROVE RecordFound(p)'
    BY <1>2, <2>0, <2>1, <2>4 DEF AssessRaises, Goto, durable, trace, frame, machine,
       observed, ResultType, Raised, RecordFound, Evidence, InOrder, Gate
  <2>5. ASSUME Calm(j), pc'[j] # "done" PROVE Script(j)'
    BY <1>2, <2>0, <2>1, <2>5 DEF AssessRaises, Goto, durable, trace, frame, machine,
       observed, Raised, Script, PairTerminated
  <2>6. ASSUME Calm(j), pc'[j] # "done" PROVE Growing(j)'
    BY <1>2, <2>0, <2>1, <2>6 DEF AssessRaises, Goto, durable, trace, frame, machine,
       observed, ResultType, Raised, Growing, Evidence, Frame, Gate
  <2>7. \A k \in Jobs : k # j => pc'[k] = pc[k] /\ seq'[k] = seq[k]
    BY <1>2 DEF AssessRaises, Goto, durable, trace, frame, machine, observed
  <2>8. pc'[j] \notin {"start", "mkdir"}
    BY <1>2, <2>0 DEF AssessRaises, Goto, durable, trace, frame, machine, observed
  <2>9. Calm(j) /\ pc'[j] = "done" => ledger' # << >>
    BY <1>2, <2>0, <2>1 DEF AssessRaises, Goto, Script
  <2> QED
    BY <2>0, <2>2, <2>3, <2>4, <2>5, <2>6, <2>7, <2>8, <2>9, AgreementFrom
<1>3. CASE PostIdle(j)
  <2>0. /\ claim = j /\ claim' = j /\ ~Ended(j) /\ pc[j] \notin {"start", "mkdir"}
        /\ InOrder(j) /\ Frame(j) /\ Gate(j) /\ signals' = signals /\ unguarded' = unguarded
        /\ Calm(j) => Orderly /\ Script(j) /\ Growing(j) /\ \A p \in Periods : RecordFound(p)
    BY <1>3 DEF PostIdle, Goto, durable, trace, frame, machine, observed, OneShotInv,
       OwnerActs, VerdictInv, AgreeInv, Calm
  <2>1. /\ \A f, q : Logged(f, q)' <=> Logged(f, q)
        /\ Len(ledger') = Len(ledger) /\ (ledger' = << >> <=> ledger = << >>)
        /\ Orderly' <=> Orderly
    BY <1>3, SameLedger DEF PostIdle, durable
  <2>2. Calm(j) => Orderly'
    BY <2>0, <2>1
  <2>3. \A p \in Periods : ev'[p].pre => traceState' # "empty"
    BY <1>3 DEF PostIdle, Goto, durable, trace, frame, machine, observed, ExecType,
       TraceType, AgreeInv
  <2>4. ASSUME NEW p \in Periods, Calm(j) PROVE RecordFound(p)'
    BY <1>3, <2>0, <2>1, <2>4 DEF PostIdle, Goto, durable, trace, frame, machine,
       observed, ExecType, TraceType, RecordFound, Evidence, InOrder, Gate
  <2>5. ASSUME Calm(j), pc'[j] # "done" PROVE Script(j)'
    BY <1>3, <2>0, <2>1, <2>5 DEF PostIdle, Goto, durable, trace, frame, machine,
       observed, TraceType, Script, PairTerminated
  <2>6. ASSUME Calm(j), pc'[j] # "done" PROVE Growing(j)'
    BY <1>3, <2>0, <2>1, <2>6 DEF PostIdle, Goto, durable, trace, frame, machine,
       observed, ExecType, TraceType, Growing, Evidence, Frame, Gate
  <2>7. \A k \in Jobs : k # j => pc'[k] = pc[k] /\ seq'[k] = seq[k]
    BY <1>3 DEF PostIdle, Goto, durable, trace, frame, machine, observed
  <2>8. pc'[j] \notin {"start", "mkdir"}
    BY <1>3, <2>0 DEF PostIdle, Goto, durable, trace, frame, machine, observed
  <2>9. Calm(j) /\ pc'[j] = "done" => ledger' # << >>
    BY <1>3, <2>0, <2>1 DEF PostIdle, Goto, Script
  <2> QED
    BY <2>0, <2>2, <2>3, <2>4, <2>5, <2>6, <2>7, <2>8, <2>9, AgreementFrom
<1>4. CASE PostNotIdle(j)
  <2>0. /\ claim = j /\ claim' = j /\ ~Ended(j) /\ pc[j] \notin {"start", "mkdir"}
        /\ InOrder(j) /\ Frame(j) /\ Gate(j) /\ signals' = signals /\ unguarded' = unguarded
        /\ Calm(j) => Orderly /\ Script(j) /\ Growing(j) /\ \A p \in Periods : RecordFound(p)
    BY <1>4 DEF PostNotIdle, Goto, durable, trace, frame, machine, observed, OneShotInv,
       OwnerActs, VerdictInv, AgreeInv, Calm
  <2>1. /\ \A f, q : Logged(f, q)' <=> Logged(f, q)
        /\ Len(ledger') = Len(ledger) /\ (ledger' = << >> <=> ledger = << >>)
        /\ Orderly' <=> Orderly
    BY <1>4, SameLedger DEF PostNotIdle, durable
  <2>2. Calm(j) => Orderly'
    BY <2>0, <2>1
  <2>3. \A p \in Periods : ev'[p].pre => traceState' # "empty"
    BY <1>4 DEF PostNotIdle, Goto, durable, trace, frame, machine, observed, AgreeInv
  <2>4. ASSUME NEW p \in Periods, Calm(j) PROVE RecordFound(p)'
    BY <1>4, <2>0, <2>1, <2>4 DEF PostNotIdle, Goto, durable, trace, frame, machine,
       observed, RecordFound, Evidence, InOrder, Gate
  <2>5. ASSUME Calm(j), pc'[j] # "done" PROVE Script(j)'
    BY <1>4, <2>0, <2>1, <2>5 DEF PostNotIdle, Goto, durable, trace, frame, machine,
       observed, Script, PairTerminated
  <2>6. ASSUME Calm(j), pc'[j] # "done" PROVE Growing(j)'
    BY <1>4, <2>0, <2>1, <2>6 DEF PostNotIdle, Goto, durable, trace, frame, machine,
       observed, Growing, Evidence, Frame, Gate
  <2>7. \A k \in Jobs : k # j => pc'[k] = pc[k] /\ seq'[k] = seq[k]
    BY <1>4 DEF PostNotIdle, Goto, durable, trace, frame, machine, observed
  <2>8. pc'[j] \notin {"start", "mkdir"}
    BY <1>4, <2>0 DEF PostNotIdle, Goto, durable, trace, frame, machine, observed
  <2>9. Calm(j) /\ pc'[j] = "done" => ledger' # << >>
    BY <1>4, <2>0, <2>1 DEF PostNotIdle, Goto, Script
  <2> QED
    BY <2>0, <2>2, <2>3, <2>4, <2>5, <2>6, <2>7, <2>8, <2>9, AgreementFrom
<1>5. CASE PostRaises(j)
  <2>0. /\ claim = j /\ claim' = j /\ ~Ended(j) /\ pc[j] \notin {"start", "mkdir"}
        /\ InOrder(j) /\ Frame(j) /\ Gate(j) /\ signals' = signals /\ unguarded' = unguarded
        /\ Calm(j) => Orderly /\ Script(j) /\ Growing(j) /\ \A p \in Periods : RecordFound(p)
    BY <1>5 DEF PostRaises, Goto, durable, trace, frame, machine, observed, OneShotInv,
       OwnerActs, VerdictInv, AgreeInv, Calm
  <2>1. /\ \A f, q : Logged(f, q)' <=> Logged(f, q)
        /\ Len(ledger') = Len(ledger) /\ (ledger' = << >> <=> ledger = << >>)
        /\ Orderly' <=> Orderly
    BY <1>5, SameLedger DEF PostRaises, durable
  <2>2. Calm(j) => Orderly'
    BY <2>0, <2>1
  <2>3. \A p \in Periods : ev'[p].pre => traceState' # "empty"
    BY <1>5 DEF PostRaises, Goto, durable, trace, frame, machine, observed, ResultType,
       Raised, AgreeInv
  <2>4. ASSUME NEW p \in Periods, Calm(j) PROVE RecordFound(p)'
    BY <1>5, <2>0, <2>1, <2>4 DEF PostRaises, Goto, durable, trace, frame, machine,
       observed, ResultType, Raised, RecordFound, Evidence, InOrder, Gate
  <2>5. ASSUME Calm(j), pc'[j] # "done" PROVE Script(j)'
    BY <1>5, <2>0, <2>1, <2>5 DEF PostRaises, Goto, durable, trace, frame, machine,
       observed, Raised, Script, PairTerminated
  <2>6. ASSUME Calm(j), pc'[j] # "done" PROVE Growing(j)'
    BY <1>5, <2>0, <2>1, <2>6 DEF PostRaises, Goto, durable, trace, frame, machine,
       observed, ResultType, Raised, Growing, Evidence, Frame, Gate
  <2>7. \A k \in Jobs : k # j => pc'[k] = pc[k] /\ seq'[k] = seq[k]
    BY <1>5 DEF PostRaises, Goto, durable, trace, frame, machine, observed
  <2>8. pc'[j] \notin {"start", "mkdir"}
    BY <1>5, <2>0 DEF PostRaises, Goto, durable, trace, frame, machine, observed
  <2>9. Calm(j) /\ pc'[j] = "done" => ledger' # << >>
    BY <1>5, <2>0, <2>1 DEF PostRaises, Goto, Script
  <2> QED
    BY <2>0, <2>2, <2>3, <2>4, <2>5, <2>6, <2>7, <2>8, <2>9, AgreementFrom
<1>6. CASE Finish(j)
  <2>0. /\ claim = j /\ claim' = j /\ ~Ended(j) /\ pc[j] \notin {"start", "mkdir"}
        /\ InOrder(j) /\ Frame(j) /\ Gate(j) /\ signals' = signals /\ unguarded' = unguarded
        /\ Calm(j) => Orderly /\ Script(j) /\ Growing(j) /\ \A p \in Periods : RecordFound(p)
    BY <1>6 DEF Finish, Goto, durable, trace, frame, machine, observed, OneShotInv,
       OwnerActs, VerdictInv, AgreeInv, Calm
  <2>1. /\ \A f, q : Logged(f, q)' <=> Logged(f, q)
        /\ Len(ledger') = Len(ledger) /\ (ledger' = << >> <=> ledger = << >>)
        /\ Orderly' <=> Orderly
    BY <1>6, SameLedger DEF Finish, durable
  <2>2. Calm(j) => Orderly'
    BY <2>0, <2>1
  <2>3. \A p \in Periods : ev'[p].pre => traceState' # "empty"
    BY <1>6 DEF Finish, Goto, durable, trace, frame, machine, observed, AgreeInv
  <2>4. ASSUME NEW p \in Periods, Calm(j) PROVE RecordFound(p)'
    <3>1. CASE p = period[j]
      <4>1. /\ record'[p].launched = res[j].launched
            /\ record'[p].status = res[j].status
            /\ record'[p].dirty = exec[j].dirty
            /\ record'[p].sound <=> Sound(exec[j])
        BY <1>6, <3>1, RecordWritten
      <4>2. ev' = ev /\ proof' = proof /\ manifest' = manifest /\ pc[j] = "finish"
        BY <1>6 DEF Finish, Goto, trace, machine
      <4>3. Growing(j)
        BY <2>0, <2>4
      <4>4. /\ Evidence(p)' <=> Evidence(p)
            /\ Logged("pair_started", 0)' <=> Logged("pair_started", 0)
        BY <2>1, <4>2 DEF Evidence
      <4>5. ASSUME res[j].status = "validated"
            PROVE  /\ res[j].launched /\ Sound(exec[j]) /\ ~exec[j].dirty
                   /\ Evidence(p) /\ manifest = "alloc" /\ Logged("pair_started", 0)
        BY <3>1, <4>2, <4>3, <4>5 DEF Growing
      <4>6. ASSUME ev[p].post, Sound(exec[j]), ~exec[j].dirty, proof[p]
            PROVE  res[j].status = "validated"
        BY <3>1, <4>2, <4>3, <4>6 DEF Growing, Assessment
      <4> QED
        BY <4>1, <4>2, <4>4, <4>5, <4>6 DEF RecordFound
    <3>2. CASE p # period[j]
      <4>1. record'[p] = record[p]
        BY <1>6, <3>2, RecordWritten
      <4> QED
        BY <1>6, <2>0, <2>1, <2>4, <4>1 DEF Finish, trace, machine, RecordFound, Evidence
    <3> QED
      BY <3>1, <3>2
  <2>5. ASSUME Calm(j), pc'[j] # "done" PROVE Script(j)'
    BY <1>6, <2>0, <2>1, <2>5 DEF Finish, Goto, durable, trace, frame, machine,
       observed, Script, PairTerminated
  <2>6. ASSUME Calm(j), pc'[j] # "done" PROVE Growing(j)'
    BY <1>6, <2>0, <2>1, <2>6 DEF Finish, Goto, durable, trace, frame, machine,
       observed, Growing, Evidence, Frame, Gate
  <2>7. \A k \in Jobs : k # j => pc'[k] = pc[k] /\ seq'[k] = seq[k]
    BY <1>6 DEF Finish, Goto, durable, trace, frame, machine, observed
  <2>8. pc'[j] \notin {"start", "mkdir"}
    BY <1>6, <2>0 DEF Finish, Goto, durable, trace, frame, machine, observed
  <2>9. Calm(j) /\ pc'[j] = "done" => ledger' # << >>
    BY <1>6, <2>0, <2>1 DEF Finish, Goto, Script
  <2> QED
    BY <2>0, <2>2, <2>3, <2>4, <2>5, <2>6, <2>7, <2>8, <2>9, AgreementFrom
<1>7. CASE Terminal(j)
  <2>0. /\ claim = j /\ claim' = j /\ ~Ended(j) /\ pc[j] \notin {"start", "mkdir"}
        /\ InOrder(j) /\ Frame(j) /\ Gate(j) /\ signals' = signals /\ unguarded' = unguarded
        /\ Calm(j) => Orderly /\ Script(j) /\ Growing(j) /\ \A p \in Periods : RecordFound(p)
    BY <1>7 DEF Terminal, Goto, durable, trace, frame, machine, observed, OneShotInv,
       OwnerActs, VerdictInv, AgreeInv, Calm
  <2>1. /\ \A f, q : Logged(f, q)' <=> Logged(f, q) \/ (f = "terminal" /\ q = period[j])
        /\ Len(ledger') = Len(ledger) + 1 /\ ledger' # << >>
    <3>1. period[j] \in 0..2 /\ 0 \in 0..2
      OBVIOUS
    <3>2. Write("terminal", period[j], seq[j])
      BY <1>7 DEF Terminal, Emit
    <3>3. "terminal" \in PairEvents \cup PeriodEvents
      BY DEF PairEvents, PeriodEvents
    <3>4. \A f, q : Logged(f, q)' <=> Logged(f, q) \/ (f = "terminal" /\ q = period[j])
      BY <3>1, <3>2, <3>3, NowLogged
    <3> QED
      BY <3>1, <3>2, <3>3, <3>4, LineWritten
  <2>2. Calm(j) => Orderly'
    BY <1>7, <2>0, OrderlyGrows DEF Terminal, Goto, Emit, Script, PairEvents,
       PeriodEvents, PairTerminated
  <2>3. \A p \in Periods : ev'[p].pre => traceState' # "empty"
    BY <1>7 DEF Terminal, Goto, durable, trace, frame, machine, observed, AfterPeriod,
       Emit, NoExec, NoResult, AgreeInv
  <2>4. ASSUME NEW p \in Periods, Calm(j) PROVE RecordFound(p)'
    BY <1>7, <2>0, <2>1, <2>4 DEF Terminal, Goto, durable, trace, frame, machine,
       observed, AfterPeriod, Emit, RecordFound, Evidence, InOrder, Gate
  <2>5. ASSUME Calm(j), pc'[j] # "done" PROVE Script(j)'
    BY <1>7, <2>0, <2>1, <2>5 DEF Terminal, Goto, durable, trace, frame, machine,
       observed, AfterPeriod, Emit, Script, PairTerminated
  <2>6. ASSUME Calm(j), pc'[j] # "done" PROVE Growing(j)'
    BY <1>7, <2>0, <2>1, <2>6 DEF Terminal, Goto, durable, trace, frame, machine,
       observed, AfterPeriod, Emit, NoExec, NoResult, Growing, Evidence, Frame, Gate
  <2>7. \A k \in Jobs : k # j => pc'[k] = pc[k] /\ seq'[k] = seq[k]
    BY <1>7 DEF Terminal, Goto, durable, trace, frame, machine, observed, AfterPeriod,
       Emit
  <2>8. pc'[j] \notin {"start", "mkdir"}
    BY <1>7, <2>0 DEF Terminal, Goto, durable, trace, frame, machine, observed,
       AfterPeriod, Emit
  <2>9. Calm(j) /\ pc'[j] = "done" => ledger' # << >>
    BY <1>7, <2>0, <2>1 DEF Terminal, Goto, Script
  <2> QED
    BY <2>0, <2>2, <2>3, <2>4, <2>5, <2>6, <2>7, <2>8, <2>9, AgreementFrom
<1>8. CASE Summarise(j)
  <2>0. /\ claim = j /\ claim' = j /\ ~Ended(j) /\ pc[j] \notin {"start", "mkdir"}
        /\ InOrder(j) /\ Frame(j) /\ Gate(j) /\ signals' = signals /\ unguarded' = unguarded
        /\ Calm(j) => Orderly /\ Script(j) /\ Growing(j) /\ \A p \in Periods : RecordFound(p)
    BY <1>8 DEF Summarise, Goto, durable, trace, frame, machine, observed, OneShotInv,
       OwnerActs, VerdictInv, AgreeInv, Calm
  <2>1. /\ \A f, q : Logged(f, q)' <=> Logged(f, q)
        /\ Len(ledger') = Len(ledger) /\ (ledger' = << >> <=> ledger = << >>)
        /\ Orderly' <=> Orderly
    BY <1>8, SameLedger DEF Summarise, durable
  <2>2. Calm(j) => Orderly'
    BY <2>0, <2>1
  <2>3. \A p \in Periods : ev'[p].pre => traceState' # "empty"
    BY <1>8 DEF Summarise, Goto, durable, trace, frame, machine, observed, AgreeInv
  <2>4. ASSUME NEW p \in Periods, Calm(j) PROVE RecordFound(p)'
    BY <1>8, <2>0, <2>1, <2>4 DEF Summarise, Goto, durable, trace, frame, machine,
       observed, RecordFound, Evidence, InOrder, Gate
  <2>5. ASSUME Calm(j), pc'[j] # "done" PROVE Script(j)'
    BY <1>8, <2>0, <2>1, <2>5 DEF Summarise, Goto, durable, trace, frame, machine,
       observed, Script, PairTerminated
  <2>6. ASSUME Calm(j), pc'[j] # "done" PROVE Growing(j)'
    BY <1>8, <2>0, <2>1, <2>6 DEF Summarise, Goto, durable, trace, frame, machine,
       observed, Growing, Evidence, Frame, Gate
  <2>7. \A k \in Jobs : k # j => pc'[k] = pc[k] /\ seq'[k] = seq[k]
    BY <1>8 DEF Summarise, Goto, durable, trace, frame, machine, observed
  <2>8. pc'[j] \notin {"start", "mkdir"}
    BY <1>8, <2>0 DEF Summarise, Goto, durable, trace, frame, machine, observed
  <2>9. Calm(j) /\ pc'[j] = "done" => ledger' # << >>
    BY <1>8, <2>0, <2>1 DEF Summarise, Goto, Script
  <2> QED
    BY <2>0, <2>2, <2>3, <2>4, <2>5, <2>6, <2>7, <2>8, <2>9, AgreementFrom
<1>9. CASE ClosePair(j)
  <2>0. /\ claim = j /\ claim' = j /\ ~Ended(j) /\ pc[j] \notin {"start", "mkdir"}
        /\ InOrder(j) /\ Frame(j) /\ Gate(j) /\ signals' = signals /\ unguarded' = unguarded
        /\ Calm(j) => Orderly /\ Script(j) /\ Growing(j) /\ \A p \in Periods : RecordFound(p)
    BY <1>9 DEF ClosePair, Goto, durable, trace, frame, machine, observed, OneShotInv,
       OwnerActs, VerdictInv, AgreeInv, Calm, JobEnds
  <2>1. /\ \A f, q : Logged(f, q)' <=> Logged(f, q) \/ (f = "pair_terminal" /\ q = 0)
        /\ Len(ledger') = Len(ledger) + 1 /\ ledger' # << >>
    BY <1>9, NowLogged, LineWritten DEF ClosePair, Emit, PairEvents, PeriodEvents
  <2>2. Calm(j) => Orderly'
    BY <1>9, <2>0, OrderlyGrows DEF ClosePair, Goto, Emit, Script, PairEvents,
       PeriodEvents, PairTerminated
  <2>3. \A p \in Periods : ev'[p].pre => traceState' # "empty"
    BY <1>9 DEF ClosePair, Goto, durable, trace, frame, machine, observed, JobEnds,
       AgreeInv
  <2>4. ASSUME NEW p \in Periods, Calm(j) PROVE RecordFound(p)'
    BY <1>9, <2>0, <2>1, <2>4 DEF ClosePair, Goto, durable, trace, frame, machine,
       observed, JobEnds, RecordFound, Evidence, InOrder, Gate
  <2>5. ASSUME Calm(j), pc'[j] # "done" PROVE Script(j)'
    BY <1>9, <2>0, <2>1, <2>5 DEF ClosePair, Goto, durable, trace, frame, machine,
       observed, JobEnds, Script, PairTerminated
  <2>6. ASSUME Calm(j), pc'[j] # "done" PROVE Growing(j)'
    BY <1>9, <2>0, <2>1, <2>6 DEF ClosePair, Goto, durable, trace, frame, machine,
       observed, JobEnds, Growing, Evidence, Frame, Gate
  <2>7. \A k \in Jobs : k # j => pc'[k] = pc[k] /\ seq'[k] = seq[k]
    BY <1>9 DEF ClosePair, Goto, durable, trace, frame, machine, observed, JobEnds
  <2>8. pc'[j] \notin {"start", "mkdir"}
    BY <1>9, <2>0 DEF ClosePair, Goto, durable, trace, frame, machine, observed, JobEnds
  <2>9. Calm(j) /\ pc'[j] = "done" => ledger' # << >>
    BY <1>9, <2>0, <2>1 DEF ClosePair, Goto, Script
  <2> QED
    BY <2>0, <2>2, <2>3, <2>4, <2>5, <2>6, <2>7, <2>8, <2>9, AgreementFrom
<1> QED
  BY <1>1, <1>2, <1>3, <1>4, <1>5, <1>6, <1>7, <1>8, <1>9 DEF Settling

LEMMA InterruptKeepsAgreement ==
  ASSUME TypeOK, OneShotInv, VerdictInv, AgreeInv, NEW j \in Jobs,
         Interrupt(j)
  PROVE  AgreeInv'
<1> USE VerdictTypes DEF Ended, Settled, Periods, Unlaunched, Unrecorded, Launchers, Running,
        BeforePeriods, Supervised, Prepared, Rejected
<1>1. CASE InterruptEarly(j)
  <2>1. signals' # 0 /\ claim' = claim
    BY <1>1 DEF Deliver, InterruptEarly, durable
  <2>2. \A p \in Periods : ev'[p].pre => traceState' # "empty"
    BY <1>1 DEF InterruptEarly, Goto, trace, TraceType, Sampled, AgreeInv
  <2>3. \A k \in Jobs : pc'[k] \in {"start", "mkdir"} => seq'[k] = 0
    BY <1>1 DEF InterruptEarly, Goto, JobEnds, Emit, AgreeInv
  <2>4. claim = NoJob => UNCHANGED <<ledger, ev>>
    BY <1>1, NoJobAssumption DEF InterruptEarly, Goto, durable, trace, OneShotInv,
       OwnerActs
  <2> QED
    BY <2>1, <2>2, <2>3, <2>4 DEF AgreeInv, Calm
<1>2. CASE InterruptBare(j)
  <2>1. signals' # 0 /\ claim' = claim
    BY <1>2 DEF Deliver, InterruptBare, durable
  <2>2. \A p \in Periods : ev'[p].pre => traceState' # "empty"
    BY <1>2 DEF InterruptBare, Goto, trace, TraceType, Sampled, AgreeInv
  <2>3. \A k \in Jobs : pc'[k] \in {"start", "mkdir"} => seq'[k] = 0
    BY <1>2 DEF InterruptBare, Goto, JobEnds, Emit, AgreeInv
  <2>4. claim = NoJob => UNCHANGED <<ledger, ev>>
    BY <1>2, NoJobAssumption DEF InterruptBare, Goto, durable, trace, OneShotInv,
       OwnerActs
  <2> QED
    BY <2>1, <2>2, <2>3, <2>4 DEF AgreeInv, Calm
<1>3. CASE InterruptVerify(j)
  <2>1. signals' # 0 /\ claim' = claim
    BY <1>3 DEF Deliver, InterruptVerify, durable
  <2>2. \A p \in Periods : ev'[p].pre => traceState' # "empty"
    BY <1>3 DEF InterruptVerify, Goto, trace, TraceType, Sampled, AgreeInv
  <2>3. \A k \in Jobs : pc'[k] \in {"start", "mkdir"} => seq'[k] = 0
    BY <1>3 DEF InterruptVerify, Goto, JobEnds, Emit, AgreeInv
  <2>4. claim = NoJob => UNCHANGED <<ledger, ev>>
    BY <1>3, NoJobAssumption DEF InterruptVerify, Goto, durable, trace, OneShotInv,
       OwnerActs
  <2> QED
    BY <2>1, <2>2, <2>3, <2>4 DEF AgreeInv, Calm
<1>4. CASE InterruptStart(j)
  <2>1. signals' # 0 /\ claim' = claim
    BY <1>4 DEF Deliver, InterruptStart, durable
  <2>2. \A p \in Periods : ev'[p].pre => traceState' # "empty"
    BY <1>4 DEF InterruptStart, Goto, trace, TraceType, Sampled, AgreeInv
  <2>3. \A k \in Jobs : pc'[k] \in {"start", "mkdir"} => seq'[k] = 0
    BY <1>4 DEF InterruptStart, Goto, JobEnds, Emit, AgreeInv
  <2>4. claim = NoJob => UNCHANGED <<ledger, ev>>
    BY <1>4, NoJobAssumption DEF InterruptStart, Goto, durable, trace, OneShotInv,
       OwnerActs
  <2> QED
    BY <2>1, <2>2, <2>3, <2>4 DEF AgreeInv, Calm
<1>5. CASE InterruptTry(j)
  <2>1. signals' # 0 /\ claim' = claim
    BY <1>5 DEF Deliver, InterruptTry, durable
  <2>2. \A p \in Periods : ev'[p].pre => traceState' # "empty"
    BY <1>5 DEF InterruptTry, Goto, trace, TraceType, Sampled, AgreeInv
  <2>3. \A k \in Jobs : pc'[k] \in {"start", "mkdir"} => seq'[k] = 0
    BY <1>5 DEF InterruptTry, Goto, JobEnds, Emit, AgreeInv
  <2>4. claim = NoJob => UNCHANGED <<ledger, ev>>
    BY <1>5, NoJobAssumption DEF InterruptTry, Goto, durable, trace, OneShotInv,
       OwnerActs
  <2> QED
    BY <2>1, <2>2, <2>3, <2>4 DEF AgreeInv, Calm
<1>6. CASE InterruptPayload(j)
  <2>1. signals' # 0 /\ claim' = claim
    BY <1>6 DEF Deliver, InterruptPayload, durable
  <2>2. \A p \in Periods : ev'[p].pre => traceState' # "empty"
    BY <1>6 DEF InterruptPayload, Goto, trace, TraceType, Sampled, AgreeInv
  <2>3. \A k \in Jobs : pc'[k] \in {"start", "mkdir"} => seq'[k] = 0
    BY <1>6 DEF InterruptPayload, Goto, JobEnds, Emit, AgreeInv
  <2>4. claim = NoJob => UNCHANGED <<ledger, ev>>
    BY <1>6, NoJobAssumption DEF InterruptPayload, Goto, durable, trace, OneShotInv,
       OwnerActs
  <2> QED
    BY <2>1, <2>2, <2>3, <2>4 DEF AgreeInv, Calm
<1>7. CASE InterruptCleanup(j)
  <2>1. signals' # 0 /\ claim' = claim
    BY <1>7 DEF Deliver, InterruptCleanup, durable
  <2>2. \A p \in Periods : ev'[p].pre => traceState' # "empty"
    BY <1>7 DEF InterruptCleanup, Goto, trace, TraceType, Sampled, AgreeInv
  <2>3. \A k \in Jobs : pc'[k] \in {"start", "mkdir"} => seq'[k] = 0
    BY <1>7 DEF InterruptCleanup, Goto, JobEnds, Emit, AgreeInv
  <2>4. claim = NoJob => UNCHANGED <<ledger, ev>>
    BY <1>7, NoJobAssumption DEF InterruptCleanup, Goto, durable, trace, OneShotInv,
       OwnerActs
  <2> QED
    BY <2>1, <2>2, <2>3, <2>4 DEF AgreeInv, Calm
<1>8. CASE InterruptAssess(j)
  <2>1. signals' # 0 /\ claim' = claim
    BY <1>8 DEF Deliver, InterruptAssess, durable
  <2>2. \A p \in Periods : ev'[p].pre => traceState' # "empty"
    <3>1. traceState' = traceState /\ \A p \in Periods : ev'[p].pre = ev[p].pre
      BY <1>8 DEF InterruptAssess, TraceType
    <3> QED
      BY <3>1 DEF AgreeInv
  <2>3. \A k \in Jobs : pc'[k] \in {"start", "mkdir"} => seq'[k] = 0
    BY <1>8 DEF InterruptAssess, Goto, JobEnds, Emit, AgreeInv
  <2>4. claim = NoJob => UNCHANGED <<ledger, ev>>
    BY <1>8, NoJobAssumption DEF InterruptAssess, Goto, durable, trace, OneShotInv,
       OwnerActs
  <2> QED
    BY <2>1, <2>2, <2>3, <2>4 DEF AgreeInv, Calm
<1>9. CASE InterruptFinally(j)
  <2>1. signals' # 0 /\ claim' = claim
    BY <1>9 DEF Deliver, InterruptFinally, durable
  <2>2. \A p \in Periods : ev'[p].pre => traceState' # "empty"
    BY <1>9 DEF InterruptFinally, Goto, trace, TraceType, Sampled, AgreeInv
  <2>3. \A k \in Jobs : pc'[k] \in {"start", "mkdir"} => seq'[k] = 0
    BY <1>9 DEF InterruptFinally, Goto, JobEnds, Emit, AgreeInv
  <2>4. claim = NoJob => UNCHANGED <<ledger, ev>>
    BY <1>9, NoJobAssumption DEF InterruptFinally, Goto, durable, trace, OneShotInv,
       OwnerActs
  <2> QED
    BY <2>1, <2>2, <2>3, <2>4 DEF AgreeInv, Calm
<1>10. CASE InterruptUnstarted(j)
  <2>1. signals' # 0 /\ claim' = claim
    BY <1>10 DEF Deliver, InterruptUnstarted, durable
  <2>2. \A p \in Periods : ev'[p].pre => traceState' # "empty"
    BY <1>10 DEF InterruptUnstarted, Goto, trace, TraceType, Sampled, AgreeInv
  <2>3. \A k \in Jobs : pc'[k] \in {"start", "mkdir"} => seq'[k] = 0
    BY <1>10 DEF InterruptUnstarted, Goto, JobEnds, Emit, AgreeInv
  <2>4. claim = NoJob => UNCHANGED <<ledger, ev>>
    BY <1>10, NoJobAssumption DEF InterruptUnstarted, Goto, durable, trace, OneShotInv,
       OwnerActs
  <2> QED
    BY <2>1, <2>2, <2>3, <2>4 DEF AgreeInv, Calm
<1> QED
  BY <1>1, <1>2, <1>3, <1>4, <1>5, <1>6, <1>7, <1>8, <1>9, <1>10 DEF Interrupt

LEMMA SamplingKeepsAgreement ==
  ASSUME TypeOK, OneShotInv, VerdictInv, AgreeInv, NEW j \in Jobs,
         Sampling(j)
  PROVE  AgreeInv'
<1> USE VerdictTypes DEF Ended, Settled, Periods, Unlaunched, Unrecorded, Launchers, Running,
        BeforePeriods, Supervised, Prepared, Rejected
<1>1. CASE Tick(j)
  <2>0. /\ claim = j /\ claim' = j /\ ~Ended(j) /\ pc[j] \notin {"start", "mkdir"}
        /\ InOrder(j) /\ Frame(j) /\ Gate(j) /\ signals' = signals /\ unguarded' = unguarded
        /\ Calm(j) => Orderly /\ Script(j) /\ Growing(j) /\ \A p \in Periods : RecordFound(p)
    BY <1>1 DEF Tick, Goto, durable, trace, frame, machine, observed, OneShotInv,
       OwnerActs, VerdictInv, AgreeInv, Calm
  <2>1. /\ \A f, q : Logged(f, q)' <=> Logged(f, q)
        /\ Len(ledger') = Len(ledger) /\ (ledger' = << >> <=> ledger = << >>)
        /\ Orderly' <=> Orderly
    BY <1>1, SameLedger DEF Tick, durable
  <2>2. Calm(j) => Orderly'
    BY <2>0, <2>1
  <2>3. \A p \in Periods : ev'[p].pre => traceState' # "empty"
    <3>1. \A p \in Periods : ev'[p].pre = ev[p].pre
      BY <1>1 DEF Tick, TraceType
    <3> QED
      BY <1>1, <3>1 DEF Tick, AgreeInv
  <2>4. ASSUME NEW p \in Periods, Calm(j) PROVE RecordFound(p)'
    BY <1>1, <2>0, <2>1, <2>4 DEF Tick, Goto, durable, trace, frame, machine, observed,
       ExecType, TraceType, RecordFound, Evidence, InOrder, Gate
  <2>5. ASSUME Calm(j), pc'[j] # "done" PROVE Script(j)'
    BY <1>1, <2>0, <2>1, <2>5 DEF Tick, Goto, durable, trace, frame, machine, observed,
       TraceType, Script, PairTerminated
  <2>6. ASSUME Calm(j), pc'[j] # "done" PROVE Growing(j)'
    BY <1>1, <2>0, <2>1, <2>6 DEF Tick, Goto, durable, trace, frame, machine, observed,
       ExecType, TraceType, Growing, Evidence, Frame, Gate
  <2>7. \A k \in Jobs : k # j => pc'[k] = pc[k] /\ seq'[k] = seq[k]
    BY <1>1 DEF Tick, Goto, durable, trace, frame, machine, observed
  <2>8. pc'[j] \notin {"start", "mkdir"}
    BY <1>1, <2>0 DEF Tick, Goto, durable, trace, frame, machine, observed
  <2>9. Calm(j) /\ pc'[j] = "done" => ledger' # << >>
    BY <1>1, <2>0, <2>1 DEF Tick, Goto, Script
  <2> QED
    BY <2>0, <2>2, <2>3, <2>4, <2>5, <2>6, <2>7, <2>8, <2>9, AgreementFrom
<1>2. CASE SamplerFail(j)
  <2>0. /\ claim = j /\ claim' = j /\ ~Ended(j) /\ pc[j] \notin {"start", "mkdir"}
        /\ InOrder(j) /\ Frame(j) /\ Gate(j) /\ signals' = signals /\ unguarded' = unguarded
        /\ Calm(j) => Orderly /\ Script(j) /\ Growing(j) /\ \A p \in Periods : RecordFound(p)
    BY <1>2 DEF SamplerFail, Goto, durable, trace, frame, machine, observed, OneShotInv,
       OwnerActs, VerdictInv, AgreeInv, Calm
  <2>1. /\ \A f, q : Logged(f, q)' <=> Logged(f, q)
        /\ Len(ledger') = Len(ledger) /\ (ledger' = << >> <=> ledger = << >>)
        /\ Orderly' <=> Orderly
    BY <1>2, SameLedger DEF SamplerFail, durable
  <2>2. Calm(j) => Orderly'
    BY <2>0, <2>1
  <2>3. \A p \in Periods : ev'[p].pre => traceState' # "empty"
    BY <1>2 DEF SamplerFail, Goto, durable, trace, frame, machine, observed, ExecType,
       AgreeInv
  <2>4. ASSUME NEW p \in Periods, Calm(j) PROVE RecordFound(p)'
    BY <1>2, <2>0, <2>1, <2>4 DEF SamplerFail, Goto, durable, trace, frame, machine,
       observed, ExecType, RecordFound, Evidence, InOrder, Gate
  <2>5. ASSUME Calm(j), pc'[j] # "done" PROVE Script(j)'
    BY <1>2, <2>0, <2>1, <2>5 DEF SamplerFail, Goto, durable, trace, frame, machine,
       observed, Script, PairTerminated
  <2>6. ASSUME Calm(j), pc'[j] # "done" PROVE Growing(j)'
    BY <1>2, <2>0, <2>1, <2>6 DEF SamplerFail, Goto, durable, trace, frame, machine,
       observed, ExecType, Growing, Evidence, Frame, Gate
  <2>7. \A k \in Jobs : k # j => pc'[k] = pc[k] /\ seq'[k] = seq[k]
    BY <1>2 DEF SamplerFail, Goto, durable, trace, frame, machine, observed
  <2>8. pc'[j] \notin {"start", "mkdir"}
    BY <1>2, <2>0 DEF SamplerFail, Goto, durable, trace, frame, machine, observed
  <2>9. Calm(j) /\ pc'[j] = "done" => ledger' # << >>
    BY <1>2, <2>0, <2>1 DEF SamplerFail, Goto, Script
  <2> QED
    BY <2>0, <2>2, <2>3, <2>4, <2>5, <2>6, <2>7, <2>8, <2>9, AgreementFrom
<1>3. ASSUME NEW r \in Periods, LateTick(j, r) PROVE AgreeInv'
  <2>0. /\ claim = j /\ claim' = j /\ ~Ended(j) /\ pc[j] \notin {"start", "mkdir"}
        /\ InOrder(j) /\ Frame(j) /\ Gate(j) /\ signals' = signals /\ unguarded' = unguarded
        /\ Calm(j) => Orderly /\ Script(j) /\ Growing(j) /\ \A p \in Periods : RecordFound(p)
    BY <1>3 DEF LateTick, Goto, durable, trace, frame, machine, observed, OneShotInv,
       OwnerActs, VerdictInv, AgreeInv, Calm, Outlived
  <2>1. /\ \A f, q : Logged(f, q)' <=> Logged(f, q)
        /\ Len(ledger') = Len(ledger) /\ (ledger' = << >> <=> ledger = << >>)
        /\ Orderly' <=> Orderly
    BY <1>3, SameLedger DEF LateTick, durable
  <2>2. Calm(j) => Orderly'
    BY <2>0, <2>1
  <2>3. \A p \in Periods : ev'[p].pre => traceState' # "empty"
    BY <1>3 DEF LateTick, Goto, durable, trace, frame, machine, observed, TraceType,
       Outlived, AgreeInv
  <2>4. ASSUME NEW p \in Periods, Calm(j) PROVE RecordFound(p)'
    BY <1>3, <2>0, <2>1, <2>4 DEF LateTick, Goto, durable, trace, frame, machine,
       observed, TraceType, Outlived, RecordFound, Evidence, InOrder, Gate
  <2>5. ASSUME Calm(j), pc'[j] # "done" PROVE Script(j)'
    BY <1>3, <2>0, <2>1, <2>5 DEF LateTick, Goto, durable, trace, frame, machine,
       observed, TraceType, Outlived, Script, PairTerminated
  <2>6. ASSUME Calm(j), pc'[j] # "done" PROVE Growing(j)'
    BY <1>3, <2>0, <2>1, <2>6 DEF LateTick, Goto, durable, trace, frame, machine,
       observed, TraceType, Outlived, Growing, Evidence, Frame, Gate
  <2>7. \A k \in Jobs : k # j => pc'[k] = pc[k] /\ seq'[k] = seq[k]
    BY <1>3 DEF LateTick, Goto, durable, trace, frame, machine, observed
  <2>8. pc'[j] \notin {"start", "mkdir"}
    BY <1>3, <2>0 DEF LateTick, Goto, durable, trace, frame, machine, observed
  <2>9. Calm(j) /\ pc'[j] = "done" => ledger' # << >>
    BY <1>3, <2>0, <2>1 DEF LateTick, Goto, Script
  <2> QED
    BY <2>0, <2>2, <2>3, <2>4, <2>5, <2>6, <2>7, <2>8, <2>9, AgreementFrom
<1>4. ASSUME NEW r \in Periods, LateStop(j, r) PROVE AgreeInv'
  <2>0. /\ claim = j /\ claim' = j /\ ~Ended(j) /\ pc[j] \notin {"start", "mkdir"}
        /\ InOrder(j) /\ Frame(j) /\ Gate(j) /\ signals' = signals /\ unguarded' = unguarded
        /\ Calm(j) => Orderly /\ Script(j) /\ Growing(j) /\ \A p \in Periods : RecordFound(p)
    BY <1>4 DEF LateStop, Goto, durable, trace, frame, machine, observed, OneShotInv,
       OwnerActs, VerdictInv, AgreeInv, Calm, Outlived
  <2>1. /\ \A f, q : Logged(f, q)' <=> Logged(f, q)
        /\ Len(ledger') = Len(ledger) /\ (ledger' = << >> <=> ledger = << >>)
        /\ Orderly' <=> Orderly
    BY <1>4, SameLedger DEF LateStop, durable
  <2>2. Calm(j) => Orderly'
    BY <2>0, <2>1
  <2>3. \A p \in Periods : ev'[p].pre => traceState' # "empty"
    BY <1>4 DEF LateStop, Goto, durable, trace, frame, machine, observed, Outlived,
       AgreeInv
  <2>4. ASSUME NEW p \in Periods, Calm(j) PROVE RecordFound(p)'
    BY <1>4, <2>0, <2>1, <2>4 DEF LateStop, Goto, durable, trace, frame, machine,
       observed, Outlived, RecordFound, Evidence, InOrder, Gate
  <2>5. ASSUME Calm(j), pc'[j] # "done" PROVE Script(j)'
    BY <1>4, <2>0, <2>1, <2>5 DEF LateStop, Goto, durable, trace, frame, machine,
       observed, Outlived, Script, PairTerminated
  <2>6. ASSUME Calm(j), pc'[j] # "done" PROVE Growing(j)'
    BY <1>4, <2>0, <2>1, <2>6 DEF LateStop, Goto, durable, trace, frame, machine,
       observed, Outlived, Growing, Evidence, Frame, Gate
  <2>7. \A k \in Jobs : k # j => pc'[k] = pc[k] /\ seq'[k] = seq[k]
    BY <1>4 DEF LateStop, Goto, durable, trace, frame, machine, observed
  <2>8. pc'[j] \notin {"start", "mkdir"}
    BY <1>4, <2>0 DEF LateStop, Goto, durable, trace, frame, machine, observed
  <2>9. Calm(j) /\ pc'[j] = "done" => ledger' # << >>
    BY <1>4, <2>0, <2>1 DEF LateStop, Goto, Script
  <2> QED
    BY <2>0, <2>2, <2>3, <2>4, <2>5, <2>6, <2>7, <2>8, <2>9, AgreementFrom
<1> QED
  BY <1>1, <1>2, <1>3, <1>4 DEF Sampling

LEMMA PayloadExitKeepsAgreement ==
  ASSUME TypeOK, OneShotInv, VerdictInv, AgreeInv, NEW j \in Jobs,
         PayloadExit(j)
  PROVE  AgreeInv'
<1> USE VerdictTypes DEF Ended, Settled, Periods, Unlaunched, Unrecorded, Launchers, Running,
        BeforePeriods, Supervised, Prepared, Rejected
<1>1. CASE PayloadExit(j)
  <2>0. /\ claim = j /\ claim' = j /\ ~Ended(j) /\ pc[j] \notin {"start", "mkdir"}
        /\ InOrder(j) /\ Frame(j) /\ Gate(j) /\ signals' = signals /\ unguarded' = unguarded
        /\ Calm(j) => Orderly /\ Script(j) /\ Growing(j) /\ \A p \in Periods : RecordFound(p)
    BY <1>1 DEF PayloadExit, Goto, durable, trace, frame, machine, observed, OneShotInv,
       OwnerActs, VerdictInv, AgreeInv, Calm
  <2>1. /\ \A f, q : Logged(f, q)' <=> Logged(f, q)
        /\ Len(ledger') = Len(ledger) /\ (ledger' = << >> <=> ledger = << >>)
        /\ Orderly' <=> Orderly
    BY <1>1, SameLedger DEF PayloadExit, durable
  <2>2. Calm(j) => Orderly'
    BY <2>0, <2>1
  <2>3. \A p \in Periods : ev'[p].pre => traceState' # "empty"
    BY <1>1 DEF PayloadExit, Goto, durable, trace, frame, machine, observed, ExecType,
       AgreeInv
  <2>4. ASSUME NEW p \in Periods, Calm(j) PROVE RecordFound(p)'
    <3>1. /\ record' = record /\ ev' = ev /\ manifest' = manifest
          /\ \A q \in Periods : q # period[j] => proof'[q] = proof[q]
      BY <1>1 DEF PayloadExit, durable, trace
    <3>2. ~Settled(period[j])
      BY <1>1, <2>0 DEF PayloadExit, Goto, InOrder
    <3> QED
      BY <2>0, <2>1, <2>4, <3>1, <3>2 DEF RecordFound, Evidence, Statuses
  <2>5. ASSUME Calm(j), pc'[j] # "done" PROVE Script(j)'
    BY <1>1, <2>0, <2>1, <2>5 DEF PayloadExit, Goto, durable, trace, frame, machine,
       observed, Script, PairTerminated
  <2>6. ASSUME Calm(j), pc'[j] # "done" PROVE Growing(j)'
    BY <1>1, <2>0, <2>1, <2>6 DEF PayloadExit, Goto, durable, trace, frame, machine,
       observed, ExecType, Growing, Evidence, Frame, Gate
  <2>7. \A k \in Jobs : k # j => pc'[k] = pc[k] /\ seq'[k] = seq[k]
    BY <1>1 DEF PayloadExit, Goto, durable, trace, frame, machine, observed
  <2>8. pc'[j] \notin {"start", "mkdir"}
    BY <1>1, <2>0 DEF PayloadExit, Goto, durable, trace, frame, machine, observed
  <2>9. Calm(j) /\ pc'[j] = "done" => ledger' # << >>
    BY <1>1, <2>0, <2>1 DEF PayloadExit, Goto, Script
  <2> QED
    BY <2>0, <2>2, <2>3, <2>4, <2>5, <2>6, <2>7, <2>8, <2>9, AgreementFrom
<1> QED
  BY <1>1

LEMMA CrashKeepsAgreement ==
  ASSUME TypeOK, OneShotInv, VerdictInv, AgreeInv, NEW j \in Jobs,
         Crash(j)
  PROVE  AgreeInv'
<1>0. claim = j /\ claim' = j /\ pc' = [pc EXCEPT ![j] = "dead"]
  BY DEF Crash, OneShotInv, OwnerActs
<1>1. \A k \in Jobs : ~Calm(k)'
  BY <1>0, VerdictTypes DEF Calm
<1>2. \A e, q : e # "torn" => (Logged(e, q) => Logged(e, q)')
  <2>1. CASE ledger' = ledger
    BY <2>1, SameLedger
  <2>2. CASE ledger' = Append(ledger, Torn)
    <3>1. ledger \in Seq(EventType) /\ Torn \in EventType
      BY ValueTypes DEF TypeOK
    <3>2. /\ 1..Len(ledger) \subseteq 1..Len(ledger')
          /\ \A i \in 1..Len(ledger) : ledger'[i] = ledger[i]
      BY <2>2, <3>1
    <3> QED
      BY <3>2 DEF Logged
  <2> QED
    BY <2>1, <2>2 DEF Crash
<1>3. ev' = ev /\ proof' = proof /\ signals' = signals /\ unguarded' = unguarded
  BY DEF Crash, JobEnds, observed
<1>4. ASSUME NEW p \in Periods, RecordFound(p) PROVE RecordFound(p)'
  <2>1. record'[p] = record[p] \/ record'[p] = Partial
    BY VerdictTypes DEF Crash
  <2>2. CASE record'[p] = Partial
    BY <2>2 DEF RecordFound, Settled, Partial, Blank, Statuses
  <2>3. CASE record'[p] = record[p]
    <3>1. record[p].status = "validated" => manifest' = manifest
      <4>1. CASE manifest' # manifest
        <5>1. pc[j] \in {"manifest", "rejManifest"}
          BY <4>1 DEF Crash
        <5> QED
          BY <1>0, <5>1, VerdictTypes
             DEF VerdictInv, OneShotInv, InOrder, Frame, BeforePeriods, Unrecorded, Unlaunched,
                 Ended, Settled, Statuses, Periods
      <4> QED
        BY <4>1
    <3> QED
      BY <1>2, <1>3, <1>4, <2>3, <3>1 DEF RecordFound, Evidence, Settled
  <2> QED
    BY <2>1, <2>2, <2>3
<1>5. \A p \in Periods : ev'[p].pre => traceState' # "empty"
  BY <1>3 DEF Crash, AgreeInv
<1>6. \A k \in Jobs : pc'[k] \in {"start", "mkdir"} => seq'[k] = 0
  BY <1>0, VerdictTypes DEF Crash, JobEnds, AgreeInv
<1> QED
  BY <1>0, <1>1, <1>3, <1>4, <1>5, <1>6, NoJobAssumption DEF AgreeInv

LEMMA AgreeInit == Init => AgreeInv
<1> SUFFICES ASSUME Init PROVE AgreeInv
  OBVIOUS
<1>1. \A j \in Jobs : ~Calm(j)
  <2>1. claim = NoJob
    BY DEF Init
  <2> QED
    BY <2>1, NoJobAssumption DEF Calm
<1>2. \A p \in Periods : RecordFound(p)
  BY DEF Init, RecordFound, Settled, NoRecord, Blank, Statuses
<1> QED
  BY <1>1, <1>2 DEF Init, AgreeInv, NoTrace

LEMMA AgreeStep ==
  ASSUME TypeOK, OneShotInv, VerdictInv, AgreeInv, [Next]_vars
  PROVE  AgreeInv'
<1>1. CASE UNCHANGED vars
  <2>1. (Orderly' <=> Orderly) /\ \A e, q : Logged(e, q)' <=> Logged(e, q)
    BY <1>1, SameLedger DEF vars, durable
  <2>2. \A j \in Jobs : Calm(j)' <=> Calm(j)
    BY <1>1 DEF vars, durable, observed, Calm
  <2>3. \A p \in Periods : RecordFound(p)' <=> RecordFound(p)
    BY <1>1, <2>1 DEF vars, durable, trace, machine, RecordFound, Evidence, Settled
  <2>4. ASSUME NEW j \in Jobs PROVE (Script(j)' <=> Script(j)) /\ (Growing(j)' <=> Growing(j))
    BY <1>1, <2>1
       DEF vars, durable, trace, machine, frame, Script, PairTerminated, Growing, Evidence
  <2> QED
    BY <1>1, <2>1, <2>2, <2>3, <2>4 DEF AgreeInv, vars, durable, trace, observed
<1>2. ASSUME NEW j \in Jobs, Runner(j) PROVE AgreeInv'
  BY <1>2, ClaimingKeepsAgreement, RejectingKeepsAgreement, StartingKeepsAgreement,
     LaunchingKeepsAgreement, EndingKeepsAgreement, SettlingKeepsAgreement DEF Runner
<1>3. ASSUME NEW j \in Jobs, PayloadExit(j) PROVE AgreeInv'
  BY <1>3, PayloadExitKeepsAgreement
<1>4. ASSUME NEW j \in Jobs, Sampling(j) PROVE AgreeInv'
  BY <1>4, SamplingKeepsAgreement
<1>5. ASSUME NEW j \in Jobs, Interrupt(j) PROVE AgreeInv'
  BY <1>5, InterruptKeepsAgreement
<1>6. ASSUME NEW j \in Jobs, Crash(j) PROVE AgreeInv'
  BY <1>6, CrashKeepsAgreement
<1> QED
  BY <1>1, <1>2, <1>3, <1>4, <1>5, <1>6 DEF Next

LEMMA AgreeAlways == Spec => []AgreeInv
<1>1. TypeOK /\ OneShotInv /\ VerdictInv /\ AgreeInv /\ [Next]_vars => AgreeInv'
  BY AgreeStep
<1> QED
  BY AgreeInit, TypeCorrect, OneShotAlways, VerdictAlways, <1>1, PTL DEF Spec

(* In an orderly ledger an event is there once or not at all.              *)
LEMMA AtMostOnce ==
  ASSUME Orderly, NEW e, NEW p
  PROVE  Cardinality(Positions(e, p)) <= 1 /\ (Logged(e, p) => OneEvent(e, p))
<1>1. CASE Positions(e, p) = {}
  BY <1>1, FS_EmptySet DEF Positions, Logged
<1>2. CASE Positions(e, p) # {}
  <2>1. PICK i : i \in Positions(e, p)
    BY <1>2
  <2>2. Positions(e, p) = {i}
    BY <2>1 DEF Orderly, Positions
  <2>3. Cardinality(Positions(e, p)) = 1
    BY <2>2, FS_Singleton
  <2> QED
    BY <2>3 DEF OneEvent
<1> QED
  BY <1>1, <1>2

(* process_slot, both ways: with no signal the collector takes into the    *)
(* study exactly what the runner validated, for any jobs, any crash of     *)
(* another job and any interleaving with the sampler threads.              *)
THEOREM CollectorFindsAll == Spec => []VerdictsAgree
<1>1. TypeOK /\ AccountInv /\ AgreeInv => VerdictsAgree
  <2> SUFFICES ASSUME TypeOK, AccountInv, AgreeInv PROVE VerdictsAgree
    OBVIOUS
  <2>1. EligibleWasValidated
    <3> SUFFICES ASSUME NEW p \in Periods, Eligible(p), signals = 0
                 PROVE  record[p].status = "validated"
      BY VerdictTypes DEF EligibleWasValidated
    <3>1. RecordFound(p)
      BY DEF AgreeInv
    <3>2. Settled(p) /\ ev[p].post /\ record[p].sound /\ ~record[p].dirty /\ proof[p]
      BY DEF Eligible, AssessAgain, RawEvidence, Provenance, RecordAgrees, Settled
    <3> QED
      BY <3>1, <3>2 DEF RecordFound
  <2>2. ValidatedIsEligible
    <3> SUFFICES ASSUME NEW j \in Jobs, NEW p \in Periods, claim = j, pc[j] = "done",
                        Undisturbed(p)
                 PROVE  Eligible(p)
      BY DEF ValidatedIsEligible
    <3>1. signals = 0 /\ record[p].status = "validated" /\ ~unguarded /\ Calm(j)
      BY DEF Undisturbed, AgreeInv, Calm
    <3>2. Orderly /\ ledger # << >> /\ RecordFound(p)
      BY <3>1 DEF AgreeInv
    <3>3. \A q \in Periods : Settled(q) /\ Logged("terminal", q)
      BY <3>1 DEF AccountInv, WrittenBehind, Closing, Terminated
    <3>4. /\ record[p].launched /\ record[p].sound /\ ~record[p].dirty
          /\ Evidence(p) /\ manifest = "alloc" /\ Logged("pair_started", 0)
      BY <3>1, <3>2 DEF RecordFound
    <3>5. \A e, q : Cardinality(Positions(e, q)) <= 1 /\ (Logged(e, q) => OneEvent(e, q))
      BY <3>2, AtMostOnce
    <3>6. traceState = "whole"
      BY <3>4 DEF AgreeInv, Evidence, Undisturbed, TypeOK
    <3>7. 1 \in Positions("pair_claimed", 0) /\ OneEvent("pair_claimed", 0)
      <4>1. ledger \in Seq(EventType) /\ 1 \in 1..Len(ledger)
        <5>1. ledger \in Seq(EventType)
          BY DEF TypeOK
        <5> QED
          BY <3>2, <5>1
      <4> QED
        BY <3>2, <3>5, <4>1 DEF Orderly, Positions, Logged
    <3>8. PairValid
      BY <3>2, <3>4, <3>5, <3>6, <3>7 DEF PairValid, JournalWhole, Orderly
    <3>9. /\ Settled(p) /\ OneEvent("terminal", p)
          /\ OneEvent("spawned", p) /\ OneEvent("dispatched", p)
      BY <3>3, <3>4, <3>5 DEF Evidence
    <3>10. RecordAgrees(p)
      <4>1. record[p].launched = TRUE
        BY <3>4, VerdictTypes DEF RecordType
      <4>2. OneEvent("spawned", p) = TRUE
        BY <3>9 DEF OneEvent
      <4> QED
        BY <3>9, <4>1, <4>2 DEF RecordAgrees, Settled
    <3>11. PreviousGate(p)
      BY <3>3, <3>5 DEF PreviousGate, Undisturbed, Periods
    <3>12. record[p].dirty = ev[p].tainted
      BY <3>4, VerdictTypes DEF Evidence, RecordType, TraceType
    <3>13. Provenance(p)
      BY <3>2, <3>4, <3>9, <3>10, <3>11, <3>12
         DEF Provenance, Orderly, Evidence, Undisturbed
    <3>14. AssessAgain(p)
      BY <3>4 DEF AssessAgain, RawEvidence, Evidence, Undisturbed
    <3> QED
      BY <3>8, <3>13, <3>14 DEF Eligible
  <2> QED
    BY <2>1, <2>2 DEF VerdictsAgree
<1> QED
  BY TypeCorrect, AccountAlways, AgreeAlways, <1>1, PTL

=============================================================================
