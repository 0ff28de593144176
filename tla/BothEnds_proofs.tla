---------------------------- MODULE BothEnds_proofs ----------------------------
(***************************************************************************)
(* The two ends of the pipeline and the choices between, for any number of *)
(* ranks, devices, trials, attempts and candidates, and any repository: the*)
(* residency of the workers, the device gate, the corpus release, the      *)
(* archive, the reconstruction from it, the selection of attempts, the     *)
(* tuner's bisection and the guard's held-out coverage.                    *)
(***************************************************************************)
EXTENDS MCBothEnds, FiniteSetTheorems, SequenceTheorems, Integers, TLAPS

(* The instances count sets as this module does.                           *)
LEMMA SameSizes ==
  /\ \A S : Selection!Cardinality(S) = Cardinality(S)
  /\ \A S : Tuner!Cardinality(S) = Cardinality(S) /\ Tuner!IsFiniteSet(S) = IsFiniteSet(S)
  /\ \A S : Guard!Cardinality(S) = Cardinality(S) /\ Guard!IsFiniteSet(S) = IsFiniteSet(S)
BY Zenon DEF Cardinality, IsFiniteSet, Selection!Cardinality,
   Tuner!Cardinality, Tuner!IsFiniteSet, Guard!Cardinality, Guard!IsFiniteSet

-----------------------------------------------------------------------------
(* The residency of policy and rollout.                                   *)
ConfigT == [offload : BOOLEAN, freeCache : BOOLEAN, dummy : BOOLEAN, lora : {"none", "merge", "adapter"}]
PhaseT == {"boot", "sync", "generate", "sleep", "logprob", "update"}
StepT == {"start", "params", "base", "weights", "offload", "kv", "infer", "train", "leave", "done"}
ActorT == [at : {"cpu", "device"}, version : Nat]
RolloutT == [weights : BOOLEAN, kv : BOOLEAN, base : Nat, adapter : Nat, synced : BOOLEAN]

ResidencyTyped ==
  /\ config \in ConfigT
  /\ phase \in PhaseT
  /\ step \in [Ranks -> StepT]
  /\ actor \in [Ranks -> ActorT]
  /\ rollout \in [Ranks -> RolloutT]
  /\ batch \in [Ranks -> Nat]

(* The steps of a rank in a phase.                                         *)
StepsOf ==
  [boot |-> {"start", "done"}, generate |-> {"start", "done"}, sleep |-> {"start", "done"},
   sync |-> {"start", "params", "base", "weights", "offload", "kv", "done"},
   logprob |-> {"start", "infer", "done"}, update |-> {"start", "train", "leave", "done"}]

(* When the parameters of the actor may be on a device though offloaded,   *)
(* and when the cache of the rollout may be mapped though it is freed.     *)
Training(r) ==
  \/ phase = "sync" /\ step[r] \in {"base", "weights", "offload"}
  \/ phase = "logprob" /\ step[r] = "infer"
  \/ phase = "update" /\ step[r] \in {"train", "leave"}
Generating(r) ==
  \/ phase \in {"boot", "sleep"} /\ step[r] = "start"
  \/ phase = "sync" /\ step[r] = "done"
  \/ phase = "generate"
Apart(r) ==
  /\ config.offload /\ actor[r].at = "device" => Training(r)
  /\ config.freeCache /\ rollout[r].kv => Generating(r)

(* How far a sync has come: what is mapped, and whose weights it holds.    *)
Past(r, steps) == phase = "generate" \/ (phase = "sync" /\ step[r] \in steps)
Mapped(r) ==
  /\ ~config.freeCache => rollout[r].weights /\ rollout[r].kv
  /\ Past(r, StepsOf.sync \ {"start"}) => rollout[r].weights
  /\ Past(r, {"done"}) => rollout[r].kv
Current(r) ==
  /\ Past(r, {"offload", "kv", "done"}) =>
       (IF config.lora = "adapter" THEN rollout[r].adapter ELSE rollout[r].base) = actor[r].version
  /\ config.lora = "adapter" /\ (rollout[r].synced \/ Past(r, {"weights", "offload", "kv", "done"})) =>
       rollout[r].base = 0

(* Mini-batches of this update behind a rank: without them all ranks are   *)
(* of one version.                                                         *)
Progress(r) ==
  IF phase # "update" \/ step[r] = "start" THEN 0
  ELSE IF step[r] = "train" THEN batch[r] ELSE MiniBatches
Counted(r) == phase = "update" /\ step[r] = "train" => batch[r] < MiniBatches
Aligned == \A q, r \in Ranks : actor[q].version - Progress(q) = actor[r].version - Progress(r)

RankInv(r) == step[r] \in StepsOf[phase] /\ Apart(r) /\ Mapped(r) /\ Current(r) /\ Counted(r)
ResidencyInv == ResidencyTyped /\ (\A r \in Ranks : RankInv(r)) /\ Aligned

-----------------------------------------------------------------------------
LEMMA InitResidency == Init => ResidencyInv
<1> SUFFICES ASSUME Init PROVE ResidencyInv
  OBVIOUS
<1>1. ResidencyTyped
  <2>1. Lost \in Nat
    BY WorkerAssumption DEF Lost
  <2>2. config \in ConfigT /\ phase \in PhaseT /\ step \in [Ranks -> StepT] /\ batch \in [Ranks -> Nat]
    BY DEF Init, ConfigT, PhaseT, StepT
  <2>3. actor \in [Ranks -> ActorT]
    BY DEF Init, ActorT
  <2>4. (~config.dummy) \in BOOLEAN
    OBVIOUS
  <2>5. rollout \in [Ranks -> RolloutT]
    BY <2>1, <2>4 DEF Init, RolloutT
  <2> QED BY <2>2, <2>3, <2>5 DEF ResidencyTyped
<1>2. ASSUME NEW r \in Ranks PROVE RankInv(r)
  <2>1. /\ phase = "boot" /\ step[r] = "start" /\ rollout[r].weights /\ rollout[r].kv
        /\ actor[r] = [at |-> IF config.offload THEN "cpu" ELSE "device", version |-> 0]
    BY DEF Init
  <2>2. rollout[r].synced => rollout[r].base = 0
    <3>1. rollout[r] = [weights |-> TRUE, kv |-> TRUE, base |-> IF config.dummy THEN Lost ELSE 0,
                        adapter |-> Lost, synced |-> ~config.dummy]
      BY DEF Init
    <3>2. CASE config.dummy
      <4>1. (~config.dummy) = FALSE
        BY <3>2, Zenon
      <4>2. rollout[r] = [weights |-> TRUE, kv |-> TRUE, base |-> IF config.dummy THEN Lost ELSE 0,
                          adapter |-> Lost, synced |-> FALSE]
        BY <3>1, <4>1, Zenon
      <4> QED BY <4>2
    <3>3. CASE ~config.dummy
      BY <3>1, <3>3
    <3> QED BY <3>2, <3>3
  <2> QED BY <2>1, <2>2 DEF RankInv, StepsOf, Apart, Training, Generating, Mapped, Past, Current, Counted
<1>3. Aligned
  BY DEF Init, Aligned, Progress
<1> QED BY <1>1, <1>2, <1>3 DEF ResidencyInv

(* The step of a rank, and what it leaves alone.                           *)
RankStep(r) ==
  \/ Sleep(r) \/ Generate(r)
  \/ ResumeWeights(r) \/ GatherParams(r) \/ SyncBase(r) \/ SyncWeights(r)
  \/ Offload(r) \/ ResumeCache(r)
  \/ EnterEval(r) \/ LeaveEval(r)
  \/ EnterTrain(r) \/ TrainBatch(r) \/ LeaveTrain(r)

LEMMA Moves ==
  ASSUME ResidencyTyped, NEW r \in Ranks, NEW p, NEW from, NEW to, Does(r, p, from, to)
  PROVE  /\ phase = p /\ step[r] = from /\ step'[r] = to /\ phase' = phase /\ config' = config
         /\ \A q \in Ranks : q # r => step'[q] = step[q]
BY DEF Does, ResidencyTyped

LEMMA ResidencyTypedStep == ResidencyTyped /\ Next => ResidencyTyped'
<1> SUFFICES ASSUME ResidencyTyped, Next PROVE ResidencyTyped'
  OBVIOUS
<1>t. /\ config \in ConfigT /\ phase \in PhaseT /\ step \in [Ranks -> StepT]
      /\ actor \in [Ranks -> ActorT] /\ rollout \in [Ranks -> RolloutT] /\ batch \in [Ranks -> Nat]
  BY DEF ResidencyTyped
<1>l. Lost \in Nat
  BY WorkerAssumption DEF Lost
<1>1. CASE NextPhase
  BY <1>1 DEF NextPhase, ResidencyTyped, Following, PhaseT, StepT
<1>2. ASSUME NEW r \in Ranks, RankStep(r) PROVE ResidencyTyped'
  <2>d. ASSUME NEW p, NEW from, NEW to \in StepT, Does(r, p, from, to)
        PROVE  config' \in ConfigT /\ phase' \in PhaseT /\ step' \in [Ranks -> StepT]
    BY <1>t, <2>d DEF Does
  <2>a. ASSUME NEW place \in {"cpu", "device"} PROVE [actor EXCEPT ![r].at = place] \in [Ranks -> ActorT]
    BY <1>t, <2>a DEF ActorT
  <2>1. CASE Sleep(r)
    <3>1. PICK p \in {"boot", "sleep"} : Does(r, p, "start", "done")
      BY <2>1 DEF Sleep
    <3>2. config' \in ConfigT /\ phase' \in PhaseT /\ step' \in [Ranks -> StepT]
      BY <2>d, <3>1 DEF StepT
    <3>3. [rollout EXCEPT ![r].weights = FALSE, ![r].kv = FALSE,
                          ![r].base = IF config.lora = "adapter" THEN @ ELSE Lost] \in [Ranks -> RolloutT]
      <4>1. (IF config.lora = "adapter" THEN rollout[r].base ELSE Lost) \in Nat
        BY <1>t, <1>l DEF RolloutT
      <4>2. \A v \in Nat : [rollout EXCEPT ![r].weights = FALSE, ![r].kv = FALSE, ![r].base = v]
                             \in [Ranks -> RolloutT]
        BY <1>t DEF RolloutT
      <4> QED BY <4>1, <4>2
    <3>4. rollout' \in [Ranks -> RolloutT]
      BY <1>t, <2>1, <3>3 DEF Sleep
    <3> QED BY <1>t, <2>1, <3>2, <3>4 DEF Sleep, ResidencyTyped
  <2>2. CASE Generate(r)
    <3>1. config' \in ConfigT /\ phase' \in PhaseT /\ step' \in [Ranks -> StepT]
      BY <2>d, <2>2 DEF StepT, Generate
    <3> QED BY <1>t, <2>2, <3>1 DEF Generate, ResidencyTyped
  <2>3. CASE ResumeWeights(r)
    <3>1. config' \in ConfigT /\ phase' \in PhaseT /\ step' \in [Ranks -> StepT]
      BY <2>d, <2>3 DEF StepT, ResumeWeights
    <3>2. (rollout[r].weights \/ config.freeCache) \in BOOLEAN
      OBVIOUS
    <3>3. \A b \in BOOLEAN : [rollout EXCEPT ![r].weights = b] \in [Ranks -> RolloutT]
      BY <1>t DEF RolloutT
    <3>4. rollout' = [rollout EXCEPT ![r].weights = (rollout[r].weights \/ config.freeCache)]
      BY <2>3, Zenon DEF ResumeWeights
    <3>5. rollout' \in [Ranks -> RolloutT]
      BY <3>2, <3>3, <3>4, Zenon
    <3> QED BY <1>t, <2>3, <3>1, <3>5 DEF ResumeWeights, ResidencyTyped
  <2>4. CASE GatherParams(r)
    <3>1. config' \in ConfigT /\ phase' \in PhaseT /\ step' \in [Ranks -> StepT]
      BY <2>d, <2>4 DEF StepT, GatherParams
    <3> QED BY <1>t, <2>a, <2>4, <3>1 DEF GatherParams, ResidencyTyped
  <2>5. CASE SyncBase(r)
    <3>1. config' \in ConfigT /\ phase' \in PhaseT /\ step' \in [Ranks -> StepT]
      BY <2>d, <2>5 DEF StepT, SyncBase
    <3>2. rollout' \in [Ranks -> RolloutT]
      BY <1>t, <2>5 DEF SyncBase, RolloutT
    <3> QED BY <1>t, <2>5, <3>1, <3>2 DEF SyncBase, ResidencyTyped
  <2>6. CASE SyncWeights(r)
    <3>1. config' \in ConfigT /\ phase' \in PhaseT /\ step' \in [Ranks -> StepT]
      BY <2>d, <2>6 DEF StepT, SyncWeights
    <3>2. actor[r].version \in Nat
      BY <1>t DEF ActorT
    <3>3. rollout' \in [Ranks -> RolloutT]
      BY <1>t, <2>6, <3>2 DEF SyncWeights, RolloutT
    <3> QED BY <1>t, <2>6, <3>1, <3>3 DEF SyncWeights, ResidencyTyped
  <2>7. CASE Offload(r) \/ LeaveEval(r) \/ LeaveTrain(r)
    <3>1. config' \in ConfigT /\ phase' \in PhaseT /\ step' \in [Ranks -> StepT]
      BY <2>d, <2>7 DEF StepT, Offload, LeaveEval, LeaveTrain
    <3>2. actor' \in [Ranks -> ActorT]
      BY <1>t, <2>a, <2>7 DEF Offload, LeaveEval, LeaveTrain
    <3> QED BY <1>t, <2>7, <3>1, <3>2 DEF Offload, LeaveEval, LeaveTrain, ResidencyTyped
  <2>8. CASE ResumeCache(r)
    <3>1. config' \in ConfigT /\ phase' \in PhaseT /\ step' \in [Ranks -> StepT]
      BY <2>d, <2>8 DEF StepT, ResumeCache
    <3>2. (rollout[r].kv \/ config.freeCache) \in BOOLEAN
      OBVIOUS
    <3>3. \A b \in BOOLEAN : [rollout EXCEPT ![r].kv = b, ![r].synced = TRUE] \in [Ranks -> RolloutT]
      BY <1>t DEF RolloutT
    <3>4. rollout' = [rollout EXCEPT ![r].kv = (rollout[r].kv \/ config.freeCache), ![r].synced = TRUE]
      BY <2>8, Zenon DEF ResumeCache
    <3>5. rollout' \in [Ranks -> RolloutT]
      BY <3>2, <3>3, <3>4, Zenon
    <3> QED BY <1>t, <2>8, <3>1, <3>5 DEF ResumeCache, ResidencyTyped
  <2>9. CASE EnterEval(r)
    <3>1. config' \in ConfigT /\ phase' \in PhaseT /\ step' \in [Ranks -> StepT]
      BY <2>d, <2>9 DEF StepT, EnterEval
    <3> QED BY <1>t, <2>a, <2>9, <3>1 DEF EnterEval, ResidencyTyped
  <2>10. CASE EnterTrain(r)
    <3>1. config' \in ConfigT /\ phase' \in PhaseT /\ step' \in [Ranks -> StepT]
      BY <2>d, <2>10 DEF StepT, EnterTrain
    <3> QED BY <1>t, <2>a, <2>10, <3>1 DEF EnterTrain, ResidencyTyped
  <2>11. CASE TrainBatch(r)
    <3>1. config' \in ConfigT /\ phase' \in PhaseT /\ step' \in [Ranks -> StepT]
      BY <2>d, <2>11 DEF StepT, TrainBatch
    <3>2. actor' \in [Ranks -> ActorT] /\ batch' \in [Ranks -> Nat]
      BY <1>t, <2>11 DEF TrainBatch, ActorT
    <3> QED BY <1>t, <2>11, <3>1, <3>2 DEF TrainBatch, ResidencyTyped
  <2> QED BY <1>2, <2>1, <2>2, <2>3, <2>4, <2>5, <2>6, <2>7, <2>8, <2>9, <2>10, <2>11 DEF RankStep
<1> QED BY <1>1, <1>2 DEF Next, RankStep, UpdateWeights, LogProb, UpdateActor

(* A rank touches nothing of the others.                                   *)
LEMMA OtherRanks ==
  ASSUME ResidencyTyped, NEW r \in Ranks, RankStep(r), NEW q \in Ranks, q # r
  PROVE  /\ step'[q] = step[q] /\ actor'[q] = actor[q] /\ rollout'[q] = rollout[q] /\ batch'[q] = batch[q]
         /\ phase' = phase /\ config' = config
<1>1. step'[q] = step[q] /\ phase' = phase /\ config' = config
  <2>1. \E p, from, to : Does(r, p, from, to)
    BY Zenon DEF RankStep, Sleep, Generate, ResumeWeights, GatherParams, SyncBase, SyncWeights, Offload,
                 ResumeCache, EnterEval, LeaveEval, EnterTrain, TrainBatch, LeaveTrain
  <2> QED BY <2>1, Moves
<1>2. actor'[q] = actor[q] /\ batch'[q] = batch[q]
  BY DEF ResidencyTyped, RankStep, Sleep, Generate, ResumeWeights, GatherParams, SyncBase, SyncWeights, Offload,
         ResumeCache, EnterEval, LeaveEval, EnterTrain, TrainBatch, LeaveTrain
<1>3. rollout'[q] = rollout[q]
  <2>1. rollout = [q0 \in Ranks |-> rollout[q0]]
    BY DEF ResidencyTyped
  <2>2. CASE rollout' = rollout
    BY <2>2
  <2>3. CASE Sleep(r) /\ config.freeCache
    BY <2>1, <2>3 DEF Sleep
  <2>4. CASE ResumeWeights(r)
    BY <2>1, <2>4, Zenon DEF ResumeWeights
  <2>5. CASE SyncBase(r) \/ SyncWeights(r)
    BY <2>1, <2>5 DEF SyncBase, SyncWeights
  <2>6. CASE ResumeCache(r)
    BY <2>1, <2>6, Zenon DEF ResumeCache
  <2> QED BY <2>2, <2>3, <2>4, <2>5, <2>6, Zenon DEF RankStep, Sleep, Generate, GatherParams, Offload,
             EnterEval, LeaveEval, EnterTrain, TrainBatch, LeaveTrain
<1> QED BY <1>1, <1>2, <1>3

(* What a step leaves of the rank that takes it.                           *)
LEMMA OwnRank ==
  ASSUME ResidencyTyped, NEW r \in Ranks, RankInv(r), RankStep(r)
  PROVE  RankInv(r)'
<1>t. /\ config \in ConfigT /\ step \in [Ranks -> StepT]
      /\ actor \in [Ranks -> ActorT] /\ rollout \in [Ranks -> RolloutT] /\ batch \in [Ranks -> Nat]
  BY DEF ResidencyTyped
<1>a. \A place : actor' = [actor EXCEPT ![r].at = place] =>
        actor'[r].at = place /\ actor'[r].version = actor[r].version
  BY <1>t DEF ActorT
<1>1. CASE Sleep(r)
  <2>0. PICK p \in {"boot", "sleep"} : Does(r, p, "start", "done")
    BY <1>1 DEF Sleep
  <2>1. /\ phase \in {"boot", "sleep"} /\ step'[r] = "done" /\ phase' = phase /\ config' = config
        /\ actor' = actor /\ batch' = batch
    BY <1>1, <2>0, Moves DEF Sleep
  <2>2. CASE ~config.freeCache
    <3>1. rollout' = rollout
      BY <1>1, <2>2 DEF Sleep
    <3> QED BY <2>1, <2>2, <3>1 DEF RankInv, StepsOf, Apart, Training, Generating, Mapped, Past, Current, Counted
  <2>3. CASE config.freeCache
    <3>1. rollout' = [rollout EXCEPT ![r].weights = FALSE, ![r].kv = FALSE,
                                     ![r].base = IF config.lora = "adapter" THEN @ ELSE Lost]
      BY <1>1, <2>3 DEF Sleep
    <3>2. /\ rollout'[r].kv = FALSE /\ rollout'[r].synced = rollout[r].synced
          /\ config.lora = "adapter" => rollout'[r].base = rollout[r].base
      BY <1>t, <3>1 DEF RolloutT
    <3> QED BY <2>1, <2>3, <3>2 DEF RankInv, StepsOf, Apart, Training, Generating, Mapped, Past, Current, Counted
  <2> QED BY <2>2, <2>3
<1>2. CASE Generate(r)
  <2>1. /\ phase = "generate" /\ step'[r] = "done" /\ phase' = phase /\ config' = config
        /\ actor' = actor /\ batch' = batch /\ rollout' = rollout
    BY <1>2, Moves DEF Generate
  <2> QED BY <2>1 DEF RankInv, StepsOf, Apart, Training, Generating, Mapped, Past, Current, Counted
<1>3. CASE ResumeWeights(r)
  <2>1. /\ phase = "sync" /\ step[r] = "start" /\ step'[r] = "params" /\ phase' = phase /\ config' = config
        /\ actor' = actor /\ batch' = batch
    BY <1>3, Moves DEF ResumeWeights
  <2>2. PICK b \in BOOLEAN : b = (rollout[r].weights \/ config.freeCache)
    BY Zenon
  <2>3. rollout' = [rollout EXCEPT ![r].weights = b]
    BY <1>3, <2>2, Zenon DEF ResumeWeights
  <2>4. /\ rollout'[r].weights = b /\ rollout'[r].kv = rollout[r].kv
        /\ rollout'[r].synced = rollout[r].synced /\ rollout'[r].base = rollout[r].base
    BY <1>t, <2>3 DEF RolloutT
  <2>5. b
    BY <2>2, Zenon DEF RankInv, Mapped
  <2> QED BY <2>1, <2>4, <2>5 DEF RankInv, StepsOf, Apart, Training, Generating, Mapped, Past, Current, Counted
<1>4. CASE GatherParams(r)
  <2>1. /\ phase = "sync" /\ step[r] = "params" /\ phase' = phase /\ config' = config
        /\ step'[r] = IF NeedsBase(r) THEN "base" ELSE "weights"
        /\ rollout' = rollout /\ batch' = batch /\ actor' = [actor EXCEPT ![r].at = "device"]
    BY <1>4, Moves DEF GatherParams
  <2> QED BY <2>1, <1>a DEF RankInv, StepsOf, Apart, Training, Generating, Mapped, Past, Current, Counted, NeedsBase
<1>5. CASE SyncBase(r)
  <2>1. /\ phase = "sync" /\ step[r] = "base" /\ step'[r] = "weights" /\ phase' = phase /\ config' = config
        /\ actor' = actor /\ batch' = batch /\ rollout' = [rollout EXCEPT ![r].base = 0]
    BY <1>5, Moves DEF SyncBase
  <2>2. /\ rollout'[r].weights = rollout[r].weights /\ rollout'[r].kv = rollout[r].kv
        /\ rollout'[r].base = 0
    BY <1>t, <2>1 DEF RolloutT
  <2> QED BY <2>1, <2>2 DEF RankInv, StepsOf, Apart, Training, Generating, Mapped, Past, Current, Counted
<1>6. CASE SyncWeights(r)
  <2>1. /\ phase = "sync" /\ step[r] = "weights" /\ step'[r] = "offload" /\ phase' = phase /\ config' = config
        /\ actor' = actor /\ batch' = batch
    BY <1>6, Moves DEF SyncWeights
  <2>2. /\ rollout'[r].weights = rollout[r].weights /\ rollout'[r].kv = rollout[r].kv
        /\ config.lora = "adapter" => rollout'[r].adapter = actor[r].version /\ rollout'[r].base = rollout[r].base
        /\ config.lora # "adapter" => rollout'[r].base = actor[r].version
    BY <1>t, <1>6 DEF SyncWeights, RolloutT
  <2> QED BY <2>1, <2>2 DEF RankInv, StepsOf, Apart, Training, Generating, Mapped, Past, Current, Counted
<1>7. CASE Offload(r) \/ LeaveEval(r) \/ LeaveTrain(r)
  <2>1. /\ phase' = phase /\ config' = config /\ rollout' = rollout /\ batch' = batch
        /\ \/ phase = "sync" /\ step[r] = "offload" /\ step'[r] = "kv"
           \/ phase = "logprob" /\ step[r] = "infer" /\ step'[r] = "done"
           \/ phase = "update" /\ step[r] = "leave" /\ step'[r] = "done"
    BY <1>7, Moves DEF Offload, LeaveEval, LeaveTrain
  <2>2. /\ actor'[r].version = actor[r].version
        /\ config.offload => actor'[r].at = "cpu"
    BY <1>7, <1>a DEF Offload, LeaveEval, LeaveTrain
  <2> QED BY <2>1, <2>2 DEF RankInv, StepsOf, Apart, Training, Generating, Mapped, Past, Current, Counted
<1>8. CASE ResumeCache(r)
  <2>1. /\ phase = "sync" /\ step[r] = "kv" /\ step'[r] = "done" /\ phase' = phase /\ config' = config
        /\ actor' = actor /\ batch' = batch
    BY <1>8, Moves DEF ResumeCache
  <2>2. PICK b \in BOOLEAN : b = (rollout[r].kv \/ config.freeCache)
    BY Zenon
  <2>3. rollout' = [rollout EXCEPT ![r].kv = b, ![r].synced = TRUE]
    BY <1>8, <2>2, Zenon DEF ResumeCache
  <2>4. /\ rollout'[r].kv = b /\ rollout'[r].weights = rollout[r].weights
        /\ rollout'[r].adapter = rollout[r].adapter /\ rollout'[r].base = rollout[r].base
    BY <1>t, <2>3 DEF RolloutT
  <2>5. b
    BY <2>2, Zenon DEF RankInv, Mapped
  <2> QED BY <2>1, <2>4, <2>5 DEF RankInv, StepsOf, Apart, Training, Generating, Mapped, Past, Current, Counted
<1>9. CASE EnterEval(r)
  <2>1. /\ phase = "logprob" /\ step[r] = "start" /\ step'[r] = "infer" /\ phase' = phase /\ config' = config
        /\ rollout' = rollout /\ batch' = batch /\ actor' = [actor EXCEPT ![r].at = "device"]
    BY <1>9, Moves DEF EnterEval
  <2> QED BY <2>1, <1>a DEF RankInv, StepsOf, Apart, Training, Generating, Mapped, Past, Current, Counted
<1>10. CASE EnterTrain(r)
  <2>1. /\ phase = "update" /\ step[r] = "start" /\ step'[r] = "train" /\ phase' = phase /\ config' = config
        /\ rollout' = rollout /\ actor' = [actor EXCEPT ![r].at = "device"]
    BY <1>10, Moves DEF EnterTrain
  <2>2. batch'[r] = 0 /\ 0 < MiniBatches
    BY <1>10, <1>t, WorkerAssumption DEF EnterTrain
  <2> QED BY <2>1, <2>2, <1>a DEF RankInv, StepsOf, Apart, Training, Generating, Mapped, Past, Current, Counted
<1>11. CASE TrainBatch(r)
  <2>1. /\ phase = "update" /\ step[r] = "train" /\ phase' = phase /\ config' = config
        /\ step'[r] = IF batch[r] + 1 = MiniBatches THEN "leave" ELSE "train"
        /\ rollout' = rollout /\ actor[r].at = "device"
    BY <1>11, Moves DEF TrainBatch
  <2>2. batch'[r] = batch[r] + 1 /\ batch[r] \in Nat /\ batch[r] < MiniBatches /\ MiniBatches \in Nat
    BY <1>11, <1>t, <2>1, WorkerAssumption DEF TrainBatch, RankInv, Counted
  <2> QED BY <2>1, <2>2 DEF RankInv, StepsOf, Apart, Training, Generating, Mapped, Past, Current, Counted
<1> QED BY <1>1, <1>2, <1>3, <1>4, <1>5, <1>6, <1>7, <1>8, <1>9, <1>10, <1>11 DEF RankStep

(* An optimiser step is counted by version and progress alike.             *)
LEMMA OwnProgress ==
  ASSUME ResidencyTyped, NEW r \in Ranks, RankInv(r), RankStep(r)
  PROVE  actor'[r].version - Progress(r)' = actor[r].version - Progress(r)
<1>t. /\ step \in [Ranks -> StepT] /\ actor \in [Ranks -> ActorT] /\ batch \in [Ranks -> Nat]
      /\ MiniBatches \in Nat \ {0} /\ actor[r].version \in Nat /\ batch[r] \in Nat
  BY WorkerAssumption DEF ResidencyTyped, ActorT
<1>a. \A place : actor' = [actor EXCEPT ![r].at = place] => actor'[r].version = actor[r].version
  BY <1>t DEF ActorT
<1>1. CASE Sleep(r) \/ Generate(r) \/ ResumeWeights(r) \/ GatherParams(r) \/ SyncBase(r) \/ SyncWeights(r)
             \/ Offload(r) \/ ResumeCache(r) \/ EnterEval(r) \/ LeaveEval(r)
  <2>1. phase # "update" /\ phase' = phase
    BY <1>1 DEF Does, Sleep, Generate, ResumeWeights, GatherParams, SyncBase, SyncWeights, Offload,
                ResumeCache, EnterEval, LeaveEval
  <2>2. actor'[r].version = actor[r].version
    BY <1>1, <1>a DEF Sleep, Generate, ResumeWeights, GatherParams, SyncBase, SyncWeights, Offload,
                      ResumeCache, EnterEval, LeaveEval
  <2> QED BY <2>1, <2>2 DEF Progress
<1>2. CASE EnterTrain(r)
  <2>1. phase' = "update" /\ step[r] = "start" /\ step'[r] = "train"
    BY <1>2, Moves DEF EnterTrain
  <2>2. batch'[r] = 0 /\ actor'[r].version = actor[r].version
    BY <1>2, <1>t, <1>a DEF EnterTrain
  <2> QED BY <2>1, <2>2, <1>t DEF Progress
<1>3. CASE TrainBatch(r)
  <2>1. /\ phase = "update" /\ phase' = "update" /\ step[r] = "train"
        /\ step'[r] = IF batch[r] + 1 = MiniBatches THEN "leave" ELSE "train"
    BY <1>3, Moves DEF TrainBatch
  <2>2. batch'[r] = batch[r] + 1 /\ actor'[r].version = actor[r].version + 1
    BY <1>3, <1>t DEF TrainBatch, ActorT
  <2> QED BY <2>1, <2>2, <1>t DEF Progress
<1>4. CASE LeaveTrain(r)
  <2>1. phase = "update" /\ phase' = "update" /\ step[r] = "leave" /\ step'[r] = "done"
    BY <1>4, Moves DEF LeaveTrain
  <2>2. actor'[r].version = actor[r].version
    BY <1>4, <1>a DEF LeaveTrain
  <2> QED BY <2>1, <2>2 DEF Progress
<1> QED BY <1>1, <1>2, <1>3, <1>4 DEF RankStep

LEMMA PhaseStep == ResidencyInv /\ NextPhase => (\A r \in Ranks : RankInv(r)') /\ Aligned'
<1> SUFFICES ASSUME ResidencyInv, NextPhase PROVE (\A r \in Ranks : RankInv(r)') /\ Aligned'
  OBVIOUS
<1>1. /\ \A r \in Ranks : step[r] = "done" /\ step'[r] = "start"
      /\ config' = config /\ actor' = actor /\ rollout' = rollout /\ batch' = batch
      /\ phase' = Following[phase] /\ phase \in PhaseT
  BY DEF NextPhase, ResidencyInv, ResidencyTyped
<1>2. ASSUME NEW r \in Ranks PROVE RankInv(r)'
  <2>1. RankInv(r)
    BY DEF ResidencyInv
  <2> QED BY <1>1, <2>1 DEF Following, PhaseT, RankInv, StepsOf, Apart, Training, Generating, Mapped, Past,
                            Current, Counted
<1>3. Aligned'
  <2>1. \A r \in Ranks : Progress(r)' = 0 /\ Progress(r) = IF phase = "update" THEN MiniBatches ELSE 0
    BY <1>1 DEF Progress
  <2>2. \A r \in Ranks : actor[r].version \in Int
    BY DEF ResidencyInv, ResidencyTyped, ActorT
  <2>3. \A q, r \in Ranks : actor[q].version = actor[r].version
    BY <2>1, <2>2, WorkerAssumption DEF ResidencyInv, Aligned
  <2> QED BY <1>1, <2>1, <2>3 DEF Aligned
<1> QED BY <1>2, <1>3

LEMMA ResidencyStep == ResidencyInv /\ Next => ResidencyInv'
<1> SUFFICES ASSUME ResidencyInv, Next PROVE ResidencyInv'
  OBVIOUS
<1>0. ResidencyTyped'
  BY ResidencyTypedStep DEF ResidencyInv
<1>1. CASE NextPhase
  BY <1>0, <1>1, PhaseStep DEF ResidencyInv
<1>2. ASSUME NEW r \in Ranks, RankStep(r) PROVE ResidencyInv'
  <2>1. ASSUME NEW q \in Ranks PROVE RankInv(q)'
    <3>1. RankInv(q)
      BY DEF ResidencyInv
    <3>2. CASE q = r
      BY <1>2, <3>1, <3>2, OwnRank DEF ResidencyInv
    <3>3. CASE q # r
      <4>1. /\ step'[q] = step[q] /\ actor'[q] = actor[q] /\ rollout'[q] = rollout[q] /\ batch'[q] = batch[q]
            /\ phase' = phase /\ config' = config
        BY <1>2, <3>3, OtherRanks DEF ResidencyInv
      <4> QED BY <3>1, <4>1 DEF RankInv, StepsOf, Apart, Training, Generating, Mapped, Past, Current, Counted
    <3> QED BY <3>2, <3>3
  <2>2. ASSUME NEW q \in Ranks
        PROVE  actor'[q].version - Progress(q)' = actor[q].version - Progress(q)
    <3>1. CASE q = r
      BY <1>2, <3>1, OwnProgress DEF ResidencyInv
    <3>2. CASE q # r
      <4>1. actor'[q] = actor[q] /\ step'[q] = step[q] /\ batch'[q] = batch[q] /\ phase' = phase
        BY <1>2, <3>2, OtherRanks DEF ResidencyInv
      <4> QED BY <4>1 DEF Progress
    <3> QED BY <3>1, <3>2
  <2>3. Aligned'
    BY <2>2 DEF ResidencyInv, Aligned
  <2> QED BY <1>0, <2>1, <2>3 DEF ResidencyInv
<1> QED BY <1>1, <1>2 DEF Next, RankStep, UpdateWeights, LogProb, UpdateActor

-----------------------------------------------------------------------------
(* The invariant, in every behaviour.                                      *)
THEOREM ResidencyHolds == Spec => []ResidencyInv
<1>1. ResidencyInv /\ UNCHANGED vars => ResidencyInv'
  <2> SUFFICES ASSUME ResidencyInv, UNCHANGED vars PROVE ResidencyInv'
    OBVIOUS
  <2>1. ResidencyTyped'
    BY DEF ResidencyInv, ResidencyTyped, vars
  <2>2. ASSUME NEW r \in Ranks PROVE RankInv(r)'
    BY DEF ResidencyInv, vars, RankInv, StepsOf, Apart, Training, Generating, Mapped, Past, Current, Counted
  <2>3. Aligned'
    BY DEF ResidencyInv, vars, Aligned, Progress
  <2> QED BY <2>1, <2>2, <2>3 DEF ResidencyInv
<1> QED BY <1>1, InitResidency, ResidencyStep, PTL DEF Spec

(* Every rank generates with the weights of the last update on the model's *)
(* own base (engine_workers.py: update_weights and the sleep before it).   *)
THEOREM FreshWeights == Spec => []GeneratesFresh
<1>1. ResidencyInv => GeneratesFresh
  <2> SUFFICES ASSUME ResidencyInv, phase = "generate", NEW q \in Ranks, NEW r \in Ranks
      PROVE  /\ rollout[r].weights /\ rollout[r].kv
             /\ config.lora = "adapter" => rollout[r].base = 0
             /\ (IF config.lora = "adapter" THEN rollout[r].adapter ELSE rollout[r].base) = actor[q].version
    BY DEF GeneratesFresh
  <2>1. RankInv(r)
    BY DEF ResidencyInv
  <2>2. actor[q].version = actor[r].version
    <3>1. Progress(q) = 0 /\ Progress(r) = 0
      BY DEF Progress
    <3>2. actor[q].version \in Int /\ actor[r].version \in Int
      BY DEF ResidencyInv, ResidencyTyped, ActorT
    <3> QED BY <3>1, <3>2 DEF ResidencyInv, Aligned
  <2> QED BY <2>1, <2>2 DEF RankInv, Mapped, Current, Past
<1> QED BY <1>1, ResidencyHolds, PTL

(* With offloading and a freed cache no device holds the policy's          *)
(* parameters and the rollout's cache at once (engine_workers.py:          *)
(* update_weights brings the cache back last).                             *)
THEOREM NeverBoth == Spec => []OneResident
<1>1. ResidencyInv => OneResident
  <2> SUFFICES ASSUME ResidencyInv, config.offload, config.freeCache, NEW r \in Ranks,
                      rollout[r].kv, actor[r].at = "device"
      PROVE  FALSE
    BY DEF OneResident
  <2>1. Training(r) /\ Generating(r)
    BY DEF ResidencyInv, RankInv, Apart
  <2> QED BY <2>1 DEF Training, Generating
<1> QED BY <1>1, ResidencyHolds, PTL

(* The run explores the residency by itself, and holds it in a first state *)
(* while it explores another part.                                         *)
THEOREM ResidencyOfTheRun == MCSpec => [](GeneratesFresh /\ OneResident)
<1>1. MCInit => Init
  BY DEF MCInit, EndsOff, ResidencyIdle
<1>2. [MCNext]_<<part, endVars, choiceVars>> => [Next]_vars
  BY DEF MCNext, endVars
<1>3. MCSpec => Spec
  BY <1>1, <1>2, PTL DEF MCSpec, Spec
<1> QED
  BY <1>3, FreshWeights, NeverBoth, PTL

-----------------------------------------------------------------------------
(* The device gate: nothing is counted as idle while an orphan may still   *)
(* open a context, since only a lost child leaves orphans and a lost child *)
(* is the end of the gate.                                                 *)
Free == contexts = {} /\ orphans = {}
GateFree ==
  /\ calm \in Nat
  /\ ~lost => orphans = {}
  /\ at = "begin" => calm = 0
  /\ at = "wait" /\ ~lost /\ calm > 0 => contexts = {}
  /\ at = "gated" \/ (at = "spawn" /\ mode = "preflight") => ~lost /\ contexts = {}

LEMMA InitFree == Gate!Init => GateFree
BY DEF Gate!Init, GateFree

LEMMA FreeStep == GateFree /\ [Gate!Next]_gateVars => GateFree'
<1> SUFFICES ASSUME GateFree, [Gate!Next]_gateVars PROVE GateFree'
  OBVIOUS
<1> USE DEF GateFree, Gate!process, Gate!training, Gate!files, Gate!Waiting
<1>1. CASE UNCHANGED gateVars
  BY <1>1 DEF gateVars
<1>2. ASSUME NEW d \in Gate!Task, Gate!Vanish(d) \/ Gate!Orphan(d) PROVE GateFree'
  BY <1>2 DEF Gate!Vanish, Gate!Orphan
<1>3. CASE Gate!Begin
  BY <1>3 DEF Gate!Begin
<1>4. CASE Gate!Spawn
  BY <1>4 DEF Gate!Spawn
<1>5. CASE Gate!ChildEnds
  BY <1>5 DEF Gate!ChildEnds
<1>6. CASE Gate!ChildFails
  BY <1>6 DEF Gate!ChildFails
<1>7. CASE Gate!Observe
  BY <1>7 DEF Gate!Observe, Gate!AfterWait, Gate!Enough
<1>8. CASE Gate!WaitFails
  BY <1>8 DEF Gate!WaitFails
<1>9. CASE Gate!Exec \/ Gate!RayInit \/ Gate!Return \/ Gate!Raise \/ Gate!Unwind \/ Gate!Killed
  BY <1>9 DEF Gate!Exec, Gate!RayInit, Gate!Return, Gate!Raise, Gate!Unwind, Gate!Killed, Gate!Go
<1>10. ASSUME NEW r \in Gate!Workers,
              \/ Gate!Place(r) \/ Gate!Install(r) \/ Gate!Import(r) \/ Gate!Load(r)
              \/ Gate!State(r) \/ Gate!Look(r) \/ Gate!Update(r)
       PROVE  GateFree'
  <2>1. UNCHANGED Gate!process
    <3>1. Gate!State(r) => UNCHANGED Gate!process
      BY DEF Gate!State
    <3>2. Gate!Look(r) => UNCHANGED Gate!process
      BY DEF Gate!Look
    <3> QED
      BY <1>10, <3>1, <3>2 DEF Gate!Place, Gate!Install, Gate!Import, Gate!Load, Gate!Update
  <2> QED
    BY <2>1
<1> QED
  BY <1>1, <1>2, <1>3, <1>4, <1>5, <1>6, <1>7, <1>8, <1>9, <1>10 DEF Gate!Next

(* The next child and the trainer start on devices that nothing of an      *)
(* earlier child is on or may still come to (device_contract.py: 174-188,  *)
(* 209-215, 388-397).                                                      *)
THEOREM DevicesAreFree == MCSpec => StartsAlone
<1> DEFINE Kept == part = "gate" => GateFree
<1>1. MCInit => Kept
  BY InitFree DEF MCInit
<1>2. Kept /\ [MCNext]_<<part, endVars, choiceVars>> => Kept'
  BY FreeStep DEF MCNext, endVars, gateVars
<1>3. Kept => [part = "gate" => Gate!StartsOnFreeDevices]_gateVars
  BY DEF GateFree, Gate!StartsOnFreeDevices
<1> QED
  BY <1>1, <1>2, <1>3, PTL DEF MCSpec, StartsAlone
-----------------------------------------------------------------------------
(* What the evidence says of the ranks.                                    *)
WorkerT == [at : {"none", "placed", "loaded", "stated", "dead", "gone"},
            mask : Masks \cup {<< >>}, cur : Nat,
            vllm : {"absent", "hooked", "raw", "patched"}, looked : Allocation \cup {Nowhere}]
GateTyped ==
  /\ worker \in [Gate!Workers -> WorkerT]
  /\ records \subseteq Gate!Workers \X Gate!Task
  /\ updates \subseteq Gate!Workers

(* A rank keeps its mask and its index into it from the moment it is       *)
(* placed: its record and what vLLM looked at are of that one device.      *)
RankTrue(r) ==
  LET w == worker[r]
  IN /\ w.at # "none" => w.mask \in Masks /\ w.cur \in DOMAIN w.mask
     /\ w.at = "stated" => <<r, Gate!Mine(r)>> \in records
     /\ w.looked # Nowhere => w.looked = Gate!Mine(r)
     /\ \A d \in Gate!Task : <<r, d>> \in records =>
          d = Gate!Mine(r) /\ w.at \in {"stated", "dead", "gone"}
     /\ updates # {} => w.at \in {"stated", "dead", "gone"} /\ <<r, Gate!Mine(r)>> \in records
     /\ r \in updates => w.looked # Nowhere

(* The files there are at each step, up to what a trainer that returned    *)
(* leaves.                                                                 *)
Before == {"probe", "idle", "exec"}
Wrong == {"error", "ray_differs"}
EvidenceTrue ==
  /\ at = "exec" => Before \subseteq evidence
  /\ at = "running" => (Before \cup {"ray"}) \subseteq evidence /\ "ray_differs" \notin evidence
  /\ at = "running" /\ "error" \in evidence => \E r \in Gate!Workers : worker[r].at = "dead"
  /\ at \notin {"running", "unwinding", "ended"} => Wrong \cap evidence = {}
  /\ exit = "zero" =>
       /\ at \in {"unwinding", "ended"} /\ (Before \cup {"ray"}) \subseteq evidence
       /\ Wrong \cap evidence = {} /\ updates = Gate!Workers
       /\ at = "ended" => "terminal" \in evidence

GateTrue == GateTyped /\ (\A r \in Gate!Workers : RankTrue(r)) /\ EvidenceTrue

LEMMA InitTrue == Gate!Init => GateTrue
<1> SUFFICES ASSUME Gate!Init PROVE GateTrue
  OBVIOUS
<1>1. Gate!Absent \in WorkerT
  BY DEF Gate!Absent, WorkerT
<1>2. \A r \in Gate!Workers : worker[r] = Gate!Absent
  BY DEF Gate!Init
<1> QED
  BY <1>1, <1>2 DEF Gate!Init, Gate!Absent, GateTrue, GateTyped, RankTrue, EvidenceTrue, Before, Wrong

-----------------------------------------------------------------------------
(* A handle that vLLM gets by the index it computed is that of the device  *)
(* behind the engine's own mask, in whatever order the driver counts.      *)
LEMMA PhysicalIsOwn ==
  ASSUME NEW m \in Masks, NEW i \in DOMAIN m,
         Gate!Physical(Gate!EngineMask(m, 0, Len(m), Len(m)), i) # 0
  PROVE  Nvml[Gate!Physical(Gate!EngineMask(m, 0, Len(m), Len(m)), i)] = m[i]
<1> DEFINE e == Gate!EngineMask(m, 0, Len(m), Len(m))
<1>1. m \in Seq(Allocation) /\ Gate!Range(Nvml) = Allocation
  BY EndsAssumed DEF Gate!DeviceAssumption
<1>2. Len(m) \in Nat /\ 0 * Len(m) + 1 = 1 /\ 0 * Len(m) + Len(m) = Len(m)
  BY <1>1
<1>3. e \in {m, << >>}
  BY <1>1, <1>2, SubSeqFull DEF Gate!EngineMask
<1>4. i \in DOMAIN e
  BY DEF Gate!Physical
<1>5. e = m
  BY <1>3, <1>4
<1>6. m[i] \in Allocation
  BY <1>1
<1>7. PICK n \in DOMAIN Nvml : Nvml[n] = m[i]
  BY <1>1, <1>6 DEF Gate!Range
<1> QED
  BY <1>4, <1>5, <1>7 DEF Gate!Physical

(* What one rank does says nothing of another.                             *)
LEMMA OthersKeep ==
  ASSUME GateTrue, NEW r \in Gate!Workers, NEW q \in Gate!Workers, q # r,
         worker'[q] = worker[q],
         records \subseteq records', \A d \in Gate!Task : <<q, d>> \in records' => <<q, d>> \in records,
         updates' \in {updates, updates \cup {r}},
         updates' # updates => \A p \in Gate!Workers : worker[p].at = "stated"
  PROVE  RankTrue(q)'
<1>1. RankTrue(q) /\ Gate!Mine(q)' = Gate!Mine(q)
  BY DEF GateTrue, Gate!Mine, Gate!Device
<1>2. q \in updates' => q \in updates
  OBVIOUS
<1>3. updates' # {} => updates # {} \/ worker[q].at = "stated"
  OBVIOUS
<1> QED
  BY <1>1, <1>2, <1>3 DEF RankTrue

LEMMA RankKeeps ==
  ASSUME GateTrue, NEW r \in Gate!Workers,
         \/ Gate!Place(r) \/ Gate!Install(r) \/ Gate!Import(r) \/ Gate!Load(r)
         \/ Gate!State(r) \/ Gate!Look(r) \/ Gate!Update(r)
  PROVE  GateTyped' /\ (\A q \in Gate!Workers : RankTrue(q)')
<1> DEFINE w == worker[r]
<1> USE DEF Gate!Set, Gate!files, Gate!process
<1>0. worker \in [Gate!Workers -> WorkerT] /\ w \in WorkerT /\ RankTrue(r)
  BY DEF GateTrue, GateTyped
<1>1. /\ worker' \in [Gate!Workers -> WorkerT] /\ \A q \in Gate!Workers : q # r => worker'[q] = worker[q]
      /\ records \subseteq records' /\ records' \subseteq Gate!Workers \X Gate!Task
      /\ \A q \in Gate!Workers, d \in Gate!Task : q # r /\ <<q, d>> \in records' => <<q, d>> \in records
      /\ updates' \in {updates, updates \cup {r}}
      /\ updates' # updates => \A p \in Gate!Workers : worker[p].at = "stated"
      /\ RankTrue(r)'
  <2> USE DEF GateTrue, GateTyped, RankTrue, Gate!Mine, Gate!Device
  <2>1. CASE Gate!Place(r)
    <3>0. PICK m \in Masks : \E i \in DOMAIN m :
            worker' = [worker EXCEPT ![r] = [Gate!Absent EXCEPT !.at = "placed", !.mask = m, !.cur = i]]
      BY <2>1 DEF Gate!Place
    <3>1. PICK i \in DOMAIN m :
            worker' = [worker EXCEPT ![r] = [Gate!Absent EXCEPT !.at = "placed", !.mask = m, !.cur = i]]
      BY <3>0
    <3>2. m \in Seq(Allocation) /\ m # << >> /\ i \in Nat
      BY EndsAssumed DEF Gate!DeviceAssumption
    <3>3. worker'[r] = [at |-> "placed", mask |-> m, cur |-> i, vllm |-> "absent", looked |-> Nowhere]
      BY <3>1, <1>0 DEF Gate!Absent
    <3>4. w.at = "none" /\ records' = records /\ updates' = updates
      BY <2>1 DEF Gate!Place
    <3>5. worker'[r] \in WorkerT
      BY <3>2, <3>3 DEF WorkerT
    <3>6. worker' \in [Gate!Workers -> WorkerT] /\ \A q \in Gate!Workers : q # r => worker'[q] = worker[q]
      BY <3>1, <3>5, <1>0
    <3>7. updates = {} /\ r \notin updates /\ \A d \in Gate!Task : <<r, d>> \notin records
      BY <3>4, <1>0
    <3>8. RankTrue(r)'
      BY <3>3, <3>4, <3>7
    <3> QED
      BY <3>4, <3>6, <3>8
  <2>2. CASE Gate!Install(r) \/ Gate!Import(r)
    <3>1. PICK v \in {"hooked", "raw", "patched"} : worker' = [worker EXCEPT ![r] = [worker[r] EXCEPT !.vllm = v]]
      BY <2>2 DEF Gate!Install, Gate!Import
    <3>2. records' = records /\ updates' = updates
      BY <2>2 DEF Gate!Install, Gate!Import
    <3> QED
      BY <3>1, <3>2, <1>0 DEF WorkerT
  <2>4. CASE Gate!Load(r)
    <3>1. PICK state \in {"loaded", "dead"} : worker' = [worker EXCEPT ![r] = [worker[r] EXCEPT !.at = state]]
      BY <2>4 DEF Gate!Load
    <3>2. w.at = "placed" /\ records' = records /\ updates' = updates
      BY <2>4 DEF Gate!Load
    <3> QED
      BY <3>1, <3>2, <1>0 DEF WorkerT
  <2>5. CASE Gate!State(r)
    <3>1. /\ w.at = "loaded" /\ updates' = updates
          /\ \/ /\ Gate!Range(w.mask) \subseteq Gate!Task
                /\ records' = records \cup {<<r, Gate!Mine(r)>>}
                /\ worker' = [worker EXCEPT ![r] = [worker[r] EXCEPT !.at = "stated"]]
             \/ /\ records' = records
                /\ worker' = [worker EXCEPT ![r] = [worker[r] EXCEPT !.at = "dead"]]
      BY <2>5 DEF Gate!State
    <3>2. w.mask # << >> /\ w.cur \in DOMAIN w.mask
      BY <1>0, <3>1, EndsAssumed DEF Gate!DeviceAssumption
    <3>3. Gate!Range(w.mask) \subseteq Gate!Task => Gate!Mine(r) \in Gate!Task
      BY <3>2 DEF Gate!Range
    <3>4. worker'[r].mask = w.mask /\ worker'[r].cur = w.cur /\ worker'[r].looked = w.looked
      BY <3>1, <1>0 DEF WorkerT
    <3> QED
      BY <3>1, <3>2, <3>3, <3>4, <1>0 DEF WorkerT
  <2>6. CASE Gate!Look(r)
    <3> DEFINE n == Gate!Physical(Gate!EngineMask(w.mask, 0, Len(w.mask), Len(w.mask)), w.cur)
    <3>1. /\ w.at = "stated" /\ records' = records /\ updates' = updates /\ w.looked = Nowhere
          /\ \/ n # 0 /\ worker' = [worker EXCEPT ![r] = [worker[r] EXCEPT !.looked = Nvml[n]]]
             \/ worker' = [worker EXCEPT ![r] = [worker[r] EXCEPT !.at = "dead"]]
      BY <2>6 DEF Gate!Look
    <3>2. /\ w.mask \in Masks /\ w.cur \in DOMAIN w.mask /\ w.mask # << >>
          /\ w.mask[w.cur] \in Allocation
      BY <1>0, <3>1, EndsAssumed DEF Gate!DeviceAssumption
    <3>3. n # 0 => Nvml[n] = Gate!Mine(r)
      BY <3>2, PhysicalIsOwn
    <3>4. CASE n # 0 /\ worker' = [worker EXCEPT ![r] = [worker[r] EXCEPT !.looked = Nvml[n]]]
      <4>1. Nvml[n] = Gate!Mine(r) /\ Nvml[n] \in Allocation
        BY <3>2, <3>3, <3>4
      <4>2. worker'[r] = [w EXCEPT !.looked = Nvml[n]] /\ worker'[r] \in WorkerT
        BY <3>4, <4>1, <1>0 DEF WorkerT
      <4>3. worker' \in [Gate!Workers -> WorkerT]
        BY <3>4, <4>2, <1>0
      <4> QED
        BY <3>1, <3>4, <4>1, <4>2, <4>3, <1>0 DEF WorkerT
    <3>5. CASE worker' = [worker EXCEPT ![r] = [worker[r] EXCEPT !.at = "dead"]]
      BY <3>1, <3>5, <1>0 DEF WorkerT
    <3> QED
      BY <3>1, <3>4, <3>5
  <2>7. CASE Gate!Update(r)
    <3>1. /\ \A q \in Gate!Workers : worker[q].at = "stated"
          /\ w.looked # Nowhere /\ records' = records
          /\ \/ updates' = updates \cup {r} /\ worker' = worker
             \/ updates' = updates /\ worker' = [worker EXCEPT ![r] = [worker[r] EXCEPT !.at = "dead"]]
      BY <2>7 DEF Gate!Update
    <3> QED
      BY <3>1, <1>0 DEF WorkerT
  <2> QED
    BY <2>1, <2>2, <2>4, <2>5, <2>6, <2>7
<1>2. ASSUME NEW q \in Gate!Workers, q # r PROVE RankTrue(q)'
  BY <1>1, <1>2, OthersKeep
<1>3. GateTyped'
  BY <1>1 DEF GateTrue, GateTyped
<1> QED
  BY <1>1, <1>2, <1>3

-----------------------------------------------------------------------------
LEMMA EvidenceKept ==
  ASSUME GateTrue, [Gate!Next]_gateVars
  PROVE  EvidenceTrue'
<1> USE DEF EvidenceTrue, Before, Wrong, Gate!training, Gate!files, Gate!process, Gate!Waiting
<1>0. EvidenceTrue /\ GateTyped
  BY DEF GateTrue
<1>1. CASE UNCHANGED gateVars
  BY <1>0, <1>1 DEF gateVars, GateTyped
<1>2. ASSUME NEW d \in Gate!Task, Gate!Vanish(d) \/ Gate!Orphan(d) PROVE EvidenceTrue'
  BY <1>0, <1>2 DEF Gate!Vanish, Gate!Orphan
<1>3. CASE Gate!Begin \/ Gate!Spawn \/ Gate!ChildEnds \/ Gate!ChildFails \/ Gate!WaitFails
  BY <1>0, <1>3 DEF Gate!Begin, Gate!Spawn, Gate!ChildEnds, Gate!ChildFails, Gate!WaitFails
<1>4. CASE Gate!Observe
  BY <1>0, <1>4 DEF Gate!Observe, Gate!AfterWait
<1>5. CASE Gate!Exec
  BY <1>0, <1>5 DEF Gate!Exec, Gate!Go
<1>6. CASE Gate!RayInit
  BY <1>0, <1>6 DEF Gate!RayInit, Gate!Go
<1>7. CASE Gate!Return
  BY <1>0, <1>7 DEF Gate!Return, Gate!Go
<1>8. CASE Gate!Raise
  BY <1>0, <1>8 DEF Gate!Raise, Gate!Go
<1>9. CASE Gate!Unwind
  BY <1>0, <1>9 DEF Gate!Unwind, Gate!Go
<1>10. CASE Gate!Killed
  BY <1>0, <1>10 DEF Gate!Killed, Gate!Go
<1>11. ASSUME NEW r \in Gate!Workers,
              \/ Gate!Place(r) \/ Gate!Install(r) \/ Gate!Import(r) \/ Gate!Load(r)
              \/ Gate!Look(r) \/ Gate!Update(r)
       PROVE  EvidenceTrue'
  <2>1. /\ at' = at /\ evidence' = evidence /\ exit' = exit
        /\ updates' # updates => at = "running"
    BY <1>11 DEF Gate!Place, Gate!Install, Gate!Import, Gate!Load, Gate!Look, Gate!Update
  <2>2. ASSUME NEW q \in Gate!Workers, worker[q].at = "dead" PROVE worker'[q].at = "dead"
    <3>1. q # r \/ worker[r].at \notin {"none", "placed", "stated"} \cup Gate!Living
      BY <2>2 DEF Gate!Living
    <3>2. \E w : worker' = [worker EXCEPT ![r] = w] \/ worker' = worker
      BY <1>11 DEF Gate!Place, Gate!Install, Gate!Import, Gate!Load, Gate!Look, Gate!Update, Gate!Set
    <3> QED
      BY <1>0, <1>11, <2>2, <3>1, <3>2 DEF Gate!Place, Gate!Install, Gate!Import, Gate!Load, Gate!Look, Gate!Update, GateTyped
  <2>3. exit = "zero" => updates' = updates
    BY <1>0, <2>1
  <2> QED
    BY <1>0, <2>1, <2>2, <2>3
<1>12. ASSUME NEW r \in Gate!Workers, Gate!State(r) PROVE EvidenceTrue'
  <2>1. /\ at = "running" /\ at' = at /\ exit' = exit /\ updates' = updates /\ worker[r].at = "loaded"
        /\ \/ evidence' = evidence /\ worker' = [worker EXCEPT ![r] = [worker[r] EXCEPT !.at = "stated"]]
           \/ /\ evidence' = evidence \cup {"error"}
              /\ worker' = [worker EXCEPT ![r] = [worker[r] EXCEPT !.at = "dead"]]
    BY <1>12 DEF Gate!State, Gate!Set
  <2>2. ASSUME NEW q \in Gate!Workers, worker[q].at = "dead" PROVE worker'[q].at = "dead"
    BY <1>0, <2>1, <2>2 DEF GateTyped
  <2>3. evidence' = evidence \/ worker'[r].at = "dead"
    BY <1>0, <2>1 DEF GateTyped, WorkerT
  <2> QED
    BY <1>0, <2>1, <2>2, <2>3
<1> QED
  BY <1>1, <1>2, <1>3, <1>4, <1>5, <1>6, <1>7, <1>8, <1>9, <1>10, <1>11, <1>12 DEF Gate!Next

LEMMA TrueStep == GateTrue /\ [Gate!Next]_gateVars => GateTrue'
<1> SUFFICES ASSUME GateTrue, [Gate!Next]_gateVars
             PROVE  GateTyped' /\ \A q \in Gate!Workers : RankTrue(q)'
  BY EvidenceKept DEF GateTrue
<1> USE DEF Gate!process, Gate!training, Gate!files, Gate!Waiting
<1>1. CASE UNCHANGED <<worker, records, updates>>
  BY <1>1 DEF GateTrue, GateTyped, RankTrue, Gate!Mine, Gate!Device
<1>2. CASE Gate!Unwind \/ Gate!Killed
  <2>1. /\ worker' = [r \in Gate!Workers |->
             IF worker[r].at = "none" THEN Gate!Absent ELSE [worker[r] EXCEPT !.at = "gone"]]
        /\ UNCHANGED <<records, updates>>
    BY <1>2 DEF Gate!Unwind, Gate!Killed
  <2>2. Gate!Absent \in WorkerT
    BY DEF Gate!Absent, WorkerT
  <2>3. \A r \in Gate!Workers : worker'[r] \in WorkerT
    BY <2>1, <2>2 DEF GateTrue, GateTyped, WorkerT
  <2>4. GateTyped'
    BY <2>1, <2>3 DEF GateTrue, GateTyped
  <2>5. ASSUME NEW q \in Gate!Workers PROVE RankTrue(q)'
    <3>0. RankTrue(q) /\ worker[q] \in WorkerT
      BY DEF GateTrue, GateTyped
    <3>1. CASE worker[q].at = "none"
      <4>1. worker'[q] = Gate!Absent
        BY <2>1, <3>1
      <4>2. updates = {} /\ \A d \in Gate!Task : <<q, d>> \notin records
        BY <3>0, <3>1 DEF RankTrue
      <4> QED
        BY <2>1, <4>1, <4>2 DEF RankTrue, Gate!Absent
    <3>2. CASE worker[q].at # "none"
      <4>1. worker'[q] = [worker[q] EXCEPT !.at = "gone"]
        BY <2>1, <3>2
      <4>2. /\ worker'[q].at = "gone" /\ worker'[q].mask = worker[q].mask
            /\ worker'[q].cur = worker[q].cur /\ worker'[q].looked = worker[q].looked
        BY <4>1, <3>0 DEF WorkerT
      <4> QED
        BY <2>1, <3>0, <3>2, <4>2 DEF RankTrue, Gate!Mine, Gate!Device
    <3> QED
      BY <3>1, <3>2
  <2> QED
    BY <2>4, <2>5
<1>3. ASSUME NEW r \in Gate!Workers,
             \/ Gate!Place(r) \/ Gate!Install(r) \/ Gate!Import(r) \/ Gate!Load(r)
             \/ Gate!State(r) \/ Gate!Look(r) \/ Gate!Update(r)
      PROVE  GateTyped' /\ \A q \in Gate!Workers : RankTrue(q)'
  BY <1>3, RankKeeps
<1>4. ASSUME \/ \E d \in Gate!Task : Gate!Vanish(d) \/ Gate!Orphan(d)
             \/ Gate!Begin \/ Gate!Spawn \/ Gate!ChildEnds \/ Gate!ChildFails \/ Gate!Observe
             \/ Gate!WaitFails \/ Gate!Exec \/ Gate!RayInit \/ Gate!Return \/ Gate!Raise
      PROVE  UNCHANGED <<worker, records, updates>>
  BY <1>4 DEF Gate!Vanish, Gate!Orphan, Gate!Begin, Gate!Spawn, Gate!ChildEnds, Gate!ChildFails,
     Gate!Observe, Gate!WaitFails, Gate!Exec, Gate!RayInit, Gate!Return, Gate!Raise
<1>5. UNCHANGED gateVars => UNCHANGED <<worker, records, updates>>
  BY DEF gateVars
<1> QED
  BY <1>1, <1>2, <1>3, <1>4, <1>5 DEF Gate!Next

-----------------------------------------------------------------------------
(* As many ranks as devices: if every device has a rank, no two ranks      *)
(* share one, and the other way round.                                     *)
LEMMA OneDeviceEach ==
  ASSUME NEW f \in [Gate!Workers -> Gate!Task]
  PROVE  (\A d \in Gate!Task : \E r \in Gate!Workers : f[r] = d)
           <=> (\A q, r \in Gate!Workers : f[q] = f[r] => q = r)
<1> DEFINE n == Len(Expected)
<1>1. Expected \in Seq(Allocation) /\ Gate!IsInjective(Expected) /\ n \in Nat /\ n >= 1
  BY EndsAssumed DEF Gate!DeviceAssumption
<1>2. Expected \in Bijection(1..n, Gate!Task)
  BY <1>1 DEF Gate!Task, Gate!Range, Gate!IsInjective, Bijection, Injection, Surjection, IsInjective
<1>3. IsFiniteSet(1..n) /\ Cardinality(1..n) = n /\ IsFiniteSet(Gate!Workers) /\ Cardinality(Gate!Workers) = n
  BY <1>1, FS_Interval DEF Gate!Workers
<1>4. IsFiniteSet(Gate!Task) /\ Cardinality(Gate!Task) = n
  <2>1. ExistsBijection(1..n, Gate!Task)
    BY <1>2 DEF ExistsBijection
  <2> HIDE DEF n
  <2> QED
    BY <1>3, <2>1, FS_Bijection
<1>5. ASSUME \A d \in Gate!Task : \E r \in Gate!Workers : f[r] = d
      PROVE  \A q, r \in Gate!Workers : f[q] = f[r] => q = r
  <2>1. f \in Surjection(Gate!Workers, Gate!Task)
    BY <1>5 DEF Surjection
  <2>2. f \in Injection(Gate!Workers, Gate!Task)
    BY <2>1, <1>3, <1>4, FS_Surjection
  <2> QED
    BY <2>2 DEF Injection, IsInjective
<1>6. ASSUME \A q, r \in Gate!Workers : f[q] = f[r] => q = r
      PROVE  \A d \in Gate!Task : \E r \in Gate!Workers : f[r] = d
  <2>1. f \in Injection(Gate!Workers, Gate!Task)
    BY <1>6 DEF Injection, IsInjective
  <2>2. f \in Surjection(Gate!Workers, Gate!Task)
    BY <2>1, <1>3, <1>4, FS_Injection
  <2> QED
    BY <2>2 DEF Surjection
<1> QED
  BY <1>5, <1>6

LEMMA TrueAccepts == GateTrue => Gate!AcceptanceTrue
<1> SUFFICES ASSUME GateTrue PROVE Gate!AcceptedRanAsAssigned /\ Gate!SoundRunAccepted
  BY DEF Gate!AcceptanceTrue
<1>0. Gate!Workers # {}
  <2>1. Len(Expected) \in Nat /\ Len(Expected) >= 1
    BY EndsAssumed DEF Gate!DeviceAssumption
  <2>2. 0 \in Gate!Workers
    BY <2>1 DEF Gate!Workers
  <2> QED
    BY <2>2
<1> DEFINE f == [r \in Gate!Workers |-> Gate!Mine(r)]
<1>1. ASSUME updates # {}
      PROVE  /\ \A r \in Gate!Workers : Gate!Mine(r) \in Gate!Task /\ <<r, Gate!Mine(r)>> \in records
             /\ \A r \in updates : worker[r].looked = Gate!Mine(r)
             /\ f \in [Gate!Workers -> Gate!Task]
  BY <1>1 DEF GateTrue, GateTyped, RankTrue
<1>2. ASSUME Gate!Accepted, updates # {}, exit = "zero", NEW q \in Gate!Workers, NEW r \in Gate!Workers,
             Gate!Mine(q) = Gate!Mine(r)
      PROVE  q = r
  <2>1. \A d \in Gate!Task : \E p \in Gate!Workers : <<p, d>> \in records
    BY <1>2 DEF Gate!Accepted, Gate!Complete
  <2>2. \A d \in Gate!Task : \E p \in Gate!Workers : f[p] = d
    BY <2>1 DEF GateTrue, RankTrue
  <2>3. f \in [Gate!Workers -> Gate!Task] /\ f[q] = f[r]
    BY <1>1, <1>2
  <2> HIDE DEF f
  <2> QED
    BY <2>2, <2>3, OneDeviceEach
<1>3. Gate!AcceptedRanAsAssigned
  BY <1>1, <1>2 DEF Gate!AcceptedRanAsAssigned
<1>4. ASSUME at = "ended", exit = "zero",
             \A q, r \in Gate!Workers : Gate!Mine(q) = Gate!Mine(r) => q = r
      PROVE  Gate!Accepted
  <2>1. /\ (Before \cup {"ray", "terminal"}) \subseteq evidence /\ Wrong \cap evidence = {}
        /\ updates = Gate!Workers
    BY <1>4 DEF GateTrue, EvidenceTrue
  <2>2. \A d \in Gate!Task : \E r \in Gate!Workers : f[r] = d
    <3>1. f \in [Gate!Workers -> Gate!Task]
      BY <1>0, <1>1, <2>1
    <3>2. \A q, r \in Gate!Workers : f[q] = f[r] => q = r
      BY <1>4
    <3> HIDE DEF f
    <3> QED
      BY <3>1, <3>2, OneDeviceEach
  <2>3. Gate!Complete
    BY <1>0, <1>1, <2>1, <2>2 DEF Gate!Complete
  <2>4. \A e \in records : e[2] \in Gate!Task
    BY DEF GateTrue, GateTyped
  <2> QED
    BY <1>0, <1>4, <2>1, <2>3, <2>4 DEF Gate!Accepted, Before, Wrong
<1> QED
  BY <1>3, <1>4 DEF Gate!SoundRunAccepted

(* What is accepted ran on the devices its records name, each rank on its  *)
(* own, and no sound run is lost, wherever Ray puts the ranks and whatever *)
(* outlives a child (device_contract.py: 495-602).                         *)
THEOREM AcceptanceIsTrue == MCSpec => []AcceptanceTrue
<1> DEFINE Kept == part = "gate" => GateTrue
<1>1. MCInit => Kept
  BY InitTrue DEF MCInit
<1>2. Kept /\ [MCNext]_<<part, endVars, choiceVars>> => Kept'
  BY TrueStep DEF MCNext, endVars
<1>3. Kept => AcceptanceTrue
  BY TrueAccepts DEF AcceptanceTrue
<1> QED
  BY <1>1, <1>2, <1>3, PTL DEF MCSpec

-----------------------------------------------------------------------------
(* The corpus release.                                                     *)
TableT == [rows : SUBSET Corpus!Row, torn : BOOLEAN] \cup {NoTable}
FileRows == (Trials \X Trials) \cup (Corpus!Tables \X TableT)
ToolT == [at : 1..4, rows : SUBSET FileRows, files : SUBSET Corpus!Tables, crossed : BOOLEAN]
ReleaseTyped ==
  /\ kind \in [Trials -> Corpus!Kinds \cup {"none"}]
  /\ table \in [Corpus!Tables -> TableT]
  /\ tool \in ToolT \cup {Corpus!NoRun}
  /\ manifest \in [rows : SUBSET FileRows, whole : BOOLEAN, crossed : BOOLEAN]

(* What a build writes has been held against the lock.                     *)
Building ==
  \/ builder = Corpus!NoRun
  \/ builder.at = "scan"
  \/ builder.at = "check" /\ builder.rows \subseteq Corpus!Row
  \/ \E stage \in Corpus!Tables, rows \in SUBSET Corpus!Row :
       builder = [at |-> stage, rows |-> rows] /\ Corpus!LockHolds(rows)
LockKept ==
  table["corpus"] # NoTable /\ ~table["corpus"].torn => Corpus!LockHolds(table["corpus"].rows)

(* While no build writes beside it, what the tool has hashed is what there *)
(* is, and it has found all that the tables name.                          *)
Names(rows) == {row[1] : row \in rows}
Hashing ==
  tool # Corpus!NoRun =>
    /\ \A f \in tool.files : table[f] # NoTable
    /\ \A row \in tool.rows : row[1] \in Corpus!Tables => row[2] # NoTable
    /\ ~tool.crossed =>
         /\ \A row \in tool.rows : row[1] \in Corpus!Tables => row[2] = table[row[1]]
         /\ Corpus!Referenced \cup Corpus!ExcludedTrials \subseteq Names(tool.rows)
Manifested ==
  manifest.whole /\ ~manifest.crossed =>
    \A x, y \in TableT : <<"corpus", x>> \in manifest.rows /\ <<"ledger", y>> \in manifest.rows =>
      /\ x # NoTable /\ y # NoTable
      /\ \A r \in x.rows : r.trial \in Corpus!Listed
      /\ \A r \in y.rows : ~r.valid => r.trial \in Corpus!Listed

ReleaseInv == ReleaseTyped /\ Building /\ LockKept /\ Hashing /\ Manifested

LEMMA InitRelease == Corpus!Init => ReleaseInv
<1> SUFFICES ASSUME Corpus!Init PROVE ReleaseInv
  OBVIOUS
<1>1. ReleaseTyped
  BY EndsAssumed DEF Corpus!CorpusAssumption, Corpus!Init, ReleaseTyped, TableT, Corpus!LockedAs, Corpus!Kinds, Corpus!Memory
<1> QED
  BY <1>1 DEF Corpus!Init, ReleaseInv, Building, LockKept, Hashing, Manifested, Corpus!Tables

(* The outcomes among outcomes are the outcomes.                           *)
LEMMA OutcomesAlone ==
  ASSUME NEW rows, Corpus!LockHolds(rows) PROVE Corpus!LockHolds(Corpus!ValidRows(rows))
BY DEF Corpus!LockHolds, Corpus!ValidRows

(* A write changes one table and marks the tool that runs beside it.       *)
LEMMA WriteKeeps ==
  ASSUME ReleaseInv, NEW f \in Corpus!Tables, NEW written \in SUBSET Corpus!Row, NEW torn \in BOOLEAN,
         Corpus!Writes(f, written, torn), f = "corpus" /\ ~torn => Corpus!LockHolds(written)
  PROVE  ReleaseTyped' /\ LockKept' /\ Hashing' /\ Manifested'
<1> DEFINE t == [rows |-> written, torn |-> torn]
<1>1. t \in TableT /\ t # NoTable
  BY EndsAssumed DEF Corpus!CorpusAssumption, TableT
<1>2. /\ table' = [table EXCEPT ![f] = t] /\ manifest' = manifest /\ kind' = kind
      /\ tool' = IF tool = Corpus!NoRun THEN Corpus!NoRun ELSE [tool EXCEPT !.crossed = TRUE]
  BY DEF Corpus!Writes, Corpus!world
<1>3. tool # Corpus!NoRun =>
        /\ tool' \in ToolT /\ tool'.crossed
        /\ tool'.files = tool.files /\ tool'.rows = tool.rows
  BY <1>2 DEF ReleaseInv, ReleaseTyped, ToolT
<1>4. ReleaseTyped'
  BY <1>1, <1>2, <1>3 DEF ReleaseInv, ReleaseTyped
<1>5. LockKept'
  BY <1>2 DEF ReleaseInv, ReleaseTyped, LockKept
<1>6. Hashing'
  BY <1>1, <1>2, <1>3 DEF ReleaseInv, ReleaseTyped, Hashing
<1>7. Manifested'
  BY <1>2 DEF ReleaseInv, Manifested, Corpus!Listed
<1> QED
  BY <1>4, <1>5, <1>6, <1>7

LEMMA BuildKeeps ==
  ASSUME ReleaseInv,
         \/ Corpus!BuildReads \/ Corpus!BuildScans \/ Corpus!BuildChecks \/ Corpus!BuildDies
         \/ \E f \in Corpus!Tables : Corpus!BuildWrites(f)
  PROVE  ReleaseInv'
<1> USE DEF ReleaseInv, Corpus!world, Corpus!runs
<1>1. ASSUME UNCHANGED <<kind, table, tool, manifest>>, Building' PROVE ReleaseInv'
  BY <1>1 DEF ReleaseTyped, LockKept, Hashing, Manifested, Corpus!Referenced, Corpus!ExcludedTrials,
     Corpus!Rows, Corpus!Listed
<1>2. CASE Corpus!BuildReads
  BY <1>1, <1>2 DEF Corpus!BuildReads, Building
<1>3. CASE Corpus!BuildScans
  <2>1. ASSUME NEW t \in Corpus!There
        PROVE  /\ t \in Trials /\ Corpus!KindOf(t, builder.notes) \in Corpus!Kinds
               /\ Corpus!Valid(t, builder.notes, builder.out) \in BOOLEAN
    BY DEF ReleaseTyped, Corpus!There, Corpus!KindOf, Corpus!Noted, Corpus!Valid, Corpus!Kinds, Corpus!Memory
  <2>3. \A t \in Corpus!There : Corpus!Noted(t, builder.notes) \in BOOLEAN
    BY DEF Corpus!Noted
  <2>2. builder'.at = "check" /\ builder'.rows \subseteq Corpus!Row
    BY <1>3, <2>1, <2>3 DEF Corpus!BuildScans, Corpus!Row
  <2> QED
    BY <1>1, <1>3, <2>2 DEF Corpus!BuildScans, Building
<1>4. CASE Corpus!BuildChecks
  <2>1. builder.rows \subseteq Corpus!Row
    BY <1>4 DEF Corpus!BuildChecks, Building, Corpus!NoRun, Corpus!Tables
  <2>2. Building'
    BY <1>4, <2>1 DEF Corpus!BuildChecks, Building, Corpus!Tables
  <2> QED
    BY <1>1, <1>4, <2>2 DEF Corpus!BuildChecks
<1>5. CASE Corpus!BuildDies
  <2>1. Building'
    BY <1>5 DEF Corpus!BuildDies, Building
  <2>2. CASE UNCHANGED <<Corpus!world, Corpus!runs, table, tool, manifest>>
    BY <1>1, <2>1, <2>2
  <2>3. CASE builder.at \in Corpus!Tables /\ Corpus!Writes(builder.at, {}, TRUE)
    BY <2>1, <2>3, WriteKeeps
  <2> QED
    BY <1>5, <2>2, <2>3 DEF Corpus!BuildDies
<1>6. ASSUME NEW f \in Corpus!Tables, Corpus!BuildWrites(f) PROVE ReleaseInv'
  <2>1. PICK rows \in SUBSET Corpus!Row : builder = [at |-> f, rows |-> rows] /\ Corpus!LockHolds(rows)
    BY <1>6 DEF Corpus!BuildWrites, Building, Corpus!NoRun, Corpus!Tables
  <2>2. Corpus!Content(f, builder.rows) \in SUBSET Corpus!Row
    BY <2>1 DEF Corpus!Content, Corpus!Tables, Corpus!ValidRows, Corpus!Drifted
  <2>3. f = "corpus" => Corpus!LockHolds(Corpus!Content(f, builder.rows))
    BY <2>1, OutcomesAlone DEF Corpus!Content
  <2>4. Corpus!After[f] \in Corpus!Tables \/ f = "ledger"
    BY DEF Corpus!After, Corpus!Tables
  <2>5. Building'
    BY <1>6, <2>1, <2>4 DEF Corpus!BuildWrites, Building
  <2> QED
    BY <1>6, <2>2, <2>3, <2>5, WriteKeeps DEF Corpus!BuildWrites
<1> QED
  BY <1>2, <1>3, <1>4, <1>5, <1>6

LEMMA ToolKeeps ==
  ASSUME ReleaseInv,
         Corpus!Collect \/ Corpus!HashNext \/ Corpus!WriteManifest \/ Corpus!ToolDies
  PROVE  ReleaseInv'
<1> USE DEF ReleaseInv, Corpus!world, Corpus!runs
<1>1. UNCHANGED <<kind, table, builder>>
  BY DEF Corpus!Collect, Corpus!HashNext, Corpus!WriteManifest, Corpus!ToolDies
<1>2. Building' /\ LockKept'
  BY <1>1 DEF Building, LockKept
<1>3. CASE Corpus!Collect
  <2> DEFINE there == Corpus!Referenced \cup Corpus!ExcludedTrials
             files == {f \in Corpus!Tables : table[f] # NoTable}
  <2>1. ASSUME NEW f \in Corpus!Tables PROVE Corpus!Rows(f) \subseteq Corpus!Row
    BY DEF Corpus!Rows, ReleaseTyped, TableT
  <2>2. there \subseteq Trials
    BY <2>1 DEF Corpus!Referenced, Corpus!ExcludedTrials, Corpus!Row, Corpus!Tables
  <2>3. tool' = [at |-> 1, rows |-> {<<t, t>> : t \in there}, files |-> files, crossed |-> FALSE]
    BY <1>3 DEF Corpus!Collect
  <2>4. tool'.rows = {<<t, t>> : t \in there} /\ tool'.files = files
    BY <2>3
  <2>5. tool' \in ToolT
    BY <2>2, <2>3 DEF ToolT, FileRows
  <2>6. Names(tool'.rows) = there
    <3> HIDE DEF there
    <3>1. ASSUME NEW t \in there PROVE t \in Names(tool'.rows)
      <4>1. <<t, t>> \in tool'.rows /\ <<t, t>>[1] = t
        BY <2>4
      <4> QED
        BY <4>1 DEF Names
    <3>2. ASSUME NEW row \in tool'.rows PROVE row[1] \in there
      BY <2>4
    <3> QED
      BY <3>1, <3>2 DEF Names
  <2>7. \A row \in tool'.rows : row[1] \notin Corpus!Tables
    BY <2>2, <2>4, EndsAssumed DEF Corpus!CorpusAssumption
  <2>8. Hashing'
    BY <1>1, <2>4, <2>6, <2>7 DEF Hashing, Corpus!Referenced, Corpus!ExcludedTrials, Corpus!Rows
  <2>9. manifest' = manifest
    BY <1>3 DEF Corpus!Collect
  <2> QED
    BY <1>1, <1>2, <2>5, <2>8, <2>9 DEF ReleaseTyped, Manifested, Corpus!Listed
<1>4. CASE Corpus!HashNext
  <2>0. tool.at \in 1..3 /\ Corpus!HashOrder[tool.at] \in Corpus!Tables
    BY <1>4 DEF Corpus!HashNext, Corpus!HashOrder, Corpus!Tables
  <2>1. PICK f \in Corpus!Tables :
          tool' = [tool EXCEPT !.at = @ + 1, !.rows = @ \cup (IF f \in tool.files THEN {<<f, table[f]>>} ELSE {})]
    BY <1>4, <2>0 DEF Corpus!HashNext
  <2>2. tool # Corpus!NoRun /\ tool \in ToolT /\ tool.at \in 1..3
    BY <1>4, <2>0 DEF Corpus!HashNext, ReleaseTyped
  <2>3. /\ tool'.files = tool.files /\ tool'.crossed = tool.crossed /\ tool'.at = tool.at + 1
        /\ tool'.rows = tool.rows \cup (IF f \in tool.files THEN {<<f, table[f]>>} ELSE {})
    BY <2>1, <2>2 DEF ToolT
  <2>4. tool'.rows \subseteq FileRows
    BY <2>2, <2>3 DEF ToolT, FileRows, ReleaseTyped
  <2>5. tool' \in ToolT
    <3>1. tool' = [at |-> tool.at + 1, rows |-> tool'.rows, files |-> tool.files, crossed |-> tool.crossed]
      BY <2>1, <2>2 DEF ToolT
    <3> QED
      BY <2>2, <2>4, <3>1 DEF ToolT
  <2>6. \A row \in tool'.rows : row \in tool.rows \/ (row[1] \in tool.files /\ row[2] = table[row[1]])
    BY <2>3
  <2>7. Names(tool.rows) \subseteq Names(tool'.rows)
    BY <2>3 DEF Names
  <2>8. Hashing'
    BY <1>1, <2>2, <2>3, <2>6, <2>7 DEF Hashing, Corpus!Referenced, Corpus!ExcludedTrials, Corpus!Rows
  <2>9. manifest' = manifest
    BY <1>4 DEF Corpus!HashNext
  <2> QED
    BY <1>1, <1>2, <2>5, <2>8, <2>9 DEF ReleaseTyped, Manifested, Corpus!Listed
<1>5. CASE Corpus!WriteManifest
  <2>1. /\ tool # Corpus!NoRun /\ tool \in ToolT /\ tool' = Corpus!NoRun
        /\ manifest' = [rows |-> tool.rows, whole |-> TRUE, crossed |-> tool.crossed]
    BY <1>5 DEF Corpus!WriteManifest, ReleaseTyped
  <2>2. manifest'.rows = tool.rows /\ manifest'.crossed = tool.crossed /\ Corpus!Listed' = Names(tool.rows)
    BY <2>1 DEF Corpus!Listed, Names
  <2>3. ASSUME ~tool.crossed, NEW x \in TableT, NEW y \in TableT,
               <<"corpus", x>> \in tool.rows, <<"ledger", y>> \in tool.rows
        PROVE  /\ x # NoTable /\ y # NoTable
               /\ \A r \in x.rows : r.trial \in Names(tool.rows)
               /\ \A r \in y.rows : ~r.valid => r.trial \in Names(tool.rows)
    <3>1. /\ x # NoTable /\ x = table["corpus"] /\ y # NoTable /\ y = table["ledger"]
          /\ Corpus!Referenced \cup Corpus!ExcludedTrials \subseteq Names(tool.rows)
      BY <2>1, <2>3 DEF Hashing, Corpus!Tables
    <3>2. Corpus!Rows("corpus") = x.rows /\ Corpus!Rows("ledger") = y.rows
      BY <3>1 DEF Corpus!Rows
    <3> QED
      BY <3>1, <3>2 DEF Corpus!Referenced, Corpus!ExcludedTrials
  <2>4. Manifested'
    BY <2>2, <2>3 DEF Manifested
  <2>5. ReleaseTyped'
    BY <1>1, <2>1 DEF ReleaseTyped, ToolT
  <2> QED
    BY <1>2, <2>1, <2>4, <2>5 DEF Hashing
<1>6. CASE Corpus!ToolDies
  <2>1. tool' = Corpus!NoRun /\ tool \in ToolT
    BY <1>6 DEF Corpus!ToolDies, ReleaseTyped
  <2>2. manifest' = manifest \/ manifest' = [rows |-> {}, whole |-> FALSE, crossed |-> tool.crossed]
    BY <1>6 DEF Corpus!ToolDies
  <2>3. ASSUME manifest' = manifest PROVE ReleaseTyped' /\ Manifested'
    BY <1>1, <2>1, <2>3 DEF ReleaseTyped, Manifested, Corpus!Listed
  <2>4. ASSUME manifest' = [rows |-> {}, whole |-> FALSE, crossed |-> tool.crossed]
        PROVE  ReleaseTyped' /\ Manifested'
    <3>1. manifest' \in [rows : SUBSET FileRows, whole : BOOLEAN, crossed : BOOLEAN] /\ ~manifest'.whole
      BY <2>1, <2>4 DEF ToolT
    <3> QED
      BY <1>1, <2>1, <3>1 DEF ReleaseTyped, Manifested
  <2> QED
    BY <1>2, <2>1, <2>2, <2>3, <2>4 DEF Hashing
<1> QED
  BY <1>3, <1>4, <1>5, <1>6

LEMMA ReleaseStep == ReleaseInv /\ [Corpus!Next]_corpusVars => ReleaseInv'
<1> SUFFICES ASSUME ReleaseInv, [Corpus!Next]_corpusVars PROVE ReleaseInv'
  OBVIOUS
<1>1. ASSUME UNCHANGED <<builder, table, tool, manifest>>, kind' \in [Trials -> Corpus!Kinds \cup {"none"}]
      PROVE  ReleaseInv'
  BY <1>1 DEF ReleaseInv, ReleaseTyped, Building, LockKept, Hashing, Manifested, Corpus!Referenced,
     Corpus!ExcludedTrials, Corpus!Rows, Corpus!Listed
<1>2. ASSUME NEW t \in Trials,
             Corpus!Attempt(t) \/ Corpus!Exclude(t) \/ Corpus!Annotate(t) \/ Corpus!Reclassify(t)
      PROVE  ReleaseInv'
  BY <1>1, <1>2 DEF Corpus!Attempt, Corpus!Exclude, Corpus!Annotate, Corpus!Reclassify, Corpus!runs,
     Corpus!Edited, ReleaseInv, ReleaseTyped
<1>3. CASE UNCHANGED corpusVars
  BY <1>1, <1>3 DEF corpusVars, ReleaseInv, ReleaseTyped
<1> QED
  BY <1>2, <1>3, BuildKeeps, ToolKeeps DEF Corpus!Next

LEMMA ReleaseIsWhole == ReleaseInv => Corpus!ReleaseWhole
<1> SUFFICES ASSUME ReleaseInv, manifest.whole, ~manifest.crossed, Corpus!Verified,
                    "corpus" \in Corpus!Listed, "ledger" \in Corpus!Listed,
                    ~table["corpus"].torn, ~table["ledger"].torn,
                    Corpus!Rows("corpus") = Corpus!ValidRows(Corpus!Rows("ledger"))
             PROVE  /\ \A r \in Corpus!Rows("ledger") : r.trial \in Corpus!Listed
                    /\ Corpus!LockHolds(Corpus!Rows("corpus"))
  BY DEF Corpus!ReleaseWhole
<1> DEFINE x == table["corpus"]
           y == table["ledger"]
<1>1. x \in TableT /\ y \in TableT
  BY DEF ReleaseInv, ReleaseTyped, Corpus!Tables
<1>2. ASSUME NEW f \in {"corpus", "ledger"} PROVE <<f, table[f]>> \in manifest.rows
  <2>1. PICK row \in manifest.rows : row[1] = f
    BY <1>2 DEF Corpus!Listed
  <2>2. row \in FileRows /\ row[2] = table[f]
    BY <2>1 DEF Corpus!Verified, Corpus!Tables, ReleaseInv, ReleaseTyped
  <2> QED
    BY <2>1, <2>2 DEF FileRows
<1>3. /\ x # NoTable /\ y # NoTable
      /\ \A r \in x.rows : r.trial \in Corpus!Listed
      /\ \A r \in y.rows : ~r.valid => r.trial \in Corpus!Listed
  BY <1>1, <1>2 DEF ReleaseInv, Manifested
<1>4. Corpus!Rows("corpus") = x.rows /\ Corpus!Rows("ledger") = y.rows
  BY <1>3 DEF Corpus!Rows
<1>5. ASSUME NEW r \in y.rows, r.valid PROVE r.trial \in Corpus!Listed
  BY <1>3, <1>4, <1>5 DEF Corpus!ValidRows
<1>6. Corpus!LockHolds(x.rows)
  BY <1>3 DEF ReleaseInv, LockKept
<1> QED
  BY <1>3, <1>4, <1>5, <1>6

(* A manifest that was written beside no build and verifies now covers     *)
(* every trial its ledger knows and keeps every locked outcome, whatever   *)
(* has changed since and wherever either tool died                         *)
(* (artifact_manifest.py: 904-1010; build_benchmark_corpus.py: 523-668).   *)
THEOREM ReleasesAreWhole == MCSpec => []ReleaseWhole
<1> DEFINE Kept == part = "corpus" => ReleaseInv
<1>1. MCInit => Kept
  BY InitRelease DEF MCInit
<1>2. Kept /\ [MCNext]_<<part, endVars, choiceVars>> => Kept'
  BY ReleaseStep DEF MCNext, endVars
<1>3. Kept => ReleaseWhole
  BY ReleaseIsWhole DEF ReleaseWhole
<1> QED
  BY <1>1, <1>2, <1>3, PTL DEF MCSpec

-----------------------------------------------------------------------------
(* The selection of trials.  What was accepted stays admissible while what *)
(* it was accepted by stands, and a success stays one.                     *)
LEMMA AtMostOne ==
  ASSUME NEW S, IsFiniteSet(S), Cardinality(S) <= 1, NEW x \in S, NEW y \in S
  PROVE  x = y
<1>1. Cardinality(S) \in Nat /\ Cardinality(S) # 0
  BY FS_CardinalityType, FS_EmptySet
<1> QED
  BY <1>1, FS_Singleton

Remains(r) ==
  /\ r.basis[1] \subseteq barred /\ r.basis[2] \subseteq noted \cap {r.of}
  /\ r.basis = <<r.basis[1], r.basis[2]>>
  /\ r.of \in Trained /\ r.basis = Selection!Basis(r.of) =>
       \E t \in Selection!Admissible(r.of) : t.job = r.job
  /\ r.of \in Served /\ r.success => \E t \in Selection!Successes(r.of) : t.job = r.job
SelectionInv == IsFiniteSet(trial) /\ \A r \in accepted : Remains(r)

LEMMA InitSelection == Selection!Init => SelectionInv
BY FS_EmptySet DEF Selection!Init, SelectionInv

(* More trials, results, exclusions and annotations take nothing back.     *)
LEMMA RemainsOn ==
  ASSUME NEW r, Remains(r), trial \subseteq trial', result \subseteq result',
         barred \subseteq barred', noted \subseteq noted'
  PROVE  Remains(r)'
<1>1. ASSUME r.of \in Trained, r.basis = Selection!Basis(r.of)'
      PROVE  \E t \in Selection!Admissible(r.of)' : t.job = r.job
  <2>1. barred' = r.basis[1] /\ noted' \cap {r.of} = r.basis[2]
    BY <1>1 DEF Selection!Basis
  <2>2. barred' = barred /\ noted' \cap {r.of} = noted \cap {r.of}
    BY <2>1 DEF Remains
  <2>3. r.basis = Selection!Basis(r.of)
    BY <1>1, <2>2 DEF Selection!Basis
  <2>4. PICK t \in Selection!Admissible(r.of) : t.job = r.job
    BY <1>1, <2>3 DEF Remains
  <2>5. t.of = r.of /\ Selection!Kind(t)' = Selection!Kind(t)
    BY <2>2, <2>4 DEF Selection!Admissible, Selection!AttemptsAt, Selection!Kind
  <2>6. t \in Selection!Admissible(r.of)'
    BY <2>2, <2>4, <2>5 DEF Selection!Admissible, Selection!AttemptsAt, Selection!Scientific
  <2> QED
    BY <2>4, <2>6
<1>2. ASSUME r.of \in Served, r.success PROVE \E t \in Selection!Successes(r.of)' : t.job = r.job
  BY <1>2 DEF Remains, Selection!Successes, Selection!AttemptsAt, Selection!Successful
<1>3. /\ r.basis[1] \subseteq barred' /\ r.basis[2] \subseteq noted' \cap {r.of}
      /\ r.basis = <<r.basis[1], r.basis[2]>>
  BY DEF Remains
<1> QED
  BY <1>1, <1>2, <1>3 DEF Remains

(* What a tool may accept of an experiment.                                *)
Counts(t) ==
  /\ t.of \in Trained => t \in Selection!SoleOutcome(t.of)
  /\ t.of \in Served =>
       \/ ~Selection!Ambiguous /\ t \in Selection!Chosen(t.of)
       \/ t \in Selection!MatchedCounts(t.of)

LEMMA OfWhat ==
  ASSUME NEW e
  PROVE  /\ \A t \in Selection!SoleOutcome(e) : t \in trial /\ t.of = e
         /\ \A t \in Selection!Chosen(e) : t \in trial /\ t.of = e
         /\ \A t \in Selection!MatchedCounts(e) : t \in trial /\ t.of = e
BY DEF Selection!SoleOutcome, Selection!Admissible, Selection!AttemptsAt, Selection!Chosen,
   Selection!Successes, Selection!Newest, Selection!MatchedCounts

Tool ==
  \/ Selection!Validate \/ Selection!Aggregate
  \/ \E e \in Selection!Experiments : Selection!SelectAttempt(e)
  \/ \E required \in SUBSET Selection!Experiments : Selection!CollectFiles(required)

LEMMA ToolCounts ==
  ASSUME Tool
  PROVE  \E ts \in SUBSET trial : Selection!Accept(ts) /\ \A t \in ts : Counts(t)
<1>0. Trained \cap Served = {}
  BY ChoicesAssumed DEF Selection!SelectionAssumption
<1>1. CASE Selection!Validate
  <2> DEFINE ts == UNION {Selection!SoleOutcome(e) : e \in Trained}
  <2>1. ts \in SUBSET trial /\ \A t \in ts : Counts(t)
    BY <1>0, OfWhat DEF Counts
  <2> QED
    BY <1>1, <2>1 DEF Selection!Validate
<1>2. CASE Selection!Aggregate
  <2> DEFINE ts == UNION {Selection!Chosen(e) : e \in Served}
  <2>1. ts \in SUBSET trial /\ \A t \in ts : Counts(t)
    BY <1>0, <1>2, OfWhat DEF Counts, Selection!Aggregate
  <2> QED
    BY <1>2, <2>1 DEF Selection!Aggregate
<1>3. ASSUME NEW e \in Selection!Experiments, Selection!SelectAttempt(e)
      PROVE  \E ts \in SUBSET trial : Selection!Accept(ts) /\ \A t \in ts : Counts(t)
  <2>1. Selection!SoleOutcome(e) \in SUBSET trial /\ \A t \in Selection!SoleOutcome(e) : Counts(t)
    BY <1>0, <1>3, OfWhat DEF Counts, Selection!SelectAttempt
  <2> QED
    BY <1>3, <2>1 DEF Selection!SelectAttempt
<1>4. ASSUME NEW required \in SUBSET Selection!Experiments, Selection!CollectFiles(required)
      PROVE  \E ts \in SUBSET trial : Selection!Accept(ts) /\ \A t \in ts : Counts(t)
  <2>1. PICK matched \in BOOLEAN : \E retain \in BOOLEAN :
          Selection!Accept(UNION {IF e \in Trained THEN Selection!TrainedCounts(e)
                                  ELSE IF matched THEN Selection!MatchedCounts(e)
                                       ELSE Selection!ServedCounts(e, retain) : e \in Selection!Experiments})
    BY <1>4 DEF Selection!CollectFiles
  <2>2. PICK retain \in BOOLEAN :
          Selection!Accept(UNION {IF e \in Trained THEN Selection!TrainedCounts(e)
                                  ELSE IF matched THEN Selection!MatchedCounts(e)
                                       ELSE Selection!ServedCounts(e, retain) : e \in Selection!Experiments})
    BY <2>1
  <2> DEFINE counts(e) == IF e \in Trained THEN Selection!TrainedCounts(e)
                          ELSE IF matched THEN Selection!MatchedCounts(e)
                               ELSE Selection!ServedCounts(e, retain)
             ts == UNION {counts(e) : e \in Selection!Experiments}
  <2>3. ASSUME NEW e \in Selection!Experiments, NEW t \in counts(e) PROVE t \in trial /\ Counts(t)
    <3>1. CASE e \in Trained
      BY <1>0, <2>3, <3>1, OfWhat DEF Counts, Selection!TrainedCounts
    <3>2. CASE e \notin Trained /\ matched
      BY <1>0, <2>3, <3>2, OfWhat DEF Counts
    <3>3. CASE e \notin Trained /\ ~matched
      BY <1>0, <2>3, <3>3, OfWhat DEF Counts, Selection!ServedCounts
    <3> QED
      BY <3>1, <3>2, <3>3
  <2>4. ts \in SUBSET trial /\ \A t \in ts : Counts(t)
    BY <2>3
  <2> QED
    BY <2>2, <2>4
<1> QED
  BY <1>1, <1>2, <1>3, <1>4 DEF Tool

(* What counts and was accepted before, by the same exclusions and         *)
(* annotations or as a success, is the same attempt.                       *)
LEMMA SameAttempt ==
  ASSUME SelectionInv, NEW r \in accepted, NEW t \in trial, Counts(t)
  PROVE  ~Selection!Revises(r, Selection!Counted(t))
<1> SUFFICES ASSUME r.of = t.of,
                    \/ t.of \in Trained /\ r.basis = Selection!Basis(t.of)
                    \/ t.of \in Served /\ r.success
             PROVE  r.job = t.job
  BY DEF Selection!Revises, Selection!Counted
<1>0. IsFiniteSet(trial) /\ Remains(r)
  BY DEF SelectionInv
<1>1. /\ IsFiniteSet(Selection!Admissible(t.of)) /\ IsFiniteSet(Selection!Successes(t.of))
      /\ IsFiniteSet(Selection!AttemptsAt(t.of))
  <2>1. \A S \in SUBSET trial : IsFiniteSet(S)
    BY <1>0, FS_Subset
  <2> QED
    BY <2>1 DEF Selection!Admissible, Selection!Successes, Selection!AttemptsAt
<1>2. CASE t.of \in Trained /\ r.basis = Selection!Basis(t.of)
  <2>1. PICK u \in Selection!Admissible(t.of) : u.job = r.job
    BY <1>0, <1>2 DEF Remains
  <2>2. t \in Selection!Admissible(t.of) /\ Cardinality(Selection!Admissible(t.of)) = 1
    BY <1>2, SameSizes DEF Counts, Selection!SoleOutcome
  <2> QED
    BY <1>1, <2>1, <2>2, AtMostOne
<1>3. CASE t.of \in Served /\ r.success
  <2>1. PICK u \in Selection!Successes(t.of) : u.job = r.job
    BY <1>0, <1>3 DEF Remains
  <2>2. CASE ~Selection!Ambiguous /\ t \in Selection!Chosen(t.of)
    <3>1. t \in Selection!Successes(t.of)
      BY <2>1, <2>2 DEF Selection!Chosen
    <3>2. ~(Cardinality(Selection!Successes(t.of)) > 1)
      BY <1>3, <2>2, SameSizes DEF Selection!Ambiguous, Selection!Experiments
    <3>3. Cardinality(Selection!Successes(t.of)) <= 1
      BY <1>1, <3>2, FS_CardinalityType
    <3> QED
      BY <1>1, <2>1, <3>1, <3>3, AtMostOne
  <2>3. CASE t \in Selection!MatchedCounts(t.of)
    <3>1. u \in Selection!AttemptsAt(t.of) /\ t \in Selection!AttemptsAt(t.of)
          /\ Cardinality(Selection!AttemptsAt(t.of)) = 1
      BY <2>1, <2>3, SameSizes DEF Selection!Successes, Selection!MatchedCounts
    <3> QED
      BY <1>1, <2>1, <3>1, AtMostOne
  <2> QED
    BY <1>3, <2>2, <2>3 DEF Counts
<1> QED
  BY <1>2, <1>3

(* What is accepted now is admissible now.                                 *)
LEMMA AcceptedRemains ==
  ASSUME SelectionInv, NEW t \in trial, Counts(t)
  PROVE  Remains(Selection!Counted(t))
<1> DEFINE r == Selection!Counted(t)
<1>1. /\ r.of = t.of /\ r.job = t.job /\ r.basis = <<barred, noted \cap {t.of}>>
      /\ r.success = (t.zero /\ (t.of \in Served => t.job \in result))
  BY DEF Selection!Counted, Selection!Basis
<1>2. t.of \in Trained => t \in Selection!Admissible(t.of)
  BY DEF Counts, Selection!SoleOutcome
<1>3. r.success /\ t.of \in Served => t \in Selection!Successes(t.of)
  BY <1>1 DEF Selection!Successes, Selection!Successful, Selection!AttemptsAt
<1>4. r.basis[1] = barred /\ r.basis[2] = noted \cap {t.of}
  BY <1>1
<1> HIDE DEF r
<1>5. r.of \in Trained => \E u \in Selection!Admissible(r.of) : u.job = r.job
  BY <1>1, <1>2
<1>6. r.of \in Served /\ r.success => \E u \in Selection!Successes(r.of) : u.job = r.job
  BY <1>1, <1>3
<1>7. r.basis = <<r.basis[1], r.basis[2]>> /\ r.basis[2] \subseteq noted \cap {r.of}
  BY <1>1, <1>4
<1>8. Remains(r)
  BY <1>4, <1>5, <1>6, <1>7 DEF Remains
<1> QED
  BY <1>8 DEF r

LEMMA SelectionStep ==
  ASSUME SelectionInv, [Selection!Next]_selectionVars
  PROVE  SelectionInv' /\ (accepted' # accepted => Selection!Stands)
<1>0. IsFiniteSet(trial) /\ \A r \in accepted : Remains(r)
  BY DEF SelectionInv
<1>1. CASE UNCHANGED selectionVars
  BY <1>0, <1>1, RemainsOn DEF selectionVars, SelectionInv
<1>2. ASSUME NEW j \in Jobs, NEW e \in Selection!Experiments, Selection!LeaveTrial(j, e)
      PROVE  SelectionInv' /\ accepted' = accepted
  <2>1. /\ trial \subseteq trial' /\ UNCHANGED <<result, barred, noted, accepted>>
        /\ \E t : trial' = trial \cup {t}
    BY <1>2 DEF Selection!LeaveTrial
  <2>2. IsFiniteSet(trial')
    BY <1>0, <2>1, FS_AddElement
  <2> QED
    BY <1>0, <2>1, <2>2, RemainsOn DEF SelectionInv
<1>3. ASSUME NEW j \in Jobs, Selection!LeaveResult(j) \/ Selection!Exclude(j)
      PROVE  SelectionInv' /\ accepted' = accepted
  BY <1>0, <1>3, RemainsOn DEF Selection!LeaveResult, Selection!Exclude, SelectionInv
<1>4. ASSUME NEW e \in Selection!Experiments, Selection!Annotate(e)
      PROVE  SelectionInv' /\ accepted' = accepted
  BY <1>0, <1>4, RemainsOn DEF Selection!Annotate, SelectionInv
<1>5. ASSUME Tool PROVE SelectionInv' /\ Selection!Stands
  <2>1. PICK ts \in SUBSET trial : Selection!Accept(ts) /\ \A t \in ts : Counts(t)
    BY <1>5, ToolCounts
  <2>2. /\ accepted' = accepted \cup {Selection!Counted(t) : t \in ts}
        /\ UNCHANGED <<trial, result, barred, noted>>
    BY <2>1 DEF Selection!Accept
  <2>3. \A r \in accepted' : Remains(r)
    BY <1>0, <2>1, <2>2, AcceptedRemains
  <2>4. \A r \in accepted' : Remains(r)'
    BY <2>2, <2>3, RemainsOn
  <2>5. Selection!Stands
    BY <2>1, <2>2, SameAttempt DEF Selection!Stands
  <2> QED
    BY <1>0, <2>2, <2>4, <2>5 DEF SelectionInv
<1> QED
  BY <1>1, <1>2, <1>3, <1>4, <1>5 DEF Selection!Next, Tool, selectionVars

(* Once an outcome is accepted no tool accepts another attempt for it,     *)
(* whatever jobs leave later, unless somebody has changed what it was      *)
(* accepted by (validate_trial_matrix.py: 70-107; aggregate_online.py:     *)
(* 85-176; artifact_manifest.py).                                          *)
THEOREM OutcomesStand == MCSpec => RetriesNeverRevise
<1> DEFINE Kept == part = "selection" => SelectionInv
<1>1. MCInit => Kept
  BY InitSelection DEF MCInit
<1>2. Kept /\ [MCNext]_<<part, endVars, choiceVars>> => Kept'
  BY SelectionStep DEF MCNext, choiceVars
<1>3. Kept /\ [MCNext]_<<part, endVars, choiceVars>> => [part = "selection" => Selection!Stands]_accepted
  BY SelectionStep DEF MCNext, choiceVars, selectionVars
<1> QED
  BY <1>1, <1>2, <1>3, PTL DEF MCSpec, RetriesNeverRevise

-----------------------------------------------------------------------------
(* Finite orders.  In a set that is ordered strictly and totally there is, *)
(* for every number below its size, an element with so many before it.     *)
Ahead(S, R, x) == {y \in S : <<y, x>> \in R}
LEMMA Ranked ==
  ASSUME NEW S, IsFiniteSet(S), NEW R,
         \A x \in S : <<x, x>> \notin R,
         \A x, y \in S : x # y => <<x, y>> \in R \/ <<y, x>> \in R,
         \A x, y, z \in S : <<x, y>> \in R /\ <<y, z>> \in R => <<x, z>> \in R,
         NEW i \in 0..(Cardinality(S) - 1)
  PROVE  \E x \in S : Cardinality(Ahead(S, R, x)) = i
<1> DEFINE n == Cardinality(S)
           before(x) == Ahead(S, R, x)
           rank == [x \in S |-> Cardinality(before(x))]
<1>1. n \in Nat
  BY FS_CardinalityType
<1>2. ASSUME NEW x \in S
      PROVE  IsFiniteSet(before(x)) /\ Cardinality(before(x)) \in 0..(n - 1)
  <2>1. before(x) \in SUBSET (S \ {x})
    BY DEF Ahead
  <2>2. IsFiniteSet(S \ {x}) /\ Cardinality(S \ {x}) = n - 1
    BY FS_RemoveElement
  <2> HIDE DEF before, n
  <2>3. IsFiniteSet(before(x)) /\ Cardinality(before(x)) <= Cardinality(S \ {x})
    BY <2>1, <2>2, FS_Subset
  <2>4. Cardinality(before(x)) \in Nat
    BY <2>3, FS_CardinalityType
  <2> QED
    BY <1>1, <2>2, <2>3, <2>4
<1>3. ASSUME NEW x \in S, NEW y \in S, <<x, y>> \in R
      PROVE  Cardinality(before(x)) < Cardinality(before(y))
  <2>1. before(x) \cup {x} \in SUBSET before(y) /\ x \notin before(x)
    BY <1>3 DEF Ahead
  <2> HIDE DEF before, n
  <2>2. IsFiniteSet(before(x) \cup {x}) /\ Cardinality(before(x) \cup {x}) = Cardinality(before(x)) + 1
    BY <1>2, <2>1, FS_AddElement
  <2>3. Cardinality(before(x) \cup {x}) <= Cardinality(before(y))
    BY <1>2, <2>1, FS_Subset
  <2> QED
    BY <1>1, <1>2, <2>2, <2>3
<1>4. rank \in Injection(S, 0..(n - 1))
  <2>1. rank \in [S -> 0..(n - 1)]
    BY <1>2
  <2>2. ASSUME NEW x \in S, NEW y \in S, rank[x] = rank[y] PROVE x = y
    <3>1. rank[x] = Cardinality(before(x)) /\ rank[y] = Cardinality(before(y))
      OBVIOUS
    <3> HIDE DEF before, rank, n
    <3>2. Cardinality(before(x)) \in 0..(n - 1)
      BY <1>2
    <3>3. Cardinality(before(y)) \in 0..(n - 1)
      BY <1>2
    <3>4. Cardinality(before(x)) = Cardinality(before(y))
      BY <2>2, <3>1
    <3>5. <<x, y>> \notin R
      <4> SUFFICES ASSUME <<x, y>> \in R PROVE FALSE
        OBVIOUS
      <4>1. Cardinality(before(x)) < Cardinality(before(y))
        BY <1>3
      <4> QED
        BY <1>1, <3>2, <3>3, <3>4, <4>1
    <3>6. <<y, x>> \notin R
      <4> SUFFICES ASSUME <<y, x>> \in R PROVE FALSE
        OBVIOUS
      <4>1. Cardinality(before(y)) < Cardinality(before(x))
        BY <1>3
      <4> QED
        BY <1>1, <3>2, <3>3, <3>4, <4>1
    <3> QED
      BY <3>5, <3>6
  <2> QED
    BY <2>1, <2>2 DEF Injection, IsInjective
<1>5. IsFiniteSet(0..(n - 1)) /\ Cardinality(0..(n - 1)) = n
  BY <1>1, FS_Interval
<1>6. rank \in Surjection(S, 0..(n - 1))
  <2> HIDE DEF rank
  <2> QED
    BY <1>4, <1>5, FS_Injection
<1> QED
  BY <1>6 DEF Surjection

-----------------------------------------------------------------------------
(* The tuner.                                                              *)
LEMMA PressureIsNat == \A c \in Tuner!Space : Tuner!Pressure(c) \in Nat
<1> SUFFICES ASSUME NEW c \in Tuner!Space PROVE Tuner!Pressure(c) \in Nat
  OBVIOUS
<1>1. c.actor \in Nat /\ c.rollout \in Nat /\ c.ref \in Nat /\ c.utilization \in Nat
  BY ChoicesAssumed DEF Tuner!SearchAssumption, Tuner!Space
<1>2. \A on, percent : percent \in Nat => Tuner!Factor(on, percent) \in Nat
  BY DEF Tuner!Factor
<1>3. \A x, y : x \in Nat /\ y \in Nat => x * y \in Nat
  OBVIOUS
<1>4. 5 * c.actor + 3 * c.rollout + 2 * c.ref \in Nat
  BY <1>1
<1>5. (5 * c.actor + 3 * c.rollout + 2 * c.ref) * c.utilization \in Nat
  BY <1>1, <1>3, <1>4
<1>6. (5 * c.actor + 3 * c.rollout + 2 * c.ref) * c.utilization * Tuner!Factor(c.offload, 72) \in Nat
  BY <1>2, <1>3, <1>5
<1>7. (5 * c.actor + 3 * c.rollout + 2 * c.ref) * c.utilization * Tuner!Factor(c.offload, 72)
        * Tuner!Factor(c.optimizer, 82) \in Nat
  BY <1>2, <1>3, <1>6
<1> QED
  BY <1>2, <1>3, <1>7 DEF Tuner!Pressure

(* There is a candidate at every place of a list of candidates, and so     *)
(* many of the list come before it.                                        *)
LEMMA AtItsPlace ==
  ASSUME NEW cs \in SUBSET Tuner!Candidates, NEW i \in 0..(Cardinality(cs) - 1)
  PROVE  /\ Tuner!At(cs, i) \in cs
         /\ Cardinality({d \in cs : Tuner!Before(d, Tuner!At(cs, i))}) = i
<1> DEFINE R == {p \in cs \X cs : Tuner!Before(p[1], p[2])}
<1>1. cs \subseteq Tuner!Space /\ IsFiniteSet(cs)
  BY ChoicesAssumed, SameSizes, FS_Subset DEF Tuner!SearchAssumption, Tuner!Candidates
<1>2. \A c \in cs : Tuner!Pressure(c) \in Nat /\ Key[c] \in Nat
  BY <1>1, PressureIsNat, ChoicesAssumed DEF Tuner!SearchAssumption
<1>3. \A c, d \in cs : Key[c] = Key[d] => c = d
  BY <1>1, ChoicesAssumed DEF Tuner!SearchAssumption
<1>4. \A c, d \in cs : <<c, d>> \in R <=> Tuner!Before(c, d)
  OBVIOUS
<1>5. /\ \A x \in cs : <<x, x>> \notin R
      /\ \A x, y \in cs : x # y => <<x, y>> \in R \/ <<y, x>> \in R
      /\ \A x, y, z \in cs : <<x, y>> \in R /\ <<y, z>> \in R => <<x, z>> \in R
  <2> HIDE DEF R
  <2> QED
    BY <1>2, <1>3, <1>4 DEF Tuner!Before
<1>6. PICK c \in cs : Cardinality(Ahead(cs, R, c)) = i
  <2> HIDE DEF R
  <2> QED
    BY <1>1, <1>5, Ranked
<1>7. Ahead(cs, R, c) = {d \in cs : Tuner!Before(d, c)}
  BY <1>4 DEF Ahead
<1>8. \E e \in cs : Cardinality({d \in cs : Tuner!Before(d, e)}) = i
  BY <1>6, <1>7
<1> QED
  BY <1>8, SameSizes DEF Tuner!At

LEMMA ProbeHalves == Tuner!Probe => Tuner!Halves
<1> SUFFICES ASSUME Tuner!Probe PROVE Tuner!Halves
  OBVIOUS
<1> DEFINE n == Cardinality(Tuner!Frontier)
           c == Tuner!ChooseNext
<1>1. PICK o : /\ observations' = observations \cup {o}
               /\ o.candidate = c
  <2>1. PICK zero, steps, memory \in BOOLEAN :
          observations' = observations \cup {[candidate |-> c, successful |-> zero /\ steps,
                                              kind |-> Tuner!FailureKind(zero, memory)]}
    BY DEF Tuner!Probe
  <2> DEFINE o == [candidate |-> c, successful |-> zero /\ steps, kind |-> Tuner!FailureKind(zero, memory)]
  <2>2. observations' = observations \cup {o} /\ o.candidate = c
    BY <2>1
  <2> HIDE DEF o
  <2> QED
    BY <2>2
<1>2. /\ Tuner!Unknown' \subseteq Tuner!Unknown
      /\ Tuner!Successes \subseteq Tuner!Successes' /\ Tuner!MemoryFailures \subseteq Tuner!MemoryFailures'
  <2> HIDE DEF c
  <2> QED
    BY <1>1 DEF Tuner!Unknown, Tuner!Successes, Tuner!MemoryFailures
<1>3. Tuner!Frontier' \subseteq Tuner!Frontier
  BY <1>2 DEF Tuner!Frontier
<1>4. Tuner!Frontier \in SUBSET Tuner!Candidates /\ Tuner!Candidates \subseteq Tuner!Space
  BY DEF Tuner!Frontier, Tuner!Unknown, Tuner!Candidates
<1>5. /\ IsFiniteSet(Tuner!Frontier) /\ n \in Nat
      /\ \A S \in SUBSET Tuner!Frontier : IsFiniteSet(S) /\ Cardinality(S) \in Nat /\ Cardinality(S) <= n
  BY <1>4, ChoicesAssumed, SameSizes, FS_Subset, FS_CardinalityType DEF Tuner!SearchAssumption
<1>6. ASSUME Tuner!Informative' # Tuner!Informative
      PROVE  2 * Cardinality(Tuner!Frontier') <= n
  <2>1. o.successful \/ o.kind = "oom"
    BY <1>1, <1>6 DEF Tuner!Informative
  <2>2. CASE Tuner!Frontier = {}
    BY <1>3, <1>5, <2>2, FS_EmptySet
  <2>3. CASE Tuner!Frontier # {}
    <3> DEFINE m == n \div 2
               below == {d \in Tuner!Frontier : Tuner!Before(d, c)}
    <3>1. m \in 0..(n - 1) /\ 2 * m <= n /\ 2 * (n - m - 1) <= n /\ m \in Nat
      BY <1>5, <2>3, FS_EmptySet
    <3>2. c = Tuner!At(Tuner!Frontier, m)
      BY <2>3, SameSizes DEF Tuner!ChooseNext, Tuner!Middle
    <3>3. c \in Tuner!Frontier /\ Cardinality(below) = m
      BY <1>4, <3>1, <3>2, AtItsPlace
    <3> HIDE DEF c, m
    <3>4. Tuner!Pressure(c) \in Nat /\ \A d \in Tuner!Frontier : Tuner!Pressure(d) \in Nat
      BY <1>4, <3>3, PressureIsNat
    <3>5. CASE o.kind = "oom"
      <4>1. Tuner!Pressure(c) \in Tuner!MemoryFailures'
        BY <1>1, <3>5 DEF Tuner!MemoryFailures
      <4>2. Tuner!Frontier' \subseteq below
        BY <1>3, <4>1 DEF Tuner!Frontier, Tuner!Before
      <4>3. Cardinality(Tuner!Frontier') <= m
        BY <1>5, <3>3, <4>2, FS_Subset
      <4> QED
        BY <1>3, <1>5, <3>1, <4>3
    <3>6. CASE o.successful
      <4>1. Tuner!Pressure(c) \in Tuner!Successes'
        BY <1>1, <3>6 DEF Tuner!Successes
      <4>2. Tuner!Frontier' \subseteq Tuner!Frontier \ (below \cup {c})
        BY <1>3, <3>4, <4>1 DEF Tuner!Frontier, Tuner!Before
      <4>3. c \notin below
        BY <3>4, ChoicesAssumed, <1>4, <3>3 DEF Tuner!Before, Tuner!SearchAssumption
      <4>4. Cardinality(below \cup {c}) = m + 1
        BY <1>5, <3>3, <4>3, FS_AddElement
      <4>5. Tuner!Frontier \cap (below \cup {c}) = below \cup {c}
        BY <3>3
      <4>6. Cardinality(Tuner!Frontier \ (below \cup {c})) = n - (m + 1)
        <5> DEFINE T == below \cup {c}
        <5> HIDE DEF T
        <5>1. Cardinality(Tuner!Frontier \ T) = Cardinality(Tuner!Frontier) - Cardinality(Tuner!Frontier \cap T)
          BY <1>5, FS_Difference
        <5> QED
          BY <4>4, <4>5, <5>1 DEF T
      <4>7. Cardinality(Tuner!Frontier') <= n - (m + 1)
        BY <1>5, <4>2, <4>6, FS_Subset
      <4> QED
        BY <1>3, <1>5, <3>1, <4>7
    <3> QED
      BY <2>1, <3>5, <3>6
  <2> QED
    BY <2>2, <2>3
<1> QED
  BY <1>3, <1>6, SameSizes DEF Tuner!Halves

(* Every trial that tells something of the frontier at least halves it,    *)
(* and none brings a candidate back into it, for any search space and any  *)
(* ties of pressure (core.py: 153-180).                                    *)
THEOREM TrialsHalve == MCSpec => FrontierHalves
<1>1. [MCNext]_<<part, endVars, choiceVars>> => [part = "tuner" => Tuner!Halves]_observations
  <2> SUFFICES ASSUME [MCNext]_<<part, endVars, choiceVars>>, observations' # observations, part = "tuner"
               PROVE  Tuner!Halves
    OBVIOUS
  <2>1. Tuner!Probe
    BY DEF MCNext, choiceVars, Tuner!Next
  <2> QED
    BY <2>1, ProbeHalves
<1> QED
  BY <1>1, PTL DEF MCSpec, FrontierHalves

(* So a finite set of numbers has a least and a largest.                   *)
LEMMA Extremes ==
  ASSUME NEW S \in SUBSET Int, IsFiniteSet(S), S # {}
  PROVE  (\E x \in S : \A y \in S : x <= y) /\ (\E x \in S : \A y \in S : x >= y)
<1>0. Cardinality(S) \in Nat /\ Cardinality(S) # 0
  BY FS_CardinalityType, FS_EmptySet
<1>1. 0 \in 0..(Cardinality(S) - 1)
  BY <1>0
<1>2. \E x \in S : \A y \in S : x <= y
  <2> DEFINE R == {p \in S \X S : p[1] < p[2]}
  <2>1. \A x, y \in S : <<x, y>> \in R <=> x < y
    OBVIOUS
  <2>2. /\ \A x \in S : <<x, x>> \notin R
        /\ \A x, y \in S : x # y => <<x, y>> \in R \/ <<y, x>> \in R
        /\ \A x, y, z \in S : <<x, y>> \in R /\ <<y, z>> \in R => <<x, z>> \in R
    <3> HIDE DEF R
    <3> QED
      BY <2>1
  <2>3. PICK x \in S : Cardinality(Ahead(S, R, x)) = 0
    <3> HIDE DEF R
    <3> QED
      BY <1>1, <2>2, Ranked
  <2>4. Ahead(S, R, x) = {}
    <3> HIDE DEF R
    <3>1. IsFiniteSet(Ahead(S, R, x))
      BY FS_Subset DEF Ahead
    <3> QED
      BY <2>3, <3>1, FS_EmptySet
  <2>5. \A y \in S : ~(y < x)
    BY <2>1, <2>4 DEF Ahead
  <2> QED
    BY <2>5
<1>3. \E x \in S : \A y \in S : x >= y
  <2> DEFINE R == {p \in S \X S : p[1] > p[2]}
  <2>1. \A x, y \in S : <<x, y>> \in R <=> x > y
    OBVIOUS
  <2>2. /\ \A x \in S : <<x, x>> \notin R
        /\ \A x, y \in S : x # y => <<x, y>> \in R \/ <<y, x>> \in R
        /\ \A x, y, z \in S : <<x, y>> \in R /\ <<y, z>> \in R => <<x, z>> \in R
    <3> HIDE DEF R
    <3> QED
      BY <2>1
  <2>3. PICK x \in S : Cardinality(Ahead(S, R, x)) = 0
    <3> HIDE DEF R
    <3> QED
      BY <1>1, <2>2, Ranked
  <2>4. Ahead(S, R, x) = {}
    <3> HIDE DEF R
    <3>1. IsFiniteSet(Ahead(S, R, x))
      BY FS_Subset DEF Ahead
    <3> QED
      BY <2>3, <3>1, FS_EmptySet
  <2>5. \A y \in S : ~(y > x)
    BY <2>1, <2>4 DEF Ahead
  <2> QED
    BY <2>5
<1> QED
  BY <1>2, <1>3

LEMMA MaxIs ==
  ASSUME NEW S \in SUBSET Int, IsFiniteSet(S), S # {}
  PROVE  Guard!Max(S) \in S /\ \A y \in S : Guard!Max(S) >= y
<1>1. \E x \in S : \A y \in S : x >= y
  BY Extremes
<1> QED
  BY <1>1 DEF Guard!Max

(* The first n of a finite set of numbers are n.                           *)
LEMMA FirstCount ==
  ASSUME NEW S \in SUBSET Nat, IsFiniteSet(S), NEW n \in Nat, n <= Cardinality(S)
  PROVE  Cardinality(Guard!First(S, n)) = n
<1> DEFINE R == {p \in S \X S : p[1] < p[2]}
           place == [x \in S |-> Cardinality(Ahead(S, R, x))]
           T == Guard!First(S, n)
<1>1. \A x, y \in S : <<x, y>> \in R <=> x < y
  OBVIOUS
<1>2. /\ \A x \in S : <<x, x>> \notin R
      /\ \A x, y \in S : x # y => <<x, y>> \in R \/ <<y, x>> \in R
      /\ \A x, y, z \in S : <<x, y>> \in R /\ <<y, z>> \in R => <<x, z>> \in R
  <2> HIDE DEF R
  <2> QED
    BY <1>1
<1> HIDE DEF R
<1>3. ASSUME NEW x \in S
      PROVE  /\ Ahead(S, R, x) = {y \in S : y < x}
             /\ IsFiniteSet(Ahead(S, R, x)) /\ Cardinality(Ahead(S, R, x)) \in Nat
  <2>1. Ahead(S, R, x) = {y \in S : y < x}
    BY <1>1 DEF Ahead
  <2>2. Ahead(S, R, x) \in SUBSET S
    BY DEF Ahead
  <2> QED
    BY <2>1, <2>2, FS_Subset, FS_CardinalityType
<1>4. T = {x \in S : place[x] < n}
  BY <1>3, SameSizes DEF Guard!First
<1>5. ASSUME NEW x \in S, NEW y \in S, x < y PROVE place[x] < place[y]
  <2>1. Ahead(S, R, x) \cup {x} \in SUBSET Ahead(S, R, y) /\ x \notin Ahead(S, R, x)
    <3>1. \A z \in S : z < x => z < y
      BY <1>5
    <3>2. ~(x < x)
      OBVIOUS
    <3>3. Ahead(S, R, x) = {z \in S : z < x} /\ Ahead(S, R, y) = {z \in S : z < y}
      BY <1>3
    <3> QED
      BY <1>5, <3>1, <3>2, <3>3
  <2>2. Cardinality(Ahead(S, R, x) \cup {x}) = Cardinality(Ahead(S, R, x)) + 1
    BY <1>3, <2>1, FS_AddElement
  <2>3. Cardinality(Ahead(S, R, x) \cup {x}) <= Cardinality(Ahead(S, R, y))
    BY <1>3, <2>1, FS_Subset
  <2> QED
    BY <1>3, <2>2, <2>3
<1> DEFINE count == [x \in T |-> place[x]]
<1>6. T \subseteq S /\ IsFiniteSet(T) /\ \A x \in S : place[x] \in Nat
  BY <1>3, <1>4, FS_Subset
<1>7. count \in [T -> 0..(n - 1)]
  <2> HIDE DEF T, place
  <2>1. \A x \in T : place[x] \in 0..(n - 1)
    BY <1>4, <1>6
  <2> QED
    BY <2>1
<1>8. \A x, y \in T : count[x] = count[y] => x = y
  <2> SUFFICES ASSUME NEW x \in T, NEW y \in T, count[x] = count[y], x # y PROVE FALSE
    OBVIOUS
  <2>1. x \in S /\ y \in S /\ x \in Nat /\ y \in Nat /\ place[x] = place[y] /\ place[x] \in Nat
    BY <1>6
  <2> HIDE DEF place, T, count
  <2>2. x < y \/ y < x
    BY <2>1
  <2> QED
    BY <1>5, <2>1, <2>2
<1>9. \A i \in 0..(n - 1) : \E x \in T : count[x] = i
  <2> SUFFICES ASSUME NEW i \in 0..(n - 1) PROVE \E x \in T : count[x] = i
    OBVIOUS
  <2>1. Cardinality(S) \in Nat /\ i \in 0..(Cardinality(S) - 1)
    BY FS_CardinalityType
  <2>2. PICK x \in S : Cardinality(Ahead(S, R, x)) = i
    BY <1>2, <2>1, Ranked
  <2>3. x \in T
    BY <1>4, <2>2
  <2> QED
    BY <2>2, <2>3
<1>10. count \in Bijection(T, 0..(n - 1))
  <2> HIDE DEF count, T
  <2> QED
    BY <1>7, <1>8, <1>9 DEF Bijection, Injection, Surjection, IsInjective
<1>11. Cardinality(T) = Cardinality(0..(n - 1))
  <2> HIDE DEF count, T
  <2>1. ExistsBijection(T, 0..(n - 1))
    BY <1>10 DEF ExistsBijection
  <2> QED
    BY <1>6, <2>1, FS_Bijection
<1> QED
  BY <1>11, FS_Interval

-----------------------------------------------------------------------------
(* The guard.                                                              *)
LEMMA RankIs ==
  ASSUME NEW n \in Nat \ {0}
  PROVE  Guard!Rank(n) \in 1..n /\ Of * Guard!Rank(n) >= Guard!Least((n + 1) * Hits, Of * n)
<1> DEFINE a == (n + 1) * Hits + Of - 1
           q == a \div Of
<1>1. Of \in Nat \ {0} /\ Hits \in 1..(Of - 1)
  BY ChoicesAssumed DEF Guard!GuardAssumption
<1>2. (n + 1) * Hits \in Nat /\ (n + 1) * Hits >= 1 /\ a \in Nat /\ a >= Of
  <2>1. \A x, y \in Nat \ {0} : x * y \in Nat /\ x * y >= 1
    OBVIOUS
  <2>2. (n + 1) * Hits \in Nat /\ (n + 1) * Hits >= 1
    BY <1>1, <2>1
  <2> QED
    BY <1>1, <2>2
<1>3. q \in Nat /\ Of * q <= a /\ a < Of * q + Of
  <2>1. \A x \in Nat, y \in Nat \ {0} : x \div y \in Nat /\ y * (x \div y) <= x /\ x < y * (x \div y) + y
    OBVIOUS
  <2> QED
    BY <1>1, <1>2, <2>1
<1>4. Of * q >= (n + 1) * Hits
  <2> DEFINE b == (n + 1) * Hits
             p == Of * q
  <2>1. p \in Nat /\ a = b + Of - 1 /\ b \in Nat
    <3>1. \A x, y \in Nat : x * y \in Nat
      OBVIOUS
    <3> QED
      BY <1>1, <1>2, <1>3, <3>1
  <2>2. a < p + Of
    BY <1>3
  <2> HIDE DEF p, b, a
  <2> QED
    BY <1>1, <2>1, <2>2 DEF p, b
<1>5. q >= 1
  <2> SUFFICES ASSUME q = 0 PROVE FALSE
    BY <1>3
  <2>1. a < Of
    BY <1>1, <1>3
  <2> QED
    BY <1>1, <1>2, <2>1
<1>6. Guard!Rank(n) = IF q < n THEN q ELSE n
  BY DEF Guard!Rank, Guard!Least
<1> HIDE DEF q, a
<1>7. CASE q < n
  <2>1. Guard!Rank(n) = q
    BY <1>6, <1>7
  <2> DEFINE b == (n + 1) * Hits
             d == Of * n
             p == Of * q
  <2>2. p >= b /\ p \in Nat /\ b \in Nat /\ d \in Nat
    BY <1>1, <1>2, <1>3, <1>4
  <2>3. p >= IF b < d THEN b ELSE d
    <3> HIDE DEF p, b, d
    <3> QED
      BY <2>2
  <2> QED
    BY <1>3, <1>5, <1>7, <2>1, <2>3 DEF Guard!Least
<1>8. CASE ~(q < n)
  <2>1. Guard!Rank(n) = n
    BY <1>6, <1>8
  <2> DEFINE b == (n + 1) * Hits
             d == Of * n
  <2>2. b \in Nat /\ d \in Nat
    BY <1>1, <1>2
  <2>3. d >= IF b < d THEN b ELSE d
    <3> HIDE DEF b, d
    <3> QED
      BY <2>2
  <2> QED
    BY <2>1, <2>3 DEF Guard!Least
<1> QED
  BY <1>7, <1>8

(* The quantile of any finitely many values, where enough of them are      *)
(* numbers, is a number, with enough at most as large.                     *)
LEMMA QuantileIs ==
  ASSUME NEW X, IsFiniteSet(X), X # {}, NEW val \in [X -> Int \cup {None}],
         Cardinality({d \in X : val[d] # None}) >= Guard!Rank(Cardinality(X))
  PROVE  /\ Guard!ConformalUpper(val) \in Int
         /\ Cardinality({d \in {d \in X : val[d] # None} : val[d] <= Guard!ConformalUpper(val)})
              >= Guard!Rank(Cardinality(X))
<1> DEFINE n == Cardinality(X)
           D == {d \in X : val[d] # None}
           k == Guard!Rank(n)
           all == {val[d] : d \in D}
           upto(v) == {d \in D : val[d] <= v}
           below(v) == {d \in D : val[d] < v}
<1>0. \A d \in D : val[d] \in Int
  OBVIOUS
<1>1. n \in Nat \ {0} /\ k \in 1..n /\ Cardinality(D) >= k /\ IsFiniteSet(D) /\ Cardinality(D) \in Nat
  BY FS_Subset, FS_CardinalityType, FS_EmptySet, RankIs
<1>2. \A Y \in SUBSET D : IsFiniteSet(Y) /\ Cardinality(Y) \in Nat
  BY <1>1, FS_Subset, FS_CardinalityType
<1>3. IsFiniteSet(all) /\ all \in SUBSET Int /\ all # {}
  <2>1. [d \in D |-> val[d]] \in Surjection(D, all)
    BY DEF Surjection
  <2>2. IsFiniteSet(all)
    <3> HIDE DEF all, D
    <3> QED
      BY <1>1, <2>1, FS_Surjection
  <2>3. D # {}
    <3> HIDE DEF D, k
    <3> QED
      BY <1>1, FS_EmptySet
  <2> QED
    BY <1>0, <2>2, <2>3
<1> DEFINE enough == {v \in all : Cardinality(upto(v)) >= k}
<1>4. PICK top \in all : \A v \in all : top >= v
  <2> HIDE DEF all
  <2> QED
    BY <1>3, Extremes
<1>5. upto(top) = D
  BY <1>4
<1>6. top \in enough
  BY <1>1, <1>5
<1>7. enough \in SUBSET Int /\ IsFiniteSet(enough) /\ enough # {}
  <2> HIDE DEF all, upto, k
  <2> QED
    BY <1>3, <1>6, FS_Subset
<1>8. PICK v \in enough : \A w \in enough : v <= w
  <2> HIDE DEF enough
  <2> QED
    BY <1>7, Extremes
<1>9. v \in all /\ v \in Int /\ Cardinality(upto(v)) >= k
  BY <1>7, <1>8
<1>10. Cardinality(below(v)) < k
  <2>1. CASE below(v) = {}
    <3> HIDE DEF below, k
    <3> QED
      BY <1>1, <2>1, FS_EmptySet
  <2>2. CASE below(v) # {}
    <3> DEFINE lower == {w \in all : w < v}
    <3>1. lower \in SUBSET Int /\ IsFiniteSet(lower) /\ lower # {}
      <4>1. lower # {}
        BY <2>2
      <4> HIDE DEF all
      <4> QED
        BY <1>3, <4>1, FS_Subset
    <3>2. PICK w \in lower : \A x \in lower : w >= x
      <4> HIDE DEF lower
      <4> QED
        BY <3>1, Extremes
    <3>3. w \in all /\ w < v /\ w \in Int
      BY <3>1, <3>2
    <3>4. w \notin enough
      <4> HIDE DEF enough
      <4> QED
        BY <1>7, <1>8, <1>9, <3>3
    <3>5. ~(Cardinality(upto(w)) >= k)
      BY <3>3, <3>4
    <3>6. below(v) \in SUBSET upto(w)
      <4> SUFFICES ASSUME NEW d \in D, val[d] < v PROVE val[d] <= w
        OBVIOUS
      <4>1. val[d] \in lower
        OBVIOUS
      <4>2. w >= val[d]
        BY <3>2, <4>1
      <4> QED
        BY <3>3, <4>2
    <3>7. IsFiniteSet(upto(w)) /\ Cardinality(upto(w)) \in Nat /\ Cardinality(below(v)) \in Nat
      BY <1>2
    <3>8. Cardinality(below(v)) <= Cardinality(upto(w))
      <4> HIDE DEF below, upto
      <4> QED
        BY <3>6, <3>7, FS_Subset
    <3> HIDE DEF below, upto, k
    <3> QED
      BY <1>1, <3>5, <3>7, <3>8
  <2> QED
    BY <2>1, <2>2
<1>11. \A u : Guard!Cardinality({c \in DOMAIN val : val[c] \in {w \in all : w <= u}}) = Cardinality(upto(u))
  <2>0. \A d \in X \ D : val[d] \notin all
    BY <1>3 DEF all
  <2> SUFFICES ASSUME NEW u
               PROVE  Guard!Cardinality({c \in DOMAIN val : val[c] \in {w \in all : w <= u}}) = Cardinality(upto(u))
    OBVIOUS
  <2>1. {c \in DOMAIN val : val[c] \in {w \in all : w <= u}} = upto(u)
    BY <2>0
  <2> HIDE DEF upto
  <2> QED
    BY <2>1, SameSizes
<1>12. \A u : Guard!Cardinality({c \in DOMAIN val : val[c] \in {w \in all : w < u}}) = Cardinality(below(u))
  <2>0. \A d \in X \ D : val[d] \notin all
    BY <1>3 DEF all
  <2> SUFFICES ASSUME NEW u
               PROVE  Guard!Cardinality({c \in DOMAIN val : val[c] \in {w \in all : w < u}}) = Cardinality(below(u))
    OBVIOUS
  <2>1. {c \in DOMAIN val : val[c] \in {w \in all : w < u}} = below(u)
    BY <2>0
  <2> HIDE DEF below
  <2> QED
    BY <2>1, SameSizes
<1>13. Guard!Rank(Guard!Cardinality(DOMAIN val)) = k
  BY SameSizes
<1>14. Guard!ConformalUpper(val) =
         CHOOSE u \in all : Cardinality(upto(u)) >= k /\ Cardinality(below(u)) < k
  <2>1. {val[c] : c \in DOMAIN val} \ {None} = all
    BY <1>3
  <2>2. {c \in DOMAIN val : val[c] \in all} = D
    BY <1>3
  <2>3. ~(Guard!Cardinality({c \in DOMAIN val : val[c] \in all}) < k)
    <3>1. Guard!Cardinality({c \in DOMAIN val : val[c] \in all}) = Cardinality(D)
      <4> HIDE DEF all, D
      <4> QED
        BY <2>2, SameSizes
    <3>2. k \in Int /\ Cardinality(D) \in Int /\ Cardinality(D) >= k
      <4> HIDE DEF D, k, n
      <4> QED
        BY <1>1
    <3> HIDE DEF all, D, k
    <3>3. ~(Cardinality(D) < k)
      BY <3>2
    <3> QED
      BY <3>1, <3>3
  <2> HIDE DEF all, upto, below, k, D
  <2> QED
    BY <1>11, <1>12, <1>13, <2>1, <2>3 DEF Guard!ConformalUpper
<1>15. /\ Guard!ConformalUpper(val) \in all
       /\ Cardinality(upto(Guard!ConformalUpper(val))) >= k
  <2> HIDE DEF all, upto, below, k
  <2> QED
    BY <1>9, <1>10, <1>14
<1> QED
  BY <1>3, <1>15

LEMMA ConformalIs ==
  ASSUME NEW D, IsFiniteSet(D), D # {}, NEW val \in [D -> Int]
  PROVE  /\ Guard!ConformalUpper(val) \in Int
         /\ Cardinality({d \in D : val[d] <= Guard!ConformalUpper(val)}) >= Guard!Rank(Cardinality(D))
<1>1. {d \in D : val[d] # None} = D
  BY ChoicesAssumed DEF Guard!GuardAssumption
<1>2. Cardinality(D) >= Guard!Rank(Cardinality(D))
  BY FS_CardinalityType, FS_EmptySet, RankIs
<1>3. val \in [D -> Int \cup {None}]
  OBVIOUS
<1>4. Cardinality({d \in D : val[d] # None}) >= Guard!Rank(Cardinality(D))
  BY <1>1, <1>2
<1>5. /\ Guard!ConformalUpper(val) \in Int
      /\ Cardinality({d \in {d \in D : val[d] # None} : val[d] <= Guard!ConformalUpper(val)})
           >= Guard!Rank(Cardinality(D))
  BY <1>3, <1>4, QuantileIs
<1> QED
  BY <1>1, <1>5

LEMMA QuantileType ==
  ASSUME NEW X, IsFiniteSet(X), X # {}, NEW val \in [X -> Int \cup {None}]
  PROVE  Guard!ConformalUpper(val) \in Int \cup {None}
<1> DEFINE D == {d \in X : val[d] # None}
           k == Guard!Rank(Cardinality(X))
<1>1. CASE Cardinality(D) >= k
  BY <1>1, QuantileIs
<1>2. CASE ~(Cardinality(D) >= k)
  <2> DEFINE all == {val[c] : c \in DOMAIN val} \ {None}
  <2>1. {c \in DOMAIN val : val[c] \in all} = D
    OBVIOUS
  <2>2. Cardinality(D) \in Nat /\ k \in Nat
    <3>1. D \in SUBSET X
      OBVIOUS
    <3>2. Cardinality(X) \in Nat \ {0}
      BY FS_CardinalityType, FS_EmptySet
    <3> HIDE DEF D
    <3>3. Cardinality(D) \in Nat
      BY <3>1, FS_Subset, FS_CardinalityType
    <3> QED
      BY <3>2, <3>3, RankIs
  <2>3. Guard!Cardinality({c \in DOMAIN val : val[c] \in all}) < Guard!Rank(Guard!Cardinality(DOMAIN val))
    <3>1. DOMAIN val = X
      OBVIOUS
    <3> HIDE DEF all, D
    <3>2. Cardinality(D) < k
      BY <1>2, <2>2
    <3> QED
      BY <2>1, <3>1, <3>2, SameSizes
  <2> HIDE DEF all, D, k
  <2>4. Guard!ConformalUpper(val) = None
    BY <2>3 DEF Guard!ConformalUpper, all
  <2> QED
    BY <2>4
<1> QED
  BY <1>1, <1>2

(* Where every case that is not covered is above the quantile of the       *)
(* others, the promised share is covered: the least of those not covered   *)
(* has so many below it, and they are covered.                             *)
LEMMA Promise ==
  ASSUME NEW C, IsFiniteSet(C), NEW val \in [C -> Int], NEW V \in SUBSET C,
         \A c \in C \ V : C \ {c} # {} => Guard!ConformalUpper([d \in C \ {c} |-> val[d]]) < val[c]
  PROVE  Of * Cardinality(V) >= Guard!Least(Hits * Cardinality(C), Of * (Cardinality(C) - 1))
<1> DEFINE n == Cardinality(C)
           u == Cardinality(V)
           U == C \ V
           goal == Of * u >= Guard!Least(Hits * n, Of * (n - 1))
<1>1. n \in Nat /\ u \in Nat /\ u <= n /\ IsFiniteSet(V) /\ IsFiniteSet(U)
  BY FS_Subset, FS_CardinalityType
<1>2. Of \in Nat \ {0} /\ Hits \in 1..(Of - 1)
  BY ChoicesAssumed DEF Guard!GuardAssumption
<1>3. \A x, y \in Nat : x * y \in Nat
  OBVIOUS
<1>4. CASE n = 0
  <2>1. Hits * 0 = 0 /\ Of * (0 - 1) = 0 - Of /\ Of * u >= 0
    BY <1>1, <1>2, <1>3
  <2>2. Guard!Least(Hits * n, Of * (n - 1)) = IF 0 < 0 - Of THEN 0 ELSE 0 - Of
    BY <1>4, <2>1 DEF Guard!Least
  <2>3. Of * u \in Int
    BY <1>1, <1>2
  <2>4. 0 - Of < 0 /\ 0 - Of \in Int
    BY <1>2
  <2>5. Guard!Least(Hits * n, Of * (n - 1)) = 0 - Of
    BY <2>2, <2>4
  <2> DEFINE x == Of * u
             z == 0 - Of
  <2>6. x >= 0 /\ z < 0 /\ x \in Int /\ z \in Int
    BY <2>1, <2>3, <2>4
  <2>7. x >= z
    <3> HIDE DEF x, z
    <3> QED
      BY <2>6
  <2> QED
    BY <2>5, <2>7
<1>5. CASE n = 1
  <2>1. Hits * 1 = Hits /\ Of * (1 - 1) = 0 /\ Of * u \in Nat
    BY <1>1, <1>2, <1>3
  <2> QED
    BY <1>2, <1>5, <2>1 DEF Guard!Least
<1>6. CASE U = {}
  <2>1. V = C
    BY <1>6
  <2>2. Of * n >= Of * (n - 1)
    BY <1>1, <1>2
  <2>3. Of * n \in Int /\ Of * (n - 1) \in Int /\ Hits * n \in Int
    BY <1>1, <1>2
  <2> QED
    BY <2>1, <2>2, <2>3 DEF Guard!Least
<1>7. CASE n > 1 /\ U # {}
  <2> DEFINE least == {val[c] : c \in U}
  <2>1. IsFiniteSet(least) /\ least \in SUBSET Int /\ least # {}
    <3>1. [c \in U |-> val[c]] \in Surjection(U, least)
      BY DEF Surjection
    <3>2. IsFiniteSet(least)
      <4> HIDE DEF least, U
      <4> QED
        BY <1>1, <3>1, FS_Surjection
    <3> QED
      BY <1>7, <3>2
  <2>2. PICK v \in least : \A w \in least : v <= w
    <3> HIDE DEF least
    <3> QED
      BY <2>1, Extremes
  <2>3. PICK c \in U : \A e \in U : val[c] <= val[e]
    BY <2>2
  <2> DEFINE D == C \ {c}
             f == [d \in D |-> val[d]]
             q == Guard!ConformalUpper(f)
             under == {d \in D : f[d] <= q}
  <2>4. IsFiniteSet(D) /\ Cardinality(D) = n - 1 /\ D # {}
    <3>1. IsFiniteSet(D) /\ Cardinality(D) = n - 1
      BY <2>3, FS_RemoveElement
    <3>2. Cardinality(D) # 0
      BY <1>1, <1>7, <3>1
    <3> HIDE DEF D
    <3> QED
      BY <3>1, <3>2, FS_EmptySet
  <2>5. f \in [D -> Int]
    OBVIOUS
  <2>6. q \in Int /\ Cardinality(under) >= Guard!Rank(n - 1)
    <3>1. q \in Int /\ Cardinality(under) >= Guard!Rank(Cardinality(D))
      <4> HIDE DEF f, D
      <4> QED
        BY <2>4, <2>5, ConformalIs
    <3> QED
      BY <2>4, <3>1
  <2>7. q < val[c]
    BY <2>3, <2>4
  <2>8. under \in SUBSET V
    <3> SUFFICES ASSUME NEW d \in D, f[d] <= q, d \notin V PROVE FALSE
      OBVIOUS
    <3>1. d \in U /\ f[d] = val[d] /\ val[d] \in Int /\ val[c] \in Int
      BY <2>3
    <3>2. val[c] <= val[d]
      BY <2>3, <3>1
    <3> HIDE DEF q, f
    <3> QED
      BY <2>6, <2>7, <3>1, <3>2
  <2>9. Cardinality(under) <= u /\ Cardinality(under) \in Nat
    <3> HIDE DEF under, u
    <3> QED
      BY <1>1, <2>8, FS_Subset, FS_CardinalityType DEF u
  <2>10. n - 1 \in Nat \ {0}
    BY <1>1, <1>7
  <2> DEFINE k == Guard!Rank(n - 1)
  <2>11. k \in 1..(n - 1) /\ Of * k >= Guard!Least(n * Hits, Of * (n - 1))
    <3>1. n - 1 + 1 = n
      BY <1>1
    <3>2. k \in 1..(n - 1) /\ Of * k >= Guard!Least((n - 1 + 1) * Hits, Of * (n - 1))
      <4> HIDE DEF n
      <4> QED
        BY <2>10, RankIs
    <3> QED
      BY <3>1, <3>2
  <2>12. k <= u /\ k \in Nat
    <3> HIDE DEF k, under, u
    <3> QED
      BY <1>1, <2>6, <2>9, <2>10, <2>11 DEF k
  <2>13. Of * u >= Of * k
    <3>1. \A x, y, z \in Nat : y <= z => x * y <= x * z
      OBVIOUS
    <3> HIDE DEF k, u
    <3>2. Of * k <= Of * u
      BY <1>1, <1>2, <2>12, <3>1
    <3>3. Of * k \in Int /\ Of * u \in Int
      BY <1>1, <1>2, <2>12
    <3> QED
      BY <3>2, <3>3
  <2>14. n * Hits = Hits * n
    BY <1>1, <1>2
  <2>15. Of * u \in Int /\ Of * k \in Int /\ Guard!Least(Hits * n, Of * (n - 1)) \in Int
    <3>1. Of * u \in Int /\ Of * k \in Int /\ Hits * n \in Int /\ Of * (n - 1) \in Int
      <4> HIDE DEF k, u, n
      <4> QED
        BY <1>1, <1>2, <2>12
    <3> QED
      BY <3>1 DEF Guard!Least
  <2> HIDE DEF k, u, n
  <2>16. Of * k >= Guard!Least(Hits * n, Of * (n - 1))
    BY <2>11, <2>14
  <2> DEFINE x == Of * u
             y == Of * k
             z == Guard!Least(Hits * n, Of * (n - 1))
  <2>17. x >= y /\ y >= z /\ x \in Int /\ y \in Int /\ z \in Int
    BY <2>13, <2>15, <2>16
  <2>18. x >= z
    <3> HIDE DEF x, y, z
    <3> QED
      BY <2>17
  <2> QED
    BY <2>18 DEF u, n
<1> QED
  BY <1>1, <1>4, <1>5, <1>6, <1>7

(* What is read from a corpus stays while it does.                         *)
LEMMA CorpusStays ==
  ASSUME corpus' = corpus
  PROVE  /\ Guard!Primary' = Guard!Primary
         /\ \A X : Guard!RowsOf(X)' = Guard!RowsOf(X)
         /\ \A X : Guard!Splits(X)' = Guard!Splits(X)
         /\ \A m, fit, f, rows : Guard!Residuals(m, fit, f, rows)' = Guard!Residuals(m, fit, f, rows)
         /\ \A m, c, f, s0 : Guard!Covered(m, s0, f, c)' <=> Guard!Covered(m, s0, f, c)
<1>1. \A c, k : Guard!Row(c, k)' = Guard!Row(c, k)
  BY DEF Guard!Row
<1>2. \A c : Guard!Present(c)' = Guard!Present(c)
  BY DEF Guard!Present
<1>3. Guard!Primary' = Guard!Primary
  BY <1>1, <1>2 DEF Guard!Primary
<1>4. \A X : Guard!RowsOf(X)' = Guard!RowsOf(X)
  BY <1>2 DEF Guard!RowsOf
<1>5. \A X : Guard!Splits(X)' = Guard!Splits(X)
  BY <1>4 DEF Guard!Splits
<1>6. \A rows : Guard!Succeeded(rows)' = Guard!Succeeded(rows)
  BY <1>1 DEF Guard!Succeeded
<1>7. \A x, q : Guard!Measured(x, q)' = Guard!Measured(x, q)
  BY <1>1 DEF Guard!Measured
<1>8. \A m, fit : Guard!Bounded(m, fit)' = Guard!Bounded(m, fit)
  BY <1>6, <1>7 DEF Guard!Bounded
<1>9. \A m, fit, f, rows : Guard!Residuals(m, fit, f, rows)' = Guard!Residuals(m, fit, f, rows)
  BY <1>6, <1>7, <1>8 DEF Guard!Residuals
<1>10. \A m, fit, f, rows : Guard!Calibrated(m, fit, f, rows)' = Guard!Calibrated(m, fit, f, rows)
  BY <1>6, <1>7, <1>9 DEF Guard!Calibrated, Guard!FirstIsNaN
<1>11. \A m, fit, f, rows, c : Guard!CaseMax(m, fit, f, rows, c)' = Guard!CaseMax(m, fit, f, rows, c)
  BY <1>6, <1>7, <1>9 DEF Guard!CaseMax, Guard!FirstIsNaN
<1>12. \A m, s0, f : Guard!Correction(m, s0, f)' = Guard!Correction(m, s0, f)
  BY <1>10, <1>11 DEF Guard!Correction
<1>13. \A m, c, f, s0 : Guard!Covered(m, s0, f, c)' <=> Guard!Covered(m, s0, f, c)
  BY <1>4, <1>6, <1>7, <1>8, <1>12 DEF Guard!Covered, Guard!Exceeds
<1> QED
  BY <1>3, <1>4, <1>5, <1>9, <1>13

(* Readings, residuals and corrections are numbers.                        *)
LEMMA MeasuredIs ==
  ASSUME corpus \in Corpora, NEW c \in Cases, NEW k \in Configurations, NEW q \in Phases \cup {Total}
  PROVE  Guard!Measured(<<c, k>>, q) \in Nat \cup {None}
<1> DEFINE rows == corpus[c][k]
<1>1. /\ IsFiniteSet(rows)
      /\ \A r \in rows : Guard!Reading(r.peak) /\ \A p \in Phases : Guard!Reading(r.phase[p])
  BY ChoicesAssumed, SameSizes DEF Guard!GuardAssumption
<1>2. ASSUME NEW reading \in [rows -> Nat \cup {None}]
      PROVE  Guard!Largest({reading[r] : r \in rows}) \in Nat \cup {None}
  <2> DEFINE values == {reading[r] : r \in rows}
             numbers == values \ {None}
  <2>1. CASE values \subseteq {None}
    BY <2>1 DEF Guard!Largest
  <2>2. CASE ~(values \subseteq {None})
    <3>1. reading \in Surjection(rows, values)
      BY DEF Surjection
    <3>2. IsFiniteSet(values)
      <4> HIDE DEF values, rows
      <4> QED
        BY <1>1, <3>1, FS_Surjection
    <3>3. numbers \in SUBSET Nat /\ numbers # {}
      BY <2>2
    <3>4. IsFiniteSet(numbers)
      <4> HIDE DEF values
      <4> QED
        BY <3>2, FS_Subset
    <3>5. Guard!Max(numbers) \in Nat
      <4> HIDE DEF numbers
      <4>1. numbers \in SUBSET Int
        BY <3>3
      <4> QED
        BY <3>3, <3>4, <4>1, MaxIs
    <3>6. Guard!Largest(values) = Guard!Max(numbers)
      <4> HIDE DEF values
      <4> QED
        BY <2>2 DEF Guard!Largest
    <3> QED
      BY <3>5, <3>6
  <2> QED
    BY <2>1, <2>2
<1>3. Guard!Row(c, k).peak \in Nat \cup {None}
  <2> DEFINE reading == [r \in rows |-> r.peak]
  <2>1. reading \in [rows -> Nat \cup {None}]
    BY <1>1 DEF Guard!Reading
  <2>2. {reading[r] : r \in rows} = {r.peak : r \in rows}
    OBVIOUS
  <2>3. Guard!Largest({r.peak : r \in rows}) \in Nat \cup {None}
    BY <1>2, <2>1, <2>2
  <2> QED
    BY <2>3 DEF Guard!Row, Guard!Aggregated
<1>4. ASSUME NEW p \in Phases PROVE Guard!Row(c, k).phase[p] \in Nat \cup {None}
  <2> DEFINE reading == [r \in rows |-> r.phase[p]]
  <2>1. reading \in [rows -> Nat \cup {None}]
    BY <1>1 DEF Guard!Reading
  <2>2. {reading[r] : r \in rows} = {r.phase[p] : r \in rows}
    OBVIOUS
  <2>3. Guard!Largest({r.phase[p] : r \in rows}) \in Nat \cup {None}
    BY <1>2, <2>1, <2>2
  <2> QED
    BY <2>3 DEF Guard!Row, Guard!Aggregated
<1>5. Guard!Measured(<<c, k>>, q) = IF q = Total THEN Guard!Row(c, k).peak ELSE Guard!Row(c, k).phase[q]
  BY DEF Guard!Measured
<1> QED
  BY <1>3, <1>4, <1>5

LEMMA ResidualsAre ==
  ASSUME corpus \in Corpora, NEW m, NEW fit, NEW f \in Models,
         NEW rows \in SUBSET (Cases \X Configurations)
  PROVE  /\ \A v : v \in Guard!Residuals(m, fit, f, rows) <=>
               \E x \in Guard!Succeeded(rows), q \in Guard!Bounded(m, fit) :
                 Guard!Measured(x, q) # None /\ v = Guard!Measured(x, q) - f[x[1]][x[2]][q]
         /\ Guard!Residuals(m, fit, f, rows) \in SUBSET Int
         /\ IsFiniteSet(Guard!Residuals(m, fit, f, rows))
<1> DEFINE pairs == {y \in Guard!Succeeded(rows) \X Guard!Bounded(m, fit) : Guard!Measured(y[1], y[2]) # None}
           value == [y \in pairs |-> Guard!Measured(y[1], y[2]) - f[y[1][1]][y[1][2]][y[2]]]
<1>1. Guard!Succeeded(rows) \in SUBSET rows /\ Guard!Bounded(m, fit) \in SUBSET (Phases \cup {Total})
  BY DEF Guard!Succeeded, Guard!Bounded
<1>2. IsFiniteSet(rows) /\ IsFiniteSet(Phases \cup {Total})
  <2>1. IsFiniteSet(Cases) /\ IsFiniteSet(Configurations) /\ IsFiniteSet(Phases)
    BY ChoicesAssumed, SameSizes DEF Guard!GuardAssumption
  <2>2. IsFiniteSet(Cases \X Configurations)
    BY <2>1, FS_Product
  <2> QED
    BY <2>1, <2>2, FS_Subset, FS_AddElement
<1>3. IsFiniteSet(pairs)
  <2>1. IsFiniteSet(Guard!Succeeded(rows)) /\ IsFiniteSet(Guard!Bounded(m, fit))
    BY <1>1, <1>2, FS_Subset
  <2>2. IsFiniteSet(Guard!Succeeded(rows) \X Guard!Bounded(m, fit))
    BY <2>1, FS_Product
  <2>3. pairs \in SUBSET (Guard!Succeeded(rows) \X Guard!Bounded(m, fit))
    OBVIOUS
  <2> HIDE DEF pairs
  <2> QED
    BY <2>2, <2>3, FS_Subset
<1>4. Guard!Residuals(m, fit, f, rows) = {value[y] : y \in pairs}
  BY DEF Guard!Residuals
<1>5. value \in Surjection(pairs, {value[y] : y \in pairs})
  <2> HIDE DEF pairs
  <2> QED
    BY DEF Surjection
<1>6. IsFiniteSet(Guard!Residuals(m, fit, f, rows))
  <2> DEFINE T == {value[y] : y \in pairs}
  <2>1. value \in Surjection(pairs, T)
    BY <1>5
  <2> HIDE DEF T, value, pairs
  <2>2. IsFiniteSet(T)
    BY <1>3, <2>1, FS_Surjection
  <2> QED
    BY <1>4, <2>2 DEF T
<1>7. \A v : v \in Guard!Residuals(m, fit, f, rows) <=>
        \E x \in Guard!Succeeded(rows), q \in Guard!Bounded(m, fit) :
          Guard!Measured(x, q) # None /\ v = Guard!Measured(x, q) - f[x[1]][x[2]][q]
  <2>1. ASSUME NEW x \in Guard!Succeeded(rows), NEW q \in Guard!Bounded(m, fit), Guard!Measured(x, q) # None
        PROVE  Guard!Measured(x, q) - f[x[1]][x[2]][q] \in Guard!Residuals(m, fit, f, rows)
    <3>1. <<x, q>> \in pairs
      BY <2>1
    <3>2. value[<<x, q>>] = Guard!Measured(x, q) - f[x[1]][x[2]][q]
      BY <3>1
    <3> QED
      BY <1>4, <3>1, <3>2
  <2>2. ASSUME NEW v \in Guard!Residuals(m, fit, f, rows)
        PROVE  \E x \in Guard!Succeeded(rows), q \in Guard!Bounded(m, fit) :
                 Guard!Measured(x, q) # None /\ v = Guard!Measured(x, q) - f[x[1]][x[2]][q]
    BY <1>4, <2>2
  <2> QED
    BY <2>1, <2>2
<1>8. ASSUME NEW v \in Guard!Residuals(m, fit, f, rows) PROVE v \in Int
  <2>1. PICK x \in Guard!Succeeded(rows), q \in Guard!Bounded(m, fit) :
          Guard!Measured(x, q) # None /\ v = Guard!Measured(x, q) - f[x[1]][x[2]][q]
    BY <1>7, <1>8
  <2>2. PICK c \in Cases, k \in Configurations : x = <<c, k>>
    BY <1>1, <2>1
  <2>3. q \in Phases \cup {Total}
    BY <1>1, <2>1
  <2>4. Guard!Measured(x, q) \in Int
    BY <2>1, <2>2, <2>3, MeasuredIs
  <2>5. f[c][k][q] \in Int
    BY <2>3, ChoicesAssumed DEF Guard!GuardAssumption
  <2> QED
    BY <2>1, <2>2, <2>4, <2>5
<1> QED
  BY <1>6, <1>7, <1>8

LEMMA PairMax ==
  ASSUME NEW u \in Int
  PROVE  Guard!Max({0, u}) \in Nat /\ Guard!Max({0, u}) >= u
<1>1. {0, u} \in SUBSET Int /\ {0, u} # {}
  OBVIOUS
<1>2. IsFiniteSet({0, u})
  <2>1. {0, u} = {0} \cup {u}
    OBVIOUS
  <2>2. IsFiniteSet({0})
    BY FS_Singleton
  <2>3. IsFiniteSet({0} \cup {u})
    BY <2>2, FS_AddElement
  <2> QED
    BY <2>1, <2>3
<1>3. Guard!Max({0, u}) \in {0, u} /\ \A y \in {0, u} : Guard!Max({0, u}) >= y
  BY <1>1, <1>2, MaxIs
<1> QED
  BY <1>3

LEMMA CorrectionIs ==
  ASSUME corpus \in Corpora, NEW m, NEW f \in Models, NEW s0,
         s0.calibration \in SUBSET (Cases \X Configurations)
  PROVE  LET cs == Guard!Calibrated(m, s0.fit, f, s0.calibration)
             upper == Guard!ConformalUpper([c \in cs |-> Guard!CaseMax(m, s0.fit, f, s0.calibration, c)])
         IN  /\ Guard!Correction(m, s0, f) \in Nat
             /\ cs # {} /\ upper # None => upper \in Int /\ Guard!Correction(m, s0, f) >= upper
<1> DEFINE cs == Guard!Calibrated(m, s0.fit, f, s0.calibration)
           val == [c \in cs |-> Guard!CaseMax(m, s0.fit, f, s0.calibration, c)]
           upper == Guard!ConformalUpper(val)
<1>1. CASE cs = {}
  BY <1>1 DEF Guard!Correction
<1>2. CASE cs # {}
  <2>1. IsFiniteSet(cs)
    BY ChoicesAssumed, SameSizes, FS_Subset DEF Guard!GuardAssumption, Guard!Calibrated
  <2>2. ASSUME NEW c \in cs PROVE Guard!CaseMax(m, s0.fit, f, s0.calibration, c) \in Int \cup {None}
    <3> DEFINE rs == Guard!Residuals(m, s0.fit, f, Guard!OfCase(s0.calibration, c))
    <3>0. CASE Guard!FirstIsNaN(m, Guard!OfCase(s0.calibration, c))
      BY <3>0 DEF Guard!CaseMax
    <3>00. SUFFICES ASSUME ~Guard!FirstIsNaN(m, Guard!OfCase(s0.calibration, c))
                    PROVE  Guard!CaseMax(m, s0.fit, f, s0.calibration, c) \in Int \cup {None}
      BY <3>0
    <3>1. rs # {}
      BY <2>2, <3>00 DEF Guard!Calibrated
    <3>2. Guard!OfCase(s0.calibration, c) \in SUBSET (Cases \X Configurations)
      BY DEF Guard!OfCase
    <3>3. rs \in SUBSET Int /\ IsFiniteSet(rs)
      BY <3>2, ResidualsAre
    <3> HIDE DEF rs
    <3>4. Guard!Max(rs) \in Int
      BY <3>1, <3>3, MaxIs
    <3> QED
      BY <3>00, <3>4 DEF rs, Guard!CaseMax
  <2>3. val \in [cs -> Int \cup {None}]
    BY <2>2
  <2>4. upper \in Int \cup {None}
    <3> HIDE DEF cs, val
    <3> QED
      BY <1>2, <2>1, <2>3, QuantileType
  <2>5. upper # None => Guard!Max({0, upper}) \in Nat /\ Guard!Max({0, upper}) >= upper
    <3> HIDE DEF upper
    <3> QED
      BY <2>4, PairMax
  <2>6. Guard!Correction(m, s0, f) = IF upper = None THEN 0 ELSE Guard!Max({0, upper})
    BY <1>2 DEF Guard!Correction
  <2> HIDE DEF upper
  <2> QED
    BY <2>4, <2>5, <2>6 DEF upper
<1> QED
  BY <1>1, <1>2

(* The rows of cases, and what a case has of them.                         *)
LEMMA RowsAre ==
  ASSUME NEW cs \in SUBSET Cases
  PROVE  /\ Guard!RowsOf(cs) \in SUBSET (Cases \X Configurations)
         /\ \A x : x \in Guard!RowsOf(cs) <=> \E c \in cs : \E k \in Guard!Present(c) : x = <<c, k>>
         /\ \A d \in cs : Guard!OfCase(Guard!RowsOf(cs), d) = Guard!RowsOf({d})
         /\ \A d : d \notin cs => Guard!OfCase(Guard!RowsOf(cs), d) = {}
<1>1. \A X \in SUBSET Cases : \A x : x \in Guard!RowsOf(X) <=> \E c \in X : \E k \in Guard!Present(c) : x = <<c, k>>
  BY DEF Guard!RowsOf, Guard!Present
<1>2. \A x : x \in Guard!RowsOf(cs) <=> \E c \in cs : \E k \in Guard!Present(c) : x = <<c, k>>
  BY <1>1
<1>3. Guard!RowsOf(cs) \in SUBSET (Cases \X Configurations)
  BY DEF Guard!RowsOf
<1>4. ASSUME NEW d \in cs PROVE Guard!OfCase(Guard!RowsOf(cs), d) = Guard!RowsOf({d})
  <2>1. \A x : x \in Guard!RowsOf({d}) <=> \E k \in Guard!Present(d) : x = <<d, k>>
    <3>1. {d} \in SUBSET Cases
      OBVIOUS
    <3> QED
      BY <1>1, <3>1
  <2>2. \A x : x \in Guard!OfCase(Guard!RowsOf(cs), d) <=> x \in Guard!RowsOf(cs) /\ x[1] = d
    BY DEF Guard!OfCase
  <2>3. \A x : x \in Guard!OfCase(Guard!RowsOf(cs), d) <=> \E k \in Guard!Present(d) : x = <<d, k>>
    BY <1>2, <2>2
  <2> QED
    BY <2>1, <2>3
<1>5. ASSUME NEW d, d \notin cs PROVE Guard!OfCase(Guard!RowsOf(cs), d) = {}
  BY <1>2, <1>5 DEF Guard!OfCase
<1> QED
  BY <1>2, <1>3, <1>4, <1>5

(* The cases of the fold calibrate for one another: who is held out,       *)
(* calibrates with the rest of it and fits to what is not of it.           *)
LEMMA FoldIs ==
  ASSUME NEW c \in Guard!Fold
  PROVE  LET others == Guard!Primary \ {c}
         IN  /\ c \in Guard!Primary /\ Guard!Fold \in SUBSET Guard!Primary
             /\ Guard!ByCase(others)
             /\ Guard!Calibrating(others) = Guard!Fold \ {c}
             /\ others \ Guard!Calibrating(others) = Guard!Primary \ Guard!Fold
<1> DEFINE P == Guard!Primary
           n == Cardinality(P)
           room == n - 1 - MinFit
           K == Guard!Least(MinCalibration, room)
           count(S, d) == Cardinality({e \in S : e < d})
<1>1. P \in SUBSET Nat /\ IsFiniteSet(P) /\ n \in Nat
  <2>1. P \in SUBSET Cases
    BY DEF Guard!Primary
  <2> HIDE DEF P
  <2> QED
    BY <2>1, ChoicesAssumed, SameSizes, FS_Subset, FS_CardinalityType DEF Guard!GuardAssumption
<1>2. /\ c \in P /\ Guard!ByCase(P \ {c}) /\ Guard!Fold \in SUBSET P
  BY DEF Guard!Fold
<1>3. MinCalibration \in Nat \ {0} /\ MinFit \in Nat \ {0}
  BY ChoicesAssumed DEF Guard!GuardAssumption
<1> HIDE DEF P
<1>4. \A d \in P : IsFiniteSet(P \ {d}) /\ Cardinality(P \ {d}) = n - 1
  BY <1>1, FS_RemoveElement
<1>5. n - 1 > MinFit
  BY <1>2, <1>4, SameSizes DEF Guard!ByCase
<1>6. K \in Nat \ {0} /\ K <= n - 1
  BY <1>1, <1>3, <1>5 DEF Guard!Least
<1>7. ASSUME NEW d \in P
      PROVE  Guard!ByCase(P \ {d}) /\ Guard!Calibrating(P \ {d}) = Guard!First(P \ {d}, K)
             /\ Cardinality(Guard!Calibrating(P \ {d})) = K
  <2>1. Guard!ByCase(P \ {d})
    BY <1>4, <1>5, SameSizes DEF Guard!ByCase
  <2>2. Guard!Calibrating(P \ {d}) = Guard!First(P \ {d}, K)
    BY <1>4, SameSizes DEF Guard!Calibrating
  <2>3. P \ {d} \in SUBSET Nat
    BY <1>1
  <2> HIDE DEF K
  <2>4. Cardinality(Guard!First(P \ {d}, K)) = K
    BY <1>4, <1>6, <2>3, FirstCount
  <2> QED
    BY <2>1, <2>2, <2>4
<1> HIDE DEF K
<1>8. Guard!Fold = Guard!First(P, K + 1)
  <2>1. \A d \in P : Guard!ByCase(P \ {d}) /\ Guard!Cardinality(Guard!Calibrating(P \ {d})) = K
    BY <1>7, SameSizes
  <2>2. Guard!First(P, K + 1) \in SUBSET P
    BY DEF Guard!First
  <2>3. Guard!Fold = {d \in P : d \in Guard!First(P, K + 1)}
    BY <2>1 DEF Guard!Fold, P
  <2> QED
    BY <2>2, <2>3
<1>9. \A d : d \in Guard!Fold <=> d \in P /\ count(P, d) < K + 1
  BY <1>8, SameSizes DEF Guard!First
<1>10. \A d : d \in Guard!Calibrating(P \ {c}) <=> d \in P /\ d # c /\ count(P \ {c}, d) < K
  BY <1>2, <1>7, SameSizes DEF Guard!First
<1>11. \A d : IsFiniteSet({e \in P : e < d}) /\ count(P, d) \in Nat
  BY <1>1, FS_Subset, FS_CardinalityType
<1>12. ASSUME NEW d \in P, d # c
       PROVE  d \in Guard!Calibrating(P \ {c}) <=> d \in Guard!Fold
  <2>1. c \in Nat /\ d \in Nat
    BY <1>1, <1>2
  <2>2. {e \in P \ {c} : e < d} = {e \in P : e < d} \ {c}
    OBVIOUS
  <2>3. CASE c < d
    <3>1. c \in {e \in P : e < d}
      BY <1>2, <2>3
    <3> DEFINE A == {e \in P : e < d}
    <3>2. Cardinality(A \ {c}) = Cardinality(A) - 1
      <4>1. IsFiniteSet(A) /\ c \in A
        BY <1>11, <3>1
      <4> HIDE DEF A
      <4> QED
        BY <4>1, FS_RemoveElement
    <3>3. count(P \ {c}, d) = count(P, d) - 1
      BY <2>2, <3>2
    <3>4. d \in Guard!Fold <=> count(P, d) < K + 1
      BY <1>9, <1>12
    <3>5. d \in Guard!Calibrating(P \ {c}) <=> count(P \ {c}, d) < K
      BY <1>10, <1>12
    <3>6. count(P, d) \in Nat
      BY <1>11
    <3> HIDE DEF count, A
    <3> QED
      BY <1>6, <3>3, <3>4, <3>5, <3>6
  <2>4. CASE d < c
    <3>1. c \notin {e \in P : e < d}
      BY <2>1, <2>4
    <3>2. count(P \ {c}, d) = count(P, d)
      BY <2>2, <3>1
    <3>3. count(P, d) + 1 <= count(P, c)
      <4> DEFINE A == {e \in P : e < d}
                 B == {e \in P : e < c}
      <4>1. A \cup {d} \in SUBSET B /\ d \notin A
        <5>1. \A e \in P : e < d => e < c
          BY <1>1, <2>1, <2>4
        <5>2. ~(d < d)
          BY <2>1
        <5> QED
          BY <1>12, <2>4, <5>1, <5>2
      <4>2. IsFiniteSet(A) /\ IsFiniteSet(B)
        BY <1>11
      <4> HIDE DEF A, B
      <4>3. Cardinality(A \cup {d}) = Cardinality(A) + 1
        BY <4>1, <4>2, FS_AddElement
      <4>4. Cardinality(A \cup {d}) <= Cardinality(B)
        BY <4>1, <4>2, FS_Subset
      <4> QED
        BY <4>3, <4>4 DEF A, B
    <3>4. count(P, c) < K + 1 /\ count(P, c) \in Nat /\ count(P, d) \in Nat
      BY <1>9, <1>11
    <3> HIDE DEF count
    <3> QED
      BY <1>6, <1>9, <1>10, <1>12, <3>2, <3>3, <3>4
  <2> QED
    BY <1>12, <2>1, <2>3, <2>4
<1>13. Guard!Calibrating(P \ {c}) = Guard!Fold \ {c}
  <2>1. \A d : d \in Guard!Calibrating(P \ {c}) => d \in P /\ d # c
    BY <1>10
  <2> QED
    BY <1>2, <1>12, <2>1
<1>14. (P \ {c}) \ Guard!Calibrating(P \ {c}) = P \ Guard!Fold
  BY <1>2, <1>13
<1> QED
  BY <1>2, <1>13, <1>14 DEF P

(* A correction that covers every residual of a case covers the case.      *)
LEMMA Uncovered ==
  ASSUME corpus \in Corpora, NEW m, NEW f \in Models, NEW s0, NEW c \in Cases,
         s0.calibration \in SUBSET (Cases \X Configurations), ~Guard!Covered(m, s0, f, c)
  PROVE  \E v \in Guard!Residuals(m, s0.fit, f, Guard!RowsOf({c})) : v > Guard!Correction(m, s0, f)
<1> DEFINE cor == Guard!Correction(m, s0, f)
<1>1. {c} \in SUBSET Cases
  OBVIOUS
<1>2. Guard!RowsOf({c}) \in SUBSET (Cases \X Configurations)
  BY <1>1, RowsAre
<1>3. cor \in Nat
  BY CorrectionIs
<1>4. PICK x \in Guard!Succeeded(Guard!RowsOf({c})), q \in Guard!Bounded(m, s0.fit) :
        Guard!Measured(x, q) # None /\ Guard!Measured(x, q) > Guard!Upper(f, x, q, cor)
  BY DEF Guard!Covered, Guard!Exceeds
<1>5. x \in Guard!RowsOf({c}) /\ q \in Phases \cup {Total}
  BY DEF Guard!Succeeded, Guard!Bounded
<1>6. PICK d \in Cases, k \in Configurations : x = <<d, k>>
  BY <1>2, <1>5
<1>7. Guard!Measured(x, q) \in Int
  BY <1>4, <1>5, <1>6, MeasuredIs
<1> DEFINE predicted == f[x[1]][x[2]][q]
<1>8. predicted \in Int
  BY <1>5, <1>6, ChoicesAssumed DEF Guard!GuardAssumption
<1>9. Guard!Upper(f, x, q, cor) \in Int /\ Guard!Upper(f, x, q, cor) >= predicted + cor
  <2> DEFINE u == predicted + cor
  <2>1. u \in Int
    BY <1>3, <1>8
  <2>2. Guard!Upper(f, x, q, cor) = Guard!Max({0, u})
    BY DEF Guard!Upper
  <2> HIDE DEF u
  <2>3. Guard!Max({0, u}) \in Int /\ Guard!Max({0, u}) >= u
    BY <2>1, PairMax
  <2> QED
    BY <2>2, <2>3 DEF u
<1>10. Guard!Measured(x, q) - predicted \in Guard!Residuals(m, s0.fit, f, Guard!RowsOf({c}))
  BY <1>2, <1>4, ResidualsAre
<1>11. Guard!Measured(x, q) - predicted > cor
  <2> DEFINE a == Guard!Measured(x, q)
             u == Guard!Upper(f, x, q, cor)
  <2>1. a > u /\ u >= predicted + cor /\ a \in Int /\ u \in Int
    BY <1>4, <1>7, <1>9
  <2> HIDE DEF a, u, predicted, cor
  <2>2. a - predicted > cor
    BY <1>3, <1>8, <2>1
  <2> QED
    BY <2>2 DEF a
<1> QED
  BY <1>10, <1>11

(* What a guard selects in a case it covers, fits or fails.                *)
LEMMA SelectedFits ==
  ASSUME corpus \in Corpora, NEW m, NEW f \in Models, NEW s0, NEW c \in Cases,
         s0.calibration \in SUBSET (Cases \X Configurations), Guard!Covered(m, s0, f, c),
         NEW k \in Guard!Selectable(m, s0, f, c)
  PROVE  \/ k = None \/ ~Guard!Row(c, k).success
         \/ ~Guard!Exceeds(m, s0, <<c, k>>, [q \in Guard!Bounded(m, s0.fit) |-> Limit])
<1> SUFFICES ASSUME k # None, Guard!Row(c, k).success, NEW q \in Guard!Bounded(m, s0.fit),
                    Guard!Measured(<<c, k>>, q) # None, Guard!Measured(<<c, k>>, q) > Limit
             PROVE  FALSE
  BY DEF Guard!Exceeds
<1> DEFINE cor == Guard!Correction(m, s0, f)
           x == <<c, k>>
           a == Guard!Measured(x, q)
           u == Guard!Upper(f, x, q, cor)
<1>1. k \in Guard!Present(c) /\ Guard!HeldSafe(m, s0, f, x)
  BY DEF Guard!Selectable
<1>2. k \in Configurations /\ q \in Phases \cup {Total}
  BY <1>1 DEF Guard!Present, Guard!Bounded
<1>3. x \in Guard!Succeeded(Guard!RowsOf({c}))
  <2>1. {c} \in SUBSET Cases
    OBVIOUS
  <2>2. x \in Guard!RowsOf({c})
    BY <1>1, <2>1, RowsAre
  <2> QED
    BY <2>2 DEF Guard!Succeeded
<1>4. u <= Limit
  BY <1>1 DEF Guard!HeldSafe
<1>5. ~(a > u)
  <2> DEFINE bound == [p \in Guard!Bounded(m, s0.fit) |-> Guard!Upper(f, x, p, cor)]
  <2>1. ~Guard!Exceeds(m, s0, x, bound)
    BY <1>3 DEF Guard!Covered
  <2>2. bound[q] = u
    OBVIOUS
  <2> HIDE DEF bound
  <2> QED
    BY <2>1, <2>2 DEF Guard!Exceeds
<1>6. a \in Int
  BY <1>2, MeasuredIs
<1>7. u \in Int
  <2> DEFINE v == f[x[1]][x[2]][q] + cor
  <2>1. f[c][k][q] \in Int
    BY <1>2, ChoicesAssumed DEF Guard!GuardAssumption
  <2>2. cor \in Nat
    BY CorrectionIs
  <2>3. v \in Int
    BY <2>1, <2>2
  <2>4. u = Guard!Max({0, v})
    BY DEF Guard!Upper
  <2> HIDE DEF v
  <2> QED
    BY <2>3, <2>4, PairMax
<1>8. Limit \in Int /\ a > Limit
  BY ChoicesAssumed DEF Guard!GuardAssumption
<1> HIDE DEF a, u
<1> QED
  BY <1>4, <1>5, <1>6, <1>7, <1>8

(* Fits to the same rows are one fit, and every result is the comparison   *)
(* of a guard of that fit, calibrated on cases other than its own.         *)
Explained(r) ==
  \/ Guard!Splits(Guard!Primary \ {r.case}) = {} /\ (r.covered => r.fits)
  \/ \E s0 \in Guard!Splits(Guard!Primary \ {r.case}), f \in Models :
       /\ <<s0.fit, f>> \in model
       /\ r.covered <=> Guard!Covered(r.method, s0, f, r.case)
       /\ r.residual <=> Guard!Residuals(r.method, s0.fit, f, Guard!RowsOf({r.case})) # {}
       /\ r.covered => r.fits
OneFit == \A e, d \in model : e[1] = d[1] => e[2] = d[2]
GuardInv ==
  /\ corpus \in Corpora
  /\ OneFit
  /\ \A r \in results : r.case \in Guard!Primary /\ r.method \in Guard!Methods /\ Explained(r)
  /\ \A r, q \in results : r.case = q.case /\ r.method = q.method => r = q
  /\ \A r \in results, m \in Guard!Methods : \E q \in results : q.case = r.case /\ q.method = m

LEMMA SplitsTyped ==
  ASSUME NEW others \in SUBSET Guard!Primary, NEW s0 \in Guard!Splits(others)
  PROVE  s0.calibration \in SUBSET (Cases \X Configurations)
<1>1. others \in SUBSET Cases
  BY DEF Guard!Primary
<1>2. CASE Guard!ByCase(others)
  <2>1. Guard!Calibrating(others) \in SUBSET Cases
    BY <1>1 DEF Guard!Calibrating, Guard!First
  <2>2. s0.calibration = Guard!RowsOf(Guard!Calibrating(others))
    BY <1>2 DEF Guard!Splits
  <2> QED
    BY <2>1, <2>2, RowsAre
<1>3. CASE ~Guard!ByCase(others)
  <2>1. s0.calibration \in SUBSET Guard!RowsOf(others)
    BY <1>3 DEF Guard!Splits, Guard!kSubset
  <2> QED
    BY <1>1, <2>1, RowsAre
<1> QED
  BY <1>2, <1>3

LEMMA InitGuard == Guard!Init => GuardInv
BY DEF Guard!Init, GuardInv, OneFit

LEMMA ScoredIs ==
  ASSUME NEW c, NEW m, NEW s0, NEW f, NEW k
  PROVE  LET r == Guard!Scored(c, m, s0, f, k)
         IN  /\ r.case = c /\ r.method = m
             /\ r.covered <=> Guard!Covered(m, s0, f, c)
             /\ r.residual <=> Guard!Residuals(m, s0.fit, f, Guard!RowsOf({c})) # {}
             /\ r.fits <=> \/ k = None \/ ~Guard!Row(c, k).success
                           \/ ~Guard!Exceeds(m, s0, <<c, k>>, [q \in Guard!Bounded(m, s0.fit) |-> Limit])
BY Zenon DEF Guard!Scored

(* A result stays explained: a fit is only ever added.                     *)
LEMMA ExplainedStays ==
  ASSUME NEW r, corpus' = corpus, model \subseteq model', Explained(r)
  PROVE  Explained(r)'
<1>1. /\ Guard!Primary' = Guard!Primary
      /\ \A X : Guard!Splits(X)' = Guard!Splits(X)
      /\ Guard!RowsOf({r.case})' = Guard!RowsOf({r.case})
      /\ \A m, fit, f, rows : Guard!Residuals(m, fit, f, rows)' = Guard!Residuals(m, fit, f, rows)
      /\ \A m, c, f, s0 : Guard!Covered(m, s0, f, c)' <=> Guard!Covered(m, s0, f, c)
  BY CorpusStays
<1>2. CASE Guard!Splits(Guard!Primary \ {r.case}) = {} /\ (r.covered => r.fits)
  BY <1>1, <1>2 DEF Explained
<1>3. CASE \E s0 \in Guard!Splits(Guard!Primary \ {r.case}), f \in Models :
             /\ <<s0.fit, f>> \in model
             /\ r.covered <=> Guard!Covered(r.method, s0, f, r.case)
             /\ r.residual <=> Guard!Residuals(r.method, s0.fit, f, Guard!RowsOf({r.case})) # {}
             /\ r.covered => r.fits
  <2>1. PICK s0 \in Guard!Splits(Guard!Primary \ {r.case}), f \in Models :
             /\ <<s0.fit, f>> \in model
             /\ r.covered <=> Guard!Covered(r.method, s0, f, r.case)
             /\ r.residual <=> Guard!Residuals(r.method, s0.fit, f, Guard!RowsOf({r.case})) # {}
             /\ r.covered => r.fits
    BY <1>3
  <2>2. <<s0.fit, f>> \in model' /\ s0 \in Guard!Splits(Guard!Primary \ {r.case})'
    BY <1>1, <2>1
  <2>3. (r.covered <=> Guard!Covered(r.method, s0, f, r.case)') /\ (r.covered => r.fits)
    BY <1>1, <2>1
  <2>4. r.residual <=> (Guard!Residuals(r.method, s0.fit, f, Guard!RowsOf({r.case})) # {})'
    BY <1>1, <2>1
  <2> QED
    BY <2>2, <2>3, <2>4 DEF Explained
<1> QED
  BY <1>2, <1>3 DEF Explained

(* One case more, with one result of every method.                         *)
LEMMA CaseDone ==
  ASSUME GuardInv, corpus' = corpus, model \subseteq model', OneFit',
         NEW c \in Guard!Primary \ Guard!Done, NEW a, NEW b,
         results' = results \cup {a, b},
         a.case = c, a.method = "phaseguard", b.case = c, b.method = "total_peak",
         Explained(a)', Explained(b)'
  PROVE  GuardInv'
<1>1. corpus' \in Corpora /\ Guard!Primary' = Guard!Primary
  BY CorpusStays DEF GuardInv
<1>2. \A r \in results : r.case # c
  BY DEF Guard!Done
<1>3. \A r \in results : r.case \in Guard!Primary /\ r.method \in Guard!Methods /\ Explained(r)'
  BY ExplainedStays DEF GuardInv
<1>4. \A r \in results' : (r.case \in Guard!Primary)' /\ r.method \in Guard!Methods /\ Explained(r)'
  BY <1>1, <1>3 DEF Guard!Methods
<1>5. \A r, q \in results' : r.case = q.case /\ r.method = q.method => r = q
  <2>1. \A r, q \in results : r.case = q.case /\ r.method = q.method => r = q
    BY DEF GuardInv
  <2> QED
    BY <1>2, <2>1
<1>6. \A r \in results', m \in Guard!Methods : \E q \in results' : q.case = r.case /\ q.method = m
  <2>1. \A r \in results, m \in Guard!Methods : \E q \in results : q.case = r.case /\ q.method = m
    BY DEF GuardInv
  <2>2. \A m \in Guard!Methods : m = "phaseguard" \/ m = "total_peak"
    BY DEF Guard!Methods
  <2> QED
    BY <2>1, <2>2
<1> QED
  BY <1>1, <1>4, <1>5, <1>6 DEF GuardInv

LEMMA GuardStep == GuardInv /\ [Guard!Next]_guardVars => GuardInv'
<1> SUFFICES ASSUME GuardInv, [Guard!Next]_guardVars PROVE GuardInv'
  OBVIOUS
<1>1. CASE UNCHANGED guardVars
  <2>1. corpus' = corpus /\ model' = model /\ results' = results
    BY <1>1 DEF guardVars
  <2>2. \A r \in results : Explained(r)'
    BY <2>1, ExplainedStays DEF GuardInv
  <2>3. Guard!Primary' = Guard!Primary
    BY <2>1, CorpusStays
  <2>4. OneFit'
    BY <2>1 DEF GuardInv, OneFit
  <2> QED
    BY <2>1, <2>2, <2>3, <2>4 DEF GuardInv
<1>2. ASSUME NEW c \in Cases, Guard!Evaluate(c) PROVE GuardInv'
  <2> DEFINE others == Guard!Primary \ {c}
  <2>1. c \in Guard!Primary \ Guard!Done /\ corpus' = corpus
    BY <1>2 DEF Guard!Evaluate
  <2>2. CASE Guard!Splits(others) = {} /\ results' = results \cup Guard!Passed(c) /\ UNCHANGED model
    <3> DEFINE passed(m) == [case |-> c, method |-> m, covered |-> TRUE, residual |-> FALSE, fits |-> TRUE]
    <3>1. Guard!Passed(c) = {passed("phaseguard"), passed("total_peak")}
      BY DEF Guard!Passed, Guard!Methods
    <3>2. (Guard!Splits(Guard!Primary \ {c}) = {})'
      BY <2>1, <2>2, CorpusStays
    <3>3. ASSUME NEW m PROVE Explained(passed(m))' /\ passed(m).case = c /\ passed(m).method = m
      <4>1. passed(m).fits = TRUE /\ passed(m).case = c /\ passed(m).method = m
        OBVIOUS
      <4> HIDE DEF passed
      <4> QED
        BY <3>2, <4>1 DEF Explained
    <3>4. OneFit'
      BY <2>2 DEF GuardInv, OneFit
    <3>5. results' = results \cup {passed("phaseguard"), passed("total_peak")}
      BY <2>2, <3>1
    <3> HIDE DEF passed
    <3> QED
      BY <2>1, <2>2, <3>3, <3>4, <3>5, CaseDone
  <2>3. ASSUME NEW s0 \in Guard!Splits(others), NEW f \in Models,
               \A e \in model : e[1] = s0.fit => e[2] = f,
               model' = model \cup {<<s0.fit, f>>},
               NEW k \in Guard!Selectable("phaseguard", s0, f, c), NEW l \in Guard!Selectable("total_peak", s0, f, c),
               results' = results \cup {Guard!Scored(c, "phaseguard", s0, f, k), Guard!Scored(c, "total_peak", s0, f, l)}
        PROVE  GuardInv'
    <3>1. s0.calibration \in SUBSET (Cases \X Configurations)
      <4>1. others \in SUBSET Guard!Primary
        OBVIOUS
      <4> QED
        BY <4>1, SplitsTyped
    <3>2. corpus \in Corpora
      BY DEF GuardInv
    <3>3. ASSUME NEW m, NEW j \in Guard!Selectable(m, s0, f, c), NEW r, r = Guard!Scored(c, m, s0, f, j)
          PROVE  Explained(r)' /\ r.case = c /\ r.method = m
      <4>1. /\ r.case = c /\ r.method = m
            /\ r.covered <=> Guard!Covered(m, s0, f, c)
            /\ r.residual <=> Guard!Residuals(m, s0.fit, f, Guard!RowsOf({c})) # {}
        BY <3>3, Zenon DEF Guard!Scored
      <4>2. r.covered => r.fits
        BY <3>1, <3>2, <3>3, <4>1, ScoredIs, SelectedFits
      <4>3. <<s0.fit, f>> \in model'
        BY <2>3
      <4>4. /\ (Guard!Splits(Guard!Primary \ {c}))' = Guard!Splits(others)
            /\ Guard!Covered(m, s0, f, c)' <=> Guard!Covered(m, s0, f, c)
            /\ Guard!Residuals(m, s0.fit, f, Guard!RowsOf({c}))' = Guard!Residuals(m, s0.fit, f, Guard!RowsOf({c}))
        BY <2>1, CorpusStays
      <4>5. r.covered <=> Guard!Covered(r.method, s0, f, r.case)'
        BY <4>1, <4>4
      <4>6. r.residual <=> (Guard!Residuals(r.method, s0.fit, f, Guard!RowsOf({r.case})) # {})'
        BY <4>1, <4>4
      <4>7. s0 \in (Guard!Splits(Guard!Primary \ {r.case}))'
        BY <4>1, <4>4
      <4>8. \E s1 \in (Guard!Splits(Guard!Primary \ {r.case}))', f1 \in Models :
              /\ <<s1.fit, f1>> \in model'
              /\ r.covered <=> Guard!Covered(r.method, s1, f1, r.case)'
              /\ r.residual <=> (Guard!Residuals(r.method, s1.fit, f1, Guard!RowsOf({r.case})) # {})'
              /\ r.covered => r.fits
        BY <4>2, <4>3, <4>5, <4>6, <4>7, Zenon
      <4> QED
        BY <4>1, <4>8 DEF Explained
    <3>4. OneFit'
      BY <2>3 DEF GuardInv, OneFit
    <3>5. PICK a : a = Guard!Scored(c, "phaseguard", s0, f, k)
      OBVIOUS
    <3>6. PICK b : b = Guard!Scored(c, "total_peak", s0, f, l)
      OBVIOUS
    <3>7. results' = results \cup {a, b} /\ model \subseteq model'
      BY <2>3, <3>5, <3>6
    <3>8. Explained(a)' /\ a.case = c /\ a.method = "phaseguard"
      BY <3>3, <3>5
    <3>9. Explained(b)' /\ b.case = c /\ b.method = "total_peak"
      BY <3>3, <3>6
    <3> QED
      BY <2>1, <3>4, <3>7, <3>8, <3>9, CaseDone
  <2> QED
    BY <1>2, <2>2, <2>3 DEF Guard!Evaluate
<1> QED
  BY <1>1, <1>2 DEF Guard!Next

(* Of the cases that calibrate for one another, the promised share.        *)
LEMMA Promised == GuardInv => Guard!PromisedCoverage
<1> SUFFICES ASSUME GuardInv, Guard!Done = Guard!Primary, NEW m,
                    m = "phaseguard" \/ (m = "total_peak" /\ Guard!TotalsMeasured)
             PROVE  LET fold == {r \in results : r.method = m /\ r.case \in Guard!Fold /\ r.residual}
                        n == Guard!Cardinality(fold)
                    IN Of * Guard!Cardinality({r \in fold : r.covered})
                         >= Guard!Least(Hits * n, Of * (n - 1))
  BY DEF Guard!PromisedCoverage
<1> DEFINE fold == {r \in results : r.method = m /\ r.case \in Guard!Fold /\ r.residual}
           P == Guard!Primary
           F == Guard!RowsOf(P \ Guard!Fold)
           f == CHOOSE f : <<F, f>> \in model
           split(c) == [fit |-> F, calibration |-> Guard!RowsOf(Guard!Fold \ {c})]
           R(c) == Guard!Residuals(m, F, f, Guard!RowsOf({c}))
           C == {r.case : r \in fold}
           V == {r.case : r \in {r \in fold : r.covered}}
           val == [c \in C |-> Guard!Max(R(c))]
<1>0. corpus \in Corpora /\ P \in SUBSET Cases
  BY DEF GuardInv, Guard!Primary
<1>1. ASSUME NEW r \in results, r.case \in Guard!Fold
      PROVE  /\ f \in Models
             /\ r.covered <=> Guard!Covered(r.method, split(r.case), f, r.case)
             /\ r.residual <=> Guard!Residuals(r.method, F, f, Guard!RowsOf({r.case})) # {}
  <2> DEFINE others == P \ {r.case}
  <2>1. /\ Guard!ByCase(others) /\ Guard!Calibrating(others) = Guard!Fold \ {r.case}
        /\ others \ Guard!Calibrating(others) = P \ Guard!Fold
    BY <1>1, FoldIs
  <2>2. Guard!Splits(others) = {split(r.case)}
    BY <2>1 DEF Guard!Splits
  <2>3. Explained(r)
    BY DEF GuardInv
  <2> HIDE DEF F, P, f, split
  <2>4. PICK s0 \in Guard!Splits(others), h \in Models :
          /\ <<s0.fit, h>> \in model
          /\ r.covered <=> Guard!Covered(r.method, s0, h, r.case)
          /\ r.residual <=> Guard!Residuals(r.method, s0.fit, h, Guard!RowsOf({r.case})) # {}
    BY <2>2, <2>3 DEF Explained, P
  <2>5. s0 = split(r.case) /\ s0.fit = F
    BY <2>2, <2>4 DEF split
  <2>6. f = h
    <3>1. <<F, h>> \in model
      BY <2>4, <2>5
    <3>2. <<F, f>> \in model
      BY <3>1 DEF f
    <3> QED
      BY <3>1, <3>2 DEF GuardInv, OneFit
  <2>7. r.covered <=> Guard!Covered(r.method, split(r.case), f, r.case)
    BY <2>4, <2>5, <2>6
  <2>8. r.residual <=> Guard!Residuals(r.method, F, f, Guard!RowsOf({r.case})) # {}
    BY <2>4, <2>5, <2>6
  <2> QED
    BY <2>4, <2>6, <2>7, <2>8
<1> HIDE DEF f, F
<1>2. C \in SUBSET Guard!Fold /\ C \in SUBSET Cases /\ V \in SUBSET C
  BY <1>0 DEF Guard!Fold
<1>3. IsFiniteSet(C)
  <2>1. IsFiniteSet(Cases)
    BY ChoicesAssumed, SameSizes DEF Guard!GuardAssumption
  <2> HIDE DEF C
  <2> QED
    BY <1>2, <2>1, FS_Subset
<1>4. \A c \in C : f \in Models /\ R(c) # {}
  BY <1>1
<1>5. \A c \in Guard!Fold : R(c) # {} => c \in C
  <2>0. m \in Guard!Methods
    BY DEF Guard!Methods
  <2> SUFFICES ASSUME NEW c \in Guard!Fold, R(c) # {} PROVE c \in C
    OBVIOUS
  <2>1. c \in Guard!Done
    BY DEF Guard!Fold
  <2>2. PICK q \in results : q.case = c /\ q.method = m
    BY <2>0, <2>1 DEF Guard!Done, GuardInv
  <2>3. q.residual
    BY <1>1, <2>2
  <2> QED
    BY <2>2, <2>3
<1>6. \A c \in C : {c} \in SUBSET Cases /\ Guard!RowsOf({c}) \in SUBSET (Cases \X Configurations)
  <2> SUFFICES ASSUME NEW c \in C
               PROVE  {c} \in SUBSET Cases /\ Guard!RowsOf({c}) \in SUBSET (Cases \X Configurations)
    OBVIOUS
  <2>1. {c} \in SUBSET Cases
    BY <1>2
  <2> QED
    BY <2>1, RowsAre
<1>7. ASSUME NEW c \in C
      PROVE  Guard!Max(R(c)) \in Int /\ \A v \in R(c) : v \in Int /\ Guard!Max(R(c)) >= v
  <2>1. R(c) \in SUBSET Int /\ IsFiniteSet(R(c)) /\ R(c) # {}
    BY <1>0, <1>4, <1>6, ResidualsAre
  <2> HIDE DEF R, C
  <2> QED
    BY <2>1, MaxIs
<1>8. val \in [C -> Int]
  BY <1>7
<1>9. ASSUME NEW c \in C \ V, C \ {c} # {}
      PROVE  Guard!ConformalUpper([d \in C \ {c} |-> val[d]]) < val[c]
  <2> DEFINE calibration == Guard!RowsOf(Guard!Fold \ {c})
             cs == Guard!Calibrated(m, F, f, calibration)
             upper == Guard!ConformalUpper([d \in cs |-> Guard!CaseMax(m, F, f, calibration, d)])
             cor == Guard!Correction(m, split(c), f)
  <2>1. ~Guard!Covered(m, split(c), f, c)
    <3>1. PICK r \in fold : r.case = c
      OBVIOUS
    <3>2. ~r.covered /\ r.method = m /\ r.case \in Guard!Fold
      BY <1>9, <3>1
    <3> QED
      BY <1>1, <3>1, <3>2
  <2>2. Guard!Fold \ {c} \in SUBSET Cases
    BY <1>0 DEF Guard!Fold
  <2>3. /\ calibration \in SUBSET (Cases \X Configurations)
        /\ \A d \in Guard!Fold \ {c} : Guard!OfCase(calibration, d) = Guard!RowsOf({d})
        /\ \A d : d \notin Guard!Fold \ {c} => Guard!OfCase(calibration, d) = {}
    BY <2>2, RowsAre
  <2>4. Guard!Residuals(m, F, f, {}) = {}
    BY DEF Guard!Residuals, Guard!Succeeded
  <2>n. \A d : ~Guard!FirstIsNaN(m, Guard!OfCase(calibration, d))
    <3> SUFFICES ASSUME NEW d, m = "total_peak", NEW x \in Guard!Succeeded(Guard!OfCase(calibration, d)),
                        Guard!Measured(x, Total) = None
                 PROVE  FALSE
      BY DEF Guard!FirstIsNaN
    <3>1. x \in calibration
      BY DEF Guard!Succeeded, Guard!OfCase
    <3>2. Guard!Fold \in SUBSET Cases
      BY <1>0 DEF Guard!Fold
    <3>3. x \in Guard!RowsOf(Guard!Fold)
      <4> HIDE DEF calibration
      <4>1. \E e \in Guard!Fold \ {c} : \E k \in Guard!Present(e) : x = <<e, k>>
        BY <2>2, <3>1, RowsAre DEF calibration
      <4> QED
        BY <3>2, <4>1, RowsAre
    <3>4. x \in Guard!Succeeded(Guard!RowsOf(Guard!Fold))
      BY <3>3 DEF Guard!Succeeded
    <3> QED
      BY <3>4 DEF Guard!TotalsMeasured
  <2>5. cs = C \ {c}
    <3>1. \A d : d \in cs <=> d \in Cases /\ Guard!Residuals(m, F, f, Guard!OfCase(calibration, d)) # {}
      BY <2>n DEF Guard!Calibrated
    <3>2. \A d : d \in cs <=> d \in Guard!Fold \ {c} /\ R(d) # {}
      BY <2>2, <2>3, <2>4, <3>1
    <3> HIDE DEF cs, R, C
    <3> QED
      BY <1>2, <1>4, <1>5, <3>2
  <2>6. \A d \in C \ {c} : Guard!CaseMax(m, F, f, calibration, d) = val[d]
    BY <1>2, <2>3, <2>n DEF Guard!CaseMax
  <2>7. [d \in cs |-> Guard!CaseMax(m, F, f, calibration, d)] = [d \in C \ {c} |-> val[d]]
    <3> HIDE DEF cs, C, val, calibration
    <3> QED
      BY <2>5, <2>6
  <2>8. split(c).fit = F /\ split(c).calibration = calibration
    OBVIOUS
  <2>9. cor \in Nat /\ upper \in Int /\ cor >= upper
    <3>1. split(c).calibration \in SUBSET (Cases \X Configurations)
      BY <2>3, <2>8
    <3>2. /\ Guard!Correction(m, split(c), f) \in Nat
          /\ LET u == Guard!ConformalUpper([d \in Guard!Calibrated(m, split(c).fit, f, split(c).calibration) |->
                        Guard!CaseMax(m, split(c).fit, f, split(c).calibration, d)])
             IN Guard!Calibrated(m, split(c).fit, f, split(c).calibration) # {} /\ u # None =>
                  u \in Int /\ Guard!Correction(m, split(c), f) >= u
      <4> HIDE DEF split
      <4> QED
        BY <1>0, <1>4, <3>1, CorrectionIs
    <3>3. cs # {}
      BY <1>9, <2>5
    <3>4. upper \in Int
      <4> DEFINE E == C \ {c}
                 res == [d \in E |-> val[d]]
      <4>1. IsFiniteSet(E) /\ E # {}
        <5>1. E \in SUBSET C
          OBVIOUS
        <5> HIDE DEF C
        <5> QED
          BY <1>3, <1>9, <5>1, FS_Subset
      <4>2. res \in [E -> Int]
        BY <1>8
      <4> HIDE DEF E, res
      <4>3. Guard!ConformalUpper(res) \in Int
        BY <4>1, <4>2, ConformalIs
      <4> QED
        BY <2>7, <4>3 DEF E, res
    <3>5. upper # None
      BY <3>4, ChoicesAssumed DEF Guard!GuardAssumption
    <3> QED
      BY <2>8, <3>2, <3>3, <3>5
  <2>10. PICK v \in R(c) : v > cor
    <3>1. split(c).calibration \in SUBSET (Cases \X Configurations)
      BY <2>3, <2>8
    <3>2. c \in Cases /\ f \in Models
      BY <1>2, <1>4
    <3>3. \E v \in Guard!Residuals(m, split(c).fit, f, Guard!RowsOf({c})) : v > Guard!Correction(m, split(c), f)
      <4> HIDE DEF split
      <4> QED
        BY <1>0, <2>1, <3>1, <3>2, Uncovered
    <3> QED
      BY <2>8, <3>3
  <2>11. val[c] >= v /\ v \in Int /\ val[c] \in Int
    BY <1>7, <1>8, <2>10
  <2> HIDE DEF cor, upper, val
  <2>12. upper < val[c]
    BY <2>9, <2>10, <2>11
  <2> QED
    BY <2>7, <2>12 DEF upper
<1>10. Of * Cardinality(V) >= Guard!Least(Hits * Cardinality(C), Of * (Cardinality(C) - 1))
  <2> HIDE DEF C, V, val
  <2> QED
    BY <1>2, <1>3, <1>8, <1>9, Promise
<1>11. \A r, q \in fold : r.case = q.case => r = q
  BY DEF GuardInv
<1>12. ASSUME NEW X \in SUBSET fold PROVE Cardinality(X) = Cardinality({r.case : r \in X})
  <2> DEFINE Y == {r.case : r \in X}
             h == [r \in X |-> r.case]
  <2>1. h \in [X -> Y] /\ (\A r, q \in X : h[r] = h[q] => r = q) /\ \A y \in Y : \E r \in X : h[r] = y
    BY <1>11
  <2>2. IsFiniteSet(Y)
    <3>1. Y \in SUBSET C
      OBVIOUS
    <3> HIDE DEF Y, C
    <3> QED
      BY <1>3, <3>1, FS_Subset
  <2> HIDE DEF Y, h
  <2>3. h \in Injection(X, Y) /\ h \in Surjection(X, Y)
    BY <2>1 DEF Injection, Surjection, IsInjective
  <2>4. Cardinality(X) = Cardinality(Y)
    BY <2>2, <2>3, FS_Injection
  <2> QED
    BY <2>4 DEF Y
<1>13. Cardinality(fold) = Cardinality(C)
  BY <1>12
<1>14. Cardinality({r \in fold : r.covered}) = Cardinality(V)
  BY <1>12
<1> HIDE DEF fold, C, V
<1> QED
  BY <1>10, <1>13, <1>14, SameSizes DEF fold

LEMMA ChoiceFits == GuardInv => Guard!CoveredChoiceFits
BY DEF GuardInv, Explained, Guard!CoveredChoiceFits

(* Held out, the cases that calibrate for one another are covered in the   *)
(* share that conformal ranks promise, for any data, any fitted model, any *)
(* split and any promised share (by the guard of the total peak only if no *)
(* total of theirs is missing: a missing one is NaN and may set the        *)
(* correction to 0); and what is selected in a covered case fits, if it    *)
(* does not fail (phaseguard_evaluation.py: 103, 134-202, 228-290,         *)
(* 314-409; phaseguard.py: 132-138, 188-354).                              *)
THEOREM PromiseIsKept == MCSpec => []PromiseKept
<1> DEFINE Kept == part = "guard" => GuardInv
<1>1. MCInit => Kept
  BY InitGuard DEF MCInit
<1>2. Kept /\ [MCNext]_<<part, endVars, choiceVars>> => Kept'
  BY GuardStep DEF MCNext, choiceVars
<1>3. Kept => PromiseKept
  BY Promised, ChoiceFits DEF PromiseKept, Guard!PromiseKept
<1> QED
  BY <1>1, <1>2, <1>3, PTL DEF MCSpec

-----------------------------------------------------------------------------
(* The archive.  What a repository is like, and which of its files the     *)
(* rules keep, put without the order in which they are tried.              *)
TreeShape(fs) ==
  \A p \in DOMAIN fs :
    /\ p \in Seq(STRING) /\ p # << >> /\ p # Elsewhere /\ p # Nothing
    /\ \/ fs[p] = Archive!File(p)
       \/ fs[p] = Archive!EmptyDirectory
       \/ fs[p] = Archive!Link(fs[p].to)
NothingBelow(fs) == \A p, q \in DOMAIN fs : ~Archive!Below(p, q)

KeepsLink(p, target) ==
  \/ Archive!Tree(p) = "trial" /\ ~Archive!Checkpoint(p)
  \/ /\ Archive!Tree(p) \in {"evidence", "retained"} /\ Archive!Taken(p)
     /\ target # Elsewhere /\ Archive!Tree(target) = Archive!Tree(p) /\ Archive!Taken(target)
Keeps(fs, p) ==
  IF fs[p].kind = "link" THEN KeepsLink(p, fs[p].to) ELSE Archive!LinksStay(fs) => Archive!Selected(p)

(* What a file's content is, and that of a link.                           *)
LEMMA ContentIs ==
  ASSUME NEW fs, TreeShape(fs), NEW p \in DOMAIN fs
  PROVE  /\ fs[p].kind \in {"file", "directory", "link"}
         /\ fs[p].kind = "file" =>
              fs[p] = Archive!File(p) /\ Archive!Resolve(fs, p) = p /\ Archive!Content(fs, p) = p /\ Archive!IsFile(fs, p)
         /\ fs[p].kind = "directory" => fs[p] = Archive!EmptyDirectory /\ ~Archive!IsFile(fs, p)
         /\ fs[p].kind = "link" =>
              /\ fs[p] = Archive!Link(fs[p].to) /\ Archive!Resolve(fs, p) = fs[p].to
              /\ Archive!IsFile(fs, p) =>
                   /\ Archive!Content(fs, p) = fs[p].to
                   /\ fs[p].to = Elsewhere \/ (fs[p].to \in DOMAIN fs /\ fs[fs[p].to] = Archive!File(fs[p].to))
<1>1. /\ p # Elsewhere /\ p # Nothing
      /\ fs[p] = Archive!File(p) \/ fs[p] = Archive!EmptyDirectory \/ fs[p] = Archive!Link(fs[p].to)
  BY DEF TreeShape
<1>2. CASE fs[p] = Archive!File(p)
  <2>1. fs[p].kind = "file" /\ fs[p].data = p
    BY <1>2 DEF Archive!File
  <2>2. Archive!Resolve(fs, p) = p
    BY <2>1 DEF Archive!Resolve
  <2>3. Archive!Content(fs, p) = p
    BY <2>1, <2>2, <1>1 DEF Archive!Content
  <2> QED
    BY <1>1, <1>2, <2>1, <2>2, <2>3 DEF Archive!IsFile
<1>3. CASE fs[p] = Archive!EmptyDirectory
  <2>1. fs[p].kind = "directory"
    BY <1>3 DEF Archive!EmptyDirectory
  <2>2. Archive!Content(fs, p) = Nothing
    BY <2>1, <1>1 DEF Archive!Content, Archive!Resolve
  <2> QED
    BY <1>3, <2>1, <2>2 DEF Archive!IsFile
<1>4. CASE fs[p] = Archive!Link(fs[p].to)
  <2>1. fs[p].kind = "link"
    BY <1>4 DEF Archive!Link
  <2>2. Archive!Resolve(fs, p) = fs[p].to
    BY <2>1 DEF Archive!Resolve
  <2>3. ASSUME Archive!IsFile(fs, p), fs[p].to # Elsewhere
        PROVE  fs[p].to \in DOMAIN fs /\ fs[fs[p].to].kind = "file" /\ Archive!Content(fs, p) = fs[fs[p].to].data
    BY <2>2, <2>3 DEF Archive!IsFile, Archive!Content
  <2>4. ASSUME Archive!IsFile(fs, p), fs[p].to # Elsewhere
        PROVE  fs[p].to \in DOMAIN fs /\ fs[fs[p].to] = Archive!File(fs[p].to) /\ Archive!Content(fs, p) = fs[p].to
    <3> DEFINE q == fs[p].to
    <3>1. q \in DOMAIN fs /\ fs[q].kind = "file" /\ Archive!Content(fs, p) = fs[q].data
      BY <2>3, <2>4
    <3>2. fs[q] = Archive!File(q) \/ fs[q] = Archive!EmptyDirectory \/ fs[q] = Archive!Link(fs[q].to)
      BY <3>1 DEF TreeShape
    <3> HIDE DEF q
    <3>3. fs[q] = Archive!File(q)
      BY <3>1, <3>2 DEF Archive!EmptyDirectory, Archive!Link
    <3>4. fs[q].data = q
      BY <3>3 DEF Archive!File
    <3> QED
      BY <3>1, <3>3, <3>4 DEF q
  <2>5. fs[p].to = Elsewhere => Archive!Content(fs, p) = fs[p].to
    BY <2>2 DEF Archive!Content
  <2> QED
    BY <1>4, <2>1, <2>2, <2>4, <2>5
<1> QED
  BY <1>1, <1>2, <1>3, <1>4

(* What is collected is what the rules keep; but what links of traces and  *)
(* named files lead to, only if they stay.                                 *)
LEMMA CollectedIs ==
  ASSUME NEW fs, TreeShape(fs), ~Archive!SourceRefused(fs), NEW p
  PROVE  p \in Archive!Collected(fs) /\ p # Elsewhere => p \in DOMAIN fs /\ Archive!IsFile(fs, p) /\ Keeps(fs, p)
<1> DEFINE Kept == p \in DOMAIN fs /\ Archive!IsFile(fs, p) /\ Keeps(fs, p)
<1>1. ASSUME p \in DOMAIN fs, fs[p].kind = "file", Archive!LinksStay(fs) => Archive!Selected(p) PROVE Kept
  BY <1>1, ContentIs DEF Keeps
<1>2. ASSUME NEW q \in DOMAIN fs, Archive!IsFile(fs, q), Archive!Tree(q) \in {"trace", "named"},
             p = Archive!Resolve(fs, q), p # Elsewhere
      PROVE  Kept /\ fs[p].kind = "file"
  <2>1. fs[q].kind = "file" \/ fs[q].kind = "link"
    BY <1>2, ContentIs
  <2>2. CASE fs[q].kind = "file"
    <3>1. p = q
      BY <1>2, <2>2, ContentIs
    <3> QED
      BY <1>1, <1>2, <2>2, <3>1 DEF Archive!Selected
  <2>3. CASE fs[q].kind = "link"
    <3>1. p = fs[q].to /\ p \in DOMAIN fs /\ fs[p] = Archive!File(p)
      BY <1>2, <2>3, ContentIs
    <3>2. fs[p].kind = "file"
      BY <3>1 DEF Archive!File
    <3>3. Archive!LinksStay(fs) => Archive!Selected(p)
      BY <1>2 DEF Archive!LinksStay, Archive!In
    <3> QED
      BY <1>1, <3>1, <3>2, <3>3
  <2> QED
    BY <2>1, <2>2, <2>3
<1>3. ASSUME p \in Archive!TrialFiles(fs) PROVE Kept
  <2>1. p \in DOMAIN fs /\ Archive!Tree(p) = "trial" /\ Archive!IsFile(fs, p) /\ ~Archive!Checkpoint(p)
    BY <1>3 DEF Archive!TrialFiles, Archive!In
  <2> QED
    BY <2>1 DEF Keeps, KeepsLink, Archive!Selected
<1>4. ASSUME NEW t \in {"evidence", "retained"}, p \in Archive!EvidenceFiles(fs, t) PROVE Kept
  <2>1. /\ p \in DOMAIN fs /\ Archive!Tree(p) = t /\ Archive!IsFile(fs, p) /\ Archive!Taken(p)
        /\ Archive!Resolve(fs, p) # Elsewhere /\ Archive!Tree(Archive!Resolve(fs, p)) = t
        /\ Archive!Taken(Archive!Resolve(fs, p))
    BY <1>4 DEF Archive!EvidenceFiles, Archive!In
  <2>2. CASE fs[p].kind = "link"
    <3>1. Archive!Resolve(fs, p) = fs[p].to
      BY <2>1, <2>2, ContentIs
    <3> QED
      BY <2>1, <2>2, <3>1 DEF Keeps, KeepsLink
  <2>3. CASE fs[p].kind # "link"
    BY <2>1, <2>3 DEF Keeps, Archive!Selected
  <2> QED
    BY <2>2, <2>3
<1>5. ASSUME p \in Archive!SourceFiles(fs) PROVE Kept
  <2>1. /\ p \in DOMAIN fs /\ Archive!Tree(p) = "source" /\ fs[p] # Archive!EmptyDirectory
        /\ "tool" \notin Archive!ToSet(Archive!Directories(p))
    BY <1>5 DEF Archive!SourceFiles, Archive!In
  <2>2. fs[p].kind # "link"
    BY <1>5 DEF Archive!SourceRefused
  <2>3. fs[p].kind = "file"
    BY <2>1, <2>2, ContentIs
  <2> QED
    BY <1>1, <2>1, <2>3 DEF Archive!Selected
<1>6. ASSUME p \in Archive!TraceFiles(fs) \cup Archive!NamedFiles(fs), p # Elsewhere PROVE Kept
  BY <1>2, <1>6 DEF Archive!TraceFiles, Archive!NamedFiles, Archive!In
<1> HIDE DEF Kept
<1>7. ASSUME p \in Archive!Collected(fs), p # Elsewhere PROVE Kept
  BY <1>3, <1>4, <1>5, <1>6, <1>7 DEF Archive!Collected
<1> QED
  BY <1>7 DEF Kept

(* What the archiver packs of a repository.                                *)
Packs(fs, arch) ==
  \E kept \in SUBSET {p \in Archive!Collected(fs) \ {Elsewhere} : fs[p].kind = "link"} :
    arch = [p \in (Archive!Collected(fs) \ {Elsewhere}) \cup Archive!EmptyDirectories(fs) |->
              IF p \in kept \cup Archive!EmptyDirectories(fs) THEN fs[p]
              ELSE Archive!File(Archive!Content(fs, p))]
Sound(fs) ==
  /\ TreeShape(fs) /\ NothingBelow(fs)
  /\ ~Archive!SourceRefused(fs) /\ Archive!IsDirectory(fs, Archive!Trace) /\ ~Archive!LinkedDirectory(fs)

(* Every member of an archive is an empty directory, a file that was kept, *)
(* a link that was, or what such a link led to.                            *)
Member(fs, arch, p) ==
  /\ p \in DOMAIN fs
  /\ \/ /\ p \in Archive!EmptyDirectories(fs) /\ Archive!Tree(p) \in {"retained", "trace"}
        /\ fs[p] = Archive!EmptyDirectory /\ arch[p] = Archive!EmptyDirectory
     \/ /\ p \in Archive!Collected(fs) /\ p # Elsewhere
        /\ Archive!IsFile(fs, p) /\ Keeps(fs, p)
        /\ \/ fs[p] = Archive!File(p) /\ arch[p] = Archive!File(p)
           \/ /\ fs[p] = Archive!Link(fs[p].to) /\ Archive!Content(fs, p) = fs[p].to
              /\ fs[p].to = Elsewhere \/ (fs[p].to \in DOMAIN fs /\ fs[fs[p].to] = Archive!File(fs[p].to))
              /\ arch[p] = fs[p] \/ arch[p] = Archive!File(fs[p].to)

LEMMA MembersAre ==
  ASSUME NEW fs, NEW arch, Sound(fs), Packs(fs, arch)
  PROVE  /\ DOMAIN arch = (Archive!Collected(fs) \ {Elsewhere}) \cup Archive!EmptyDirectories(fs)
         /\ \A p \in DOMAIN arch : Member(fs, arch, p)
<1> DEFINE listed == Archive!Collected(fs) \ {Elsewhere}
           empty == Archive!EmptyDirectories(fs)
<1>1. PICK kept \in SUBSET {p \in listed : fs[p].kind = "link"} :
        arch = [p \in listed \cup empty |->
                  IF p \in kept \cup empty THEN fs[p] ELSE Archive!File(Archive!Content(fs, p))]
  BY DEF Packs
<1>2. TreeShape(fs) /\ ~Archive!SourceRefused(fs)
  BY DEF Sound
<1>3. ASSUME NEW p \in empty
      PROVE  p \in DOMAIN fs /\ Archive!Tree(p) \in {"retained", "trace"} /\ fs[p] = Archive!EmptyDirectory
  BY <1>3 DEF Archive!EmptyDirectories, Archive!RetainedEmpty, Archive!Empty, Archive!In
<1>4. ASSUME NEW p \in listed
      PROVE  /\ p \in DOMAIN fs /\ Archive!IsFile(fs, p) /\ Keeps(fs, p) /\ p \notin empty
             /\ \/ fs[p].kind = "file" /\ fs[p] = Archive!File(p) /\ Archive!Content(fs, p) = p
                \/ /\ fs[p] = Archive!Link(fs[p].to) /\ Archive!Content(fs, p) = fs[p].to
                   /\ fs[p].to = Elsewhere \/ (fs[p].to \in DOMAIN fs /\ fs[fs[p].to] = Archive!File(fs[p].to))
  <2>1. p \in DOMAIN fs /\ Archive!IsFile(fs, p) /\ Keeps(fs, p)
    BY <1>2, <1>4, CollectedIs
  <2>2. p \notin empty
    <3>1. Archive!EmptyDirectory.kind = "directory"
      BY DEF Archive!EmptyDirectory
    <3> HIDE DEF empty
    <3> QED
      BY <1>2, <1>3, <2>1, <3>1, ContentIs
  <2> HIDE DEF empty
  <2> QED
    BY <1>2, <2>1, <2>2, ContentIs
<1>5. ASSUME NEW p \in empty PROVE Member(fs, arch, p)
  BY <1>1, <1>3 DEF Member
<1>6. ASSUME NEW p \in listed PROVE Member(fs, arch, p)
  <2>0. p \in kept => fs[p].kind = "link"
    BY <1>1
  <2>1. arch[p] = IF p \in kept THEN fs[p] ELSE Archive!File(Archive!Content(fs, p))
    <3> HIDE DEF empty
    <3> QED
      BY <1>1, <1>4
  <2>2. p \in Archive!Collected(fs) /\ p # Elsewhere
    OBVIOUS
  <2> HIDE DEF empty, listed
  <2> QED
    BY <1>4, <2>0, <2>1, <2>2 DEF Member
<1>7. DOMAIN arch = listed \cup empty
  BY <1>1
<1> HIDE DEF listed, empty
<1>8. \A p \in DOMAIN arch : Member(fs, arch, p)
  BY <1>5, <1>6, <1>7
<1> QED
  BY <1>7, <1>8 DEF listed, empty

(* What it is to be verified, or to be confined, of one member.            *)
LEMMA LinksLead ==
  ASSUME NEW fs, NEW arch, Sound(fs), Packs(fs, arch), \A p \in DOMAIN arch : Archive!Confined(arch[p]),
         NEW p \in DOMAIN arch, arch[p].kind = "link"
  PROVE  /\ p \in Archive!Collected(fs) /\ fs[p].kind = "link" /\ arch[p] = fs[p] /\ Archive!Resolve(arch, p) = fs[p].to
         /\ fs[p].to # Elsewhere /\ KeepsLink(p, fs[p].to)
         /\ Archive!Content(arch, p) = IF fs[p].to \in DOMAIN arch THEN fs[p].to ELSE Nothing
<1>1. Member(fs, arch, p)
  BY MembersAre
<1>2. /\ p \in Archive!Collected(fs) /\ Keeps(fs, p) /\ arch[p] = fs[p] /\ fs[p] = Archive!Link(fs[p].to)
      /\ fs[p].to = Elsewhere \/ (fs[p].to \in DOMAIN fs /\ fs[fs[p].to] = Archive!File(fs[p].to))
  BY <1>1 DEF Member, Archive!EmptyDirectory, Archive!File
<1>3. fs[p].kind = "link" /\ Archive!Resolve(arch, p) = fs[p].to
  BY <1>2 DEF Archive!Resolve, Archive!Link
<1>4. fs[p].to # Elsewhere
  BY <1>2, <1>3 DEF Archive!Confined
<1>5. KeepsLink(p, fs[p].to)
  BY <1>2, <1>3 DEF Keeps
<1>6. ASSUME fs[p].to \in DOMAIN arch PROVE arch[fs[p].to].kind = "file" /\ arch[fs[p].to].data = fs[p].to
  <2>1. Member(fs, arch, fs[p].to)
    BY <1>6, MembersAre
  <2>2. fs[fs[p].to] = Archive!File(fs[p].to)
    BY <1>2, <1>4
  <2>3. arch[fs[p].to] = Archive!File(fs[p].to)
    BY <2>1, <2>2 DEF Member, Archive!EmptyDirectory, Archive!File, Archive!Link
  <2> QED
    BY <2>3 DEF Archive!File
<1> QED
  BY <1>2, <1>3, <1>4, <1>5, <1>6 DEF Archive!Content

(* A file in an archive is the file, or stands for the link that led to it.*)
LEMMA FilesStand ==
  ASSUME NEW fs, NEW arch, Sound(fs), Packs(fs, arch), NEW p \in DOMAIN arch, arch[p].kind # "link"
  PROVE  /\ Archive!Resolve(arch, p) = p
         /\ arch[p].kind = "file" =>
              p \in Archive!Collected(fs) /\ Archive!Content(arch, p) = Archive!Content(fs, p)
         /\ arch[p].kind # "file" =>
              /\ arch[p] = Archive!EmptyDirectory /\ p \in Archive!EmptyDirectories(fs)
              /\ Archive!Content(arch, p) = Nothing
<1>1. Member(fs, arch, p)
  BY MembersAre
<1>2. Archive!Resolve(arch, p) = p
  BY DEF Archive!Resolve
<1>3. p # Elsewhere
  BY <1>1 DEF Member, Sound, TreeShape
<1>4. CASE arch[p] = Archive!EmptyDirectory
  <2>1. arch[p].kind # "file"
    BY <1>4 DEF Archive!EmptyDirectory
  <2>2. p \in Archive!EmptyDirectories(fs)
    BY <1>1, <1>4 DEF Member, Archive!EmptyDirectory, Archive!File, Archive!Link
  <2> QED
    BY <1>2, <1>3, <1>4, <2>1, <2>2 DEF Archive!Content
<1>5. CASE arch[p] # Archive!EmptyDirectory
  <2>1. p \in DOMAIN fs /\ p \in Archive!Collected(fs) /\ TreeShape(fs)
    BY <1>1, <1>5 DEF Member, Sound
  <2>2. PICK data : arch[p] = Archive!File(data) /\ Archive!Content(fs, p) = data
    <3>1. CASE fs[p] = Archive!File(p) /\ arch[p] = Archive!File(p)
      <4>1. fs[p].kind = "file"
        BY <3>1 DEF Archive!File
      <4>2. Archive!Content(fs, p) = p
        BY <2>1, <4>1, ContentIs
      <4> QED
        BY <3>1, <4>2
    <3>2. CASE Archive!Content(fs, p) = fs[p].to /\ arch[p] = Archive!File(fs[p].to)
      BY <3>2
    <3>3. arch[p] # Archive!Link(fs[p].to)
      BY DEF Archive!Link
    <3> QED
      BY <1>1, <1>5, <3>1, <3>2, <3>3 DEF Member
  <2>3. arch[p].kind = "file" /\ arch[p].data = data
    BY <2>2 DEF Archive!File
  <2>4. Archive!Content(arch, p) = data
    BY <1>2, <1>3, <2>3 DEF Archive!Content
  <2> QED
    BY <1>2, <2>1, <2>2, <2>3, <2>4
<1> QED
  BY <1>4, <1>5

(* A verified archive is collected again as the repository was.            *)
LEMMA CollectsAgain ==
  ASSUME NEW fs, NEW arch, Sound(fs), Packs(fs, arch), \A p \in DOMAIN arch : Archive!Confined(arch[p]),
         Elsewhere \notin Archive!Collected(fs), Archive!LinksStay(fs),
         \A p \in Archive!Collected(fs) : Archive!Content(arch, p) = Archive!Content(fs, p)
  PROVE  Archive!Rows(arch) = Archive!Rows(fs)
<1> DEFINE listed == Archive!Collected(fs)
<1>0. TreeShape(fs) /\ ~Archive!SourceRefused(fs) /\ NothingBelow(fs)
      /\ Archive!IsDirectory(fs, Archive!Trace) /\ ~Archive!LinkedDirectory(fs)
  BY DEF Sound
<1>1. ASSUME NEW p \in listed
      PROVE  p \in DOMAIN arch /\ p \in DOMAIN fs /\ p # Elsewhere
             /\ Archive!IsFile(fs, p) /\ Archive!IsFile(arch, p) /\ Keeps(fs, p)
  BY <1>0, <1>1, MembersAre, CollectedIs DEF Archive!IsFile
<1>2. ASSUME NEW p \in DOMAIN arch, Archive!IsFile(arch, p) PROVE p \in listed
  BY <1>2, LinksLead, FilesStand DEF Archive!IsFile
<1>3. ASSUME NEW p \in DOMAIN arch, arch[p].kind = "link"
      PROVE  /\ p \in listed /\ fs[p].kind = "link" /\ KeepsLink(p, fs[p].to)
             /\ Archive!Resolve(arch, p) = fs[p].to /\ Archive!Resolve(fs, p) = fs[p].to
  BY <1>0, <1>1, <1>3, LinksLead, ContentIs
<1>4. ASSUME NEW p \in DOMAIN arch, arch[p].kind # "link" PROVE Archive!Resolve(arch, p) = p
  BY <1>4, FilesStand
<1>5. ASSUME NEW p \in listed PROVE fs[p].kind = "link" => KeepsLink(p, fs[p].to)
  BY <1>1, <1>5 DEF Keeps
<1>6. ASSUME NEW p \in listed PROVE fs[p].kind # "link" => Archive!Selected(p) /\ arch[p].kind # "link"
  BY <1>1, <1>3, <1>6 DEF Keeps
<1> HIDE DEF listed
<1>7. Archive!TrialFiles(arch) = Archive!TrialFiles(fs)
  <2>1. ASSUME NEW p PROVE p \in Archive!TrialFiles(fs) => p \in Archive!TrialFiles(arch)
    <3>1. p \in Archive!TrialFiles(fs) => p \in listed
      BY DEF listed, Archive!Collected
    <3> QED
      BY <1>1, <3>1 DEF Archive!TrialFiles, Archive!In
  <2>2. ASSUME NEW p PROVE p \in Archive!TrialFiles(arch) => p \in Archive!TrialFiles(fs)
    BY <1>1, <1>2 DEF Archive!TrialFiles, Archive!In
  <2> QED
    BY <2>1, <2>2
<1>8. ASSUME NEW t \in {"evidence", "retained"}
      PROVE  Archive!EvidenceFiles(arch, t) = Archive!EvidenceFiles(fs, t)
  <2>1. ASSUME NEW p \in Archive!EvidenceFiles(fs, t) PROVE p \in Archive!EvidenceFiles(arch, t)
    <3>1. p \in listed
      BY <1>8, <2>1 DEF listed, Archive!Collected
    <3>2. Archive!Resolve(arch, p) = p \/ Archive!Resolve(arch, p) = Archive!Resolve(fs, p)
      BY <1>1, <1>3, <1>4, <3>1
    <3> QED
      BY <1>1, <2>1, <3>1, <3>2 DEF Archive!EvidenceFiles, Archive!In
  <2>2. ASSUME NEW p \in Archive!EvidenceFiles(arch, t) PROVE p \in Archive!EvidenceFiles(fs, t)
    <3>1. p \in DOMAIN arch /\ Archive!Tree(p) = t /\ Archive!IsFile(arch, p) /\ Archive!Taken(p)
      BY <2>2 DEF Archive!EvidenceFiles, Archive!In
    <3>2. p \in listed
      BY <1>2, <3>1
    <3>3. CASE fs[p].kind = "link"
      <4>1. Archive!Resolve(fs, p) = fs[p].to
        BY <1>0, <1>1, <3>2, <3>3, ContentIs
      <4>2. KeepsLink(p, fs[p].to)
        BY <1>5, <3>2, <3>3
      <4> QED
        BY <1>1, <1>8, <3>1, <3>2, <4>1, <4>2 DEF KeepsLink, Archive!EvidenceFiles, Archive!In
    <3>4. CASE fs[p].kind # "link"
      <4>1. Archive!Resolve(fs, p) = p
        BY <3>4, <1>1, <3>2 DEF Archive!Resolve
      <4> QED
        BY <1>1, <3>1, <3>2, <4>1 DEF Archive!EvidenceFiles, Archive!In
    <3> QED
      BY <3>3, <3>4
  <2> QED
    BY <2>1, <2>2
<1>9. Archive!SourceFiles(arch) = Archive!SourceFiles(fs)
  <2>1. ASSUME NEW p \in Archive!SourceFiles(fs) PROVE p \in Archive!SourceFiles(arch)
    <3>1. p \in listed /\ p \in DOMAIN fs /\ Archive!Tree(p) = "source" /\ "tool" \notin Archive!ToSet(Archive!Directories(p))
      BY <2>1 DEF listed, Archive!Collected, Archive!SourceFiles, Archive!In
    <3>2. arch[p] # Archive!EmptyDirectory
      <4>1. CASE arch[p].kind = "link"
        BY <4>1 DEF Archive!EmptyDirectory
      <4>2. CASE arch[p].kind # "link"
        <5>1. arch[p].kind = "file"
          BY <1>1, <3>1, <4>2, FilesStand DEF Archive!IsFile
        <5> QED
          BY <5>1 DEF Archive!EmptyDirectory
      <4> QED
        BY <4>1, <4>2
    <3> QED
      BY <1>1, <3>1, <3>2 DEF Archive!SourceFiles, Archive!In
  <2>2. ASSUME NEW p \in Archive!SourceFiles(arch) PROVE p \in Archive!SourceFiles(fs)
    <3>1. /\ p \in DOMAIN arch /\ Archive!Tree(p) = "source" /\ arch[p] # Archive!EmptyDirectory
          /\ "tool" \notin Archive!ToSet(Archive!Directories(p))
      BY <2>2 DEF Archive!SourceFiles, Archive!In
    <3>2. p \in listed
      BY <1>3, <3>1, FilesStand DEF listed
    <3>3. p \in DOMAIN fs /\ fs[p] # Archive!EmptyDirectory
      <4>1. Archive!EmptyDirectory.kind = "directory"
        BY DEF Archive!EmptyDirectory
      <4> QED
        BY <1>0, <1>1, <3>2, <4>1, ContentIs
    <3> QED
      BY <3>1, <3>3 DEF Archive!SourceFiles, Archive!In
  <2> QED
    BY <2>1, <2>2
<1>10. ~Archive!SourceRefused(arch)
  <2>1. ASSUME NEW p \in Archive!SourceFiles(fs) PROVE arch[p].kind # "link" /\ ~Archive!Payload(p)
    <3>1. fs[p].kind # "link" /\ ~Archive!Payload(p)
      BY <1>0, <2>1 DEF Archive!SourceRefused
    <3>2. p \in listed
      BY <2>1 DEF listed, Archive!Collected
    <3> QED
      BY <1>6, <3>1, <3>2
  <2> QED
    BY <1>9, <2>1 DEF Archive!SourceRefused
(* No link is listed among traces or by its name.                          *)
<1>11. ASSUME NEW t \in {"trace", "named"}
       PROVE  {Archive!Resolve(arch, p) : p \in {q \in Archive!In(arch, t) : Archive!IsFile(arch, q)}}
                = {p \in listed : Archive!Tree(p) = t}
  <2>1. ASSUME NEW p \in DOMAIN arch, Archive!Tree(p) = t PROVE Archive!Resolve(arch, p) = p
    <3>1. ~KeepsLink(p, fs[p].to)
      BY <2>1 DEF KeepsLink
    <3> QED
      BY <1>3, <1>4, <3>1
  <2> QED
    BY <1>1, <1>2, <2>1 DEF Archive!In
<1>12. Archive!Collected(arch) = listed
  <2>1. Archive!TraceFiles(arch) = {p \in listed : Archive!Tree(p) = "trace"}
    BY <1>11 DEF Archive!TraceFiles
  <2>2. Archive!NamedFiles(arch) = {p \in listed : Archive!Tree(p) = "named"}
    BY <1>11 DEF Archive!NamedFiles
  <2>3. ASSUME NEW p \in listed PROVE p \in Archive!Collected(arch)
    <3>1. p \in DOMAIN fs /\ Archive!IsFile(fs, p) /\ p # Elsewhere
      BY <1>1, <2>3
    <3>2. CASE fs[p].kind = "link"
      <4>1. KeepsLink(p, fs[p].to) /\ Archive!Resolve(fs, p) = fs[p].to
        BY <1>0, <1>5, <2>3, <3>1, <3>2, ContentIs
      <4>2. p \in Archive!TrialFiles(fs) \cup Archive!EvidenceFiles(fs, "evidence")
                    \cup Archive!EvidenceFiles(fs, "retained")
        BY <3>1, <4>1 DEF KeepsLink, Archive!TrialFiles, Archive!EvidenceFiles, Archive!In
      <4> QED
        BY <1>7, <1>8, <4>2 DEF Archive!Collected
    <3>3. CASE fs[p].kind # "link"
      <4>1. Archive!Selected(p) /\ Archive!Resolve(fs, p) = p
        BY <1>6, <2>3, <3>3 DEF Archive!Resolve
      <4>2. fs[p] # Archive!EmptyDirectory
        BY <1>0, <3>1, ContentIs DEF Archive!EmptyDirectory
      <4>3. \/ p \in Archive!TrialFiles(fs) \cup Archive!EvidenceFiles(fs, "evidence")
                       \cup Archive!EvidenceFiles(fs, "retained") \cup Archive!SourceFiles(fs)
            \/ Archive!Tree(p) \in {"trace", "named"}
        BY <3>1, <4>1, <4>2
           DEF Archive!Selected, Archive!TrialFiles, Archive!EvidenceFiles, Archive!SourceFiles, Archive!In
      <4> QED
        BY <1>7, <1>8, <1>9, <2>1, <2>2, <2>3, <4>3 DEF Archive!Collected
    <3> QED
      BY <3>2, <3>3
  <2>4. ASSUME NEW p \in Archive!Collected(arch) PROVE p \in listed
    BY <1>7, <1>8, <1>9, <2>1, <2>2, <2>4 DEF listed, Archive!Collected
  <2> QED
    BY <2>3, <2>4
<1>13. Archive!IsDirectory(arch, Archive!Trace)
  <2>1. PICK p \in DOMAIN fs : Archive!Tree(p) = "trace" /\ Archive!Resolve(fs, p) # Elsewhere
                               /\ Archive!Tree(Archive!Resolve(fs, p)) = "trace"
    BY DEF Archive!LinksStay, Archive!In
  <2>2. ASSUME NEW q \in DOMAIN fs, Archive!Tree(q) = "trace"
        PROVE  q = Archive!Trace \/ Archive!Below(q, Archive!Trace)
    <3>1. q \in Seq(STRING) /\ q # << >> /\ q[1] = "trace"
      BY <1>0, <2>2 DEF TreeShape, Archive!Tree
    <3>2. Len(q) \in Nat /\ Len(q) # 0
      BY <3>1, EmptySeq
    <3>3. Len(q) = 1 => q = <<"trace">>
      BY <3>1
    <3>4. ASSUME Len(q) > 1 PROVE Archive!Below(q, Archive!Trace)
      <4>1. SubSeq(<<"trace">>, 1, 1) = SubSeq(q, 1, 1)
        BY <3>1, <3>4
      <4> QED
        BY <3>1, <3>4, <4>1 DEF Archive!Below, Archive!IsPrefix, Archive!Trace
    <3>5. \A n \in Nat : n # 0 /\ n # 1 => n > 1
      OBVIOUS
    <3> QED
      BY <3>2, <3>3, <3>4, <3>5, Zenon DEF Archive!Trace
  <2>3. ASSUME Archive!Trace \in DOMAIN fs, fs[Archive!Trace].kind = "file" PROVE FALSE
    <3>1. PICK q \in DOMAIN fs :
            Archive!Below(q, Archive!Trace) \/ (q = Archive!Trace /\ fs[q] = Archive!EmptyDirectory)
      BY <1>0 DEF Archive!IsDirectory
    <3>2. ~Archive!Below(q, Archive!Trace)
      BY <1>0, <2>3 DEF NothingBelow
    <3> QED
      BY <2>3, <3>1, <3>2 DEF Archive!EmptyDirectory
  <2>4. CASE fs[p].kind = "directory"
    <3>1. fs[p] = Archive!EmptyDirectory
      BY <1>0, <2>4, ContentIs
    <3>2. p \in Archive!EmptyDirectories(fs)
      BY <2>1, <3>1 DEF Archive!EmptyDirectories, Archive!Empty, Archive!In
    <3>3. p \in DOMAIN arch
      BY <3>2, MembersAre
    <3>4. arch[p] = Archive!EmptyDirectory
      <4>1. Member(fs, arch, p)
        BY <3>3, MembersAre
      <4> QED
        BY <3>1, <4>1 DEF Member, Archive!EmptyDirectory, Archive!File, Archive!Link
    <3> QED
      BY <2>1, <2>2, <3>3, <3>4 DEF Archive!IsDirectory
  <2>5. CASE fs[p].kind # "directory"
    <3> DEFINE t == Archive!Resolve(fs, p)
    <3>1. Archive!IsFile(fs, p)
      BY <1>0, <2>1, <2>5, ContentIs DEF Archive!LinkedDirectory, Archive!In
    <3>2. t \in listed
      BY <2>1, <3>1 DEF listed, Archive!Collected, Archive!TraceFiles, Archive!In
    <3>3. fs[t].kind = "file"
      <4>1. CASE fs[p].kind = "file"
        BY <1>0, <4>1, ContentIs
      <4>2. CASE fs[p].kind = "link"
        <5>1. t = fs[p].to /\ fs[p].to # Elsewhere
          BY <1>0, <2>1, <4>2, ContentIs
        <5>2. fs[fs[p].to] = Archive!File(fs[p].to)
          BY <1>0, <3>1, <4>2, <5>1, ContentIs
        <5> QED
          BY <5>1, <5>2 DEF Archive!File
      <4> QED
        BY <1>0, <2>5, <4>1, <4>2, ContentIs
    <3>4. t \in DOMAIN arch /\ t \in DOMAIN fs /\ Archive!Tree(t) = "trace"
      BY <1>1, <2>1, <3>2
    <3> HIDE DEF t
    <3>5. Archive!Below(t, Archive!Trace)
      BY <2>2, <2>3, <3>3, <3>4
    <3> QED
      BY <3>4, <3>5 DEF Archive!IsDirectory
  <2> QED
    BY <2>4, <2>5
<1> QED
  BY <1>0, <1>10, <1>12, <1>13 DEF listed, Archive!Rows

(* An archive without links verifies.                                      *)
LEMMA VerifiesUnlinked ==
  ASSUME NEW fs, NEW arch, Sound(fs), Packs(fs, arch), Elsewhere \notin Archive!Collected(fs),
         \A p \in DOMAIN arch : arch[p].kind # "link",
         NEW p \in Archive!Collected(fs)
  PROVE  Archive!Content(arch, p) = Archive!Content(fs, p)
<1>1. p \in DOMAIN arch /\ p # Elsewhere
  BY MembersAre
<1>2. arch[p].kind # "link"
  BY <1>1
<1>3. Archive!IsFile(fs, p) /\ p \in DOMAIN fs /\ TreeShape(fs)
  BY <1>1, CollectedIs DEF Sound
<1>4. p \notin Archive!EmptyDirectories(fs)
  <2>1. p \in Archive!EmptyDirectories(fs) => fs[p] = Archive!EmptyDirectory
    BY DEF Archive!EmptyDirectories, Archive!RetainedEmpty, Archive!Empty, Archive!In
  <2>2. Archive!EmptyDirectory.kind = "directory"
    BY DEF Archive!EmptyDirectory
  <2> QED
    BY <1>3, <2>1, <2>2, ContentIs
<1> QED
  BY <1>1, <1>2, <1>4, FilesStand

(* Nothing that an evidence tree leaves out is in an archive.              *)
LEMMA NothingElse ==
  ASSUME NEW fs, NEW arch, Sound(fs), Packs(fs, arch), \A p \in DOMAIN arch : Archive!Confined(arch[p]),
         Archive!LinksStay(fs), Elsewhere # Nothing, NEW p \in DOMAIN arch, Archive!Tree(p) \in {"evidence", "retained"},
         Archive!Content(arch, p) # Nothing
  PROVE  /\ Archive!Content(arch, p) # Elsewhere
         /\ Archive!Taken(Archive!Content(arch, p))
<1>0. TreeShape(fs) /\ ~Archive!SourceRefused(fs)
  BY DEF Sound
<1>1. CASE arch[p].kind = "link"
  <2>1. KeepsLink(p, fs[p].to) /\ fs[p].to # Elsewhere /\ Archive!Content(arch, p) = fs[p].to
    BY <1>1, LinksLead
  <2> QED
    BY <2>1 DEF KeepsLink
<1>2. CASE arch[p].kind # "link"
  <2>1. p \in Archive!Collected(fs) /\ Archive!Content(arch, p) = Archive!Content(fs, p)
    BY <1>2, FilesStand
  <2>2. p \in DOMAIN fs /\ p # Elsewhere
    BY MembersAre DEF Member, Sound, TreeShape
  <2>3. Archive!IsFile(fs, p) /\ Keeps(fs, p)
    BY <1>0, <2>1, <2>2, CollectedIs
  <2>4. CASE fs[p].kind = "link"
    <3>1. Archive!Content(fs, p) = fs[p].to
      BY <1>0, <2>2, <2>3, <2>4, ContentIs
    <3>2. KeepsLink(p, fs[p].to)
      BY <2>3, <2>4 DEF Keeps
    <3> QED
      BY <2>1, <3>1, <3>2 DEF KeepsLink
  <2>5. CASE fs[p].kind # "link"
    <3>1. Archive!Content(fs, p) = p
      BY <1>0, <2>2, <2>3, <2>5, ContentIs
    <3>2. Archive!Taken(p)
      BY <2>3, <2>5 DEF Keeps, Archive!Selected
    <3> QED
      BY <2>1, <2>2, <3>1, <3>2
  <2> QED
    BY <2>4, <2>5
<1> QED
  BY <1>1, <1>2

(* Each step has what the one before it made, and the repository stays as  *)
(* it was.                                                                 *)
Arrives(x) == x \notin {Nothing, Refused}
ArchiveInv ==
  /\ TreeShape(repository) /\ NothingBelow(repository)
  /\ Arrives(listing) =>
       /\ ~Archive!SourceRefused(repository) /\ Archive!IsDirectory(repository, Archive!Trace)
       /\ listing = {<<p, Archive!Content(repository, p)>> : p \in Archive!Collected(repository)}
  /\ Arrives(archive) =>
       Arrives(listing) /\ ~Archive!LinkedDirectory(repository) /\ Packs(repository, archive)
  /\ Arrives(extracted) =>
       /\ Arrives(archive) /\ extracted = archive
       /\ \A p \in DOMAIN archive : Archive!Confined(archive[p])

LEMMA InitArchive == Archive!Init => ArchiveInv
<1> SUFFICES ASSUME Archive!Init PROVE ArchiveInv
  OBVIOUS
<1>1. PICK held \in [1..MaxNodes -> Nodes] :
        Archive!Consistent(Archive!ToSet(held)) /\ repository = Archive!Function(Archive!ToSet(held))
  BY DEF Archive!Init
<1> DEFINE pairs == Archive!ToSet(held)
<1>2. pairs \subseteq Nodes
  BY DEF Archive!ToSet
<1>3. Archive!Consistent(pairs) /\ repository = Archive!Function(pairs)
  BY <1>1
<1> HIDE DEF pairs
<1>4. ASSUME NEW p \in DOMAIN repository
      PROVE  \E n \in pairs : n[1] = p /\ repository[p] = n[2]
  <2>1. p \in {n[1] : n \in pairs} /\ repository[p] = (CHOOSE n \in pairs : n[1] = p)[2]
    BY <1>3, <1>4 DEF Archive!Function
  <2> QED
    BY <2>1
<1>5. ASSUME NEW n \in Nodes
      PROVE  /\ n[1] \in Seq(STRING) /\ n[1] # << >> /\ n[1] # Elsewhere /\ n[1] # Nothing
             /\ n[2] = Archive!File(n[1]) \/ n[2] = Archive!EmptyDirectory \/ n[2] = Archive!Link(n[2].to)
  BY <1>5, EndsAssumed DEF Archive!TreeAssumption
<1>6. TreeShape(repository)
  <2> SUFFICES ASSUME NEW p \in DOMAIN repository
               PROVE  /\ p \in Seq(STRING) /\ p # << >> /\ p # Elsewhere /\ p # Nothing
                      /\ \/ repository[p] = Archive!File(p)
                         \/ repository[p] = Archive!EmptyDirectory
                         \/ repository[p] = Archive!Link(repository[p].to)
    BY DEF TreeShape
  <2>1. PICK n \in pairs : n[1] = p /\ repository[p] = n[2]
    BY <1>4
  <2>2. n \in Nodes
    BY <1>2
  <2> QED
    BY <1>5, <2>1, <2>2
<1>7. NothingBelow(repository)
  <2> SUFFICES ASSUME NEW p \in DOMAIN repository, NEW q \in DOMAIN repository PROVE ~Archive!Below(p, q)
    BY DEF NothingBelow
  <2>1. PICK m \in pairs : m[1] = p
    BY <1>4
  <2>2. PICK n \in pairs : n[1] = q
    BY <1>4
  <2>3. CASE m = n
    <3>1. p = q /\ p \in Seq(STRING)
      BY <1>6, <2>1, <2>2, <2>3 DEF TreeShape
    <3> QED
      BY <3>1 DEF Archive!Below
  <2>4. CASE m # n
    BY <1>3, <2>1, <2>2, <2>4 DEF Archive!Consistent
  <2> QED
    BY <2>3, <2>4
<1> QED
  BY <1>6, <1>7 DEF Archive!Init, ArchiveInv, Arrives

LEMMA ArchiveStep == ArchiveInv /\ [Archive!Next]_archiveVars => ArchiveInv'
<1> SUFFICES ASSUME ArchiveInv, [Archive!Next]_archiveVars PROVE ArchiveInv'
  OBVIOUS
<1>1. CASE Archive!Collect
  <2>1. /\ listing = Nothing /\ listing' = Archive!Rows(repository)
        /\ repository' = repository /\ archive' = archive /\ extracted' = extracted
    BY <1>1 DEF Archive!Collect
  <2>2. Arrives(listing') =>
          /\ ~Archive!SourceRefused(repository) /\ Archive!IsDirectory(repository, Archive!Trace)
          /\ listing' = {<<p, Archive!Content(repository, p)>> : p \in Archive!Collected(repository)}
    BY <2>1 DEF Archive!Rows, Arrives
  <2>3. ~Arrives(archive) /\ ~Arrives(extracted)
    BY <2>1 DEF ArchiveInv, Arrives
  <2> QED
    BY <2>1, <2>2, <2>3 DEF ArchiveInv, Arrives
<1>2. CASE Archive!Pack
  <2>1. /\ Arrives(listing) /\ archive = Nothing
        /\ repository' = repository /\ listing' = listing /\ extracted' = extracted
    BY <1>2 DEF Archive!Pack, Arrives
  <2>2. listing = {<<p, Archive!Content(repository, p)>> : p \in Archive!Collected(repository)}
    BY <2>1 DEF ArchiveInv
  <2>3. Archive!Listed = Archive!Collected(repository) \ {Elsewhere}
    <3>1. \A p \in Archive!Collected(repository) : <<p, Archive!Content(repository, p)>> \in listing
      BY <2>2
    <3>2. \A row \in listing : row[1] \in Archive!Collected(repository)
      BY <2>2
    <3>3. Archive!Listed \subseteq Archive!Collected(repository) \ {Elsewhere}
      BY <3>2 DEF Archive!Listed
    <3>4. ASSUME NEW p \in Archive!Collected(repository) \ {Elsewhere} PROVE p \in Archive!Listed
      <4>1. <<p, Archive!Content(repository, p)>>[1] = p
        OBVIOUS
      <4> QED
        BY <3>1, <4>1 DEF Archive!Listed
    <3> QED
      BY <3>3, <3>4
  <2>4. Arrives(archive') => ~Archive!LinkedDirectory(repository) /\ Packs(repository, archive')
    <3> SUFFICES ASSUME Arrives(archive')
                 PROVE  ~Archive!LinkedDirectory(repository) /\ Packs(repository, archive')
      OBVIOUS
    <3>1. ~Archive!LinkedDirectory(repository)
      BY <1>2 DEF Archive!Pack, Arrives
    <3>2. PICK kept \in SUBSET {p \in Archive!Listed : repository[p].kind = "link"} :
            archive' = [p \in Archive!Listed \cup Archive!EmptyDirectories(repository) |->
                          IF p \in kept \cup Archive!EmptyDirectories(repository) THEN repository[p]
                          ELSE Archive!File(Archive!Content(repository, p))]
      BY <1>2, <3>1 DEF Archive!Pack
    <3> QED
      BY <2>3, <3>1, <3>2 DEF Packs
  <2>5. ~Arrives(extracted)
    BY <2>1 DEF ArchiveInv, Arrives
  <2> QED
    BY <2>1, <2>4, <2>5 DEF ArchiveInv
<1>3. CASE Archive!Extract
  <2>1. /\ Arrives(archive) /\ repository' = repository /\ listing' = listing /\ archive' = archive
        /\ Arrives(extracted') => extracted' = archive /\ \A p \in DOMAIN archive : Archive!Confined(archive[p])
    BY <1>3 DEF Archive!Extract, Arrives
  <2> QED
    BY <2>1 DEF ArchiveInv
<1>4. CASE UNCHANGED archiveVars
  BY <1>4 DEF archiveVars, ArchiveInv
<1> QED
  BY <1>1, <1>2, <1>3, <1>4 DEF Archive!Next

LEMMA FaithfulThen == ArchiveInv => Archive!ArchiveFaithful
<1> SUFFICES ASSUME ArchiveInv, Arrives(extracted)
             PROVE  Archive!ArchiveFaithful
  BY DEF Archive!ArchiveFaithful, Archive!ArchiveRebuilds, Archive!NothingSmuggled, Archive!Arrived, Arrives
<1>1. /\ Sound(repository) /\ Packs(repository, extracted)
      /\ \A p \in DOMAIN extracted : Archive!Confined(extracted[p])
      /\ listing = {<<p, Archive!Content(repository, p)>> : p \in Archive!Collected(repository)}
  BY DEF ArchiveInv, Sound
<1>2. Archive!Rows(repository) = listing
  BY <1>1 DEF Archive!Rows, Sound
<1>3. ASSUME Archive!LinksStay(repository), Archive!Verified(extracted) PROVE Archive!Rows(extracted) = listing
  <2>1. \A p \in Archive!Collected(repository) : <<p, Archive!Content(repository, p)>> \in listing
    BY <1>1
  <2>2. ASSUME NEW p \in Archive!Collected(repository)
        PROVE  p # Elsewhere /\ Archive!Content(extracted, p) = Archive!Content(repository, p)
    BY <1>3, <2>1 DEF Archive!Verified
  <2> QED
    BY <1>1, <1>2, <1>3, <2>2, CollectsAgain
<1>4. ASSUME listing # {}, \A row \in listing : row[1] # Elsewhere,
             \A p \in DOMAIN extracted : extracted[p].kind # "link"
      PROVE  Archive!Verified(extracted)
  <2>1. Elsewhere \notin Archive!Collected(repository)
    <3>1. \A p \in Archive!Collected(repository) : <<p, Archive!Content(repository, p)>> \in listing
      BY <1>1
    <3> QED
      BY <1>4, <3>1
  <2>2. ASSUME NEW row \in listing PROVE row[1] # Elsewhere /\ Archive!Content(extracted, row[1]) = row[2]
    <3>1. PICK p \in Archive!Collected(repository) : row = <<p, Archive!Content(repository, p)>>
      BY <1>1
    <3>2. Archive!Content(extracted, p) = Archive!Content(repository, p)
      BY <1>1, <1>4, <2>1, VerifiesUnlinked
    <3> QED
      BY <1>4, <3>1, <3>2
  <2> QED
    BY <1>4, <2>2 DEF Archive!Verified
<1>5. ASSUME Archive!LinksStay(repository), NEW p \in DOMAIN extracted,
             Archive!Tree(p) \in {"evidence", "retained"}
      PROVE  Archive!Content(extracted, p) \notin Archive!Forbidden
  <2>0. Elsewhere # Nothing /\ Nothing \notin DOMAIN repository
    BY EndsAssumed DEF Archive!TreeAssumption, ArchiveInv, TreeShape
  <2>1. CASE Archive!Content(extracted, p) = Nothing
    BY <2>0, <2>1 DEF Archive!Forbidden
  <2>2. CASE Archive!Content(extracted, p) # Nothing
    BY <1>1, <1>5, <2>0, <2>2, NothingElse DEF Archive!Forbidden
  <2> QED
    BY <2>1, <2>2
<1>6. Archive!ArchiveRebuilds
  BY <1>3, <1>4 DEF Archive!ArchiveRebuilds
<1>7. Archive!NothingSmuggled
  BY <1>5 DEF Archive!NothingSmuggled
<1> QED
  BY <1>6, <1>7 DEF Archive!ArchiveFaithful

(* Whatever of a tree is a link and however links are packed: an archive   *)
(* without links verifies.  If, besides, links among traces and named      *)
(* files lead to nothing that its own tree leaves out, and some trace is   *)
(* in the directory of traces itself (LinksStay, which the code does not   *)
(* enforce): an archive that verifies is collected again as it was, and no *)
(* evidence tree in it has a payload, a runtime file or a file from        *)
(* outside, under any name                                                 *)
(* (artifact_manifest.py: 77-258, 674-874; reproduce.py: 65-100).          *)
THEOREM ArchivesAreFaithful == MCSpec => []ArchiveFaithful
<1> DEFINE Kept == part = "archive" => ArchiveInv
<1>1. MCInit => Kept
  BY InitArchive DEF MCInit
<1>2. Kept /\ [MCNext]_<<part, endVars, choiceVars>> => Kept'
  BY ArchiveStep DEF MCNext, endVars
<1>3. Kept => ArchiveFaithful
  BY FaithfulThen DEF ArchiveFaithful
<1> QED
  BY <1>1, <1>2, <1>3, PTL DEF MCSpec

-----------------------------------------------------------------------------
(* The reconstruction.  What is still to be done, without its order; and   *)
(* what of the order matters: a replication panel's inputs are checked     *)
(* after each child that reads them, and the host panel is not rebuilt     *)
(* before the predictions that share its outcome are replayed.             *)
Due(w) == {w[i] : i \in 1..Len(w)}
StepKinds == {"move", "restore", "rebuild", "compare", "replay", "check", "cost"}
StepNames == {"profiles", "inputs", "tables", "review", "curated"} \cup Rebuild!Panels
ScriptT == Seq(StepKinds \X StepNames)
HostReplays == {Rebuild!Do("replay", "estimation"), Rebuild!Do("replay", "host")}
ChecksFollow(w) ==
  \A i \in 1..Len(w) : w[i][1] \in {"rebuild", "replay", "cost"} /\ w[i][2] \in Rebuild!Replications =>
    \E j \in 1..Len(w) : j > i /\ w[j] = Rebuild!Do("check", w[i][2])
ReplaysLead(w) ==
  \A i, j \in 1..Len(w) : i < j /\ w[i] = Rebuild!Do("rebuild", "host") => w[j] \notin HostReplays
NoMove(w) == \A d \in Due(w) : d[1] # "move"
MovesFirst(w) == w # << >> /\ w[1] = Rebuild!Do("move", "profiles") /\ NoMove(Tail(w))
WellOrdered(w) == w \in ScriptT /\ ChecksFollow(w) /\ ReplaysLead(w)

LEMMA EmptyOrdered ==
  WellOrdered(<< >>) /\ NoMove(<< >>) /\ Due(<< >>) = {}
BY DEF WellOrdered, ScriptT, ChecksFollow, ReplaysLead, NoMove, Due

LEMMA DueOfBoth ==
  ASSUME NEW w \in ScriptT, NEW t \in ScriptT
  PROVE  w \o t \in ScriptT /\ Due(w \o t) = Due(w) \cup Due(t)
<1>1. w \o t \in ScriptT /\ Len(w \o t) = Len(w) + Len(t) /\ Len(w) \in Nat /\ Len(t) \in Nat
  BY DEF ScriptT
<1>2. ASSUME NEW i \in 1..Len(w) PROVE i \in 1..Len(w \o t) /\ (w \o t)[i] = w[i]
  BY <1>1 DEF ScriptT
<1>3. ASSUME NEW i \in 1..Len(t) PROVE i + Len(w) \in 1..Len(w \o t) /\ (w \o t)[i + Len(w)] = t[i]
  BY <1>1 DEF ScriptT
<1>4. ASSUME NEW i \in 1..Len(w \o t)
      PROVE  \/ i \in 1..Len(w) /\ (w \o t)[i] = w[i]
             \/ i - Len(w) \in 1..Len(t) /\ (w \o t)[i] = t[i - Len(w)]
  BY <1>1 DEF ScriptT
<1>5. Due(w) \cup Due(t) \subseteq Due(w \o t)
  BY <1>2, <1>3 DEF Due
<1>6. Due(w \o t) \subseteq Due(w) \cup Due(t)
  BY <1>4 DEF Due
<1> QED
  BY <1>1, <1>5, <1>6

LEMMA OrderOfBoth ==
  ASSUME NEW w, NEW t, WellOrdered(w), WellOrdered(t),
         Rebuild!Do("rebuild", "host") \notin Due(w) \/ Due(t) \cap HostReplays = {}
  PROVE  WellOrdered(w \o t)
<1>1. w \in ScriptT /\ t \in ScriptT /\ w \o t \in ScriptT
      /\ Len(w \o t) = Len(w) + Len(t) /\ Len(w) \in Nat /\ Len(t) \in Nat
  BY DEF WellOrdered, ScriptT
<1> DEFINE u == w \o t
<1>2. ASSUME NEW i \in 1..Len(w) PROVE i \in 1..Len(u) /\ u[i] = w[i]
  BY <1>1 DEF ScriptT
<1>3. ASSUME NEW i \in 1..Len(t) PROVE i + Len(w) \in 1..Len(u) /\ u[i + Len(w)] = t[i]
  BY <1>1 DEF ScriptT
<1>4. ASSUME NEW i \in 1..Len(u)
      PROVE  \/ i \in 1..Len(w) /\ u[i] = w[i]
             \/ i - Len(w) \in 1..Len(t) /\ u[i] = t[i - Len(w)]
  BY <1>1 DEF ScriptT
<1> HIDE DEF u
<1>5. ChecksFollow(u)
  <2> SUFFICES ASSUME NEW i \in 1..Len(u), u[i][1] \in {"rebuild", "replay", "cost"}, u[i][2] \in Rebuild!Replications
               PROVE  \E j \in 1..Len(u) : j > i /\ u[j] = Rebuild!Do("check", u[i][2])
    BY DEF ChecksFollow
  <2>1. CASE i \in 1..Len(w) /\ u[i] = w[i]
    <3>1. PICK j \in 1..Len(w) : j > i /\ w[j] = Rebuild!Do("check", w[i][2])
      BY <2>1 DEF WellOrdered, ChecksFollow
    <3> QED
      BY <1>2, <2>1, <3>1
  <2>2. CASE i - Len(w) \in 1..Len(t) /\ u[i] = t[i - Len(w)]
    <3>1. PICK j \in 1..Len(t) : j > i - Len(w) /\ t[j] = Rebuild!Do("check", t[i - Len(w)][2])
      BY <2>2 DEF WellOrdered, ChecksFollow
    <3>2. j + Len(w) \in 1..Len(u) /\ u[j + Len(w)] = t[j]
      BY <1>3
    <3>3. j + Len(w) > i
      BY <1>1, <3>1
    <3> QED
      BY <2>2, <3>1, <3>2, <3>3
  <2> QED
    BY <1>4, <2>1, <2>2
<1>6. ReplaysLead(u)
  <2> SUFFICES ASSUME NEW i \in 1..Len(u), NEW j \in 1..Len(u), i < j, u[i] = Rebuild!Do("rebuild", "host")
               PROVE  u[j] \notin HostReplays
    BY DEF ReplaysLead
  <2>1. CASE i \in 1..Len(w) /\ u[i] = w[i]
    <3>1. CASE j \in 1..Len(w) /\ u[j] = w[j]
      BY <2>1, <3>1 DEF WellOrdered, ReplaysLead
    <3>2. CASE j - Len(w) \in 1..Len(t) /\ u[j] = t[j - Len(w)]
      <4>1. Rebuild!Do("rebuild", "host") \in Due(w) /\ u[j] \in Due(t)
        BY <2>1, <3>2 DEF Due
      <4> QED
        BY <4>1
    <3> QED
      BY <1>4, <3>1, <3>2
  <2>2. CASE i - Len(w) \in 1..Len(t) /\ u[i] = t[i - Len(w)]
    <3>1. i > Len(w) /\ i \in Int /\ j \in Int
      BY <1>1, <2>2
    <3>2. j - Len(w) \in 1..Len(t) /\ u[j] = t[j - Len(w)]
      BY <1>1, <1>4, <3>1
    <3>3. i - Len(w) < j - Len(w)
      BY <1>1, <3>1
    <3> QED
      BY <2>2, <3>2, <3>3 DEF WellOrdered, ReplaysLead
  <2> QED
    BY <1>4, <2>1, <2>2
<1> QED
  BY <1>1, <1>5, <1>6 DEF u, WellOrdered

(* What is left once a step is done.                                       *)
LEMMA OrderOfRest ==
  ASSUME NEW w, WellOrdered(w), w # << >>
  PROVE  /\ WellOrdered(Tail(w)) /\ Head(w) = w[1] /\ w[1] \in Due(w)
         /\ Due(w) = {w[1]} \cup Due(Tail(w))
         /\ w[1][1] \in {"rebuild", "replay", "cost"} /\ w[1][2] \in Rebuild!Replications =>
              Rebuild!Do("check", w[1][2]) \in Due(Tail(w))
         /\ w[1] = Rebuild!Do("rebuild", "host") => Due(Tail(w)) \cap HostReplays = {}
<1> DEFINE t == Tail(w)
<1>1. w \in ScriptT /\ t \in ScriptT /\ Len(w) \in Nat /\ Len(w) >= 1 /\ Len(t) = Len(w) - 1 /\ Head(w) = w[1]
  BY DEF WellOrdered, ScriptT
<1>2. ASSUME NEW i \in 1..Len(t) PROVE i + 1 \in 1..Len(w) /\ t[i] = w[i + 1]
  BY <1>1 DEF ScriptT
<1>3. ASSUME NEW i \in 1..Len(w), i > 1 PROVE i - 1 \in 1..Len(t) /\ t[i - 1] = w[i]
  BY <1>1, <1>3 DEF ScriptT
<1> HIDE DEF t
<1>4. ChecksFollow(t)
  <2> SUFFICES ASSUME NEW i \in 1..Len(t), t[i][1] \in {"rebuild", "replay", "cost"}, t[i][2] \in Rebuild!Replications
               PROVE  \E j \in 1..Len(t) : j > i /\ t[j] = Rebuild!Do("check", t[i][2])
    BY DEF ChecksFollow
  <2>1. PICK j \in 1..Len(w) : j > i + 1 /\ w[j] = Rebuild!Do("check", w[i + 1][2])
    BY <1>2 DEF WellOrdered, ChecksFollow
  <2>2. j > 1 /\ j - 1 > i
    BY <2>1
  <2> QED
    BY <1>2, <1>3, <2>1, <2>2
<1>5. ReplaysLead(t)
  <2> SUFFICES ASSUME NEW i \in 1..Len(t), NEW j \in 1..Len(t), i < j, t[i] = Rebuild!Do("rebuild", "host")
               PROVE  t[j] \notin HostReplays
    BY DEF ReplaysLead
  <2>1. i + 1 < j + 1
    OBVIOUS
  <2> QED
    BY <1>2, <2>1 DEF WellOrdered, ReplaysLead
<1>6. 1 \in 1..Len(w)
  BY <1>1
<1>7. Due(w) = {w[1]} \cup Due(t)
  <2>1. \A i \in 1..Len(w) : i = 1 \/ i > 1
    BY <1>1
  <2>2. Due(w) \subseteq {w[1]} \cup Due(t)
    BY <1>3, <2>1 DEF Due
  <2>3. Due(t) \subseteq Due(w)
    BY <1>2 DEF Due
  <2> QED
    BY <1>6, <2>2, <2>3 DEF Due
<1>8. w[1][1] \in {"rebuild", "replay", "cost"} /\ w[1][2] \in Rebuild!Replications =>
        Rebuild!Do("check", w[1][2]) \in Due(t)
  <2> SUFFICES ASSUME w[1][1] \in {"rebuild", "replay", "cost"}, w[1][2] \in Rebuild!Replications
               PROVE  Rebuild!Do("check", w[1][2]) \in Due(t)
    OBVIOUS
  <2>1. PICK j \in 1..Len(w) : j > 1 /\ w[j] = Rebuild!Do("check", w[1][2])
    BY <1>6 DEF WellOrdered, ChecksFollow
  <2> QED
    BY <1>3, <2>1 DEF Due
<1>9. w[1] = Rebuild!Do("rebuild", "host") => Due(t) \cap HostReplays = {}
  <2>1. ASSUME w[1] = Rebuild!Do("rebuild", "host"), NEW i \in 1..Len(t) PROVE t[i] \notin HostReplays
    <3>1. 1 < i + 1
      OBVIOUS
    <3> QED
      BY <1>2, <1>6, <2>1, <3>1 DEF WellOrdered, ReplaysLead
  <2> QED
    BY <2>1 DEF Due
<1> QED
  BY <1>1, <1>4, <1>5, <1>6, <1>7, <1>8, <1>9 DEF t, WellOrdered, Due

(* The pieces of the driver's script.                                      *)
HostRebuild == Rebuild!Do("rebuild", "host")
Piece(w) == WellOrdered(w) /\ NoMove(w)

LEMMA ShortPieces ==
  ASSUME NEW k \in StepKinds, NEW x \in StepNames
  PROVE  /\ k \notin {"move", "rebuild", "replay", "cost"} => Piece(<<Rebuild!Do(k, x)>>)
         /\ k \notin {"move"} /\ x \notin Rebuild!Replications =>
              Piece(<<Rebuild!Do(k, x)>>)
         /\ Due(<<Rebuild!Do(k, x)>>) = {Rebuild!Do(k, x)}
<1> DEFINE w == <<Rebuild!Do(k, x)>>
<1>1. w \in ScriptT /\ Len(w) = 1 /\ w[1] = Rebuild!Do(k, x)
  <2> DEFINE d == Rebuild!Do(k, x)
  <2>1. d \in StepKinds \X StepNames
    BY DEF Rebuild!Do
  <2> HIDE DEF d
  <2>2. <<d>> \in Seq(StepKinds \X StepNames) /\ Len(<<d>>) = 1 /\ <<d>>[1] = d
    BY <2>1
  <2> QED
    BY <2>2 DEF d, ScriptT
<1>2. Due(w) = {Rebuild!Do(k, x)}
  <2> DEFINE d == Rebuild!Do(k, x)
  <2>1. 1..Len(w) = {1} /\ w[1] = d
    BY <1>1
  <2> HIDE DEF w, d
  <2>2. {w[i] : i \in 1..Len(w)} = {d}
    BY <2>1
  <2> QED
    BY <2>2 DEF Due, d
<1>3. ReplaysLead(w)
  BY DEF ReplaysLead
<1>4. Rebuild!Do(k, x)[1] = k /\ Rebuild!Do(k, x)[2] = x
  BY DEF Rebuild!Do
<1> HIDE DEF w
<1>5. k # "move" => NoMove(w)
  BY <1>2, <1>4 DEF NoMove
<1>6. k \notin {"rebuild", "replay", "cost"} \/ x \notin Rebuild!Replications => ChecksFollow(w)
  BY <1>1, <1>4 DEF ChecksFollow
<1>7. (k \notin {"move", "rebuild", "replay", "cost"} => Piece(w)) /\ (k # "move" /\ x \notin Rebuild!Replications => Piece(w))
  BY <1>1, <1>3, <1>5, <1>6 DEF Piece, WellOrdered
<1> QED
  BY <1>2, <1>7 DEF w

(* Something a replication panel's children do, and the check behind it.   *)
LEMMA CheckedPieces ==
  ASSUME NEW k \in {"rebuild", "replay", "cost"}, NEW p \in Rebuild!Replications
  PROVE  /\ Piece(<<Rebuild!Do(k, p), Rebuild!Do("check", p)>>)
         /\ Due(<<Rebuild!Do(k, p), Rebuild!Do("check", p)>>) = {Rebuild!Do(k, p), Rebuild!Do("check", p)}
         /\ Piece(<<Rebuild!Do(k, p), Rebuild!Do("compare", p), Rebuild!Do("check", p)>>)
         /\ Due(<<Rebuild!Do(k, p), Rebuild!Do("compare", p), Rebuild!Do("check", p)>>)
              = {Rebuild!Do(k, p), Rebuild!Do("compare", p), Rebuild!Do("check", p)}
         /\ Piece(<<Rebuild!Do(k, p), Rebuild!Do("check", p), Rebuild!Do("compare", p)>>)
         /\ Due(<<Rebuild!Do(k, p), Rebuild!Do("check", p), Rebuild!Do("compare", p)>>)
              = {Rebuild!Do(k, p), Rebuild!Do("compare", p), Rebuild!Do("check", p)}
<1> DEFINE a == Rebuild!Do(k, p)
           b == Rebuild!Do("check", p)
           c == Rebuild!Do("compare", p)
<1>0. p \in StepNames /\ p # "host" /\ k \in StepKinds
  <2>1. p = "completion" \/ p = "control"
    BY DEF Rebuild!Replications
  <2>2. k = "rebuild" \/ k = "replay" \/ k = "cost"
    OBVIOUS
  <2> QED
    BY <2>1, <2>2 DEF StepNames, StepKinds, Rebuild!Panels
<1>1. /\ a \in StepKinds \X StepNames /\ b \in StepKinds \X StepNames /\ c \in StepKinds \X StepNames
      /\ a[1] = k /\ b[1] = "check" /\ c[1] = "compare" /\ a[2] = p /\ b[2] = p /\ c[2] = p
      /\ a # Rebuild!Do("rebuild", "host") /\ b # Rebuild!Do("rebuild", "host") /\ c # Rebuild!Do("rebuild", "host")
      /\ b = Rebuild!Do("check", a[2])
  <2>1. /\ a \in StepKinds \X StepNames /\ b \in StepKinds \X StepNames /\ c \in StepKinds \X StepNames
    BY <1>0 DEF Rebuild!Do, StepKinds
  <2>2. a[1] = k /\ b[1] = "check" /\ c[1] = "compare" /\ a[2] = p /\ b[2] = p /\ c[2] = p
    BY DEF Rebuild!Do
  <2>3. Rebuild!Do("rebuild", "host")[2] = "host"
    BY DEF Rebuild!Do
  <2>4. b = Rebuild!Do("check", a[2])
    BY <2>2
  <2> HIDE DEF a, b, c
  <2> QED
    BY <1>0, <2>1, <2>2, <2>3, <2>4
<1> HIDE DEF a, b, c
<1>2. ASSUME NEW w \in ScriptT, Len(w) \in {2, 3}, w[1] = a,
             \A i \in 2..Len(w) : w[i] \in {b, c},
             NEW last \in 2..Len(w), w[last] = b
      PROVE  Piece(w)
  <2>1. \A i \in 1..Len(w) : w[i] \in {a, b, c} /\ (i > 1 => w[i] \in {b, c})
    BY <1>2
  <2>2. ChecksFollow(w)
    <3> SUFFICES ASSUME NEW i \in 1..Len(w), w[i][1] \in {"rebuild", "replay", "cost"}
                 PROVE  \E j \in 1..Len(w) : j > i /\ w[j] = Rebuild!Do("check", w[i][2])
      BY DEF ChecksFollow
    <3>1. i = 1
      BY <1>1, <2>1
    <3>2. last \in 1..Len(w) /\ last > 1
      BY <1>2
    <3> QED
      BY <1>1, <1>2, <3>1, <3>2
  <2>3. ReplaysLead(w)
    BY <1>1, <2>1 DEF ReplaysLead
  <2>4. NoMove(w)
    BY <1>1, <2>1 DEF NoMove, Due
  <2> QED
    BY <1>2, <2>2, <2>3, <2>4 DEF Piece, WellOrdered
<1>3. Piece(<<a, b>>) /\ Due(<<a, b>>) = {a, b}
  <2> DEFINE w == <<a, b>>
  <2>1. w \in ScriptT /\ Len(w) = 2 /\ w[1] = a /\ w[2] = b
    BY <1>1 DEF ScriptT
  <2> HIDE DEF w
  <2>2. 2 \in 2..Len(w) /\ \A i \in 2..Len(w) : i = 2
    BY <2>1
  <2>3. Piece(w)
    BY <1>2, <2>1, <2>2
  <2>4. Due(w) = {a, b}
    BY <2>1 DEF Due
  <2> QED
    BY <2>3, <2>4 DEF w
<1>4. Piece(<<a, c, b>>) /\ Due(<<a, c, b>>) = {a, c, b}
  <2> DEFINE w == <<a, c, b>>
  <2>1. w \in ScriptT /\ Len(w) = 3 /\ w[1] = a /\ w[2] = c /\ w[3] = b
    BY <1>1 DEF ScriptT
  <2> HIDE DEF w
  <2>2. 3 \in 2..Len(w) /\ \A i \in 2..Len(w) : i = 2 \/ i = 3
    BY <2>1
  <2>3. Piece(w)
    BY <1>2, <2>1, <2>2
  <2>4. Due(w) = {a, c, b}
    BY <2>1 DEF Due
  <2> QED
    BY <2>3, <2>4 DEF w
<1>5. Piece(<<a, b, c>>) /\ Due(<<a, b, c>>) = {a, c, b}
  <2> DEFINE w == <<a, b, c>>
  <2>1. w \in ScriptT /\ Len(w) = 3 /\ w[1] = a /\ w[2] = b /\ w[3] = c
    BY <1>1 DEF ScriptT
  <2> HIDE DEF w
  <2>2. 2 \in 2..Len(w) /\ \A i \in 2..Len(w) : i = 2 \/ i = 3
    BY <2>1
  <2>3. Piece(w)
    BY <1>2, <2>1, <2>2
  <2>4. Due(w) = {a, c, b}
    BY <2>1 DEF Due
  <2> QED
    BY <2>3, <2>4 DEF w
<1> QED
  BY <1>3, <1>4, <1>5 DEF a, b, c

LEMMA BothPieces ==
  ASSUME NEW w, NEW t, Piece(w), Piece(t), HostRebuild \notin Due(w) \/ Due(t) \cap HostReplays = {}
  PROVE  Piece(w \o t) /\ Due(w \o t) = Due(w) \cup Due(t)
<1>1. WellOrdered(w \o t)
  BY OrderOfBoth DEF Piece, HostRebuild
<1>2. Due(w \o t) = Due(w) \cup Due(t)
  BY DueOfBoth DEF Piece, WellOrdered
<1> QED
  BY <1>1, <1>2 DEF Piece, NoMove

LEMMA PieceBehind ==
  ASSUME NEW w, NEW t, WellOrdered(w), MovesFirst(w), Piece(t), HostRebuild \notin Due(w) \/ Due(t) \cap HostReplays = {}
  PROVE  WellOrdered(w \o t) /\ MovesFirst(w \o t) /\ Due(w \o t) = Due(w) \cup Due(t)
<1>1. WellOrdered(w \o t)
  BY OrderOfBoth DEF Piece, HostRebuild
<1>2. w \in ScriptT /\ t \in ScriptT
  BY DEF Piece, WellOrdered
<1>3. Due(w \o t) = Due(w) \cup Due(t)
  BY <1>2, DueOfBoth
<1>4. Len(w) \in Nat /\ Len(w) >= 1
  BY <1>2 DEF MovesFirst, ScriptT
<1>5. w \o t # << >> /\ (w \o t)[1] = w[1] /\ Tail(w \o t) = Tail(w) \o t /\ Tail(w) \in ScriptT
  BY <1>2, <1>4 DEF MovesFirst, ScriptT
<1>6. NoMove(Tail(w) \o t)
  BY <1>2, <1>5, DueOfBoth DEF NoMove, MovesFirst, Piece
<1> QED
  BY <1>1, <1>3, <1>5, <1>6 DEF MovesFirst

LEMMA EmptyPiece == Piece(<< >>) /\ Due(<< >>) = {}
BY EmptyOrdered DEF Piece

LEMMA RebuiltIs ==
  ASSUME NEW x \in StepNames, x \notin Rebuild!Replications
  PROVE  /\ Piece(Rebuild!Rebuilt(x)) /\ Due(Rebuild!Rebuilt(x)) \cap HostReplays = {}
         /\ x \in has => Rebuild!Do("rebuild", x) \in Due(Rebuild!Rebuilt(x))
         /\ x # "host" => HostRebuild \notin Due(Rebuild!Rebuilt(x))
<1> DEFINE a == Rebuild!Do("rebuild", x)
           b == Rebuild!Do("compare", x)
<1>1. a \in StepKinds \X StepNames /\ b \in StepKinds \X StepNames
  BY DEF Rebuild!Do, StepKinds
<1>2. a[1] = "rebuild" /\ b[1] = "compare" /\ a[2] = x /\ b[2] = x
  BY DEF Rebuild!Do
<1>3. \A h \in HostReplays : h[1] = "replay"
  BY DEF HostReplays, Rebuild!Do
<1>4. HostRebuild[1] = "rebuild" /\ HostRebuild[2] = "host"
  BY DEF HostRebuild, Rebuild!Do
<1> HIDE DEF a, b
<1>6. Piece(<<a, b>>) /\ Due(<<a, b>>) = {a, b}
  <2> DEFINE w == <<a, b>>
  <2>1. w \in ScriptT /\ Len(w) = 2 /\ w[1] = a /\ w[2] = b
    BY <1>1 DEF ScriptT
  <2> HIDE DEF w
  <2>2. \A i \in 1..Len(w) : (i = 1 /\ w[i] = a) \/ (i = 2 /\ w[i] = b)
    BY <2>1
  <2>3. ChecksFollow(w)
    BY <1>2, <2>2 DEF ChecksFollow
  <2>4. ReplaysLead(w)
    BY <1>2, <1>3, <2>2 DEF ReplaysLead
  <2>5. Due(w) = {a, b}
    BY <2>1 DEF Due
  <2>6. NoMove(w)
    BY <1>2, <2>5 DEF NoMove
  <2> QED
    BY <2>1, <2>3, <2>4, <2>5, <2>6 DEF w, Piece, WellOrdered
<1>7. Rebuild!Rebuilt(x) = Rebuild!If(x \in has, <<a, b>>)
  BY DEF Rebuild!Rebuilt, a, b
<1>8. Piece(Rebuild!Rebuilt(x)) /\ Due(Rebuild!Rebuilt(x)) = IF x \in has THEN {a, b} ELSE {}
  BY <1>6, <1>7, EmptyPiece DEF Rebuild!If
<1> QED
  BY <1>2, <1>3, <1>4, <1>8 DEF a

LEMMA ReplayedIs ==
  ASSUME NEW p \in {"estimation", "host"}
  PROVE  Piece(Rebuild!Replayed(p)) /\ HostRebuild \notin Due(Rebuild!Replayed(p))
<1> DEFINE a == Rebuild!Do("replay", p)
<1>1. Piece(<<a>>) /\ Due(<<a>>) = {a}
  <2>1. p \in StepNames /\ p \notin Rebuild!Replications /\ "replay" \in StepKinds
    BY DEF StepNames, StepKinds, Rebuild!Panels, Rebuild!Replications
  <2> QED
    BY <2>1, ShortPieces
<1>2. a[1] = "replay" /\ HostRebuild[1] = "rebuild"
  BY DEF Rebuild!Do, HostRebuild
<1>3. Rebuild!Replayed(p) = Rebuild!If(p \in has, <<a>>)
  BY DEF Rebuild!Replayed
<1> HIDE DEF a
<1>4. Piece(Rebuild!Replayed(p)) /\ Due(Rebuild!Replayed(p)) = IF p \in has THEN {a} ELSE {}
  BY <1>1, <1>3, EmptyPiece DEF Rebuild!If
<1> QED
  BY <1>2, <1>4

LEMMA ReplicatedIs ==
  ASSUME NEW p \in Rebuild!Replications
  PROVE  /\ Piece(Rebuild!Replicated(p)) /\ Due(Rebuild!Replicated(p)) \cap HostReplays = {}
         /\ p \in has => Rebuild!Do("rebuild", p) \in Due(Rebuild!Replicated(p))
         /\ HostRebuild \notin Due(Rebuild!Replicated(p))
<1> DEFINE check == Rebuild!Do("check", p)
           s1 == <<check>>
           s2 == <<Rebuild!Do("replay", p), check>>
           s3 == <<Rebuild!Do("rebuild", p), Rebuild!Do("compare", p), check>>
           s4 == <<Rebuild!Do("cost", p), check, Rebuild!Do("compare", p)>>
           o2 == Rebuild!If(p = "completion", s2)
           o4 == Rebuild!If(p = "control" /\ "control_accounting" \in has, s4)
           Own(w) == \A d \in Due(w) : d[2] = p
<1>0. p \in StepNames /\ p # "host" /\ p # "estimation" /\ "check" \in StepKinds
  <2>1. p = "completion" \/ p = "control"
    BY DEF Rebuild!Replications
  <2> QED
    BY <2>1 DEF StepNames, StepKinds, Rebuild!Panels
<1>1. \A k : Rebuild!Do(k, p)[2] = p
  BY DEF Rebuild!Do
<1>2. Piece(s1) /\ Own(s1)
  BY <1>0, <1>1, ShortPieces
<1>3. Piece(s2) /\ Own(s2) /\ Piece(s3) /\ Own(s3) /\ Piece(s4) /\ Own(s4) /\ Rebuild!Do("rebuild", p) \in Due(s3)
  <2>1. Piece(s2) /\ Due(s2) = {Rebuild!Do("replay", p), check}
    BY CheckedPieces
  <2>2. Piece(s3) /\ Due(s3) = {Rebuild!Do("rebuild", p), Rebuild!Do("compare", p), check}
    BY CheckedPieces
  <2>3. Piece(s4) /\ Due(s4) = {Rebuild!Do("cost", p), Rebuild!Do("compare", p), check}
    BY CheckedPieces
  <2> HIDE DEF s2, s3, s4
  <2> QED
    BY <1>1, <2>1, <2>2, <2>3
<1> HIDE DEF s1, s2, s3, s4
<1>4. Piece(o2) /\ Own(o2)
  BY <1>3, EmptyPiece DEF Rebuild!If
<1>5. Piece(o4) /\ Own(o4)
  BY <1>3, EmptyPiece DEF Rebuild!If
<1>6. ASSUME NEW w, Own(w) PROVE HostRebuild \notin Due(w) /\ Due(w) \cap HostReplays = {}
  <2>1. HostRebuild[2] = "host" /\ \A h \in HostReplays : h[2] = "host" \/ h[2] = "estimation"
    BY DEF HostRebuild, HostReplays, Rebuild!Do
  <2> QED
    BY <1>0, <1>6, <2>1
<1>7. ASSUME NEW w, NEW t, Piece(w), Own(w), Piece(t), Own(t)
      PROVE  Piece(w \o t) /\ Own(w \o t) /\ Due(t) \subseteq Due(w \o t) /\ Due(w) \subseteq Due(w \o t)
  BY <1>6, <1>7, BothPieces
<1> HIDE DEF o2, o4
<1> DEFINE u1 == s1 \o o2
           u2 == u1 \o s3
           u3 == u2 \o o4
<1>8. Piece(u1) /\ Own(u1)
  BY <1>2, <1>4, <1>7
<1> HIDE DEF u1
<1>9. Piece(u2) /\ Own(u2) /\ Due(s3) \subseteq Due(u2)
  BY <1>3, <1>7, <1>8
<1> HIDE DEF u2
<1>10. Piece(u3) /\ Own(u3) /\ Due(u2) \subseteq Due(u3)
  BY <1>5, <1>7, <1>9
<1> HIDE DEF Own, u3
<1>11. Rebuild!Replicated(p) = Rebuild!If(p \in has, u3)
  BY DEF Rebuild!Replicated, u3, u2, u1, s1, o2, s2, s3, o4, s4
<1>12. Piece(Rebuild!Replicated(p)) /\ Due(Rebuild!Replicated(p)) = IF p \in has THEN Due(u3) ELSE {}
  BY <1>10, <1>11, EmptyPiece DEF Rebuild!If
<1> QED
  BY <1>3, <1>6, <1>9, <1>10, <1>12

(* The whole script begins with what moves the published results away, and *)
(* rebuilds each product there is.                                         *)
LEMMA ScriptIs ==
  /\ WellOrdered(Rebuild!Script) /\ MovesFirst(Rebuild!Script)
  /\ \A x \in has \cap Rebuild!Products : Rebuild!Do("rebuild", x) \in Due(Rebuild!Script)
<1> DEFINE Opens(w) == WellOrdered(w) /\ MovesFirst(w)
           s0 == <<Rebuild!Do("move", "profiles"), Rebuild!Do("restore", "inputs")>>
           s1 == s0 \o Rebuild!Rebuilt("tables")
           s2 == s1 \o Rebuild!Rebuilt("review")
           s3 == s2 \o Rebuild!Rebuilt("curated")
           s4 == s3 \o Rebuild!Replayed("estimation")
           s5 == s4 \o Rebuild!Rebuilt("estimation")
           s6 == s5 \o Rebuild!Replayed("host")
           s7 == s6 \o Rebuild!Rebuilt("host")
           s8 == s7 \o Rebuild!Rebuilt("decision")
           s9 == s8 \o Rebuild!Replicated("completion")
           s10 == s9 \o Rebuild!Replicated("control")
<1>0. Opens(s0) /\ HostRebuild \notin Due(s0)
  <2> DEFINE a == Rebuild!Do("move", "profiles")
             b == Rebuild!Do("restore", "inputs")
  <2>1. a \in StepKinds \X StepNames /\ b \in StepKinds \X StepNames /\ a[1] = "move" /\ b[1] = "restore"
        /\ HostRebuild[1] = "rebuild" /\ Rebuild!Do("rebuild", "host")[1] = "rebuild"
    BY DEF StepKinds, StepNames, Rebuild!Do, HostRebuild
  <2>2. a = Rebuild!Do("move", "profiles")
    OBVIOUS
  <2> HIDE DEF a, b
  <2> DEFINE w == <<a, b>>
  <2>3. w \in ScriptT /\ Len(w) = 2 /\ w[1] = a /\ w[2] = b /\ Tail(w) = <<b>> /\ w # << >>
    BY <2>1 DEF ScriptT
  <2>4. Due(<<b>>) = {b}
    BY DEF Due
  <2> HIDE DEF w
  <2>5. \A i \in 1..Len(w) : i = 1 \/ i = 2
    BY <2>3
  <2>6. \A i \in 1..Len(w) : w[i][1] \in {"move", "restore"}
    BY <2>1, <2>3, <2>5
  <2>7. ChecksFollow(w) /\ ReplaysLead(w) /\ HostRebuild \notin Due(w)
    BY <2>1, <2>6 DEF ChecksFollow, ReplaysLead, Due
  <2>8. MovesFirst(w)
    BY <2>1, <2>2, <2>3, <2>4 DEF MovesFirst, NoMove
  <2> QED
    BY <2>3, <2>7, <2>8 DEF w, a, b, WellOrdered
<1>1. {"tables", "review", "curated", "estimation", "host", "decision"} \subseteq StepNames \ Rebuild!Replications
  BY DEF StepNames, Rebuild!Replications, Rebuild!Panels
<1>2. ASSUME NEW w, Opens(w), HostRebuild \notin Due(w), NEW t, Piece(t)
      PROVE  /\ Opens(w \o t) /\ Due(w) \subseteq Due(w \o t) /\ Due(t) \subseteq Due(w \o t)
             /\ HostRebuild \notin Due(t) => HostRebuild \notin Due(w \o t)
  BY <1>2, PieceBehind
<1>3. ASSUME NEW w, Opens(w), NEW t, Piece(t), Due(t) \cap HostReplays = {}
      PROVE  Opens(w \o t) /\ Due(w) \subseteq Due(w \o t) /\ Due(t) \subseteq Due(w \o t)
  BY <1>3, PieceBehind
<1> HIDE DEF Opens, s0
<1>4. Opens(s1) /\ HostRebuild \notin Due(s1) /\ Due(Rebuild!Rebuilt("tables")) \subseteq Due(s1)
  BY <1>0, <1>1, <1>2, RebuiltIs
<1> HIDE DEF s1
<1>5. Opens(s2) /\ HostRebuild \notin Due(s2) /\ Due(s1) \cup Due(Rebuild!Rebuilt("review")) \subseteq Due(s2)
  BY <1>1, <1>2, <1>4, RebuiltIs
<1> HIDE DEF s2
<1>6. Opens(s3) /\ HostRebuild \notin Due(s3) /\ Due(s2) \cup Due(Rebuild!Rebuilt("curated")) \subseteq Due(s3)
  BY <1>1, <1>2, <1>5, RebuiltIs
<1> HIDE DEF s3
<1>7. Opens(s4) /\ HostRebuild \notin Due(s4) /\ Due(s3) \subseteq Due(s4)
  BY <1>2, <1>6, ReplayedIs
<1> HIDE DEF s4
<1>8. Opens(s5) /\ HostRebuild \notin Due(s5) /\ Due(s4) \cup Due(Rebuild!Rebuilt("estimation")) \subseteq Due(s5)
  BY <1>1, <1>2, <1>7, RebuiltIs
<1> HIDE DEF s5
<1>9. Opens(s6) /\ HostRebuild \notin Due(s6) /\ Due(s5) \subseteq Due(s6)
  BY <1>2, <1>8, ReplayedIs
<1> HIDE DEF s6
<1>10. Opens(s7) /\ Due(s6) \cup Due(Rebuild!Rebuilt("host")) \subseteq Due(s7)
  BY <1>1, <1>3, <1>9, RebuiltIs
<1> HIDE DEF s7
<1>11. Opens(s8) /\ Due(s7) \cup Due(Rebuild!Rebuilt("decision")) \subseteq Due(s8)
  BY <1>1, <1>3, <1>10, RebuiltIs
<1> HIDE DEF s8
<1>12. "completion" \in Rebuild!Replications /\ "control" \in Rebuild!Replications
  BY DEF Rebuild!Replications
<1>13. Opens(s9) /\ Due(s8) \cup Due(Rebuild!Replicated("completion")) \subseteq Due(s9)
  BY <1>3, <1>11, <1>12, ReplicatedIs
<1> HIDE DEF s9
<1>14. Opens(s10) /\ Due(s9) \cup Due(Rebuild!Replicated("control")) \subseteq Due(s10)
  BY <1>3, <1>12, <1>13, ReplicatedIs
<1> HIDE DEF s10
<1>15. Rebuild!Script = s10
  BY DEF Rebuild!Script, s10, s9, s8, s7, s6, s5, s4, s3, s2, s1, s0
<1>16. \A x \in {"tables", "review", "curated", "estimation", "host", "decision"} :
         x \in has => Rebuild!Do("rebuild", x) \in Due(Rebuild!Rebuilt(x))
  BY <1>1, RebuiltIs
<1>17. \A x \in {"completion", "control"} : x \in has => Rebuild!Do("rebuild", x) \in Due(Rebuild!Replicated(x))
  BY <1>12, ReplicatedIs
<1>18. ASSUME NEW x \in has \cap Rebuild!Products PROVE Rebuild!Do("rebuild", x) \in Due(s10)
  <2>1. x \in {"tables", "review", "curated", "estimation", "host", "decision"} \/ x \in {"completion", "control"}
    BY DEF Rebuild!Products, Rebuild!Panels
  <2>2. Due(s8) \subseteq Due(s10) /\ Due(s7) \subseteq Due(s10) /\ Due(s5) \subseteq Due(s10) /\ Due(s3) \subseteq Due(s10)
        /\ Due(s2) \subseteq Due(s10) /\ Due(s1) \subseteq Due(s10) /\ Due(s9) \subseteq Due(s10)
    BY <1>5, <1>6, <1>7, <1>8, <1>9, <1>10, <1>11, <1>13, <1>14
  <2> QED
    BY <1>4, <1>5, <1>6, <1>8, <1>10, <1>11, <1>13, <1>14, <1>16, <1>17, <2>1, <2>2
<1> QED
  BY <1>14, <1>15, <1>18 DEF Opens

-----------------------------------------------------------------------------
(* Where the published form of a product may lie once it is moved aside,   *)
(* and where anything that tells how a panel came out.                     *)
HiddenAlways == {Rebuild!OldProfiles, Rebuild!OldBenchmark, Rebuild!OriginalRoot, Rebuild!CodeViews}
PublishedAt(l, x) ==
  l \in HiddenAlways \/ (l = Rebuild!LiveParent /\ has \cap Rebuild!Replications # {})
ToldAt(l, p) ==
  \/ l \in {Rebuild!OldBenchmark, Rebuild!OriginalRoot, Rebuild!CodeViews, Rebuild!Logs, Rebuild!Paper,
            Rebuild!Raw(p), Rebuild!Account(p), Rebuild!Made(p)}
  \/ l = Rebuild!LiveParent /\ p \in Rebuild!Replications
MovedAside ==
  \A l \in Rebuild!Places :
    /\ \A x \in Rebuild!Products : Rebuild!Reference(x) \in content[l] => PublishedAt(l, x)
    /\ \A p \in Rebuild!Panels : Rebuild!Outcome(p) \in content[l] => ToldAt(l, p)
AsExtracted ==
  content = [l \in Rebuild!Places |-> {f \in Rebuild!Extracted(l) : f[2] \in has \cup {"same_node"}}]

(* What the children that ran could read, and what is still owed to them.  *)
NoneSaw ==
  isolated =>
    /\ \A x \in Rebuild!Products : Rebuild!Do("rebuild", x) \in DOMAIN seen =>
         Rebuild!Reference(x) \notin seen[Rebuild!Do("rebuild", x)]
    /\ \A p \in Rebuild!Replays : Rebuild!Do("replay", p) \in DOMAIN seen =>
         {Rebuild!Outcome(q) : q \in Rebuild!BlindTo[p]} \cap seen[Rebuild!Do("replay", p)] = {}
HostUntold ==
  Rebuild!Outcome("host") \in content[Rebuild!Made("host")] => Due(todo) \cap HostReplays = {}
SpoiltIsKnown ==
  \A c \in DOMAIN soiled :
    /\ soiled[c] \subseteq dirty
    /\ c[2] \in Rebuild!Replications =>
         soiled[c] \cap Rebuild!Bound(c[2]) = {} \/ Rebuild!Do("check", c[2]) \in Due(todo)
AllRebuilt ==
  \A x \in has \cap Rebuild!Products :
    Rebuild!Do("rebuild", x) \in DOMAIN seen \/ Rebuild!Do("rebuild", x) \in Due(todo)
RebuildInv ==
  /\ Rebuild!Legal(has, isolated) /\ DOMAIN content = Rebuild!Places
  /\ WellOrdered(todo)
  /\ (MovesFirst(todo) /\ AsExtracted) \/ (NoMove(todo) /\ MovedAside)
  /\ NoneSaw /\ HostUntold /\ SpoiltIsKnown /\ AllRebuilt

LEMMA PlacesAre ==
  ASSUME NEW l \in Rebuild!Places
  PROVE  \/ \E p \in Rebuild!Panels : l \in {Rebuild!Bench(p), Rebuild!Account(p), Rebuild!Raw(p)}
         \/ \E p \in Rebuild!Replications : l = Rebuild!Source(p)
         \/ l \in {Rebuild!Original, Rebuild!Profiles, Rebuild!Logs, Rebuild!Paper, Rebuild!OldProfiles,
                   Rebuild!OldBenchmark, Rebuild!OriginalRoot, Rebuild!LiveParent, Rebuild!CodeViews}
         \/ \E x \in Rebuild!Products : l = Rebuild!Made(x)
<1>1. CASE l \in Rebuild!Outside
  BY <1>1 DEF Rebuild!Outside
<1>2. CASE l \in Rebuild!InWork
  <2>1. \/ l \in Rebuild!OfPanels(Rebuild!Bench) \/ l \in Rebuild!OfPanels(Rebuild!Account)
        \/ l \in Rebuild!OfPanels(Rebuild!Raw) \/ l \in {Rebuild!Source(p) : p \in Rebuild!Replications}
        \/ l \in {Rebuild!Original, Rebuild!Profiles, Rebuild!Logs, Rebuild!Paper}
        \/ l \in {Rebuild!OldProfiles, Rebuild!OldBenchmark} \/ l \in {Rebuild!Made(x) : x \in Rebuild!Products}
    BY <1>2 DEF Rebuild!InWork
  <2> QED
    BY <2>1 DEF Rebuild!OfPanels
<1> QED
  BY <1>1, <1>2 DEF Rebuild!Places

LEMMA ExtractedIs ==
  /\ \A p : Rebuild!Extracted(Rebuild!Bench(p)) = {Rebuild!Reference(p), Rebuild!Outcome(p), Rebuild!Input(p)}
  /\ \A p : Rebuild!Extracted(Rebuild!Account(p)) = {Rebuild!Outcome(p)}
  /\ \A p : Rebuild!Extracted(Rebuild!Raw(p)) = {Rebuild!Outcome(p)}
  /\ \A p : Rebuild!Extracted(Rebuild!Source(p)) = {} /\ Rebuild!Extracted(Rebuild!Made(p)) = {}
  /\ Rebuild!Extracted(Rebuild!Original) = {} /\ Rebuild!Extracted(Rebuild!OldProfiles) = {}
  /\ Rebuild!Extracted(Rebuild!OldBenchmark) = {}
  /\ Rebuild!Extracted(Rebuild!Profiles) = {Rebuild!Reference("tables"), Rebuild!Reference("review"), Rebuild!Input("same_node")}
  /\ Rebuild!Extracted(Rebuild!LiveParent) =
       {Rebuild!Reference(p) : p \in Rebuild!Replications} \cup {Rebuild!Outcome(p) : p \in Rebuild!Replications}
<1>1. /\ \A p : Rebuild!Bench(p)[1] = "artifact/benchmark" /\ Rebuild!Bench(p)[2] = p
      /\ \A p : Rebuild!Account(p)[1] = "artifact/benchmark/allocation_accounting.json" /\ Rebuild!Account(p)[2] = p
      /\ \A p : Rebuild!Raw(p)[1] = "artifact/output" /\ Rebuild!Raw(p)[2] = p
      /\ \A p : Rebuild!Source(p)[1] = "artifact/reproduction_sources" /\ Rebuild!Made(p)[1] = "work"
  BY DEF Rebuild!Bench, Rebuild!Account, Rebuild!Raw, Rebuild!Source, Rebuild!Made
<1>2. /\ Rebuild!Original[1] = "artifact/reproduction_sources"
      /\ Rebuild!OldProfiles[1] = "work" /\ Rebuild!OldBenchmark[1] = "work"
      /\ Rebuild!Profiles[1] = "artifact" /\ Rebuild!Logs[1] = "artifact" /\ Rebuild!Paper[1] = "artifact"
      /\ Rebuild!Profiles[2] = "profiles" /\ Rebuild!Logs[2] = "logs" /\ Rebuild!Paper[2] = "paper"
      /\ Rebuild!OriginalRoot[1] = "outside" /\ Rebuild!LiveParent[1] = "outside" /\ Rebuild!CodeViews[1] = "outside"
      /\ Rebuild!OriginalRoot[2] = "ORIGINAL_ROOT" /\ Rebuild!LiveParent[2] = "LIVE_PARENT" /\ Rebuild!CodeViews[2] = "ROOT/benchmark"
  BY DEF Rebuild!Original, Rebuild!OldProfiles, Rebuild!OldBenchmark, Rebuild!Profiles, Rebuild!Logs, Rebuild!Paper,
         Rebuild!OriginalRoot, Rebuild!LiveParent, Rebuild!CodeViews
<1>3. ASSUME NEW p
      PROVE  /\ Rebuild!Extracted(Rebuild!Bench(p)) = {Rebuild!Reference(p), Rebuild!Outcome(p), Rebuild!Input(p)}
             /\ Rebuild!Extracted(Rebuild!Account(p)) = {Rebuild!Outcome(p)}
             /\ Rebuild!Extracted(Rebuild!Raw(p)) = {Rebuild!Outcome(p)}
  <2>1. Rebuild!Bench(p) # Rebuild!Profiles /\ Rebuild!Account(p) # Rebuild!Profiles /\ Rebuild!Raw(p) # Rebuild!Profiles
    BY <1>1, <1>2
  <2>2. Rebuild!Extracted(Rebuild!Bench(p)) = {Rebuild!Reference(p), Rebuild!Outcome(p), Rebuild!Input(p)}
    BY <1>1, <1>2, <2>1 DEF Rebuild!Extracted, Rebuild!Outside
  <2>3. Rebuild!Extracted(Rebuild!Account(p)) = {Rebuild!Outcome(p)}
    BY <1>1, <1>2, <2>1 DEF Rebuild!Extracted, Rebuild!Outside
  <2>4. Rebuild!Extracted(Rebuild!Raw(p)) = {Rebuild!Outcome(p)}
    BY <1>1, <1>2, <2>1 DEF Rebuild!Extracted, Rebuild!Outside
  <2> QED
    BY <2>2, <2>3, <2>4
<1>4. ASSUME NEW l, l[1] \in {"artifact/reproduction_sources", "work"} PROVE Rebuild!Extracted(l) = {}
  BY <1>2, <1>4 DEF Rebuild!Extracted, Rebuild!Outside
<1>5. Rebuild!Extracted(Rebuild!Profiles) = {Rebuild!Reference("tables"), Rebuild!Reference("review"), Rebuild!Input("same_node")}
  BY <1>2 DEF Rebuild!Extracted, Rebuild!Outside
<1>6. Rebuild!Extracted(Rebuild!LiveParent) =
        {Rebuild!Reference(p) : p \in Rebuild!Replications} \cup {Rebuild!Outcome(p) : p \in Rebuild!Replications}
  BY <1>2 DEF Rebuild!Extracted, Rebuild!Outside
<1> QED
  BY <1>1, <1>2, <1>3, <1>4, <1>5, <1>6

(* Where things lie as extracted.                                          *)
LEMMA FactsDiffer ==
  \A x, y : /\ Rebuild!Reference(x) = Rebuild!Reference(y) => x = y
            /\ Rebuild!Outcome(x) = Rebuild!Outcome(y) => x = y
            /\ Rebuild!Reference(x) # Rebuild!Outcome(y) /\ Rebuild!Reference(x) # Rebuild!Input(y)
            /\ Rebuild!Outcome(x) # Rebuild!Input(y)
            /\ Rebuild!Reference(x)[2] = x /\ Rebuild!Outcome(x)[2] = x
<1>1. \A x : /\ Rebuild!Reference(x)[1] = "reference" /\ Rebuild!Reference(x)[2] = x
             /\ Rebuild!Outcome(x)[1] = "outcome" /\ Rebuild!Outcome(x)[2] = x
             /\ Rebuild!Input(x)[1] = "input" /\ Rebuild!Input(x)[2] = x
  BY DEF Rebuild!Reference, Rebuild!Outcome, Rebuild!Input
<1>2. "reference" # "outcome" /\ "reference" # "input" /\ "outcome" # "input"
  OBVIOUS
<1> QED
  BY <1>1, <1>2

LEMMA ExtractedAt ==
  ASSUME NEW l \in Rebuild!Places
  PROVE  /\ \A x \in Rebuild!Products : Rebuild!Reference(x) \in Rebuild!Extracted(l) =>
              \/ l \in HiddenAlways \/ l = Rebuild!Profiles
              \/ l = Rebuild!LiveParent /\ x \in Rebuild!Replications
              \/ l = Rebuild!Bench(x) /\ x \in Rebuild!Panels
         /\ \A p \in Rebuild!Panels : Rebuild!Outcome(p) \in Rebuild!Extracted(l) => ToldAt(l, p) \/ l = Rebuild!Bench(p)
<1>0. Rebuild!Replications \subseteq Rebuild!Panels
  BY DEF Rebuild!Replications, Rebuild!Panels
<1>1. ASSUME NEW p \in Rebuild!Panels, l \in {Rebuild!Bench(p), Rebuild!Account(p), Rebuild!Raw(p)}
      PROVE  /\ \A x : Rebuild!Reference(x) \in Rebuild!Extracted(l) => x = p /\ l = Rebuild!Bench(p)
             /\ \A q : Rebuild!Outcome(q) \in Rebuild!Extracted(l) => q = p
  BY <1>1, ExtractedIs, FactsDiffer
<1>2. CASE \E p \in Rebuild!Panels : l \in {Rebuild!Bench(p), Rebuild!Account(p), Rebuild!Raw(p)}
  BY <1>1, <1>2 DEF ToldAt
<1>3. CASE (\E p \in Rebuild!Replications : l = Rebuild!Source(p)) \/ (\E x \in Rebuild!Products : l = Rebuild!Made(x))
           \/ l \in {Rebuild!Original, Rebuild!OldProfiles, Rebuild!OldBenchmark}
  <2>1. Rebuild!Extracted(l) = {}
    BY <1>3, ExtractedIs
  <2> QED
    BY <2>1
<1>4. CASE l = Rebuild!Profiles
  BY <1>4, ExtractedIs, FactsDiffer
<1>5. CASE l = Rebuild!LiveParent
  BY <1>5, ExtractedIs, FactsDiffer DEF ToldAt
<1>6. CASE l \in {Rebuild!OriginalRoot, Rebuild!CodeViews}
  BY <1>6 DEF HiddenAlways, ToldAt
<1>7. CASE l \in {Rebuild!Logs, Rebuild!Paper}
  <2>1. l[1] = "artifact" /\ l # Rebuild!Profiles /\ l \notin Rebuild!Outside
    BY <1>7 DEF Rebuild!Logs, Rebuild!Paper, Rebuild!Profiles, Rebuild!Outside,
                Rebuild!OriginalRoot, Rebuild!LiveParent, Rebuild!CodeViews
  <2>2. l # Rebuild!LiveParent
    BY <2>1 DEF Rebuild!Outside
  <2>3. Rebuild!Extracted(l) = {Rebuild!Outcome(p) : p \in Rebuild!Panels}
    BY <1>7, <2>1, <2>2 DEF Rebuild!Extracted
  <2> QED
    BY <1>7, <2>3, FactsDiffer DEF ToldAt
<1> QED
  BY <1>2, <1>3, <1>4, <1>5, <1>6, <1>7, PlacesAre

(* What is isolated from a child that rebuilds, or that replays.           *)
LEMMA RebuildsBlind ==
  ASSUME MovedAside, isolated, NEW x \in Rebuild!Products, NEW l \in Rebuild!Places,
         Rebuild!Reference(x) \in content[l]
  PROVE  l \in Rebuild!HiddenFrom("rebuild", x)
<1>1. PublishedAt(l, x)
  BY DEF MovedAside
<1>2. l \in Rebuild!BaseHidden
  BY <1>1 DEF PublishedAt, HiddenAlways, Rebuild!BaseHidden, Rebuild!PanelHidden
<1>3. Rebuild!BaseHidden \subseteq Rebuild!Hidden
  BY DEF Rebuild!Hidden
<1>4. x \in Rebuild!Replications => l \in Rebuild!CollectorHidden(x)
  BY <1>2 DEF Rebuild!CollectorHidden
<1>5. "rebuild" # "replay" /\ "host" \notin Rebuild!Replications
  BY DEF Rebuild!Replications
<1> QED
  BY <1>2, <1>3, <1>4, <1>5 DEF Rebuild!HiddenFrom

LEMMA ReplaysBlind ==
  ASSUME MovedAside, HostUntold, isolated, NEW p \in Rebuild!Replays, Rebuild!Do("replay", p) \in Due(todo),
         NEW q \in Rebuild!BlindTo[p], NEW l \in Rebuild!Places, Rebuild!Outcome(q) \in content[l]
  PROVE  l \in Rebuild!HiddenFrom("replay", p)
<1>1. /\ p = "estimation" \/ p = "host" => q \in {"estimation", "host"} /\ p # "completion"
      /\ p = "completion" => q \in Rebuild!Replications
      /\ p = "estimation" \/ p = "host" \/ p = "completion"
  BY DEF Rebuild!BlindTo, Rebuild!Replays
<1>2. q \in Rebuild!Panels
  BY <1>1 DEF Rebuild!Panels, Rebuild!Replications
<1>3. ToldAt(l, q)
  BY <1>2 DEF MovedAside
<1>4. {Rebuild!OldBenchmark, Rebuild!OriginalRoot, Rebuild!CodeViews} \subseteq Rebuild!BaseHidden
  BY DEF Rebuild!BaseHidden
<1>5. CASE p = "completion"
  <2>1. l \in Rebuild!CompletionReplayHidden
    BY <1>1, <1>2, <1>3, <1>4, <1>5 DEF ToldAt, Rebuild!CompletionReplayHidden, Rebuild!OfPanels
  <2> QED
    BY <1>5, <2>1 DEF Rebuild!HiddenFrom
<1>6. CASE p = "estimation" \/ p = "host"
  <2>1. q = "estimation" \/ q = "host"
    BY <1>1, <1>6
  <2>2. q \notin Rebuild!Replications
    BY <2>1 DEF Rebuild!Replications
  <2>3. Rebuild!Do("replay", p) \in HostReplays
    BY <1>6 DEF HostReplays
  <2>4. Rebuild!Outcome("host") \notin content[Rebuild!Made("host")]
    BY <2>3 DEF HostUntold
  <2>5. l # Rebuild!Made("host") \/ q # "host"
    BY <2>4
  <2>6. Rebuild!BaseHidden \subseteq Rebuild!Hidden
    BY DEF Rebuild!Hidden
  <2>7. l \in Rebuild!ReplayHidden
    <3>1. l \in Rebuild!Hidden \/ l \in {Rebuild!Logs, Rebuild!Paper, Rebuild!Raw(q), Rebuild!Account(q), Rebuild!Made(q)}
      BY <1>3, <1>4, <2>2, <2>6 DEF ToldAt
    <3> QED
      BY <2>1, <2>5, <3>1 DEF Rebuild!ReplayHidden
  <2> QED
    BY <1>1, <1>6, <2>7 DEF Rebuild!HiddenFrom
<1> QED
  BY <1>1, <1>5, <1>6

LEMMA InitRebuild == Rebuild!Init => RebuildInv
<1> SUFFICES ASSUME Rebuild!Init PROVE RebuildInv
  OBVIOUS
<1>1. /\ Rebuild!Legal(has, isolated) /\ todo = Rebuild!Script /\ AsExtracted
      /\ seen = << >> /\ soiled = << >> /\ dirty = {}
  BY DEF Rebuild!Init, AsExtracted
<1>2. DOMAIN content = Rebuild!Places
  BY <1>1 DEF AsExtracted
<1>3. DOMAIN seen = {} /\ DOMAIN soiled = {}
  BY <1>1
<1>4. WellOrdered(todo) /\ MovesFirst(todo) /\ AllRebuilt
  BY <1>1, ScriptIs DEF AllRebuilt
<1>5. HostUntold
  <2>1. Rebuild!Made("host") \in Rebuild!Places
    BY DEF Rebuild!Places, Rebuild!InWork, Rebuild!Products, Rebuild!Panels
  <2>2. content[Rebuild!Made("host")] \subseteq Rebuild!Extracted(Rebuild!Made("host"))
    BY <1>1, <2>1 DEF AsExtracted
  <2> QED
    BY <2>2, ExtractedIs DEF HostUntold
<1> QED
  BY <1>1, <1>2, <1>3, <1>4, <1>5 DEF RebuildInv, NoneSaw, SpoiltIsKnown

(* What a step does to what is to be done.                                 *)
LEMMA StepDone ==
  ASSUME RebuildInv, NEW k, NEW x, Rebuild!Step(k, x)
  PROVE  /\ WellOrdered(todo') /\ NoMove(todo')
         /\ k = "move" => AsExtracted
         /\ k # "move" => MovedAside
         /\ Due(todo) = {Rebuild!Do(k, x)} \cup Due(todo')
         /\ k \in {"rebuild", "replay", "cost"} /\ x \in Rebuild!Replications => Rebuild!Do("check", x) \in Due(todo')
         /\ k = "rebuild" /\ x = "host" => Due(todo') \cap HostReplays = {}
<1>1. todo # << >> /\ Head(todo) = Rebuild!Do(k, x) /\ todo' = Tail(todo)
  BY DEF Rebuild!Step
<1>2. Rebuild!Do(k, x)[1] = k /\ Rebuild!Do(k, x)[2] = x /\ Rebuild!Do("move", "profiles")[1] = "move"
  BY DEF Rebuild!Do
<1>3. WellOrdered(todo)
  BY DEF RebuildInv
<1>4. /\ WellOrdered(todo') /\ todo[1] = Rebuild!Do(k, x) /\ todo[1] \in Due(todo)
      /\ Due(todo) = {Rebuild!Do(k, x)} \cup Due(todo')
      /\ k \in {"rebuild", "replay", "cost"} /\ x \in Rebuild!Replications => Rebuild!Do("check", x) \in Due(todo')
      /\ k = "rebuild" /\ x = "host" => Due(todo') \cap HostReplays = {}
  BY <1>1, <1>2, <1>3, OrderOfRest
<1>5. CASE MovesFirst(todo) /\ AsExtracted
  BY <1>1, <1>2, <1>4, <1>5 DEF MovesFirst
<1>6. CASE NoMove(todo) /\ MovedAside
  <2>1. k # "move" /\ NoMove(todo')
    BY <1>2, <1>4, <1>6 DEF NoMove
  <2> QED
    BY <1>4, <1>6, <2>1
<1> QED
  BY <1>5, <1>6 DEF RebuildInv

(* Steps of the driver, which read and write none of what children do.     *)
LEMMA DriverKeeps ==
  ASSUME RebuildInv, NEW k, NEW x, Rebuild!Step(k, x), k # "rebuild",
         has' = has, isolated' = isolated, seen' = seen, soiled' = soiled, dirty' = dirty,
         content'[Rebuild!Made("host")] = content[Rebuild!Made("host")]
  PROVE  /\ Rebuild!Legal(has', isolated') /\ WellOrdered(todo') /\ NoMove(todo')
         /\ NoneSaw' /\ HostUntold' /\ AllRebuilt'
         /\ k # "check" => SpoiltIsKnown'
<1>1. WellOrdered(todo') /\ NoMove(todo') /\ Due(todo) = {Rebuild!Do(k, x)} \cup Due(todo')
  BY StepDone
<1>2. Rebuild!Do(k, x)[1] = k /\ \A y : Rebuild!Do("rebuild", y)[1] = "rebuild" /\ Rebuild!Do("check", y)[1] = "check"
  BY DEF Rebuild!Do
<1>3. NoneSaw'
  BY DEF RebuildInv, NoneSaw
<1>4. HostUntold'
  <2>1. Due(todo') \subseteq Due(todo)
    BY <1>1
  <2> QED
    BY <2>1 DEF RebuildInv, HostUntold
<1>5. AllRebuilt'
  <2> SUFFICES ASSUME NEW y \in has \cap Rebuild!Products
               PROVE  Rebuild!Do("rebuild", y) \in DOMAIN seen \/ Rebuild!Do("rebuild", y) \in Due(todo')
    BY DEF AllRebuilt
  <2>1. Rebuild!Do("rebuild", y) \in DOMAIN seen \/ Rebuild!Do("rebuild", y) \in Due(todo)
    BY DEF RebuildInv, AllRebuilt
  <2> QED
    BY <1>1, <1>2, <2>1
<1>6. k # "check" => SpoiltIsKnown'
  <2> SUFFICES ASSUME k # "check", NEW c \in DOMAIN soiled
               PROVE  /\ soiled[c] \subseteq dirty
                      /\ c[2] \in Rebuild!Replications =>
                           soiled[c] \cap Rebuild!Bound(c[2]) = {} \/ Rebuild!Do("check", c[2]) \in Due(todo')
    BY DEF SpoiltIsKnown
  <2>1. /\ soiled[c] \subseteq dirty
        /\ c[2] \in Rebuild!Replications =>
             soiled[c] \cap Rebuild!Bound(c[2]) = {} \/ Rebuild!Do("check", c[2]) \in Due(todo)
    BY DEF RebuildInv, SpoiltIsKnown
  <2> QED
    BY <1>1, <1>2, <2>1
<1> QED
  BY <1>1, <1>3, <1>4, <1>5, <1>6 DEF RebuildInv

LEMMA MadeIsApart ==
  /\ \A x : Rebuild!Made(x)[1] = "work" /\ Rebuild!Made(x)[2] = x
  /\ \A x \in Rebuild!Products : Rebuild!Made(x) \in Rebuild!Places
  /\ Rebuild!Made("host") \in Rebuild!Places
  /\ \A x \in Rebuild!Products :
       /\ Rebuild!Made(x) \notin {Rebuild!OldProfiles, Rebuild!OldBenchmark, Rebuild!Profiles}
       /\ Rebuild!Made(x) \notin Rebuild!Benchmark
       /\ \A p : Rebuild!Made(x) # Rebuild!Bench(p) /\ Rebuild!Made(x) # Rebuild!Account(p)
<1>1. \A x : Rebuild!Made(x)[1] = "work" /\ Rebuild!Made(x)[2] = x
  BY DEF Rebuild!Made
<1>2. \A x \in Rebuild!Products : Rebuild!Made(x) \in Rebuild!Places
  BY DEF Rebuild!Places, Rebuild!InWork
<1>3. "host" \in Rebuild!Products
  BY DEF Rebuild!Products, Rebuild!Panels
<1>4. \A p : Rebuild!Bench(p)[1] = "artifact/benchmark" /\ Rebuild!Account(p)[1] = "artifact/benchmark/allocation_accounting.json"
  BY DEF Rebuild!Bench, Rebuild!Account
<1>5. ASSUME NEW x \in Rebuild!Products
      PROVE  /\ Rebuild!Made(x) \notin {Rebuild!OldProfiles, Rebuild!OldBenchmark, Rebuild!Profiles}
             /\ \A p : Rebuild!Made(x) # Rebuild!Bench(p) /\ Rebuild!Made(x) # Rebuild!Account(p)
  <2>1. Rebuild!OldProfiles[2] = "reference-profiles" /\ Rebuild!OldBenchmark[2] = "reference-benchmark" /\ Rebuild!Profiles[1] = "artifact"
    BY DEF Rebuild!OldProfiles, Rebuild!OldBenchmark, Rebuild!Profiles
  <2>2. x # "reference-profiles" /\ x # "reference-benchmark"
    BY DEF Rebuild!Products, Rebuild!Panels
  <2> QED
    BY <1>1, <1>4, <2>1, <2>2
<1>6. \A x \in Rebuild!Products : Rebuild!Made(x) \notin Rebuild!Benchmark
  BY <1>5 DEF Rebuild!Benchmark, Rebuild!OfPanels
<1> QED
  BY <1>1, <1>2, <1>3, <1>5, <1>6

LEMMA AsideIsApart ==
  /\ \A p : Rebuild!Profiles # Rebuild!Bench(p) /\ Rebuild!Profiles # Rebuild!Account(p)
  /\ Rebuild!Profiles \notin {Rebuild!OldProfiles, Rebuild!OldBenchmark}
  /\ Rebuild!OldProfiles # Rebuild!OldBenchmark
  /\ Rebuild!Profiles \notin Rebuild!Benchmark /\ Rebuild!OldProfiles \notin Rebuild!Benchmark
<1>1. \A p : Rebuild!Bench(p)[1] = "artifact/benchmark" /\ Rebuild!Account(p)[1] = "artifact/benchmark/allocation_accounting.json"
  BY DEF Rebuild!Bench, Rebuild!Account
<1>2. /\ Rebuild!OldProfiles[1] = "work" /\ Rebuild!OldBenchmark[1] = "work" /\ Rebuild!Profiles[1] = "artifact"
      /\ Rebuild!OldProfiles[2] = "reference-profiles" /\ Rebuild!OldBenchmark[2] = "reference-benchmark"
  BY DEF Rebuild!OldProfiles, Rebuild!OldBenchmark, Rebuild!Profiles
<1>3. \A l \in Rebuild!Benchmark : l[1] \in {"artifact/benchmark", "artifact/benchmark/allocation_accounting.json"}
  BY <1>1 DEF Rebuild!Benchmark, Rebuild!OfPanels
<1> QED
  BY <1>1, <1>2, <1>3

LEMMA MoveKeeps == RebuildInv /\ Rebuild!MoveAside => RebuildInv'
<1> SUFFICES ASSUME RebuildInv, Rebuild!MoveAside PROVE RebuildInv'
  OBVIOUS
<1> DEFINE Gathered == {Rebuild!Reference("curated")} \cup UNION {content[b] : b \in Rebuild!Benchmark}
<1>0. content' = [l \in Rebuild!Places |->
         CASE l = Rebuild!OldProfiles -> content[Rebuild!Profiles]
           [] l = Rebuild!Profiles -> {}
           [] l = Rebuild!OldBenchmark /\ "curated" \in has -> Gathered
           [] l \in Rebuild!Benchmark /\ "curated" \in has -> {}
           [] OTHER -> content[l]]
  BY DEF Rebuild!MoveAside
<1> HIDE DEF Gathered
<1>1. /\ Rebuild!Step("move", "profiles")
      /\ has' = has /\ isolated' = isolated /\ seen' = seen /\ soiled' = soiled /\ dirty' = dirty
  BY DEF Rebuild!MoveAside
<1>2. AsExtracted
  BY <1>1, StepDone
<1>3. "host" \in Rebuild!Products /\ Rebuild!Replications \subseteq Rebuild!Panels
  BY DEF Rebuild!Products, Rebuild!Panels, Rebuild!Replications
<1>4. content'[Rebuild!Made("host")] = content[Rebuild!Made("host")]
  <2>1. /\ Rebuild!Made("host") \in Rebuild!Places /\ Rebuild!Made("host") \notin Rebuild!Benchmark
        /\ Rebuild!Made("host") \notin {Rebuild!OldProfiles, Rebuild!OldBenchmark, Rebuild!Profiles}
    BY <1>3, MadeIsApart
  <2> QED
    BY <1>0, <2>1
<1>5. ASSUME NEW l \in Rebuild!Places
      PROVE  /\ \A x \in Rebuild!Products : Rebuild!Reference(x) \in content'[l] => PublishedAt(l, x)
             /\ \A p \in Rebuild!Panels : Rebuild!Outcome(p) \in content'[l] => ToldAt(l, p)
  <2>1. CASE l = Rebuild!OldBenchmark
    BY <2>1 DEF PublishedAt, HiddenAlways, ToldAt
  <2>2. CASE l = Rebuild!Profiles
    <3>1. Rebuild!Profiles \notin {Rebuild!OldProfiles, Rebuild!OldBenchmark} /\ Rebuild!Profiles \notin Rebuild!Benchmark
      BY AsideIsApart
    <3>2. Rebuild!Profiles \in Rebuild!Places
      BY DEF Rebuild!Places, Rebuild!InWork
    <3>3. content'[Rebuild!Profiles] = {}
      BY <1>0, <3>1, <3>2
    <3> QED
      BY <2>2, <3>3
  <2>3. CASE l = Rebuild!OldProfiles
    <3>0. Rebuild!OldProfiles \in Rebuild!Places
      BY DEF Rebuild!Places, Rebuild!InWork
    <3>1. content'[Rebuild!OldProfiles] = content[Rebuild!Profiles]
      BY <1>0, <3>0, AsideIsApart
    <3>2. Rebuild!Profiles \in Rebuild!Places
      BY DEF Rebuild!Places, Rebuild!InWork
    <3>3. content'[l] \subseteq {Rebuild!Reference("tables"), Rebuild!Reference("review"), Rebuild!Input("same_node")}
      <4>1. content[Rebuild!Profiles] \subseteq Rebuild!Extracted(Rebuild!Profiles)
        BY <1>2, <3>2 DEF AsExtracted
      <4> QED
        BY <2>3, <3>1, <4>1, ExtractedIs
    <3> QED
      BY <2>3, <3>3, FactsDiffer DEF PublishedAt, HiddenAlways
  <2>4. CASE l \notin {Rebuild!OldBenchmark, Rebuild!OldProfiles, Rebuild!Profiles}
    <3>1. content'[l] = IF l \in Rebuild!Benchmark /\ "curated" \in has THEN {} ELSE content[l]
      BY <1>0, <2>4
    <3>2. ASSUME NEW f, f \in content'[l]
          PROVE  f \in Rebuild!Extracted(l) /\ f[2] \in has \cup {"same_node"}
                 /\ (l \in Rebuild!Benchmark => "curated" \notin has)
      BY <1>2, <3>1, <3>2 DEF AsExtracted
    <3>3. ASSUME NEW p \in Rebuild!Panels, p \in has PROVE "curated" \in has
      BY <3>3 DEF RebuildInv, Rebuild!Legal
    <3>4. ASSUME NEW p \in Rebuild!Panels PROVE Rebuild!Bench(p) \in Rebuild!Benchmark
      BY DEF Rebuild!Benchmark, Rebuild!OfPanels
    <3>5. "same_node" \notin Rebuild!Products
      BY DEF Rebuild!Products, Rebuild!Panels
    <3>6. ASSUME NEW x \in Rebuild!Products, Rebuild!Reference(x) \in content'[l] PROVE PublishedAt(l, x)
      <4>1. Rebuild!Reference(x) \in Rebuild!Extracted(l) /\ x \in has /\ (l \in Rebuild!Benchmark => "curated" \notin has)
        BY <3>2, <3>5, <3>6, FactsDiffer
      <4> QED
        BY <2>4, <3>3, <3>4, <4>1, ExtractedAt DEF PublishedAt
    <3>7. ASSUME NEW p \in Rebuild!Panels, Rebuild!Outcome(p) \in content'[l] PROVE ToldAt(l, p)
      <4>1. p \in Rebuild!Products
        BY DEF Rebuild!Products
      <4>2. Rebuild!Outcome(p) \in Rebuild!Extracted(l) /\ p \in has /\ (l \in Rebuild!Benchmark => "curated" \notin has)
        BY <3>2, <3>5, <3>7, <4>1, FactsDiffer
      <4> QED
        BY <3>3, <3>4, <4>2, ExtractedAt
    <3> QED
      BY <3>6, <3>7
  <2> QED
    BY <2>1, <2>2, <2>3, <2>4
<1>6. MovedAside'
  BY <1>1, <1>5 DEF MovedAside, PublishedAt
<1>7. DOMAIN content' = Rebuild!Places
  BY <1>0
<1> QED
  BY <1>1, <1>4, <1>6, <1>7, DriverKeeps DEF RebuildInv

LEMMA RestoreKeeps == RebuildInv /\ Rebuild!RestoreInputs => RebuildInv'
<1> SUFFICES ASSUME RebuildInv, Rebuild!RestoreInputs PROVE RebuildInv'
  OBVIOUS
<1> DEFINE Benches == {Rebuild!Bench(p) : p \in has}
           Accounts == {Rebuild!Account(p) : p \in Rebuild!Accounted}
<1>0. content' = [l \in Rebuild!Places |->
         CASE l = Rebuild!Profiles -> {Rebuild!Input("same_node")}
           [] l \in Benches -> Rebuild!Restored(l[2])
           [] l \in Accounts -> {Rebuild!Outcome(l[2])}
           [] OTHER -> content[l]]
  BY DEF Rebuild!RestoreInputs
<1>a. /\ \A l : l \in Benches => \E p \in has : l = Rebuild!Bench(p)
      /\ \A l : l \in Accounts => \E p \in Rebuild!Accounted : l = Rebuild!Account(p)
  OBVIOUS
<1> HIDE DEF Benches, Accounts
<1>1. /\ Rebuild!Step("restore", "inputs")
      /\ has' = has /\ isolated' = isolated /\ seen' = seen /\ soiled' = soiled /\ dirty' = dirty
  BY DEF Rebuild!RestoreInputs
<1>2. MovedAside
  BY <1>1, StepDone
<1>3. "host" \in Rebuild!Products
  BY DEF Rebuild!Products, Rebuild!Panels
<1>4. content'[Rebuild!Made("host")] = content[Rebuild!Made("host")]
  <2>1. /\ Rebuild!Made("host") \in Rebuild!Places /\ Rebuild!Made("host") # Rebuild!Profiles
        /\ Rebuild!Made("host") \notin Benches /\ Rebuild!Made("host") \notin Accounts
    BY <1>3, <1>a, MadeIsApart
  <2> QED
    BY <1>0, <2>1
<1>5. ASSUME NEW l \in Rebuild!Places, NEW f, f \in content'[l]
      PROVE  (\E y : f = Rebuild!Input(y)) \/ (\E p : l = Rebuild!Account(p) /\ f = Rebuild!Outcome(p)) \/ f \in content[l]
  <2>1. CASE l = Rebuild!Profiles
    <3>0. Rebuild!Profiles \in Rebuild!Places
      BY DEF Rebuild!Places, Rebuild!InWork
    <3>1. Rebuild!Profiles \notin Benches /\ Rebuild!Profiles \notin Accounts
      BY <1>a, AsideIsApart
    <3>2. content'[Rebuild!Profiles] = {Rebuild!Input("same_node")}
      BY <1>0, <3>0, <3>1
    <3> QED
      BY <1>5, <2>1, <3>2
  <2>2. CASE l # Rebuild!Profiles /\ l \in Benches
    <3>1. \A p : Rebuild!Bench(p)[1] = "artifact/benchmark" /\ Rebuild!Account(p)[1] = "artifact/benchmark/allocation_accounting.json"
      BY DEF Rebuild!Bench, Rebuild!Account
    <3>2. l \notin Accounts
      BY <1>a, <2>2, <3>1
    <3>3. content'[l] = Rebuild!Restored(l[2])
      BY <1>0, <2>2, <3>2
    <3> QED
      BY <1>5, <3>3 DEF Rebuild!Restored
  <2>3. CASE l # Rebuild!Profiles /\ l \notin Benches /\ l \in Accounts
    <3>1. content'[l] = {Rebuild!Outcome(l[2])}
      BY <1>0, <2>3
    <3>2. PICK p \in Rebuild!Accounted : l = Rebuild!Account(p)
      BY <1>a, <2>3
    <3>3. l[2] = p
      BY <3>2 DEF Rebuild!Account
    <3> QED
      BY <1>5, <3>1, <3>2, <3>3
  <2>4. CASE l # Rebuild!Profiles /\ l \notin Benches /\ l \notin Accounts
    <3>1. content'[l] = content[l]
      BY <1>0, <2>4
    <3> QED
      BY <1>5, <3>1
  <2> QED
    BY <2>1, <2>2, <2>3, <2>4
<1>6. ASSUME NEW l \in Rebuild!Places
      PROVE  /\ \A x \in Rebuild!Products : Rebuild!Reference(x) \in content'[l] => PublishedAt(l, x)
             /\ \A p \in Rebuild!Panels : Rebuild!Outcome(p) \in content'[l] => ToldAt(l, p)
  <2>1. ASSUME NEW x \in Rebuild!Products, Rebuild!Reference(x) \in content'[l] PROVE PublishedAt(l, x)
    <3>1. Rebuild!Reference(x) \in content[l]
      BY <1>5, <2>1, FactsDiffer
    <3> QED
      BY <1>2, <3>1 DEF MovedAside
  <2>2. ASSUME NEW p \in Rebuild!Panels, Rebuild!Outcome(p) \in content'[l] PROVE ToldAt(l, p)
    <3>1. Rebuild!Outcome(p) \in content[l] \/ l = Rebuild!Account(p)
      BY <1>5, <2>2, FactsDiffer
    <3> QED
      BY <1>2, <3>1 DEF MovedAside, ToldAt
  <2> QED
    BY <2>1, <2>2
<1>7. MovedAside'
  BY <1>1, <1>6 DEF MovedAside, PublishedAt
<1>8. DOMAIN content' = Rebuild!Places
  BY <1>0
<1> QED
  BY <1>1, <1>4, <1>7, <1>8, DriverKeeps DEF RebuildInv

LEMMA CompareKeeps ==
  ASSUME RebuildInv, NEW x, Rebuild!Compare(x) PROVE RebuildInv'
<1>1. /\ Rebuild!Step("compare", x) /\ content' = content
      /\ has' = has /\ isolated' = isolated /\ seen' = seen /\ soiled' = soiled /\ dirty' = dirty
  BY DEF Rebuild!Compare
<1>2. MovedAside
  BY <1>1, StepDone
<1>3. MovedAside'
  BY <1>1, <1>2 DEF MovedAside, PublishedAt
<1> QED
  BY <1>1, <1>3, DriverKeeps DEF RebuildInv

(* A check settles what the children of its panel read.                    *)
LEMMA CheckKeeps ==
  ASSUME RebuildInv, NEW p \in Rebuild!Replications, Rebuild!CheckInputs(p) PROVE RebuildInv'
<1>1. /\ Rebuild!Step("check", p) /\ content' = content /\ dirty \cap Rebuild!Bound(p) = {}
      /\ has' = has /\ isolated' = isolated /\ seen' = seen /\ soiled' = soiled /\ dirty' = dirty
  BY DEF Rebuild!CheckInputs, Rebuild!InputsStand
<1>2. MovedAside
  BY <1>1, StepDone
<1>3. MovedAside'
  BY <1>1, <1>2 DEF MovedAside, PublishedAt
<1>4. SpoiltIsKnown'
  <2> SUFFICES ASSUME NEW c \in DOMAIN soiled
               PROVE  /\ soiled[c] \subseteq dirty
                      /\ c[2] \in Rebuild!Replications =>
                           soiled[c] \cap Rebuild!Bound(c[2]) = {} \/ Rebuild!Do("check", c[2]) \in Due(todo')
    BY <1>1 DEF SpoiltIsKnown
  <2>1. /\ soiled[c] \subseteq dirty
        /\ c[2] \in Rebuild!Replications =>
             soiled[c] \cap Rebuild!Bound(c[2]) = {} \/ Rebuild!Do("check", c[2]) \in Due(todo)
    BY DEF RebuildInv, SpoiltIsKnown
  <2>2. CASE c[2] = p
    BY <1>1, <2>1, <2>2
  <2>3. CASE c[2] # p
    <3>1. Rebuild!Do("check", c[2]) # Rebuild!Do("check", p)
      BY <2>3 DEF Rebuild!Do
    <3>2. Due(todo) = {Rebuild!Do("check", p)} \cup Due(todo')
      BY <1>1, StepDone
    <3> QED
      BY <2>1, <3>1, <3>2
  <2> QED
    BY <2>2, <2>3
<1> QED
  BY <1>1, <1>3, <1>4, DriverKeeps DEF RebuildInv

(* A child reads, and notes what it read; what it makes lies in its place. *)
LEMMA ChildKeeps ==
  ASSUME RebuildInv, NEW k \in {"rebuild", "replay", "cost"}, NEW x \in Rebuild!Products,
         k = "replay" => x \in Rebuild!Replays, Rebuild!Child(k, x)
  PROVE  RebuildInv'
<1> DEFINE hidden == Rebuild!HiddenFrom(k, x)
           visible == Rebuild!Places \ hidden
           read == UNION {content[l] : l \in visible}
           child == Rebuild!Do(k, x)
<1>1. /\ Rebuild!Step(k, x) /\ has' = has /\ isolated' = isolated
      /\ seen' = Rebuild!Noted(seen, child, read)
      /\ soiled' = Rebuild!Noted(soiled, child, dirty \cap visible)
      /\ dirty \subseteq dirty'
      /\ content' = [content EXCEPT ![Rebuild!Made(x)] = @ \cup Rebuild!Product(k, x)]
  BY DEF Rebuild!Child, Rebuild!Do
<1>2. /\ WellOrdered(todo') /\ NoMove(todo') /\ MovedAside
      /\ Due(todo) = {child} \cup Due(todo')
      /\ x \in Rebuild!Replications => Rebuild!Do("check", x) \in Due(todo')
      /\ k = "rebuild" /\ x = "host" => Due(todo') \cap HostReplays = {}
  BY <1>1, StepDone
<1>3. /\ DOMAIN seen' = DOMAIN seen \cup {child} /\ DOMAIN soiled' = DOMAIN soiled \cup {child}
      /\ \A c \in DOMAIN seen' : seen'[c] = IF c = child THEN read ELSE seen[c]
      /\ \A c \in DOMAIN soiled' : soiled'[c] = IF c = child THEN dirty \cap visible ELSE soiled[c]
  BY <1>1, Zenon DEF Rebuild!Noted
<1>4. \A f \in read : \E l \in Rebuild!Places : l \notin hidden /\ f \in content[l]
  OBVIOUS
<1>5. /\ child[1] = k /\ child[2] = x
      /\ \A j, y : Rebuild!Do(j, y) = child => j = k /\ y = x
  BY DEF Rebuild!Do
<1>6. Due(todo') \subseteq Due(todo) /\ child \in Due(todo)
  BY <1>2
<1> HIDE DEF read, hidden, child
<1>7. Rebuild!Made(x) \in Rebuild!Places /\ DOMAIN content = Rebuild!Places
  BY MadeIsApart DEF RebuildInv
<1>8. /\ DOMAIN content' = Rebuild!Places
      /\ \A l \in Rebuild!Places :
           content'[l] = IF l = Rebuild!Made(x) THEN content[l] \cup Rebuild!Product(k, x) ELSE content[l]
  BY <1>1, <1>7
<1>9. Rebuild!Product(k, x) \subseteq {Rebuild!Outcome(x)} /\ (Rebuild!Product(k, x) # {} => k = "rebuild")
  BY DEF Rebuild!Product
<1>10. MovedAside'
  <2>1. ASSUME NEW l \in Rebuild!Places, NEW y \in Rebuild!Products, Rebuild!Reference(y) \in content'[l]
        PROVE  PublishedAt(l, y)
    <3>1. Rebuild!Reference(y) \in content[l]
      BY <1>8, <1>9, <2>1, FactsDiffer
    <3> QED
      BY <1>2, <3>1 DEF MovedAside
  <2>2. ASSUME NEW l \in Rebuild!Places, NEW p \in Rebuild!Panels, Rebuild!Outcome(p) \in content'[l]
        PROVE  ToldAt(l, p)
    <3>1. Rebuild!Outcome(p) \in content[l] \/ (l = Rebuild!Made(x) /\ p = x)
      BY <1>8, <1>9, <2>2, FactsDiffer
    <3> QED
      BY <1>2, <3>1 DEF MovedAside, ToldAt
  <2> QED
    BY <1>1, <2>1, <2>2 DEF MovedAside, PublishedAt
<1>11. HostUntold'
  <2>1. "host" \in Rebuild!Products
    BY DEF Rebuild!Products, Rebuild!Panels
  <2>2. Rebuild!Made("host") \in Rebuild!Places
    BY <2>1, MadeIsApart
  <2>3. SUFFICES ASSUME Rebuild!Outcome("host") \in content'[Rebuild!Made("host")]
                 PROVE  Due(todo') \cap HostReplays = {}
    BY DEF HostUntold
  <2>4. CASE Rebuild!Outcome("host") \in content[Rebuild!Made("host")]
    BY <1>6, <2>4 DEF RebuildInv, HostUntold
  <2>5. CASE Rebuild!Outcome("host") \notin content[Rebuild!Made("host")]
    <3>1. Rebuild!Outcome("host") \in Rebuild!Product(k, x)
      BY <1>8, <2>2, <2>3, <2>5
    <3>2. x = "host" /\ k = "rebuild"
      BY <1>9, <3>1, FactsDiffer
    <3> QED
      BY <1>2, <3>2
  <2> QED
    BY <2>4, <2>5
<1>12. NoneSaw'
  <2> SUFFICES ASSUME isolated PROVE
        /\ \A y \in Rebuild!Products : Rebuild!Do("rebuild", y) \in DOMAIN seen' =>
             Rebuild!Reference(y) \notin seen'[Rebuild!Do("rebuild", y)]
        /\ \A p \in Rebuild!Replays : Rebuild!Do("replay", p) \in DOMAIN seen' =>
             {Rebuild!Outcome(q) : q \in Rebuild!BlindTo[p]} \cap seen'[Rebuild!Do("replay", p)] = {}
    BY <1>1 DEF NoneSaw
  <2>1. ASSUME NEW y \in Rebuild!Products, Rebuild!Do("rebuild", y) \in DOMAIN seen',
               Rebuild!Reference(y) \in seen'[Rebuild!Do("rebuild", y)]
        PROVE  FALSE
    <3>1. CASE Rebuild!Do("rebuild", y) = child
      <4>1. k = "rebuild" /\ y = x /\ Rebuild!Reference(y) \in read
        BY <1>3, <1>5, <2>1, <3>1
      <4>2. PICK l \in Rebuild!Places : l \notin hidden /\ Rebuild!Reference(y) \in content[l]
        BY <1>4, <4>1
      <4> QED
        BY <1>2, <4>1, <4>2, RebuildsBlind DEF hidden
    <3>2. CASE Rebuild!Do("rebuild", y) # child
      BY <1>3, <2>1, <3>2 DEF RebuildInv, NoneSaw
    <3> QED
      BY <3>1, <3>2
  <2>2. ASSUME NEW p \in Rebuild!Replays, Rebuild!Do("replay", p) \in DOMAIN seen',
               NEW q \in Rebuild!BlindTo[p], Rebuild!Outcome(q) \in seen'[Rebuild!Do("replay", p)]
        PROVE  FALSE
    <3>1. CASE Rebuild!Do("replay", p) = child
      <4>1. k = "replay" /\ p = x /\ Rebuild!Outcome(q) \in read
        BY <1>3, <1>5, <2>2, <3>1
      <4>2. PICK l \in Rebuild!Places : l \notin hidden /\ Rebuild!Outcome(q) \in content[l]
        BY <1>4, <4>1
      <4>3. HostUntold /\ Rebuild!Do("replay", p) \in Due(todo)
        BY <1>6, <3>1 DEF RebuildInv
      <4>4. l \in Rebuild!HiddenFrom("replay", p)
        BY <1>2, <4>2, <4>3, ReplaysBlind
      <4> QED
        BY <4>1, <4>2, <4>4 DEF hidden
    <3>2. CASE Rebuild!Do("replay", p) # child
      BY <1>3, <2>2, <3>2 DEF RebuildInv, NoneSaw
    <3> QED
      BY <3>1, <3>2
  <2> QED
    BY <2>1, <2>2
<1>13. SpoiltIsKnown'
  <2> SUFFICES ASSUME NEW c \in DOMAIN soiled'
               PROVE  /\ soiled'[c] \subseteq dirty'
                      /\ c[2] \in Rebuild!Replications =>
                           soiled'[c] \cap Rebuild!Bound(c[2]) = {} \/ Rebuild!Do("check", c[2]) \in Due(todo')
    BY DEF SpoiltIsKnown
  <2>1. CASE c = child
    BY <1>1, <1>2, <1>3, <1>5, <2>1
  <2>2. CASE c # child
    <3>1. /\ soiled'[c] = soiled[c] /\ soiled[c] \subseteq dirty
          /\ c[2] \in Rebuild!Replications =>
               soiled[c] \cap Rebuild!Bound(c[2]) = {} \/ Rebuild!Do("check", c[2]) \in Due(todo)
      BY <1>3, <2>2 DEF RebuildInv, SpoiltIsKnown
    <3>2. Rebuild!Do("check", c[2]) # child
      BY <1>5
    <3> QED
      BY <1>1, <1>2, <3>1, <3>2
  <2> QED
    BY <2>1, <2>2
<1>14. AllRebuilt'
  <2> SUFFICES ASSUME NEW y \in has \cap Rebuild!Products
               PROVE  Rebuild!Do("rebuild", y) \in DOMAIN seen' \/ Rebuild!Do("rebuild", y) \in Due(todo')
    BY <1>1 DEF AllRebuilt
  <2>1. Rebuild!Do("rebuild", y) \in DOMAIN seen \/ Rebuild!Do("rebuild", y) \in Due(todo)
    BY DEF RebuildInv, AllRebuilt
  <2> QED
    BY <1>2, <1>3, <2>1
<1>15. Rebuild!Legal(has', isolated')
  BY <1>1 DEF RebuildInv
<1> QED
  BY <1>2, <1>8, <1>10, <1>11, <1>12, <1>13, <1>14, <1>15 DEF RebuildInv

LEMMA RebuildStep == RebuildInv /\ [Rebuild!Next]_rebuildVars => RebuildInv'
<1> SUFFICES ASSUME RebuildInv, [Rebuild!Next]_rebuildVars PROVE RebuildInv'
  OBVIOUS
<1>1. CASE Rebuild!Next
  <2>1. CASE Rebuild!MoveAside
    BY <2>1, MoveKeeps
  <2>2. CASE Rebuild!RestoreInputs
    BY <2>2, RestoreKeeps
  <2>3. CASE \E x \in Rebuild!Products : Rebuild!Child("rebuild", x)
    BY <2>3, ChildKeeps
  <2>4. CASE \E x \in Rebuild!Products : Rebuild!Compare(x)
    BY <2>4, CompareKeeps
  <2>5. CASE \E p \in Rebuild!Replays : Rebuild!Child("replay", p)
    <3>1. Rebuild!Replays \subseteq Rebuild!Products
      BY DEF Rebuild!Replays, Rebuild!Products, Rebuild!Panels
    <3> QED
      BY <2>5, <3>1, ChildKeeps
  <2>6. CASE Rebuild!Child("cost", "control")
    <3>1. "control" \in Rebuild!Products
      BY DEF Rebuild!Products, Rebuild!Panels
    <3> QED
      BY <2>6, <3>1, ChildKeeps
  <2>7. CASE \E p \in Rebuild!Replications : Rebuild!CheckInputs(p)
    BY <2>7, CheckKeeps
  <2> QED
    BY <1>1, <2>1, <2>2, <2>3, <2>4, <2>5, <2>6, <2>7 DEF Rebuild!Next
<1>2. CASE UNCHANGED rebuildVars
  <2>1. /\ has' = has /\ isolated' = isolated /\ content' = content /\ todo' = todo
        /\ seen' = seen /\ soiled' = soiled /\ dirty' = dirty
    BY <1>2 DEF rebuildVars
  <2>2. MovedAside' <=> MovedAside
    BY <2>1 DEF MovedAside, PublishedAt
  <2>3. /\ NoneSaw' <=> NoneSaw
        /\ HostUntold' <=> HostUntold
        /\ SpoiltIsKnown' <=> SpoiltIsKnown
        /\ AllRebuilt' <=> AllRebuilt
        /\ AsExtracted' <=> AsExtracted
    BY <2>1 DEF NoneSaw, HostUntold, SpoiltIsKnown, AllRebuilt, AsExtracted
  <2> QED
    BY <2>1, <2>2, <2>3 DEF RebuildInv
<1> QED
  BY <1>1, <1>2

LEMMA BlindThen == RebuildInv => Rebuild!RebuiltBlind
<1> SUFFICES ASSUME RebuildInv PROVE Rebuild!RebuiltBlind
  OBVIOUS
<1>1. Rebuild!PredictionsBlind
  BY DEF RebuildInv, NoneSaw, Rebuild!PredictionsBlind
<1>2. Rebuild!RebuiltIndependently
  <2> SUFFICES ASSUME todo = << >>
               PROVE  /\ isolated => \A x \in has \cap Rebuild!Products :
                           Rebuild!Reference(x) \notin seen[Rebuild!Do("rebuild", x)]
                      /\ \A c \in DOMAIN soiled : c[2] \in Rebuild!Replications =>
                           soiled[c] \cap Rebuild!Bound(c[2]) = {}
    BY DEF Rebuild!RebuiltIndependently, Rebuild!Passed
  <2>1. Due(todo) = {}
    BY DEF Due
  <2>2. \A x \in has \cap Rebuild!Products : Rebuild!Do("rebuild", x) \in DOMAIN seen
    BY <2>1 DEF RebuildInv, AllRebuilt
  <2> QED
    BY <2>1, <2>2 DEF RebuildInv, NoneSaw, SpoiltIsKnown
<1> QED
  BY <1>1, <1>2 DEF Rebuild!RebuiltBlind

(* A rebuild that passed in isolation never let a child read, wherever it  *)
(* had been moved or put back, the published form of what the child makes; *)
(* nor a replay how its panel, or one it shares predictions with, came out;*)
(* and what a replication panel's children read was still as published     *)
(* (reproduce.py: isolated analyses and their hidden paths;                *)
(* replication_reproduction.py: inventories checked around each child).    *)
THEOREM RebuildsAreBlind == MCSpec => []RebuiltBlind
<1> DEFINE Kept == part = "rebuild" => RebuildInv
<1>1. MCInit => Kept
  BY InitRebuild DEF MCInit
<1>2. Kept /\ [MCNext]_<<part, endVars, choiceVars>> => Kept'
  BY RebuildStep DEF MCNext, endVars, rebuildVars
<1>3. Kept => RebuiltBlind
  BY BlindThen DEF RebuiltBlind
<1> QED
  BY <1>1, <1>2, <1>3, PTL DEF MCSpec
=============================================================================
