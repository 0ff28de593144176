----------------------- MODULE ProcessCleanup_proofs -----------------------
(***************************************************************************)
(* What a complete clean-up may leave behind, for any payload.             *)
(***************************************************************************)
EXTENDS ProcessCleanup, TLAPS

(* Whoever was born before the last scan is known from then on. *)
AllKnown == pc \in AfterScan \ {"raised"} => (alive \ {Smi}) \ late \subseteq known

(* SIGKILL of the group reaches every member, and nobody joins it later. *)
GroupDoomed == pc \in {"wait", "done"} => alive \cap group \subseteq doomed

(* The verdict, and it stays true. *)
VerdictTrue == complete => pc = "done" /\ joined /\ alive \cap known = {}

(* A query runs while its sampler does, and a sampler that was joined is   *)
(* neither running nor among those to be signalled.                        *)
QueryInv ==
  /\ Smi \in alive => sampler = "query"
  /\ pc \in {"poll", "join"} => todo = {}
  /\ joined /\ pc \notin {"poll", "join", "raised"} => sampler = "idle" /\ Smi \notin todo
  /\ hurt => ~joined /\ pc \notin {"poll", "join"}

(* Between the look for children and the judgement nobody seen is missed. *)
SampleInv ==
  /\ ~foreign
  /\ sampler = "looked" => seen \cap alive \subseteq current

CleanupInv ==
  /\ TypeOK
  /\ AllKnown
  /\ GroupDoomed
  /\ VerdictTrue
  /\ QueryInv
  /\ SampleInv

LEMMA InitClean == Init => CleanupInv
BY ProcessAssumption DEF Init, CleanupInv, TypeOK, AllKnown, GroupDoomed,
   VerdictTrue, QueryInv, SampleInv, Steps, AfterScan

(* The payload's own steps. *)
LEMMA PayloadKeeps == CleanupInv /\ Payload => CleanupInv'
<1> SUFFICES ASSUME CleanupInv, Payload PROVE CleanupInv'
  OBVIOUS
<1> USE ProcessAssumption DEF CleanupInv, TypeOK, Steps, AllKnown, GroupDoomed,
    VerdictTrue, QueryInv, SampleInv, machine, thread, frame, Goto, Scan,
    Living, AfterScan
<1>inv. TypeOK /\ AllKnown /\ GroupDoomed /\ VerdictTrue /\ QueryInv /\ SampleInv
  BY DEF CleanupInv
<1>1. ASSUME NEW p \in Procs, NEW q \in Procs, Fork(p, q) PROVE CleanupInv'
  BY <1>inv, <1>1 DEF Fork
<1>2. ASSUME NEW p \in Procs, Escape(p) PROVE CleanupInv'
  BY <1>inv, <1>2 DEF Escape
<1>3. ASSUME NEW p \in Procs, Exit(p) PROVE CleanupInv'
  BY <1>inv, <1>3 DEF Exit
<1> QED BY <1>1, <1>2, <1>3 DEF Payload

(* The sampler thread. *)
LEMMA SamplerKeeps == CleanupInv /\ Sampler => CleanupInv'
<1> SUFFICES ASSUME CleanupInv, Sampler PROVE CleanupInv'
  OBVIOUS
<1> USE ProcessAssumption DEF CleanupInv, TypeOK, Steps, AllKnown, GroupDoomed,
    VerdictTrue, QueryInv, SampleInv, machine, thread, frame, Goto, Scan,
    Living, AfterScan
<1>inv. TypeOK /\ AllKnown /\ GroupDoomed /\ VerdictTrue /\ QueryInv /\ SampleInv
  BY DEF CleanupInv
<1>1. CASE QueryStarts
  BY <1>inv, <1>1 DEF QueryStarts
<1>2. CASE QueryEnds
  BY <1>inv, <1>2 DEF QueryEnds
<1>3. CASE LookForChildren
  BY <1>inv, <1>3 DEF LookForChildren
<1>4. CASE Judge
  BY <1>inv, <1>4 DEF Judge
<1> QED BY <1>1, <1>2, <1>3, <1>4 DEF Sampler

(* The rounds of the clean-up. *)
LEMMA RunnerKeeps == CleanupInv /\ Runner => CleanupInv'
<1> SUFFICES ASSUME CleanupInv, Runner PROVE CleanupInv'
  OBVIOUS
<1> USE ProcessAssumption DEF CleanupInv, TypeOK, Steps, AllKnown, GroupDoomed,
    VerdictTrue, QueryInv, SampleInv, machine, thread, frame, Goto, Scan,
    Living, AfterScan
<1>inv. TypeOK /\ AllKnown /\ GroupDoomed /\ VerdictTrue /\ QueryInv /\ SampleInv
  BY DEF CleanupInv
<1>1. CASE Poll
  BY <1>inv, <1>1 DEF Poll
<1>2. CASE PollEnds
  BY <1>inv, <1>2 DEF PollEnds
<1>3. CASE JoinSampler
  <2>1. CASE sampler = "idle"
    <3>1. joined' = TRUE
      BY <1>3, <2>1 DEF JoinSampler
    <3> QED BY <1>inv, <1>3, <2>1, <3>1 DEF JoinSampler
  <2>2. CASE sampler # "idle"
    <3>1. joined' = FALSE
      BY <1>3, <2>2 DEF JoinSampler
    <3> QED BY <1>inv, <1>3, <2>2, <3>1 DEF JoinSampler
  <2> QED BY <2>1, <2>2
<1>4. CASE Discover
  BY <1>inv, <1>4 DEF Discover
<1>5. ASSUME NEW p \in todo, TermOne(p) PROVE CleanupInv'
  BY <1>inv, <1>5 DEF TermOne
<1>6. CASE TermGroup
  BY <1>inv, <1>6 DEF TermGroup
<1>7. CASE GraceAgain
  BY <1>inv, <1>7 DEF GraceAgain
<1>8. CASE GraceEnds
  BY <1>inv, <1>8 DEF GraceEnds
<1>9. ASSUME NEW p \in todo, KillOne(p) PROVE CleanupInv'
  BY <1>inv, <1>9 DEF KillOne
<1>10. CASE KillGroup
  BY <1>inv, <1>10 DEF KillGroup
<1>11. CASE Verdict
  BY <1>inv, <1>11 DEF Verdict
<1> QED BY <1>1, <1>2, <1>3, <1>4, <1>5, <1>6, <1>7, <1>8, <1>9, <1>10, <1>11 DEF Runner

LEMMA StepClean == CleanupInv /\ [Next]_vars => CleanupInv'
<1> SUFFICES ASSUME CleanupInv, [Next]_vars PROVE CleanupInv'
  OBVIOUS
<1>1. CASE Interrupted
  <2> USE <1>1 DEF Interrupted, machine, thread
  <2>1. TypeOK'
    BY DEF CleanupInv, TypeOK, Steps
  <2>2. AllKnown'
    BY DEF CleanupInv, AllKnown, AfterScan
  <2>3. GroupDoomed'
    BY DEF CleanupInv, GroupDoomed
  <2>4. VerdictTrue'
    BY DEF CleanupInv, VerdictTrue
  <2>5. QueryInv'
    BY DEF CleanupInv, QueryInv
  <2>6. SampleInv'
    BY DEF CleanupInv, SampleInv
  <2> QED BY <2>1, <2>2, <2>3, <2>4, <2>5, <2>6 DEF CleanupInv
<1>2. CASE UNCHANGED vars
  BY <1>2 DEF vars, machine, frame, thread, CleanupInv, TypeOK, AllKnown,
              GroupDoomed, VerdictTrue, QueryInv, SampleInv
<1> QED BY <1>1, <1>2, PayloadKeeps, SamplerKeeps, RunnerKeeps DEF Next

LEMMA CleanHolds == Spec => []CleanupInv
BY InitClean, StepClean, PTL DEF Spec

(* A complete clean-up leaves nobody behind but those born after its last  *)
(* scan, for any payload (run_matched_gpu.py:377-417).                     *)
THEOREM CompleteCleanup == Spec => []OnlyLateSurvivors
<1>1. CleanupInv => OnlyLateSurvivors
  <2> SUFFICES ASSUME CleanupInv, complete, NEW p \in alive
               PROVE  p \in late /\ (p \in doomed \/ p \notin group)
    BY DEF OnlyLateSurvivors
  <2>1. pc = "done" /\ joined /\ alive \cap known = {}
    BY DEF CleanupInv, VerdictTrue
  <2>2. p # Smi
    BY <2>1 DEF CleanupInv, QueryInv
  <2>3. p \in late
    BY <2>1, <2>2 DEF CleanupInv, AllKnown, AfterScan
  <2> QED BY <2>1, <2>3 DEF CleanupInv, GroupDoomed
<1> QED BY <1>1, CleanHolds, PTL

(* The clean-up never signals a query of a sampler that was joined         *)
(* (run_matched_gpu.py:475-481).                                           *)
THEOREM SamplerUnharmed == Spec => []QueriesUnharmed
<1>1. CleanupInv => QueriesUnharmed
  BY DEF CleanupInv, QueryInv, QueriesUnharmed
<1> QED BY <1>1, CleanHolds, PTL

(* The payload's own processes never count as contamination                *)
(* (run_matched_gpu.py:433-439).                                           *)
THEOREM NoFalseContamination == Spec => []OwnNeverForeign
<1>1. CleanupInv => OwnNeverForeign
  BY DEF CleanupInv, SampleInv, OwnNeverForeign
<1> QED BY <1>1, CleanHolds, PTL

=============================================================================
