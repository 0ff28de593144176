----------------------------- MODULE TunerSearch -----------------------------
(***************************************************************************)
(* core.py and parse_log: the search for the memory frontier among the     *)
(* configurations of a colocated workload.  Candidates are ordered by a    *)
(* proxy of their memory pressure and probed by bisection; a probe is a    *)
(* bounded trial whose log is parsed.  What drives the tuner and runs the  *)
(* trials is not in this repository.                                       *)
(***************************************************************************)
EXTENDS Integers, FiniteSets, FiniteSetsExt

CONSTANTS
  ActorBatches, RolloutBatches, RefBatches,   \* micro-batches of the search space
  Utilizations,                               \* in twentieths
  Offloads,                                   \* subset of BOOLEAN
  GlobalBatch, WorldSize,
  Key             \* [Space -> Nat]: where a candidate's key comes among the
                  \* strings that are keys (Candidate.key)

Space == [actor : ActorBatches, rollout : RolloutBatches, ref : RefBatches,
          utilization : Utilizations, dynamic : BOOLEAN, offload : Offloads, optimizer : Offloads]

SearchAssumption ==
  /\ UNION {ActorBatches, RolloutBatches, RefBatches, Utilizations} \subseteq Nat \ {0}
  /\ {GlobalBatch, WorldSize} \subseteq Nat \ {0}
  /\ GlobalBatch >= WorldSize /\ Offloads \subseteq BOOLEAN
  /\ IsFiniteSet(Space)
  /\ Key \in [Space -> Nat] /\ \A c, d \in Space : Key[c] = Key[d] => c = d

VARIABLE observations    \* [candidate, successful, kind]

-----------------------------------------------------------------------------
(* SearchSpace.candidates: micro-batches must fit the batch of a rank and, *)
(* without dynamic batching, divide it.                                    *)
PerRank == GlobalBatch \div WorldSize
MicroBatches(c) == {c.actor, c.rollout, c.ref}
Candidates ==
  {c \in Space : \A b \in MicroBatches(c) : b <= PerRank /\ (c.dynamic \/ PerRank % b = 0)}

(* Candidate.pressure, in units of 5 * 10 ^ -9.                           *)
Factor(on, percent) == IF on THEN percent ELSE 100
Pressure(c) ==
  (5 * c.actor + 3 * c.rollout + 2 * c.ref) * c.utilization
    * Factor(c.offload, 72) * Factor(c.optimizer, 82) * Factor(c.dynamic, 88)

(* Candidates in the order of pressure, then of keys; cs[i] from 0.        *)
Before(c, d) == Pressure(c) < Pressure(d) \/ (Pressure(c) = Pressure(d) /\ Key[c] < Key[d])
At(cs, i) == CHOOSE c \in cs : Cardinality({d \in cs : Before(d, c)}) = i

-----------------------------------------------------------------------------
(* Tuner.choose_next.                                                      *)
Unknown == Candidates \ {o.candidate : o \in observations}
Successes == {Pressure(o.candidate) : o \in {p \in observations : p.successful}}
MemoryFailures == {Pressure(o.candidate) : o \in {p \in observations : p.kind = "oom"}}
Frontier ==
  {c \in Unknown : /\ \A p \in Successes : p < Pressure(c)
                   /\ \A p \in MemoryFailures : Pressure(c) < p}

FromBoundary(c) == LET gap == 2 * Pressure(c) - Max(Successes) - Min(MemoryFailures)
                   IN IF gap < 0 THEN 0 - gap ELSE gap
Nearest(c) == \A d \in Unknown : FromBoundary(c) <= FromBoundary(d)

Middle(cs) == At(cs, Cardinality(cs) \div 2)
(* A mutant probes the least of the frontier.                              *)
MutantChooseNext == IF Frontier # {} THEN At(Frontier, 0) ELSE At(Unknown, 0)
ChooseNext ==
  CASE Frontier # {} -> Middle(Frontier)
    [] Frontier = {} /\ Successes = {} -> Middle(Unknown)
    [] Frontier = {} /\ Successes # {} /\ MemoryFailures = {} -> At(Unknown, Cardinality(Unknown) - 1)
    [] OTHER -> At({c \in Unknown : Nearest(c)}, 0)

-----------------------------------------------------------------------------
(* A trial, and what parse_log makes of its log: a success needs a         *)
(* completed step, and running out of memory is the first cause looked for.*)
FailureKind(zero, oom) == CASE zero -> "none"
                            [] ~zero /\ oom -> "oom"
                            [] OTHER -> "other"

Probe ==
  /\ Unknown # {}
  /\ \E zero, steps, oom \in BOOLEAN :
       observations' = observations \cup
         {[candidate |-> ChooseNext, successful |-> zero /\ steps, kind |-> FailureKind(zero, oom)]}

Init == observations = {}
Next == Probe
Spec == Init /\ [][Next]_observations

-----------------------------------------------------------------------------
(* While there is a frontier, every trial that tells something of it (it   *)
(* ran, or ran out of memory) at least halves what is left of it, and no   *)
(* trial brings anything back into it; whatever the others failed for, and *)
(* however candidates tie.                                                 *)
Informative == {o \in observations : o.successful \/ o.kind = "oom"}
Halves ==
  /\ Frontier' \subseteq Frontier
  /\ Informative' # Informative => 2 * Cardinality(Frontier') <= Cardinality(Frontier)
FrontierHalves == [][Halves]_observations
=============================================================================
