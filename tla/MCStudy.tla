------------------------------- MODULE MCStudy -------------------------------
(* What a study reports: the labels and costs of two pairs of a cell, in   *)
(* opposite orders, by two jobs; and the cost of its replication control,  *)
(* two blocks, with as many seconds and events as put an event before, at  *)
(* and after the recorded end of a job.  They share no state, so each is   *)
(* explored by itself: `part` says which; the cell stays in its first      *)
(* state then, and the variables of the control are Off.  Two parts are    *)
(* about the cell, each with a bound of its own; any other is without.     *)
EXTENDS StudyCollection, TLC

CONSTANTS Parts, Blocks, MaxTime, MaxEvents, NotYet, Off
VARIABLES part, now, job, block, response, charged, cost

Control == INSTANCE ControlAccounting WITH accounting <- charged
ASSUME ControlAssumed == Control!ControlAssumption

controlVars == <<now, job, block, response, charged, cost>>
ControlOff ==
  /\ now = Off /\ job = Off /\ block = Off
  /\ response = Off /\ charged = Off /\ cost = Off

MCInit ==
  /\ part \in Parts
  /\ \/ part # "control" /\ Init /\ ControlOff
     \/ part = "control" /\ Init /\ Control!Init

(* Bound: labels are explored with every outcome, but a runner stops at    *)
(* the recorded end of its job; costs with a job that is cancelled, whose  *)
(* runner writes on, but with one outcome and no torn file.                *)
Bounded ==
  /\ part = "labels" => \A p \in Pairs : accounting[p] # {} => files'[p] = files[p]
  /\ part = "costs" => \A p \in Pairs : /\ ~Torn(files'[p])
                                      /\ \A k \in Periods : files'[p].record[k] # "memory_failure"
MCNext ==
  /\ UNCHANGED part
  /\ \/ part # "control" /\ Next /\ Bounded /\ UNCHANGED controlVars
     \/ part = "control" /\ Control!Next /\ UNCHANGED vars
MCSpec == MCInit /\ [][MCNext]_<<part, vars, controlVars>>

(* ControlAccounting: a published cost charges every claimed block for all *)
(* its time.                                                               *)
CostCovers == [][part = "control" => Control!Covers]_cost

MCTwoFirst == {1}
MCCancelled == {2}
MCVerdicts == {"within_margin", "memory_failure"}
Symmetry == Permutations(Jobs) \cup Permutations(Blocks)
=============================================================================
