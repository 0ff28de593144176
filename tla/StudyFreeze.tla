----------------------------- MODULE StudyFreeze -----------------------------
(***************************************************************************)
(* How a study is fixed before its outcomes: plan_estimation_study.py      *)
(* writes matrix and protocol, amendments may replace implementation files *)
(* by later versions, estimation_baselines.py fits and predicts from the   *)
(* inputs and seals the predictions, runners (run_matched_gpu.py) launch   *)
(* only under the seal, and the collector accepts only what it binds.      *)
(* While this goes on people edit the inputs.  A version of a file is a    *)
(* number and equal hashes are equal numbers; an edit never restores an    *)
(* earlier version.  Several programs of each kind may run at once.  The   *)
(* code of a freezer is taken as of its first look at the protocol.        *)
(***************************************************************************)
EXTENDS Naturals

CONSTANTS
  Planners, Freezers, Runs,   \* programs; a run is the claim of one pair
  NoFile,                     \* a file that is not there
  MaxEdits                    \* bound: edits of each input

Inputs == {"code", "data", "matrix"}   \* implementation, source record, settings
Versions == Nat

VARIABLES
  input,       \* the current version of each input; 0 for a matrix not written
  protocol,    \* what protocol.json and the amendments bind, or NoFile
  amendments,  \* how many amendment files there are
  outputs,     \* what the prediction files were made from, or NoFile
  seal,        \* prediction_freeze.json, or NoFile
  planner,     \* per planner: its step and the matrix it hashed
  freezer,     \* per freezer: its step and what it has read
  stamped,     \* the freezers that have taken the time frozen_at_utc
  run          \* per run: its step, and whether it was claimed after the stamp

vars == <<input, protocol, amendments, outputs, seal, planner, freezer, stamped, run>>

Bound == [Inputs -> Versions]
Made == [first : Bound, using : Bound, by : Freezers]
Seal == [protocol : Bound, amendments : Versions, outputs : Made, code : Versions, by : Freezers]

ASSUME FreezeAssumption ==
  /\ MaxEdits \in Nat
  /\ NoFile \notin Bound /\ NoFile \notin Made /\ NoFile \notin Seal

Nothing == [x \in Inputs |-> 0]

TypeOK ==
  /\ input \in Bound
  /\ protocol \in Bound \cup {NoFile}
  /\ amendments \in Versions
  /\ outputs \in Made \cup {NoFile}
  /\ seal \in Seal \cup {NoFile}
  /\ planner \in [Planners -> {"idle", "matrix", "hashed", "done", "failed"} \X Versions]
  /\ freezer \in [Freezers -> [at : {"idle", "read", "fitted", "checked", "written",
                                     "stamped", "done", "failed"},
                               made : Made, amendments : Versions]]
  /\ stamped \subseteq Freezers
  /\ run \in [Runs -> [at : {"idle", "claimed", "launched", "rejected"},
                       stamp : SUBSET Freezers, whole : BOOLEAN]]

Init ==
  /\ input = Nothing
  /\ protocol = NoFile /\ amendments = 0
  /\ outputs = NoFile /\ seal = NoFile /\ stamped = {}
  /\ planner = [p \in Planners |-> <<"idle", 0>>]
  /\ freezer = [f \in Freezers |->
       [at |-> "idle", amendments |-> 0,
        made |-> [first |-> Nothing, using |-> Nothing, by |-> f]]]
  /\ run = [r \in Runs |-> [at |-> "idle", stamp |-> {}, whole |-> FALSE]]

-----------------------------------------------------------------------------
(* People: an input is edited; an amendment binds the code as it now is    *)
(* (it may change nothing else, and says it precedes the execution).       *)

Edit(x) ==
  /\ input[x] < MaxEdits /\ x # "matrix"
  /\ input' = [input EXCEPT ![x] = @ + 1]
  /\ UNCHANGED <<protocol, amendments, outputs, seal, planner, freezer, stamped, run>>

Amend ==
  /\ protocol # NoFile /\ amendments < MaxEdits
  /\ amendments' = amendments + 1
  /\ protocol' = [protocol EXCEPT !["code"] = input["code"]]
  /\ UNCHANGED <<input, outputs, seal, planner, freezer, stamped, run>>

-----------------------------------------------------------------------------
(* The planner: it refuses a directory that has a matrix or a protocol,    *)
(* writes the matrix over whatever is there by then, hashes all inputs and *)
(* creates the protocol, which fails if there is one.  A planner that is   *)
(* killed between the two leaves a directory nobody can plan in.           *)

Plan(p, step, m) == planner' = [planner EXCEPT ![p] = <<step, m>>]
Others == <<amendments, outputs, seal, freezer, stamped, run>>

PlanChecks(p) ==
  /\ planner[p][1] = "idle"
  /\ Plan(p, IF protocol # NoFile \/ input["matrix"] # 0 THEN "failed" ELSE "matrix", 0)
  /\ UNCHANGED <<input, protocol, Others>>

PlanWrites(p) ==
  /\ planner[p][1] = "matrix"
  /\ input' = [input EXCEPT !["matrix"] = @ + 1]
  /\ Plan(p, "hashed", input["matrix"] + 1)
  /\ UNCHANGED <<protocol, Others>>

PlanEnds(p) ==
  /\ planner[p][1] = "hashed"
  /\ IF protocol = NoFile
     THEN /\ \E m \in planner[p][2]..input["matrix"] : protocol' = [input EXCEPT !["matrix"] = m]
          /\ Plan(p, "done", 0)
     ELSE Plan(p, "failed", 0) /\ UNCHANGED protocol
  /\ UNCHANGED <<input, Others>>

-----------------------------------------------------------------------------
(* freeze: load_protocol, fit and predict, load_protocol again and compare, *)
(* write the outputs (each file exclusively), take the time, seal.          *)

Step(f, step) == freezer' = [freezer EXCEPT ![f].at = step]
FreezerIdle == <<input, protocol, amendments, planner, run>>

Loads == protocol # NoFile /\ protocol = input

FirstLoad(f) ==
  /\ freezer[f].at = "idle"
  /\ IF Loads
     THEN freezer' = [freezer EXCEPT ![f].at = "read", ![f].made.first = protocol,
                                     ![f].amendments = amendments]
     ELSE Step(f, "failed")
  /\ UNCHANGED <<outputs, seal, stamped, FreezerIdle>>

Fit(f) ==
  /\ freezer[f].at = "read"
  /\ freezer' = [freezer EXCEPT ![f].at = "fitted", ![f].made.using = input]
  /\ UNCHANGED <<outputs, seal, stamped, FreezerIdle>>

SecondLoad(f) ==
  /\ freezer[f].at = "fitted"
  /\ Step(f, IF Loads /\ protocol = freezer[f].made.first /\ amendments = freezer[f].amendments
             THEN "checked" ELSE "failed")
  /\ UNCHANGED <<outputs, seal, stamped, FreezerIdle>>

WriteOutputs(f) ==
  /\ freezer[f].at = "checked"
  /\ IF outputs = NoFile
     THEN outputs' = freezer[f].made /\ Step(f, "written")
     ELSE UNCHANGED outputs /\ Step(f, "failed")
  /\ UNCHANGED <<seal, stamped, FreezerIdle>>

(* A mutant: the time is taken when the fitting starts.                    *)
MutantStamp(f) ==
  \/ /\ freezer[f].at = "read" /\ f \notin stamped
     /\ stamped' = stamped \cup {f}
     /\ UNCHANGED <<freezer, outputs, seal, FreezerIdle>>
  \/ /\ freezer[f].at = "written" /\ f \in stamped
     /\ Step(f, "stamped")
     /\ UNCHANGED <<stamped, outputs, seal, FreezerIdle>>
Stamp(f) ==
  /\ freezer[f].at = "written"
  /\ stamped' = stamped \cup {f}
  /\ Step(f, "stamped")
  /\ UNCHANGED <<outputs, seal, FreezerIdle>>

(* A mutant: the seal names the protocol as it is by then.                 *)
MutantWriteSeal(f) ==
  /\ freezer[f].at = "stamped"
  /\ IF seal = NoFile
     THEN /\ seal' = [protocol |-> protocol, amendments |-> amendments,
                      outputs |-> outputs, code |-> input["code"], by |-> f]
          /\ Step(f, "done")
     ELSE UNCHANGED seal /\ Step(f, "failed")
  /\ UNCHANGED <<outputs, stamped, FreezerIdle>>
WriteSeal(f) ==
  /\ freezer[f].at = "stamped"
  /\ IF seal = NoFile
     THEN /\ seal' = [protocol |-> freezer[f].made.first, amendments |-> freezer[f].amendments,
                      outputs |-> outputs, code |-> input["code"], by |-> f]
          /\ Step(f, "done")
     ELSE UNCHANGED seal /\ Step(f, "failed")
  /\ UNCHANGED <<outputs, stamped, FreezerIdle>>

-----------------------------------------------------------------------------
(* A runner claims its pair, then verifies protocol, amendments, seal and  *)
(* inputs, and launches or rejects.                                        *)
Binds ==
  /\ seal # NoFile /\ Loads
  /\ seal.protocol = protocol /\ seal.amendments = amendments
  /\ seal.outputs = outputs

Claim(r) ==
  /\ run[r].at = "idle"
  /\ run' = [run EXCEPT ![r] = [at |-> "claimed", stamp |-> stamped, whole |-> outputs # NoFile]]
  /\ UNCHANGED <<input, protocol, amendments, outputs, seal, planner, freezer, stamped>>

Launch(r) ==
  /\ run[r].at = "claimed"
  /\ run' = [run EXCEPT ![r].at = IF Binds THEN "launched" ELSE "rejected"]
  /\ UNCHANGED <<input, protocol, amendments, outputs, seal, planner, freezer, stamped>>

(* load_frozen and the chronology rule of validate_pair: what the collector *)
(* accepts at this moment.                                                  *)
AcceptsFreeze == Binds /\ seal.code = protocol["code"] /\ seal.code = input["code"]
AcceptsRun(r) == AcceptsFreeze /\ run[r].at = "launched" /\ seal.by \in run[r].stamp

Next ==
  \/ \E x \in Inputs : Edit(x)
  \/ Amend
  \/ \E p \in Planners : PlanChecks(p) \/ PlanWrites(p) \/ PlanEnds(p)
  \/ \E f \in Freezers : \/ FirstLoad(f) \/ Fit(f) \/ SecondLoad(f)
                         \/ WriteOutputs(f) \/ Stamp(f) \/ WriteSeal(f)
  \/ \E r \in Runs : Claim(r) \/ Launch(r)

Spec == Init /\ [][Next]_vars

-----------------------------------------------------------------------------
(* A freeze the collector accepts was made from the inputs it binds, which *)
(* stood still while it was made: source record, settings and code were    *)
(* read in the versions that protocol and seal name, though none is locked *)
(* and the protocol itself may be amended beside the freezer.              *)
AcceptedMeansSealedInputs ==
  AcceptsFreeze => seal.outputs.using = protocol /\ seal.outputs.first = protocol

(* An accepted outcome came after the predictions: when its pair was       *)
(* claimed, the files that are scored against it had been written.         *)
PredictedBeforeClaimed == \A r \in Runs : AcceptsRun(r) => run[r].whole
=============================================================================
