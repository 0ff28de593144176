---------------------------- MODULE Records_proofs ----------------------------
(***************************************************************************)
(* Records that are sealed while they may still grow.  An accepted freeze  *)
(* was made from the inputs it names, and an accepted outcome came after   *)
(* its predictions; a follow-up inherits what the original sealed; and a   *)
(* publication overlooks nothing that had begun.  For any number of        *)
(* planners, freezers, runs, makers, pairs, slots and collectors.          *)
(***************************************************************************)
EXTENDS MCRecords, Sequences, TLAPS

-----------------------------------------------------------------------------
(* The freeze.                                                             *)

Held == {"written", "stamped"}   \* where a freezer's outputs are on disk

(* Inputs only grow: what is read at three moments and is the same at the  *)
(* first and the last is the same in between.                              *)
Bracketed ==
  \A f \in Freezers :
    LET made == freezer[f].made
    IN /\ freezer[f].at \in {"read", "fitted"} => \A x \in Inputs : made.first[x] <= input[x]
       /\ freezer[f].at = "fitted" =>
            \A x \in Inputs : made.first[x] <= made.using[x] /\ made.using[x] <= input[x]
       /\ freezer[f].at \in {"checked"} \cup Held => made.using = made.first

(* The outputs are those of the one freezer that wrote them, and the seal  *)
(* names them.                                                             *)
OneWriter ==
  /\ \A f \in Freezers : freezer[f].at \in Held => outputs = freezer[f].made
  /\ outputs # NoFile => outputs.using = outputs.first
  /\ seal # NoFile => seal.outputs.using = seal.outputs.first /\ seal.outputs.first = seal.protocol

(* Nobody has taken the time before the outputs were there.                *)
StampedAfter ==
  /\ stamped # {} => outputs # NoFile
  /\ \A r \in Runs : run[r].stamp # {} => run[r].whole

FreezeInv == TypeOK /\ Bracketed /\ OneWriter /\ StampedAfter

-----------------------------------------------------------------------------
LEMMA InitFreeze == Init => FreezeInv
<1> SUFFICES ASSUME Init PROVE FreezeInv
  OBVIOUS
<1> USE FreezeAssumption
<1>1. TypeOK
  BY DEF Init, TypeOK, Bound, Made, Seal, Versions, Nothing, Inputs
<1>2. Bracketed /\ OneWriter /\ StampedAfter
  BY DEF Init, Bracketed, OneWriter, StampedAfter, Held
<1> QED BY <1>1, <1>2 DEF FreezeInv

(* The types of the files people and planners write.                       *)
LEMMA InputsTyped ==
  ASSUME TypeOK, Next PROVE input' \in Bound /\ protocol' \in Bound \cup {NoFile} /\ amendments' \in Versions
<1>1. ASSUME NEW x \in Inputs, Edit(x)
      PROVE  input' \in Bound /\ protocol' = protocol /\ amendments' = amendments
  BY <1>1 DEF Edit, TypeOK, Bound, Versions
<1>2. CASE Amend
  BY <1>2 DEF Amend, TypeOK, Bound, Versions, Inputs
<1>3. ASSUME NEW p \in Planners, PlanChecks(p)
      PROVE  UNCHANGED <<input, protocol, amendments>>
  BY <1>3 DEF PlanChecks, Others
<1>4. ASSUME NEW p \in Planners, PlanWrites(p)
      PROVE  input' \in Bound /\ UNCHANGED <<protocol, amendments>>
  BY <1>4 DEF PlanWrites, Others, TypeOK, Bound, Versions, Inputs
<1>5. ASSUME NEW p \in Planners, PlanEnds(p)
      PROVE  protocol' \in Bound \cup {NoFile} /\ UNCHANGED <<input, amendments>>
  <2>1. planner[p][2] \in Nat /\ input["matrix"] \in Nat
    BY DEF TypeOK, Bound, Versions, Inputs
  <2>2. \A m \in planner[p][2]..input["matrix"] : [input EXCEPT !["matrix"] = m] \in Bound
    BY <2>1 DEF TypeOK, Bound, Versions, Inputs
  <2> QED BY <1>5, <2>2 DEF PlanEnds, Others, TypeOK
<1>6. ASSUME NEW f \in Freezers,
             FirstLoad(f) \/ Fit(f) \/ SecondLoad(f) \/ WriteOutputs(f) \/ Stamp(f) \/ WriteSeal(f)
      PROVE  UNCHANGED <<input, protocol, amendments>>
  BY <1>6 DEF FirstLoad, Fit, SecondLoad, WriteOutputs, Stamp, WriteSeal, FreezerIdle
<1>7. ASSUME NEW r \in Runs, Claim(r) \/ Launch(r)
      PROVE  UNCHANGED <<input, protocol, amendments>>
  BY <1>7 DEF Claim, Launch
<1> QED BY <1>1, <1>2, <1>3, <1>4, <1>5, <1>6, <1>7 DEF Next, TypeOK

(* No step makes a version smaller.                                        *)
LEMMA InputsGrow ==
  ASSUME TypeOK, Next, NEW x \in Inputs PROVE input[x] <= input'[x]
<1>1. input \in [Inputs -> Nat]
  BY DEF TypeOK, Bound, Versions
<1>2. ASSUME NEW y \in Inputs, Edit(y) PROVE input[x] <= input'[x]
  BY <1>1, <1>2 DEF Edit
<1>3. CASE Amend
  BY <1>1, <1>3 DEF Amend
<1>4. ASSUME NEW p \in Planners, PlanChecks(p) \/ PlanEnds(p) PROVE input[x] <= input'[x]
  BY <1>1, <1>4 DEF PlanChecks, PlanEnds, Others
<1>5. ASSUME NEW p \in Planners, PlanWrites(p) PROVE input[x] <= input'[x]
  BY <1>1, <1>5 DEF PlanWrites, Inputs
<1>6. ASSUME NEW f \in Freezers,
             FirstLoad(f) \/ Fit(f) \/ SecondLoad(f) \/ WriteOutputs(f) \/ Stamp(f) \/ WriteSeal(f)
      PROVE  input[x] <= input'[x]
  BY <1>1, <1>6 DEF FirstLoad, Fit, SecondLoad, WriteOutputs, Stamp, WriteSeal, FreezerIdle
<1>7. ASSUME NEW r \in Runs, Claim(r) \/ Launch(r) PROVE input[x] <= input'[x]
  BY <1>1, <1>7 DEF Claim, Launch
<1> QED BY <1>2, <1>3, <1>4, <1>5, <1>6, <1>7 DEF Next

(* What only a planner, a freezer or a run changes keeps its type.         *)
LEMMA TypeStep == TypeOK /\ OneWriter /\ Next => TypeOK'
<1> SUFFICES ASSUME TypeOK, OneWriter, Next PROVE TypeOK'
  OBVIOUS
<1>0. input' \in Bound /\ protocol' \in Bound \cup {NoFile} /\ amendments' \in Versions
  BY InputsTyped
<1> DEFINE Made4 == outputs' \in Made \cup {NoFile} /\ seal' \in Seal \cup {NoFile} /\ stamped' \subseteq Freezers
           Steps == {"idle", "read", "fitted", "checked", "written", "stamped", "done", "failed"}
           FreezerSet == [at : Steps, made : Made, amendments : Versions]
           RunSet == [at : {"idle", "claimed", "launched", "rejected"}, stamp : SUBSET Freezers, whole : BOOLEAN]
           PlannerSet == {"idle", "matrix", "hashed", "done", "failed"} \X Versions
<1>t. /\ outputs \in Made \cup {NoFile} /\ seal \in Seal \cup {NoFile} /\ stamped \subseteq Freezers
      /\ freezer \in [Freezers -> FreezerSet] /\ run \in [Runs -> RunSet]
      /\ planner \in [Planners -> PlannerSet]
  BY DEF TypeOK
<1>1. ASSUME NEW x \in Inputs, Edit(x)
      PROVE  UNCHANGED <<outputs, seal, stamped, freezer, run, planner>>
  BY <1>1 DEF Edit
<1>2. CASE Amend
  <2> QED BY <1>0, <1>2 DEF Amend, TypeOK
<1>3. ASSUME NEW p \in Planners, PlanChecks(p) \/ PlanWrites(p) \/ PlanEnds(p)
      PROVE  planner' \in [Planners -> PlannerSet] /\ UNCHANGED <<outputs, seal, stamped, freezer, run>>
  <2>1. input["matrix"] + 1 \in Versions /\ 0 \in Versions
    BY DEF TypeOK, Bound, Versions, Inputs
  <2>2. \A step \in {"failed", "matrix", "hashed", "done"}, m \in Versions :
          Plan(p, step, m) => planner' \in [Planners -> PlannerSet]
    BY <1>t DEF Plan
  <2> QED BY <1>3, <2>1, <2>2 DEF PlanChecks, PlanWrites, PlanEnds, Others
<1>4. ASSUME NEW f \in Freezers,
             FirstLoad(f) \/ Fit(f) \/ SecondLoad(f) \/ WriteOutputs(f) \/ Stamp(f) \/ WriteSeal(f)
      PROVE  Made4 /\ freezer' \in [Freezers -> FreezerSet] /\ UNCHANGED <<run, planner>>
  <2>0. /\ freezer[f] \in FreezerSet /\ freezer[f].made \in Made /\ freezer[f].amendments \in Versions
        /\ input \in Bound /\ input["code"] \in Versions /\ amendments \in Versions
        /\ protocol \in Bound \cup {NoFile}
    BY <1>t DEF TypeOK, Bound, Inputs
  <2>s. \A step \in Steps : Step(f, step) => freezer' \in [Freezers -> FreezerSet]
    BY <1>t DEF Step
  <2>1. CASE FirstLoad(f)
    <3>1. CASE Loads
      <4>1. freezer' = [freezer EXCEPT ![f].at = "read", ![f].made.first = protocol,
                                       ![f].amendments = amendments]
        BY <2>1, <3>1 DEF FirstLoad
      <4>2. protocol \in Bound
        BY <2>0, <3>1 DEF Loads
      <4>3. freezer' \in [Freezers -> FreezerSet]
        BY <1>t, <2>0, <4>1, <4>2 DEF Made
      <4> QED BY <1>t, <2>1, <4>3 DEF FirstLoad, FreezerIdle
    <3>2. CASE ~Loads
      BY <1>t, <2>1, <2>s, <3>2 DEF FirstLoad, FreezerIdle
    <3> QED BY <3>1, <3>2
  <2>2. CASE Fit(f)
    <3>1. freezer' \in [Freezers -> FreezerSet]
      BY <1>t, <2>0, <2>2 DEF Fit, Made
    <3> QED BY <1>t, <2>2, <3>1 DEF Fit, FreezerIdle
  <2>3. CASE SecondLoad(f)
    BY <1>t, <2>3, <2>s DEF SecondLoad, FreezerIdle
  <2>4. CASE WriteOutputs(f)
    BY <1>t, <2>0, <2>4, <2>s DEF WriteOutputs, FreezerIdle
  <2>5. CASE Stamp(f)
    BY <1>t, <2>5, <2>s DEF Stamp, FreezerIdle
  <2>6. CASE WriteSeal(f)
    <3>1. Step(f, "done") \/ Step(f, "failed")
      BY <2>6, Zenon DEF WriteSeal
    <3>2. freezer' \in [Freezers -> FreezerSet]
      BY <3>1, <2>s
    <3>3. [protocol |-> freezer[f].made.first, amendments |-> freezer[f].amendments,
           outputs |-> outputs, code |-> input["code"], by |-> f] \in Seal
      <4>1. freezer[f].made.first \in Bound
        BY <2>0 DEF Made
      <4>2. outputs \in Made
        BY <2>0, <2>6 DEF WriteSeal, OneWriter, Held
      <4> QED BY <2>0, <4>1, <4>2 DEF Seal
    <3> QED BY <1>t, <2>6, <3>2, <3>3 DEF WriteSeal, FreezerIdle
  <2> QED BY <1>4, <2>1, <2>2, <2>3, <2>4, <2>5, <2>6
<1>5. ASSUME NEW r \in Runs, Claim(r) \/ Launch(r)
      PROVE  run' \in [Runs -> RunSet] /\ UNCHANGED <<outputs, seal, stamped, freezer, planner>>
  <2>1. (outputs # NoFile) \in BOOLEAN
    OBVIOUS
  <2>2. CASE Claim(r)
    BY <1>t, <2>1, <2>2 DEF Claim
  <2>3. CASE Launch(r)
    BY <1>t, <2>3 DEF Launch
  <2> QED BY <1>5, <2>2, <2>3
<1> QED BY <1>0, <1>t, <1>1, <1>2, <1>3, <1>4, <1>5 DEF Next, TypeOK

-----------------------------------------------------------------------------
(* The steps of freezers; everyone else leaves what they have alone.       *)
FreezerStep(f) == FirstLoad(f) \/ Fit(f) \/ SecondLoad(f) \/ WriteOutputs(f) \/ Stamp(f) \/ WriteSeal(f)

LEMMA OthersStutter ==
  ASSUME Next
  PROVE  (\E f \in Freezers : FreezerStep(f)) \/ UNCHANGED <<outputs, seal, stamped, freezer>>
BY Zenon DEF Next, FreezerStep, Edit, Amend, PlanChecks, PlanWrites, PlanEnds, Others, Claim, Launch

(* A step changes the one freezer that takes it.                           *)
LEMMA OneFreezer ==
  ASSUME TypeOK, NEW f \in Freezers, FreezerStep(f), NEW g \in Freezers, g # f
  PROVE  freezer'[g] = freezer[g]
<1>1. freezer = [h \in Freezers |-> freezer[h]]
  BY DEF TypeOK
<1>2. ASSUME NEW step, Step(f, step) PROVE freezer'[g] = freezer[g]
  BY <1>1, <1>2 DEF Step
<1>3. CASE FirstLoad(f)
  <2>1. CASE Loads
    BY <1>1, <1>3, <2>1 DEF FirstLoad
  <2>2. CASE ~Loads
    BY <1>2, <1>3, <2>2 DEF FirstLoad
  <2> QED BY <2>1, <2>2
<1>4. CASE Fit(f)
  BY <1>1, <1>4 DEF Fit
<1>5. CASE SecondLoad(f) \/ WriteOutputs(f) \/ Stamp(f) \/ WriteSeal(f)
  BY <1>2, <1>5, Zenon DEF SecondLoad, WriteOutputs, Stamp, WriteSeal
<1> QED BY <1>3, <1>4, <1>5 DEF FreezerStep

(* What the step makes of its own freezer.                                 *)
LEMMA OwnFreezer ==
  ASSUME TypeOK, NEW f \in Freezers, NEW step, Step(f, step)
  PROVE  freezer'[f].at = step /\ freezer'[f].made = freezer[f].made
<1>1. freezer = [h \in Freezers |-> freezer[h]] /\ freezer[f] \in
        [at : {"idle", "read", "fitted", "checked", "written", "stamped", "done", "failed"},
         made : Made, amendments : Versions]
  BY DEF TypeOK
<1> QED BY <1>1 DEF Step

LEMMA BracketStep == TypeOK /\ Bracketed /\ Next => Bracketed'
<1> SUFFICES ASSUME TypeOK, Bracketed, Next, NEW g \in Freezers
    PROVE  LET made == freezer'[g].made
           IN /\ freezer'[g].at \in {"read", "fitted"} => \A x \in Inputs : made.first[x] <= input'[x]
              /\ freezer'[g].at = "fitted" =>
                   \A x \in Inputs : made.first[x] <= made.using[x] /\ made.using[x] <= input'[x]
              /\ freezer'[g].at \in {"checked"} \cup Held => made.using = made.first
  BY DEF Bracketed
<1>t. /\ freezer[g].made.first \in [Inputs -> Nat] /\ freezer[g].made.using \in [Inputs -> Nat]
      /\ input \in [Inputs -> Nat] /\ input' \in [Inputs -> Nat]
  <2>1. input' \in Bound
    BY InputsTyped
  <2>2. freezer[g].made \in Made
    BY DEF TypeOK
  <2> QED BY <2>1, <2>2 DEF TypeOK, Made, Bound, Versions
<1>g. \A x \in Inputs : input[x] <= input'[x]
  BY InputsGrow
<1>s. CASE freezer'[g] = freezer[g]
  BY <1>t, <1>g, <1>s DEF Bracketed
<1>o. ASSUME FreezerStep(g), freezer'[g] # freezer[g]
      PROVE  LET made == freezer'[g].made
             IN /\ freezer'[g].at \in {"read", "fitted"} => \A x \in Inputs : made.first[x] <= input'[x]
                /\ freezer'[g].at = "fitted" =>
                     \A x \in Inputs : made.first[x] <= made.using[x] /\ made.using[x] <= input'[x]
                /\ freezer'[g].at \in {"checked"} \cup Held => made.using = made.first
  <2>f. freezer = [h \in Freezers |-> freezer[h]] /\ freezer[g] = [at |-> freezer[g].at,
          made |-> freezer[g].made, amendments |-> freezer[g].amendments]
        /\ freezer[g].made = [first |-> freezer[g].made.first, using |-> freezer[g].made.using,
                              by |-> freezer[g].made.by]
    <3>1. freezer[g] \in [at : {"idle", "read", "fitted", "checked", "written", "stamped", "done", "failed"},
                          made : Made, amendments : Versions]
      BY DEF TypeOK
    <3>2. freezer[g].made \in [first : Bound, using : Bound, by : Freezers]
      BY <3>1 DEF Made
    <3> QED BY <3>1, <3>2 DEF TypeOK
  <2>1. CASE FirstLoad(g)
    <3>1. CASE Loads
      <4>1. freezer'[g].at = "read" /\ freezer'[g].made.first = protocol /\ protocol = input
        <5>1. freezer' = [freezer EXCEPT ![g].at = "read", ![g].made.first = protocol,
                                         ![g].amendments = amendments]
          BY <2>1, <3>1 DEF FirstLoad
        <5>2. freezer'[g] = [freezer[g] EXCEPT !.at = "read", !.made.first = protocol,
                                               !.amendments = amendments]
          BY <2>f, <5>1, Zenon
        <5>3. freezer'[g].at = "read" /\ freezer'[g].made.first = protocol
          BY <2>f, <5>2
        <5> QED BY <3>1, <5>3 DEF Loads
      <4> QED BY <4>1, <1>t, <1>g DEF Held
    <3>2. CASE ~Loads
      <4>1. Step(g, "failed")
        BY <2>1, <3>2, Zenon DEF FirstLoad
      <4> QED BY <4>1, OwnFreezer DEF Held
    <3> QED BY <3>1, <3>2
  <2>2. CASE Fit(g)
    <3>1. /\ freezer'[g].at = "fitted" /\ freezer'[g].made.using = input
          /\ freezer'[g].made.first = freezer[g].made.first /\ freezer[g].at = "read"
      BY <2>f, <2>2 DEF Fit
    <3> QED BY <3>1, <1>t, <1>g DEF Held, Bracketed
  <2>3. CASE SecondLoad(g)
    <3>1. CASE Step(g, "checked") /\ input = freezer[g].made.first /\ freezer[g].at = "fitted"
      <4>1. \A x \in Inputs : freezer[g].made.using[x] = freezer[g].made.first[x]
        BY <1>t, <3>1 DEF Bracketed
      <4>2. freezer[g].made.using = freezer[g].made.first
        BY <1>t, <4>1
      <4> QED BY <3>1, <4>2, OwnFreezer DEF Held
    <3>2. CASE Step(g, "failed")
      BY <3>2, OwnFreezer DEF Held
    <3> QED BY <2>3, <3>1, <3>2 DEF SecondLoad, Loads
  <2>4. CASE WriteOutputs(g)
    <3>1. (Step(g, "written") \/ Step(g, "failed")) /\ freezer[g].at = "checked"
      BY <2>4, Zenon DEF WriteOutputs
    <3> QED BY <3>1, OwnFreezer DEF Held, Bracketed
  <2>5. CASE Stamp(g)
    <3>1. Step(g, "stamped") /\ freezer[g].at = "written"
      BY <2>5, Zenon DEF Stamp
    <3> QED BY <3>1, OwnFreezer DEF Held, Bracketed
  <2>6. CASE WriteSeal(g)
    <3>1. Step(g, "done") \/ Step(g, "failed")
      BY <2>6, Zenon DEF WriteSeal
    <3> QED BY <3>1, OwnFreezer DEF Held
  <2> QED BY <1>o, <2>1, <2>2, <2>3, <2>4, <2>5, <2>6 DEF FreezerStep
<1> QED BY <1>s, <1>o, OneFreezer, OthersStutter

(* Outputs that are there are never those of nobody.                       *)
LEMMA MadeIsFile ==
  ASSUME TypeOK, NEW f \in Freezers PROVE freezer[f].made \in Made /\ freezer[f].made # NoFile
<1>1. freezer[f].made \in Made
  BY DEF TypeOK
<1> QED BY <1>1, FreezeAssumption

LEMMA WriterStep == TypeOK /\ Bracketed /\ OneWriter /\ Next => OneWriter'
<1> SUFFICES ASSUME TypeOK, Bracketed, OneWriter, Next PROVE OneWriter'
  OBVIOUS
<1>u. CASE UNCHANGED <<outputs, seal, stamped, freezer>>
  BY <1>u DEF OneWriter
<1>f. ASSUME NEW f \in Freezers, FreezerStep(f) PROVE OneWriter'
  <2>g. \A g \in Freezers : g # f => freezer'[g] = freezer[g]
    BY <1>f, OneFreezer
  <2>q. ASSUME UNCHANGED <<outputs, seal>>,
               freezer'[f].at \in Held => freezer[f].at \in Held /\ freezer'[f].made = freezer[f].made
        PROVE  OneWriter'
    <3>1. \A g \in Freezers : freezer'[g].at \in Held => outputs = freezer'[g].made
      BY <2>g, <2>q DEF OneWriter
    <3> QED BY <2>q, <3>1 DEF OneWriter
  <2>1. CASE FirstLoad(f) \/ Fit(f) \/ SecondLoad(f)
    <3>1. freezer'[f].at \notin Held
      <4>1. CASE FirstLoad(f)
        <5>1. CASE Loads
          <6>1. freezer' = [freezer EXCEPT ![f].at = "read", ![f].made.first = protocol,
                                           ![f].amendments = amendments]
            BY <4>1, <5>1 DEF FirstLoad
          <6>2. freezer'[f] = [freezer[f] EXCEPT !.at = "read", !.made.first = protocol,
                                                 !.amendments = amendments]
            BY <6>1, Zenon DEF TypeOK
          <6>3. freezer[f] \in [at : {"idle", "read", "fitted", "checked", "written", "stamped", "done", "failed"},
                                made : Made, amendments : Versions]
            BY DEF TypeOK
          <6> QED BY <6>2, <6>3 DEF Held
        <5>2. CASE ~Loads
          <6>1. Step(f, "failed")
            BY <4>1, <5>2, Zenon DEF FirstLoad
          <6> QED BY <6>1, OwnFreezer DEF Held
        <5> QED BY <5>1, <5>2
      <4>2. CASE Fit(f)
        BY <4>2 DEF Fit, TypeOK, Held
      <4>3. CASE SecondLoad(f)
        <5>1. Step(f, "checked") \/ Step(f, "failed")
          BY <4>3, Zenon DEF SecondLoad
        <5> QED BY <5>1, OwnFreezer DEF Held
      <4> QED BY <2>1, <4>1, <4>2, <4>3
    <3>2. UNCHANGED <<outputs, seal>>
      BY <2>1, Zenon DEF FirstLoad, Fit, SecondLoad
    <3> QED BY <2>q, <3>1, <3>2
  <2>4. CASE WriteOutputs(f)
    <3>1. CASE outputs = NoFile
      <4>1. outputs' = freezer[f].made /\ Step(f, "written") /\ seal' = seal /\ freezer[f].at = "checked"
        BY <2>4, <3>1, Zenon DEF WriteOutputs
      <4>2. freezer'[f].made = freezer[f].made /\ freezer[f].made.using = freezer[f].made.first
        BY <4>1, OwnFreezer DEF Bracketed
      <4>3. ASSUME NEW g \in Freezers, freezer'[g].at \in Held PROVE outputs' = freezer'[g].made
        <5>1. CASE g = f
          BY <4>1, <4>2, <5>1
        <5>2. CASE g # f
          BY <2>g, <3>1, <4>3, <5>2, MadeIsFile DEF OneWriter
        <5> QED BY <5>1, <5>2
      <4> QED BY <4>1, <4>2, <4>3 DEF OneWriter
    <3>2. CASE outputs # NoFile
      <4>1. Step(f, "failed") /\ UNCHANGED <<outputs, seal>>
        BY <2>4, <3>2, Zenon DEF WriteOutputs
      <4> QED BY <2>q, <4>1, OwnFreezer DEF Held
    <3> QED BY <3>1, <3>2
  <2>5. CASE Stamp(f)
    <3>1. Step(f, "stamped") /\ freezer[f].at = "written" /\ UNCHANGED <<outputs, seal>>
      BY <2>5, Zenon DEF Stamp
    <3> QED BY <2>q, <3>1, OwnFreezer DEF Held
  <2>6. CASE WriteSeal(f)
    <3>1. (Step(f, "done") \/ Step(f, "failed")) /\ outputs' = outputs /\ freezer[f].at = "stamped"
      BY <2>6, Zenon DEF WriteSeal
    <3>2. freezer'[f].at \notin Held
      BY <3>1, OwnFreezer DEF Held
    <3>3. \A g \in Freezers : freezer'[g].at \in Held => outputs' = freezer'[g].made
      BY <2>g, <3>1, <3>2 DEF OneWriter
    <3>4. seal' # NoFile => seal'.outputs.using = seal'.outputs.first /\ seal'.outputs.first = seal'.protocol
      <4>1. CASE seal' = seal
        BY <4>1 DEF OneWriter
      <4>2. CASE seal' = [protocol |-> freezer[f].made.first, amendments |-> freezer[f].amendments,
                          outputs |-> outputs, code |-> input["code"], by |-> f]
        <5>1. outputs = freezer[f].made /\ outputs # NoFile
          BY <3>1, MadeIsFile DEF OneWriter, Held
        <5>2. outputs.using = outputs.first
          BY <5>1 DEF OneWriter
        <5> QED BY <4>2, <5>1, <5>2
      <4> QED BY <2>6, <4>1, <4>2, Zenon DEF WriteSeal
    <3> QED BY <3>1, <3>3, <3>4 DEF OneWriter
  <2> QED BY <1>f, <2>1, <2>4, <2>5, <2>6 DEF FreezerStep
<1> QED BY <1>u, <1>f, OthersStutter

LEMMA StampStep == TypeOK /\ OneWriter /\ StampedAfter /\ Next => StampedAfter'
<1> SUFFICES ASSUME TypeOK, OneWriter, StampedAfter, Next PROVE StampedAfter'
  OBVIOUS
<1>1. stamped' # {} => outputs' # NoFile
  <2>u. CASE UNCHANGED <<outputs, seal, stamped, freezer>>
    BY <2>u DEF StampedAfter
  <2>f. ASSUME NEW f \in Freezers, FreezerStep(f) PROVE stamped' # {} => outputs' # NoFile
    <3>1. CASE stamped' = stamped /\ outputs' = outputs
      BY <3>1 DEF StampedAfter
    <3>2. CASE WriteOutputs(f)
      BY <3>2, MadeIsFile DEF WriteOutputs, StampedAfter
    <3>3. CASE Stamp(f)
      BY <3>3, MadeIsFile DEF Stamp, OneWriter, Held
    <3> QED BY <2>f, <3>1, <3>2, <3>3, Zenon DEF FreezerStep, FirstLoad, Fit, SecondLoad, WriteSeal
  <2> QED BY <2>u, <2>f, OthersStutter
<1>2. ASSUME NEW r \in Runs, run'[r].stamp # {} PROVE run'[r].whole
  <2>1. CASE run' = run
    BY <1>2, <2>1 DEF StampedAfter
  <2>2. ASSUME NEW q \in Runs, Claim(q) PROVE run'[r].whole
    <3>1. CASE r = q
      BY <1>2, <2>2, <3>1 DEF Claim, TypeOK, StampedAfter
    <3>2. CASE r # q
      BY <1>2, <2>2, <3>2 DEF Claim, TypeOK, StampedAfter
    <3> QED BY <3>1, <3>2
  <2>3. ASSUME NEW q \in Runs, Launch(q) PROVE run'[r].whole
    <3>1. run'[r].stamp = run[r].stamp /\ run'[r].whole = run[r].whole
      BY <2>3 DEF Launch, TypeOK
    <3> QED BY <1>2, <3>1 DEF StampedAfter
  <2> QED BY <2>1, <2>2, <2>3, Zenon DEF Next, Edit, Amend, PlanChecks, PlanWrites, PlanEnds, Others,
            FirstLoad, Fit, SecondLoad, WriteOutputs, Stamp, WriteSeal, FreezerIdle
<1> QED BY <1>1, <1>2 DEF StampedAfter

-----------------------------------------------------------------------------
(* The invariant, in every behaviour.                                      *)
THEOREM FreezeHolds == Spec => []FreezeInv
<1>1. FreezeInv /\ [Next]_vars => FreezeInv'
  <2>1. CASE Next
    BY <2>1, TypeStep, BracketStep, WriterStep, StampStep DEF FreezeInv
  <2>2. CASE UNCHANGED vars
    <3>1. TypeOK => TypeOK'
      BY <2>2 DEF vars, TypeOK
    <3>2. Bracketed /\ OneWriter /\ StampedAfter => (Bracketed /\ OneWriter /\ StampedAfter)'
      BY <2>2, Zenon DEF vars, Bracketed, OneWriter, StampedAfter
    <3> QED BY <3>1, <3>2 DEF FreezeInv
  <2> QED BY <2>1, <2>2
<1> QED BY <1>1, InitFreeze, PTL DEF Spec

(* A freeze the collector accepts was made from the inputs that protocol   *)
(* and seal bind (estimation_baselines.py: freeze, load_protocol).         *)
THEOREM SealedInputs == Spec => []AcceptedMeansSealedInputs
<1>1. FreezeInv => AcceptedMeansSealedInputs
  BY Zenon DEF FreezeInv, OneWriter, AcceptedMeansSealedInputs, AcceptsFreeze, Binds
<1> QED BY <1>1, FreezeHolds, PTL

(* An outcome is scored only against predictions that had been written     *)
(* when its pair was claimed (validate_pair).                              *)
THEOREM Predicted == Spec => []PredictedBeforeClaimed
<1>1. FreezeInv => PredictedBeforeClaimed
  BY Zenon DEF FreezeInv, StampedAfter, PredictedBeforeClaimed, AcceptsRun
<1> QED BY <1>1, FreezeHolds, PTL

-----------------------------------------------------------------------------
(* The follow-up.                                                          *)

Steps == {"idle", "anchored", "derived", "stamp", "freeze", "done", "failed"} \cup Followup!Names
Design == Followup!Names \ {"freeze"}
FollowupTyped ==
  /\ changed \subseteq Followup!Inherited /\ code \in {0, 1}
  /\ maker \in [Makers -> [at : Steps, derived : SUBSET Followup!Inherited, code : {0, 1}]]
  /\ DOMAIN file = Followup!Names /\ file["protocol"] \in {0, 1, NoFile}
  /\ \A n \in Followup!Inherited : file[n] \in (SUBSET Followup!Inherited) \cup {NoFile}
  /\ pair \in [Pairs -> [at : {"idle", "claimed", "launched", "rejected"},
                         stamp : SUBSET Makers, there : SUBSET Followup!Names]]

(* What a maker has written when it stands at a step.                      *)
Behind(step) ==
  IF step = "predictions" THEN {"matrix"}
  ELSE IF step = "protocol" THEN Followup!Inherited
  ELSE IF step \in {"stamp", "freeze", "done"} THEN Design ELSE {}
There == {n \in Followup!Names : file[n] # NoFile}

(* The time of a freeze is taken only over a whole design, and a claim that *)
(* comes after it finds that design.                                       *)
FollowupInv ==
  /\ FollowupTyped
  /\ \A m \in Makers : Behind(maker[m].at) \subseteq There
  /\ followed # {} => Design \subseteq There
  /\ followed \subseteq Makers
  /\ \A p \in Pairs : pair[p].stamp # {} => Design \subseteq pair[p].there

LEMMA InitFollowup == Followup!Init => FollowupInv
BY DEF Followup!Init, FollowupInv, FollowupTyped, Behind, There, Steps, Design, Followup!Names, Followup!Inherited

(* What is written is a file, and what is there stays there.               *)
LEMMA FilesStay ==
  ASSUME FollowupInv, Followup!Next
  PROVE  /\ DOMAIN file' = Followup!Names /\ file'["protocol"] \in {0, 1, NoFile}
         /\ \A n \in Followup!Inherited : file'[n] \in (SUBSET Followup!Inherited) \cup {NoFile}
         /\ There \cap Design \subseteq There'
         /\ changed' \subseteq Followup!Inherited /\ code' \in {0, 1}
         /\ \A m \in Makers, n \in Design : Followup!WriteFile(m, n, maker'[m].at) => n \in There'
<1> USE DEF Followup!Names, Followup!Inherited
<1>1. NoFile \notin {0, 1} /\ \A content \in SUBSET Followup!Inherited : content # NoFile
  BY FollowupAssumed DEF Followup!FollowupAssumption
<1>2. /\ DOMAIN file = Followup!Names /\ file["protocol"] \in {0, 1, NoFile}
      /\ \A n \in Followup!Inherited : file[n] \in (SUBSET Followup!Inherited) \cup {NoFile}
      /\ changed \subseteq Followup!Inherited /\ code \in {0, 1}
      /\ \A m \in Makers : maker[m].derived \subseteq Followup!Inherited /\ maker[m].code \in {0, 1}
  BY DEF FollowupInv, FollowupTyped
<1>3. ASSUME Followup!EditAny
      PROVE  /\ DOMAIN file' = Followup!Names /\ file'["protocol"] \in {0, 1, NoFile}
             /\ \A n \in Followup!Inherited : file'[n] \in (SUBSET Followup!Inherited) \cup {NoFile}
             /\ There \cap Design \subseteq There'
             /\ changed' \subseteq Followup!Inherited /\ code' \in {0, 1}
  <2>1. CASE UNCHANGED file
    <3>1. changed' \subseteq Followup!Inherited /\ code' \in {0, 1}
      <4>1. \/ \E n \in Followup!Inherited : changed' = Followup!Toggle(changed, n) /\ code' = code
            \/ code' = 1 - code /\ changed' = changed
            \/ UNCHANGED <<changed, code>>
        BY <1>3 DEF Followup!EditAny
      <4>2. \A n \in Followup!Inherited : Followup!Toggle(changed, n) \subseteq Followup!Inherited
        BY <1>2 DEF Followup!Toggle
      <4>3. 1 - code \in {0, 1}
        BY <1>2
      <4> QED
        BY <1>2, <4>1, <4>2, <4>3
    <3> QED
      BY <1>2, <2>1, <3>1 DEF There
  <2>2. ASSUME NEW n \in Followup!Inherited, file[n] # NoFile,
               file' = [file EXCEPT ![n] = Followup!Toggle(@, n)], UNCHANGED <<changed, code>>
        PROVE  /\ DOMAIN file' = Followup!Names /\ file'["protocol"] \in {0, 1, NoFile}
               /\ \A x \in Followup!Inherited : file'[x] \in (SUBSET Followup!Inherited) \cup {NoFile}
               /\ There \cap Design \subseteq There'
    <3>1. file'[n] \in SUBSET Followup!Inherited /\ \A x \in Followup!Names : x # n => file'[x] = file[x]
      BY <1>2, <2>2 DEF Followup!Toggle
    <3> QED
      BY <1>1, <1>2, <2>2, <3>1 DEF There, Design
  <2>3. \/ UNCHANGED file
        \/ \E n \in Followup!Inherited : /\ file[n] # NoFile /\ file' = [file EXCEPT ![n] = Followup!Toggle(@, n)]
                                         /\ UNCHANGED <<changed, code>>
    BY <1>3, Zenon DEF Followup!EditAny
  <2> QED
    BY <1>2, <2>1, <2>2, <2>3
<1>4. ASSUME NEW m \in Makers, NEW n \in Design, NEW next, Followup!WriteFile(m, n, next)
      PROVE  /\ DOMAIN file' = Followup!Names /\ file'["protocol"] \in {0, 1, NoFile}
             /\ \A x \in Followup!Inherited : file'[x] \in (SUBSET Followup!Inherited) \cup {NoFile}
             /\ There \cap Design \subseteq There' /\ n \in There'
  <2>1. file' = [file EXCEPT ![n] = IF n = "protocol" THEN maker[m].code ELSE maker[m].derived \cap {n}]
    BY <1>4 DEF Followup!WriteFile
  <2>2. /\ DOMAIN file' = Followup!Names /\ \A x \in Followup!Names : x # n => file'[x] = file[x]
        /\ n = "protocol" => file'[n] \in {0, 1}
        /\ n # "protocol" => file'[n] \in SUBSET Followup!Inherited
    BY <1>2, <2>1 DEF Design
  <2> QED
    BY <1>1, <1>2, <2>2 DEF There, Design
<1>5. ASSUME NEW m \in Makers, Followup!WriteFreeze(m)
      PROVE  DOMAIN file' = Followup!Names /\ \A n \in Design : file'[n] = file[n]
  BY <1>2, <1>5 DEF Followup!WriteFreeze, Design
<1>6. UNCHANGED <<changed, code>> \/ Followup!EditAny
  BY DEF Followup!Next, Followup!Freeze, Followup!CheckAnchor, Followup!Derive, Followup!MakeDirectory,
         Followup!WriteFile, Followup!StampNow, Followup!WriteFreeze, Followup!ClaimPair,
         Followup!VerifyProtocol, Followup!Quiet, Followup!people
<1>7. \/ UNCHANGED file
      \/ Followup!EditAny
      \/ \E m \in Makers : \/ Followup!WriteFreeze(m)
                           \/ \E n \in Design, next \in Steps : Followup!WriteFile(m, n, next)
  BY DEF Followup!Next, Followup!Freeze, Followup!CheckAnchor, Followup!Derive, Followup!MakeDirectory,
         Followup!StampNow, Followup!ClaimPair, Followup!VerifyProtocol, Design, Steps
<1>8. /\ DOMAIN file' = Followup!Names /\ file'["protocol"] \in {0, 1, NoFile}
      /\ \A n \in Followup!Inherited : file'[n] \in (SUBSET Followup!Inherited) \cup {NoFile}
      /\ There \cap Design \subseteq There'
  BY <1>2, <1>3, <1>4, <1>5, <1>7 DEF There, Design
<1>9. changed' \subseteq Followup!Inherited /\ code' \in {0, 1}
  BY <1>2, <1>3, <1>6
<1> QED
  BY <1>4, <1>8, <1>9

LEMMA MakersInOrder ==
  ASSUME FollowupInv, NEW m \in Makers, Followup!Freeze(m)
  PROVE  FollowupInv'
<1>1. Followup!Next
  BY DEF Followup!Next
<1>2. /\ There \cap Design \subseteq There' /\ maker \in [Makers -> [at : Steps, derived : SUBSET Followup!Inherited, code : {0, 1}]]
      /\ changed \subseteq Followup!Inherited /\ code \in {0, 1}
      /\ \A n \in Design : Followup!WriteFile(m, n, maker'[m].at) => n \in There'
  BY <1>1, FilesStay DEF FollowupInv, FollowupTyped
<1>3. /\ maker' \in [Makers -> [at : Steps, derived : SUBSET Followup!Inherited, code : {0, 1}]]
      /\ \A x \in Makers : x # m => maker'[x] = maker[x]
  BY <1>2 DEF Followup!Freeze, Followup!CheckAnchor, Followup!Derive, Followup!MakeDirectory,
     Followup!WriteFile, Followup!StampNow, Followup!WriteFreeze, Followup!Goto, Steps, Followup!Names, Followup!Inherited
<1>4. UNCHANGED pair
  BY DEF Followup!Freeze, Followup!CheckAnchor, Followup!Derive, Followup!MakeDirectory,
         Followup!WriteFile, Followup!StampNow, Followup!WriteFreeze, Followup!Quiet
<1>5. FollowupTyped'
  BY <1>1, <1>3, <1>4, FilesStay DEF FollowupInv, FollowupTyped
<1>6. Behind(maker[m].at) \subseteq There \cap Design /\ \A x \in Makers : Behind(maker[x].at) \subseteq There \cap Design
  BY DEF FollowupInv, Behind, Design, Followup!Names, Followup!Inherited
<1>7. /\ Behind(maker'[m].at) \subseteq There'
      /\ followed' # followed => followed' = followed \cup {m} /\ Design \subseteq There'
  <2>1. CASE Followup!WriteFile(m, "matrix", "predictions")
    <3>1. maker'[m].at = "predictions" /\ followed' = followed
      BY <1>2, <2>1 DEF Followup!WriteFile, Followup!Goto
    <3> QED
      BY <1>2, <2>1, <3>1 DEF Behind, Design, Followup!Names, Followup!Inherited
  <2>2. CASE Followup!WriteFile(m, "predictions", "protocol")
    <3>1. maker[m].at = "predictions" /\ maker'[m].at = "protocol" /\ followed' = followed
      BY <1>2, <2>2 DEF Followup!WriteFile, Followup!Goto
    <3> QED
      BY <1>2, <1>6, <2>2, <3>1 DEF Behind, Design, Followup!Names, Followup!Inherited
  <2>3. CASE Followup!WriteFile(m, "protocol", "stamp")
    <3>1. maker[m].at = "protocol" /\ maker'[m].at = "stamp" /\ followed' = followed
      BY <1>2, <2>3 DEF Followup!WriteFile, Followup!Goto
    <3> QED
      BY <1>2, <1>6, <2>3, <3>1 DEF Behind, Design, Followup!Names, Followup!Inherited
  <2>4. CASE Followup!StampNow(m)
    <3>1. maker[m].at = "stamp" /\ maker'[m].at = "freeze" /\ followed' = followed \cup {m}
      BY <1>2, <2>4 DEF Followup!StampNow, Followup!Goto
    <3> QED
      BY <1>2, <1>6, <3>1 DEF Behind
  <2>5. CASE Followup!WriteFreeze(m)
    <3>1. maker[m].at = "freeze" /\ maker'[m].at = "done" /\ followed' = followed
      BY <1>2, <2>5 DEF Followup!WriteFreeze, Followup!Goto
    <3> QED
      BY <1>2, <1>6, <3>1 DEF Behind
  <2>6. CASE Followup!CheckAnchor(m) \/ Followup!Derive(m) \/ Followup!MakeDirectory(m)
    <3>1. maker'[m].at \in {"anchored", "failed", "derived", "matrix"} /\ followed' = followed
      BY <1>2, <2>6 DEF Followup!CheckAnchor, Followup!Derive, Followup!MakeDirectory, Followup!Goto
    <3> QED
      BY <3>1 DEF Behind
  <2> QED
    BY <2>1, <2>2, <2>3, <2>4, <2>5, <2>6 DEF Followup!Freeze
<1> QED
  BY <1>2, <1>3, <1>4, <1>5, <1>6, <1>7 DEF FollowupInv

LEMMA FollowupStep ==
  ASSUME FollowupInv, [Followup!Next]_followupVars
  PROVE  FollowupInv'
<1>1. CASE Followup!EditAny
  <2>1. UNCHANGED <<maker, followed, pair>> /\ Followup!Next
    BY <1>1 DEF Followup!EditAny, Followup!Next
  <2>2. FollowupTyped'
    BY <2>1, FilesStay DEF FollowupInv, FollowupTyped
  <2>3. \A m \in Makers : Behind(maker[m].at) \subseteq Design
    BY DEF Behind, Design, Followup!Names, Followup!Inherited
  <2> QED
    BY <2>1, <2>2, <2>3, FilesStay DEF FollowupInv
<1>2. ASSUME NEW m \in Makers, Followup!Freeze(m) PROVE FollowupInv'
  BY <1>2, MakersInOrder
<1>3. ASSUME NEW p \in Pairs, Followup!ClaimPair(p) \/ Followup!VerifyProtocol(p) PROVE FollowupInv'
  <2>1. UNCHANGED <<changed, code, file, maker, followed>>
    BY <1>3 DEF Followup!ClaimPair, Followup!VerifyProtocol, Followup!people
  <2>2. /\ pair' \in [Pairs -> [at : {"idle", "claimed", "launched", "rejected"},
                                stamp : SUBSET Makers, there : SUBSET Followup!Names]]
        /\ \A q \in Pairs : \/ pair'[q].stamp = pair[q].stamp /\ pair'[q].there = pair[q].there
                            \/ pair'[q].stamp = followed /\ pair'[q].there = There
    BY <1>3 DEF Followup!ClaimPair, Followup!VerifyProtocol, FollowupInv, FollowupTyped, There
  <2>3. FollowupTyped' /\ There' = There
    BY <2>1, <2>2 DEF FollowupInv, FollowupTyped, There
  <2> QED
    BY <2>1, <2>2, <2>3 DEF FollowupInv
<1>4. CASE UNCHANGED followupVars
  BY <1>4 DEF followupVars, FollowupInv, FollowupTyped, There
<1> QED
  BY <1>1, <1>2, <1>3, <1>4 DEF Followup!Next

(* An accepted pair of the follow-up is scored against what the original   *)
(* sealed, and that, with the design, was in place before the pair was     *)
(* claimed (host_capacity_protocol.py: freeze, load_design).               *)
THEOREM FollowupInherits == MCSpec => []InheritsSealed
<1> DEFINE Kept == part = "followup" => FollowupInv
<1>1. MCInit => Kept
  BY InitFollowup DEF MCInit
<1>2. Kept /\ [MCNext]_<<part, vars, publicationVars, followupVars>> => Kept'
  <2>1. FollowupInv /\ UNCHANGED followupVars => FollowupInv'
    BY FollowupStep
  <2> QED
    BY <2>1, FollowupStep DEF MCNext
<1>3. Kept => InheritsSealed
  <2> SUFFICES ASSUME FollowupInv, NEW p \in Pairs, Followup!AcceptsPair(p)
               PROVE  /\ \A n \in Followup!Inherited : file[n] = Followup!AsSealed
                      /\ Followup!Names \ {"freeze"} \subseteq pair[p].there
    BY DEF InheritsSealed, Followup!InheritsSealed
  <2>1. changed = {} /\ \A n \in Followup!Inherited : file[n] = Followup!Planned(n)
    BY DEF Followup!AcceptsPair, Followup!DesignLoads, Followup!Anchored
  <2>2. pair[p].stamp # {}
    BY DEF Followup!AcceptsPair
  <2> QED
    BY <2>1, <2>2 DEF FollowupInv, Design, Followup!Planned, Followup!AsSealed
<1> QED
  BY <1>1, <1>2, <1>3, PTL DEF MCSpec

-----------------------------------------------------------------------------
(* The publication.                                                        *)

PSlots == Publication!Slots
Attempts == [state : Publication!States \cup {"unresolved"}, known : BOOLEAN, repair : BOOLEAN]
Readers == [at : {"idle", "reading", "staged", "renaming", "done", "failed"},
            repairs : [PSlots -> SUBSET Nat], todo : SUBSET PSlots,
            read : [PSlots -> Seq(Attempts)], before : [PSlots -> Nat]]

RecordTyped ==
  /\ log \in [PSlots -> Seq(Attempts)]
  /\ invoked \in [PSlots -> Nat]
  /\ collector \in [Collectors -> Readers]

(* Every invocation is in the record, or still to be accounted for, but of *)
(* a slot where evidence contradicts a manifest.                           *)
Pending(t) == IF t \in started THEN 1 ELSE 0
Counted(t) == t \notin contradicted => invoked[t] = Len(log[t]) + Pending(t)

(* What a collector has read of a slot has all that had begun before it;   *)
(* what it stages, replay has accepted.                                    *)
HasRead(c, t) ==
  /\ collector[c].before[t] <= invoked[t]
  /\ t \notin collector[c].todo => collector[c].before[t] <= Len(collector[c].read[t])
Finished == {"staged", "renaming", "done"}
ReadWhole(c) ==
  /\ \A t \in PSlots : HasRead(c, t)
  /\ collector[c].at = "idle" => collector[c].todo = PSlots
  /\ collector[c].at \in Finished => collector[c].todo = {} /\ Publication!Accepts(collector[c].read)

PublicationInv ==
  RecordTyped /\ (\A t \in PSlots : Counted(t)) /\ \A c \in Collectors : ReadWhole(c)

LEMMA InitPublication == Publication!PInit => PublicationInv
<1> SUFFICES ASSUME Publication!PInit PROVE PublicationInv
  OBVIOUS
<1>1. << >> \in Seq(Attempts) /\ Len(<< >>) = 0
  OBVIOUS
<1>2. Publication!Nobody \in Readers
  BY <1>1 DEF Publication!Nobody, Readers, PSlots
<1>3. /\ log = [t \in PSlots |-> << >>] /\ invoked = [t \in PSlots |-> 0] /\ started = {}
      /\ collector = [c \in Collectors |-> Publication!Nobody]
  BY DEF Publication!PInit, Publication!Init, PSlots
<1>4. RecordTyped
  BY <1>1, <1>2, <1>3 DEF RecordTyped
<1>5. \A c \in Collectors : /\ collector[c].at = "idle" /\ collector[c].todo = PSlots
                            /\ collector[c].before = [t \in PSlots |-> 0]
  BY <1>3 DEF Publication!Nobody, PSlots
<1>6. \A c \in Collectors : ReadWhole(c)
  BY <1>3, <1>5 DEF ReadWhole, HasRead, Finished
<1> QED
  BY <1>1, <1>3, <1>4, <1>6 DEF PublicationInv, Counted, Pending

(* Where only the record grows, what was read of it still has all that had *)
(* begun before.                                                           *)
LEMMA RecordGrows ==
  ASSUME PublicationInv, UNCHANGED collector,
         log' \in [PSlots -> Seq(Attempts)], invoked' \in [PSlots -> Nat],
         \A t \in PSlots : Counted(t)' /\ invoked[t] <= invoked'[t]
  PROVE  PublicationInv'
<1>1. ASSUME NEW c \in Collectors, NEW t \in PSlots, HasRead(c, t) PROVE HasRead(c, t)'
  <2>1. collector[c].before[t] \in Nat /\ invoked[t] \in Nat /\ invoked'[t] \in Nat
    BY DEF PublicationInv, RecordTyped, Readers
  <2> QED
    BY <1>1, <2>1 DEF HasRead
<1>2. ASSUME NEW c \in Collectors PROVE ReadWhole(c)'
  <2>1. ReadWhole(c) /\ collector'[c] = collector[c]
    BY DEF PublicationInv
  <2>2. \A t \in PSlots : HasRead(c, t)'
    BY <1>1, <2>1 DEF ReadWhole
  <2>3. Publication!Accepts(collector'[c].read) <=> Publication!Accepts(collector[c].read)
    BY <2>1
  <2> QED
    BY <2>1, <2>2, <2>3 DEF ReadWhole
<1> QED
  BY <1>2 DEF PublicationInv, RecordTyped

LEMMA OutcomesTyped == Publication!Outcomes \subseteq Attempts
BY DEF Publication!Outcomes, Publication!Attempt, Attempts, Publication!States

LEMMA AttemptsKeepCount ==
  ASSUME PublicationInv, NEW s \in OpenSlots,
         \/ Publication!Invoke(s) \/ Publication!Decline(s)
         \/ Publication!Finalise(s) \/ Publication!FinaliseEmpty(s)
         \/ Publication!Repair(s)
  PROVE  PublicationInv'
<1>1. /\ log \in [PSlots -> Seq(Attempts)] /\ invoked \in [PSlots -> Nat]
      /\ \A t \in PSlots : Counted(t) /\ Len(log[t]) \in Nat
  BY DEF PublicationInv, RecordTyped
<1>2. CASE Publication!Invoke(s)
  <2>1. /\ s \notin started /\ started' = started \cup {s} /\ invoked' = [invoked EXCEPT ![s] = @ + 1]
        /\ UNCHANGED <<log, contradicted, collector>>
    BY <1>2 DEF Publication!Invoke
  <2>2. invoked' \in [PSlots -> Nat] /\ \A t \in PSlots : invoked'[t] = IF t = s THEN invoked[t] + 1 ELSE invoked[t]
    <3>1. \A t \in PSlots : invoked'[t] = IF t = s THEN invoked[t] + 1 ELSE invoked[t]
      BY <1>1, <2>1
    <3>2. \A t \in PSlots : invoked'[t] \in Nat
      BY <1>1, <3>1
    <3> QED
      BY <1>1, <2>1, <3>1, <3>2
  <2>3. ASSUME NEW t \in PSlots PROVE Counted(t)' /\ invoked[t] <= invoked'[t]
    <3>1. Len(log[t]) \in Nat /\ invoked[t] \in Nat
          /\ (t \notin contradicted => invoked[t] = Len(log[t]) + (IF t \in started THEN 1 ELSE 0))
      BY <1>1 DEF Counted, Pending
    <3>2. t \in started' <=> t \in started \/ t = s
      BY <2>1
    <3>3. log'[t] = log[t]
      BY <2>1
    <3>4. t \notin contradicted => invoked'[t] = Len(log'[t]) + (IF t \in started' THEN 1 ELSE 0)
      <4>1. CASE t = s
        BY <2>1, <2>2, <3>1, <3>2, <3>3, <4>1
      <4>2. CASE t # s
        BY <2>2, <3>1, <3>2, <3>3, <4>2
      <4> QED
        BY <4>1, <4>2
    <3>5. Counted(t)'
      BY <2>1, <3>4 DEF Counted, Pending
    <3>6. invoked[t] <= invoked'[t]
      <4>1. invoked'[t] = invoked[t] \/ invoked'[t] = invoked[t] + 1
        BY <2>2
      <4>2. invoked[t] \in Nat
        BY <1>1
      <4> QED
        BY <4>1, <4>2
    <3> QED
      BY <3>5, <3>6
  <2> QED
    BY <1>1, <2>1, <2>2, <2>3, RecordGrows
<1>3. CASE Publication!Decline(s)
  <2>1. UNCHANGED <<log, started, contradicted, invoked, collector>>
    BY <1>3 DEF Publication!Decline
  <2>2. \A t \in PSlots : Counted(t)' /\ invoked[t] <= invoked'[t]
    BY <1>1, <2>1 DEF Counted, Pending
  <2> QED
    BY <1>1, <2>1, <2>2, RecordGrows
<1>4. CASE Publication!Finalise(s)
  <2>1. PICK outcome \in Publication!Outcomes : log' = [log EXCEPT ![s] = Append(@, outcome)]
    BY <1>4 DEF Publication!Finalise, Publication!Record
  <2>2. s \in started /\ started' = started \ {s} /\ UNCHANGED <<contradicted, invoked, collector>>
    BY <1>4 DEF Publication!Finalise
  <2>3. ASSUME NEW t \in PSlots
        PROVE  /\ log'[t] \in Seq(Attempts)
               /\ Len(log'[t]) = IF t = s THEN Len(log[t]) + 1 ELSE Len(log[t])
    <3>1. log'[t] = IF t = s THEN Append(log[t], outcome) ELSE log[t]
      BY <1>1, <2>1
    <3>2. outcome \in Attempts /\ log[t] \in Seq(Attempts)
      BY <1>1, OutcomesTyped
    <3> QED
      BY <3>1, <3>2
  <2>4. log' \in [PSlots -> Seq(Attempts)]
    BY <1>1, <2>1, <2>3
  <2>5. ASSUME NEW t \in PSlots PROVE Counted(t)' /\ invoked[t] <= invoked'[t]
    <3>1. Len(log[t]) \in Nat /\ invoked[t] \in Nat
          /\ (t \notin contradicted => invoked[t] = Len(log[t]) + (IF t \in started THEN 1 ELSE 0))
      BY <1>1 DEF Counted, Pending
    <3>2. t \in started' <=> t \in started /\ t # s
      BY <2>2
    <3>3. t \notin contradicted => invoked'[t] = Len(log'[t]) + (IF t \in started' THEN 1 ELSE 0)
      <4>1. CASE t = s
        BY <2>2, <2>3, <3>1, <3>2, <4>1
      <4>2. CASE t # s
        BY <2>2, <2>3, <3>1, <3>2, <4>2
      <4> QED
        BY <4>1, <4>2
    <3>4. Counted(t)'
      BY <2>2, <3>3 DEF Counted, Pending
    <3>5. invoked[t] <= invoked'[t]
      BY <2>2, <3>1
    <3> QED
      BY <3>4, <3>5
  <2> QED
    BY <1>1, <2>2, <2>4, <2>5, RecordGrows
<1>5. CASE Publication!Repair(s)
  <2>1. log[s] # << >> /\ log' = [log EXCEPT ![s][Len(log[s])].repair = TRUE]
    BY <1>5 DEF Publication!Repair, Publication!ApproveRepair
  <2>2. UNCHANGED <<started, contradicted, invoked, collector>>
    BY <1>5 DEF Publication!Repair, Publication!publication
  <2>3. ASSUME NEW t \in PSlots
        PROVE  log'[t] \in Seq(Attempts) /\ Len(log'[t]) = Len(log[t])
    <3>1. CASE t # s
      BY <1>1, <2>1, <3>1
    <3>2. CASE t = s
      <4> DEFINE n == Len(log[s])
                 last == [log[s][n] EXCEPT !.repair = TRUE]
      <4>1. log[s] \in Seq(Attempts) /\ n \in 1..Len(log[s])
        BY <1>1, <2>1, <3>2
      <4>2. last \in Attempts
        <5>1. log[s][n] \in Attempts
          BY <4>1
        <5> QED
          BY <5>1 DEF Attempts
      <4>3. log'[t] = [log[s] EXCEPT ![n] = last]
        <5>1. log' = [log EXCEPT ![s] = [log[s] EXCEPT ![n].repair = TRUE]]
          BY <2>1
        <5> QED
          BY <1>1, <3>2, <5>1
      <4> HIDE DEF n, last
      <4> QED
        BY <3>2, <4>1, <4>2, <4>3
    <3> QED
      BY <3>1, <3>2
  <2>4. log' \in [PSlots -> Seq(Attempts)]
    BY <1>1, <2>1, <2>3
  <2>5. ASSUME NEW t \in PSlots PROVE Counted(t)' /\ invoked[t] <= invoked'[t]
    <3>1. invoked[t] \in Nat /\ Counted(t) /\ Len(log'[t]) = Len(log[t])
      BY <1>1, <2>3
    <3>2. Pending(t)' = Pending(t) /\ contradicted' = contradicted /\ invoked'[t] = invoked[t]
      BY <2>2 DEF Pending
    <3> QED
      BY <3>1, <3>2 DEF Counted
  <2> QED
    BY <1>1, <2>2, <2>4, <2>5, RecordGrows
<1>6. CASE Publication!FinaliseEmpty(s)
  <2>1. /\ started' = started \ {s} /\ contradicted' = contradicted \cup {s}
        /\ UNCHANGED <<log, invoked, collector>>
    BY <1>6 DEF Publication!FinaliseEmpty
  <2>2. \A t \in PSlots : Counted(t)' /\ invoked[t] <= invoked'[t]
    BY <1>1, <2>1 DEF Counted, Pending
  <2> QED
    BY <1>1, <2>1, <2>2, RecordGrows
<1> QED
  BY <1>2, <1>3, <1>4, <1>5, <1>6

(* A collector that goes on changes no one else's reading.                 *)
LEMMA CollectorsKeep ==
  ASSUME PublicationInv, NEW c \in Collectors, NEW new \in Readers,
         collector' = [collector EXCEPT ![c] = new],
         UNCHANGED <<log, started, contradicted, invoked>>,
         ReadWhole(c)'
  PROVE  PublicationInv'
<1>1. \A d \in Collectors : collector'[d] = IF d = c THEN new ELSE collector[d]
  BY DEF PublicationInv, RecordTyped
<1>2. collector' \in [Collectors -> Readers]
  BY DEF PublicationInv, RecordTyped
<1>3. ASSUME NEW d \in Collectors PROVE ReadWhole(d)'
  <2>1. CASE d = c
    BY <2>1
  <2>2. CASE d # c
    <3>1. collector'[d] = collector[d] /\ ReadWhole(d)
      BY <1>1, <2>2 DEF PublicationInv
    <3>2. \A t \in PSlots : HasRead(d, t) => HasRead(d, t)'
      BY <3>1 DEF HasRead
    <3>3. Publication!Accepts(collector'[d].read) <=> Publication!Accepts(collector[d].read)
      BY <3>1
    <3> QED
      BY <3>1, <3>2, <3>3 DEF ReadWhole
  <2> QED
    BY <2>1, <2>2
<1> QED
  BY <1>2, <1>3 DEF PublicationInv, RecordTyped, Counted, Pending

(* A step that only moves the collector to a place where it has nothing    *)
(* more to show.                                                           *)
LEMMA MovesOn ==
  ASSUME PublicationInv, NEW c \in Collectors, NEW to \in {"staged", "renaming", "done", "failed"},
         Publication!Goto(c, to), UNCHANGED <<log, started, contradicted, invoked>>,
         to = "failed" \/ (collector[c].todo = {} /\ Publication!Accepts(collector[c].read))
  PROVE  PublicationInv'
<1> DEFINE new == [collector[c] EXCEPT !.at = to]
<1>1. collector[c] \in Readers /\ invoked \in [PSlots -> Nat] /\ ReadWhole(c)
  BY DEF PublicationInv, RecordTyped
<1>2. /\ new \in Readers /\ new.at = to /\ new.todo = collector[c].todo
      /\ new.read = collector[c].read /\ new.before = collector[c].before
  BY <1>1 DEF Readers
<1>3. collector' = [collector EXCEPT ![c] = new] /\ collector'[c] = new
  BY DEF Publication!Goto, PublicationInv, RecordTyped
<1>4. \A t \in PSlots : HasRead(c, t)
  BY <1>1 DEF ReadWhole
<1> HIDE DEF new
<1>5. \A t \in PSlots : HasRead(c, t)'
  BY <1>2, <1>3, <1>4 DEF HasRead
<1>6. ReadWhole(c)'
  <2>1. collector'[c].at \in Finished => collector[c].todo = {} /\ Publication!Accepts(collector[c].read)
    BY <1>2, <1>3 DEF Finished
  <2>2. collector'[c].todo = collector[c].todo /\ collector'[c].read = collector[c].read
    BY <1>2, <1>3
  <2>3. Publication!Accepts(collector'[c].read) <=> Publication!Accepts(collector[c].read)
    BY <2>2
  <2>4. collector'[c].at # "idle"
    BY <1>2, <1>3
  <2> QED
    BY <1>5, <2>1, <2>2, <2>3, <2>4 DEF ReadWhole
<1> QED
  BY <1>2, <1>3, <1>6, CollectorsKeep

LEMMA BeginCounts ==
  ASSUME PublicationInv, NEW c \in Collectors, Publication!Begin(c)
  PROVE  PublicationInv'
<1> DEFINE repairs == [t \in PSlots |-> Publication!Repaired(t)]
           new == [[[collector[c] EXCEPT !.at = "reading"] EXCEPT !.before = invoked]
                     EXCEPT !.repairs = repairs]
<1>1. /\ log \in [PSlots -> Seq(Attempts)] /\ invoked \in [PSlots -> Nat]
      /\ collector \in [Collectors -> Readers] /\ ReadWhole(c)
  BY DEF PublicationInv, RecordTyped
<1>2. UNCHANGED <<log, started, contradicted, invoked>>
  BY DEF Publication!Begin, Publication!Elsewhere
<1>3. CASE Publication!Goto(c, "failed")
  BY <1>2, <1>3, MovesOn
<1>4. CASE collector' = [collector EXCEPT ![c].at = "reading", ![c].before = invoked,
                                         ![c].repairs = [t \in PSlots |-> Publication!Repaired(t)]]
  <2>1. repairs \in [PSlots -> SUBSET Nat]
    <3>1. ASSUME NEW t \in PSlots PROVE Publication!Repaired(t) \in SUBSET Nat
      <4>1. log[t] \in Seq(Attempts)
        BY <1>1
      <4>2. DOMAIN log[t] \subseteq Nat
        BY <4>1
      <4> QED
        BY <4>2 DEF Publication!Repaired
    <3> QED
      BY <3>1
  <2>2. collector[c].todo = PSlots
    BY <1>1 DEF Publication!Begin, ReadWhole
  <2>4. collector' = [collector EXCEPT ![c] = new] /\ collector'[c] = new
    BY <1>1, <1>4
  <2> HIDE DEF repairs
  <2>3. /\ new \in Readers /\ new.at = "reading" /\ new.todo = collector[c].todo
        /\ new.before = invoked /\ new.read = collector[c].read
    BY <1>1, <2>1 DEF Readers
  <2> HIDE DEF new
  <2>5. ReadWhole(c)'
    BY <1>1, <1>2, <2>2, <2>3, <2>4 DEF ReadWhole, HasRead, Finished
  <2> QED
    BY <1>2, <2>3, <2>4, <2>5, CollectorsKeep
<1> QED
  BY <1>3, <1>4 DEF Publication!Begin, PSlots

LEMMA SlotIsReadWhole ==
  ASSUME PublicationInv, NEW c \in Collectors, NEW s \in PSlots, Publication!ReadSlot(c, s)
  PROVE  PublicationInv'
<1> DEFINE seen == [i \in DOMAIN log[s] |->
                      [log[s][i] EXCEPT !.repair = i \in collector[c].repairs[s]]]
           new == [[collector[c] EXCEPT !.todo = @ \ {s}] EXCEPT !.read[s] = seen]
<1>1. /\ log \in [PSlots -> Seq(Attempts)] /\ invoked \in [PSlots -> Nat]
      /\ collector \in [Collectors -> Readers] /\ collector[c] \in Readers
      /\ ReadWhole(c) /\ Counted(s)
  BY DEF PublicationInv, RecordTyped
<1>2. UNCHANGED <<log, started, contradicted, invoked>> /\ collector[c].at = "reading"
  BY DEF Publication!ReadSlot, Publication!Elsewhere
<1>3. CASE Publication!Goto(c, "failed")
  BY <1>2, <1>3, MovesOn
<1>4. CASE /\ s \notin started \cup contradicted
           /\ collector' = [collector EXCEPT ![c].todo = @ \ {s}, ![c].read[s] = seen]
  <2>1. seen \in Seq(Attempts) /\ Len(seen) = Len(log[s])
    <3>1. log[s] \in Seq(Attempts)
      BY <1>1
    <3>2. DOMAIN log[s] = 1..Len(log[s]) /\ Len(log[s]) \in Nat
      BY <3>1
    <3>3. ASSUME NEW i \in DOMAIN log[s]
          PROVE  [log[s][i] EXCEPT !.repair = i \in collector[c].repairs[s]] \in Attempts
      <4> DEFINE named == i \in collector[c].repairs[s]
      <4>1. log[s][i] \in Attempts
        BY <3>1, <3>2
      <4>2. named \in BOOLEAN
        OBVIOUS
      <4> HIDE DEF named
      <4>3. [log[s][i] EXCEPT !.repair = named] \in Attempts
        BY <4>1, <4>2 DEF Attempts
      <4> QED
        BY <4>3 DEF named
    <3> QED
      BY <3>2, <3>3
  <2>2. Len(log[s]) = invoked[s]
    BY <1>1, <1>4 DEF Counted, Pending
  <2> HIDE DEF seen
  <2>3. /\ new \in Readers /\ new.at = "reading" /\ new.todo = collector[c].todo \ {s}
        /\ new.before = collector[c].before
        /\ \A t \in PSlots : new.read[t] = IF t = s THEN seen ELSE collector[c].read[t]
    BY <1>1, <1>2, <2>1 DEF Readers
  <2>4. collector' = [collector EXCEPT ![c] = new] /\ collector'[c] = new
    BY <1>1, <1>4
  <2> HIDE DEF new
  <2>5. ASSUME NEW t \in PSlots PROVE HasRead(c, t)'
    <3>1. HasRead(c, t) /\ collector'[c].before = collector[c].before
      BY <1>1, <2>3, <2>4 DEF ReadWhole
    <3>2. CASE t = s
      BY <1>2, <2>1, <2>2, <2>3, <2>4, <3>1, <3>2 DEF HasRead
    <3>3. CASE t # s
      BY <1>2, <2>3, <2>4, <3>1, <3>3 DEF HasRead
    <3> QED
      BY <3>2, <3>3
  <2>6. ReadWhole(c)'
    BY <2>3, <2>4, <2>5 DEF ReadWhole, Finished
  <2> QED
    BY <1>2, <2>3, <2>4, <2>6, CollectorsKeep
<1> QED
  BY <1>3, <1>4 DEF Publication!ReadSlot

LEMMA PublicationStep ==
  ASSUME PublicationInv, [Publication!PNext]_publicationVars
  PROVE  PublicationInv'
<1>1. CASE UNCHANGED publicationVars
  <2>1. UNCHANGED <<log, started, contradicted, invoked, collector>>
    BY <1>1 DEF publicationVars
  <2>2. \A t \in PSlots : Counted(t)' /\ invoked[t] <= invoked'[t]
    BY <2>1 DEF PublicationInv, RecordTyped, Counted, Pending
  <2> QED
    BY <2>1, <2>2, RecordGrows DEF PublicationInv, RecordTyped
<1>2. ASSUME NEW s \in OpenSlots,
             \/ Publication!Invoke(s) \/ Publication!Decline(s)
             \/ Publication!Finalise(s) \/ Publication!FinaliseEmpty(s)
             \/ Publication!Repair(s)
      PROVE  PublicationInv'
  BY <1>2, AttemptsKeepCount
<1>3. ASSUME NEW c \in Collectors, Publication!Begin(c) PROVE PublicationInv'
  BY <1>3, BeginCounts
<1>4. ASSUME NEW c \in Collectors, NEW s \in PSlots, Publication!ReadSlot(c, s) PROVE PublicationInv'
  BY <1>4, SlotIsReadWhole
<1>5. ASSUME NEW c \in Collectors, Publication!Build(c) PROVE PublicationInv'
  <2>1. /\ UNCHANGED <<log, started, contradicted, invoked>> /\ collector[c].todo = {}
        /\ \/ Publication!Goto(c, "staged") /\ Publication!Accepts(collector[c].read)
           \/ Publication!Goto(c, "failed")
    BY <1>5 DEF Publication!Build, Publication!Elsewhere
  <2> QED
    BY <2>1, MovesOn
<1>6. ASSUME NEW c \in Collectors, Publication!Look(c) \/ Publication!Rename(c) PROVE PublicationInv'
  <2>1. /\ UNCHANGED <<log, started, contradicted, invoked>> /\ collector[c].at \in Finished
        /\ \E to \in {"renaming", "done", "failed"} : Publication!Goto(c, to)
    BY <1>6 DEF Publication!Look, Publication!Rename, Publication!Elsewhere, Finished
  <2>2. collector[c].todo = {} /\ Publication!Accepts(collector[c].read)
    BY <2>1 DEF PublicationInv, ReadWhole
  <2> QED
    BY <2>1, <2>2, MovesOn
<1> QED
  BY <1>1, <1>2, <1>3, <1>4, <1>5, <1>6 DEF Publication!PNext, PSlots

(* A publication has every invocation that had begun when its collector    *)
(* began, and its record is one that replay accepts, though the slots were *)
(* read at different moments (collect_decision_benchmark.py: 58-65, 229).  *)
THEOREM NothingIsOverlooked == MCSpec => []NothingOverlooked
<1> DEFINE Kept == part = "publication" => PublicationInv
<1>1. MCInit => Kept
  BY InitPublication DEF MCInit
<1>2. Kept /\ [MCNext]_<<part, vars, publicationVars, followupVars>> => Kept'
  <2>1. PublicationInv /\ UNCHANGED publicationVars => PublicationInv'
    BY PublicationStep
  <2> QED
    BY <2>1, PublicationStep DEF MCNext
<1>3. Kept => NothingOverlooked
  <2> SUFFICES ASSUME PublicationInv, NEW c \in Collectors, collector[c].at = "done"
               PROVE  /\ \A t \in PSlots : Len(collector[c].read[t]) >= collector[c].before[t]
                      /\ Publication!Accepts(collector[c].read)
    BY DEF NothingOverlooked, Publication!NothingOverlooked, PSlots
  <2>1. ReadWhole(c) /\ collector[c] \in Readers
    BY DEF PublicationInv, RecordTyped
  <2>2. collector[c].todo = {} /\ Publication!Accepts(collector[c].read)
    BY <2>1 DEF ReadWhole, Finished
  <2>3. ASSUME NEW t \in PSlots PROVE Len(collector[c].read[t]) >= collector[c].before[t]
    <3>1. collector[c].before[t] <= Len(collector[c].read[t])
      BY <2>1, <2>2 DEF ReadWhole, HasRead
    <3>2. collector[c].read[t] \in Seq(Attempts) /\ collector[c].before[t] \in Nat
      BY <2>1 DEF Readers
    <3> QED
      BY <3>1, <3>2
  <2> QED
    BY <2>2, <2>3
<1> QED
  BY <1>1, <1>2, <1>3, PTL DEF MCSpec

(* Two collectors side by side: what is published is one collector's       *)
(* complete set, and nobody replaces it (collect_decision_benchmark.py:    *)
(* 249-252).                                                               *)
THEOREM PublishedOnce == MCSpec => PublishedWhole
<1>1. ASSUME part = "publication", [MCNext]_<<part, vars, publicationVars, followupVars>>
      PROVE  [Publication!StaysWhole]_output
  <2> SUFFICES ASSUME output' # output PROVE Publication!StaysWhole
    OBVIOUS
  <2>1. Publication!PNext
    BY <1>1 DEF MCNext, publicationVars
  <2>2. PICK c \in Collectors : Publication!Rename(c)
    <3>1. ASSUME NEW s \in OpenSlots,
                 \/ Publication!Invoke(s) \/ Publication!Decline(s)
                 \/ Publication!Finalise(s) \/ Publication!FinaliseEmpty(s)
                 \/ Publication!Repair(s)
          PROVE  output' = output
      BY <3>1 DEF Publication!Invoke, Publication!Decline, Publication!Finalise,
         Publication!FinaliseEmpty, Publication!Repair, Publication!publication
    <3>2. ASSUME NEW c \in Collectors,
                 \/ Publication!Begin(c) \/ Publication!Build(c) \/ Publication!Look(c)
                 \/ \E s \in PSlots : Publication!ReadSlot(c, s)
          PROVE  output' = output
      BY <3>2 DEF Publication!Begin, Publication!Build, Publication!Look, Publication!ReadSlot
    <3> QED
      BY <2>1, <3>1, <3>2 DEF Publication!PNext, PSlots
  <2> QED
    BY <2>2 DEF Publication!Rename, Publication!StaysWhole
<1>2. [MCNext]_<<part, vars, publicationVars, followupVars>>
        => [part = "publication" => Publication!StaysWhole]_output
  BY <1>1
<1> QED
  BY <1>2, PTL DEF MCSpec, PublishedWhole
=============================================================================
