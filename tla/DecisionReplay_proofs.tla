----------------------- MODULE DecisionReplay_proofs -----------------------
(***************************************************************************)
(* The replay, for any candidates, seeds, budgets and replacement cap.     *)
(*                                                                         *)
(* What an incomplete panel is said to range over contains what it turns   *)
(* out to be.  A step adds an attempt to one slot or approves the repair   *)
(* of its last one.  In a record that is valid before and after it, a      *)
(* resolved slot is closed, so that a label once given stays, and evidence *)
(* of a failure or of an exceedance is never lost.                         *)
(*                                                                         *)
(* And an acquisition keeps its budget and goes on as it began: two of     *)
(* them, one with less to spend or with less of the panel to see, are      *)
(* alike until the one has ended.                                          *)
(***************************************************************************)
EXTENDS DecisionReplay, WellFoundedInduction, TLAPS

AttemptType == [state : States \cup {"unresolved"},
                known : BOOLEAN, repair : BOOLEAN]

LogType == [Slots -> Seq(AttemptType)]

(* Records made by Attempt and by an approval are attempts.                *)
LEMMA AttemptTyped ==
  ASSUME NEW state \in States \cup {"unresolved"},
         NEW known \in BOOLEAN, NEW repair \in BOOLEAN
  PROVE  Attempt(state, known, repair) \in AttemptType
BY DEF Attempt, AttemptType

(* So are the outcomes the collector may record.                           *)
LEMMA OutcomesTyped == Outcomes \subseteq AttemptType
<1>1. /\ Attempt("within_margin", FALSE, FALSE) \in AttemptType
      /\ Attempt("above_margin", FALSE, FALSE) \in AttemptType
      /\ Attempt("memory_failure", TRUE, FALSE) \in AttemptType
      /\ Attempt("unresolved", FALSE, FALSE) \in AttemptType
      /\ Attempt("unresolved", TRUE, FALSE) \in AttemptType
  BY AttemptTyped DEF States
<1> QED
  BY <1>1 DEF Outcomes

(* An approval changes the repair flag alone.                              *)
LEMMA Approval ==
  ASSUME NEW a \in AttemptType
  PROVE  /\ [a EXCEPT !.repair = TRUE] \in AttemptType
         /\ [a EXCEPT !.repair = TRUE].state = a.state
         /\ [a EXCEPT !.repair = TRUE].known = a.known
         /\ [a EXCEPT !.repair = TRUE].repair
BY DEF AttemptType

(* The record keeps its type: no slot ever holds more than three attempts, *)
(* for group_attempts (98-105) rejects a third.                            *)
THEOREM RecordTyped == Spec => []TypeOK
<1>1. Init => TypeOK
  BY DEF Init, TypeOK
<1>2. TypeOK /\ [Next]_log => TypeOK'
  <2> SUFFICES ASSUME TypeOK, [Next]_log
               PROVE  TypeOK'
    OBVIOUS
  <2>0. /\ log \in LogType
        /\ \A t \in Slots : Len(log[t]) <= 3
        /\ \A t \in Slots : log[t] # << >> => t \in OpenSlots
    BY DEF TypeOK, LogType, AttemptType
  (* Both actions rewrite one slot. *)
  <2>1. ASSUME NEW s \in OpenSlots, NEW part \in Seq(AttemptType), Len(part) <= 3,
               log' = [log EXCEPT ![s] = part]
        PROVE  TypeOK'
    <3>1. s \in Slots
      BY ProtocolAssumption
    <3>2. log' \in LogType
      BY <2>0, <2>1, <3>1 DEF LogType
    <3>3. \A t \in Slots : Len(log'[t]) <= 3
      BY <2>0, <2>1, <3>1 DEF LogType
    <3>4. \A t \in Slots : log'[t] # << >> => t \in OpenSlots
      BY <2>0, <2>1, <3>1 DEF LogType
    <3> QED
      BY <3>2, <3>3, <3>4 DEF TypeOK, LogType, AttemptType
  <2>2. ASSUME NEW s \in OpenSlots, NEW outcome \in Outcomes, Record(s, outcome)
        PROVE  TypeOK'
    <3>1. outcome \in AttemptType /\ s \in Slots
      BY OutcomesTyped, ProtocolAssumption
    <3>2. log[s] \in Seq(AttemptType) /\ Len(log[s]) <= 2
      BY <2>0, <2>2, <3>1 DEF LogType, Record, Valid, Accepts, SlotValid
    <3>3. Append(log[s], outcome) \in Seq(AttemptType)
          /\ Len(Append(log[s], outcome)) <= 3
      BY <3>1, <3>2
    <3> QED
      BY <2>1, <2>2, <3>3 DEF Record
  <2>3. ASSUME NEW s \in OpenSlots, ApproveRepair(s)
        PROVE  TypeOK'
    <3> DEFINE part == log[s]
               n == Len(part)
               approved == [part EXCEPT ![n].repair = TRUE]
    <3>1. s \in Slots /\ part \in Seq(AttemptType) /\ Len(part) <= 3
      BY <2>0, ProtocolAssumption DEF LogType
    <3>2. n \in 1..Len(part)
      BY <3>1, <2>3 DEF ApproveRepair
    <3>3. [part[n] EXCEPT !.repair = TRUE] \in AttemptType
      BY <3>1, <3>2, Approval
    <3>4. approved \in Seq(AttemptType) /\ Len(approved) <= 3
      BY <3>1, <3>2, <3>3
    <3>5. log' = [log EXCEPT ![s] = approved]
      BY <2>3 DEF ApproveRepair
    <3> QED
      BY <2>1, <3>4, <3>5
  <2>4. CASE UNCHANGED log
    BY <2>4 DEF TypeOK
  <2> QED
    BY <2>2, <2>3, <2>4 DEF Next
<1> QED
  BY <1>1, <1>2, PTL DEF Spec

-----------------------------------------------------------------------------
(* What a step keeps of a slot: its attempts, in their places, with the    *)
(* states and the known failures they had.                                 *)
Kept(old, new) ==
  \A i \in DOMAIN old :
    i \in DOMAIN new /\ new[i].state = old[i].state /\ new[i].known = old[i].known

(* Recording and approving both keep every slot so.                        *)
LEMMA StepKeeps ==
  ASSUME log \in LogType, [Next]_log, NEW t \in Slots
  PROVE  Kept(log[t], log'[t])
<1>0. log \in [Slots -> Seq(AttemptType)]
  BY DEF LogType
<1>1. ASSUME NEW s \in OpenSlots, NEW outcome \in Outcomes, Record(s, outcome)
      PROVE  Kept(log[t], log'[t])
  <2>1. outcome \in AttemptType
    BY OutcomesTyped
  <2>2. log' = [log EXCEPT ![s] = Append(log[s], outcome)]
    BY <1>1 DEF Record
  <2>3. CASE t = s
    <3>1. log'[t] = Append(log[t], outcome) /\ log[t] \in Seq(AttemptType)
      BY <1>0, <2>2, <2>3
    <3> QED
      BY <3>1, <2>1 DEF Kept
  <2>4. CASE t # s
    BY <1>0, <2>2, <2>4 DEF Kept
  <2> QED
    BY <2>3, <2>4
<1>2. ASSUME NEW s \in OpenSlots, ApproveRepair(s)
      PROVE  Kept(log[t], log'[t])
  <2> DEFINE part == log[s]
             n == Len(part)
  <2>1. s \in Slots /\ part \in Seq(AttemptType)
    BY <1>0, ProtocolAssumption
  <2>2. n \in 1..Len(part)
    BY <2>1, <1>2 DEF ApproveRepair
  <2>3. log' = [log EXCEPT ![s] = [part EXCEPT ![n].repair = TRUE]]
    BY <1>2 DEF ApproveRepair
  <2>4. CASE t = s
    <3>1. log'[t] = [part EXCEPT ![n] = [part[n] EXCEPT !.repair = TRUE]]
      BY <1>0, <2>3, <2>4
    <3>2. /\ [part[n] EXCEPT !.repair = TRUE].state = part[n].state
          /\ [part[n] EXCEPT !.repair = TRUE].known = part[n].known
      BY <2>1, <2>2, Approval
    <3> QED
      BY <2>1, <2>2, <2>4, <3>1, <3>2 DEF Kept
  <2>5. CASE t # s
    BY <1>0, <2>3, <2>5 DEF Kept
  <2> QED
    BY <2>4, <2>5
<1>3. CASE UNCHANGED log
  BY <1>3 DEF Kept
<1> QED
  BY <1>1, <1>2, <1>3 DEF Next

(* In a valid slot a resolved attempt is the last one.                     *)
LEMMA ResolvedIsLast ==
  ASSUME NEW part \in Seq(AttemptType), SlotValid(part),
         NEW i \in DOMAIN part, part[i].state # "unresolved"
  PROVE  i = Len(part) /\ StateOf(part) = part[i].state
<1>1. Len(part) \in Nat /\ i \in 1..Len(part) /\ Len(part) <= 2
  <2>1. Len(part) <= 2
    BY DEF SlotValid
  <2> QED
    BY <2>1
<1>2. i = Len(part)
  <2>1. ASSUME i # Len(part) PROVE FALSE
    <3> DEFINE n == Len(part)
    <3>0. n \in Nat /\ i \in 1..n /\ n <= 2 /\ i # n
      BY <1>1, <2>1
    <3> HIDE DEF n
    <3>1. i = 1 /\ n = 2
      BY <3>0
    <3>2. part[i].repair
      BY <3>1 DEF SlotValid, n
    <3> QED
      BY <3>2 DEF SlotValid
  <2> QED
    BY <2>1
<1> QED
  BY <1>1, <1>2 DEF StateOf, Last

(* So a resolved slot is closed: a step that stays valid leaves it.        *)
LEMMA ResolvedIsClosed ==
  ASSUME NEW old \in Seq(AttemptType), NEW new \in Seq(AttemptType),
         Kept(old, new), SlotValid(new), StateOf(old) # "unresolved"
  PROVE  Len(new) = Len(old) /\ StateOf(new) = StateOf(old)
<1>1. old # << >> /\ StateOf(old) = old[Len(old)].state
  BY DEF StateOf, Last
<1>2. Len(old) \in DOMAIN old
  BY <1>1
<1>3. Len(old) \in DOMAIN new /\ new[Len(old)].state = old[Len(old)].state
  BY <1>2 DEF Kept
<1> QED
  BY <1>1, <1>3, ResolvedIsLast

-----------------------------------------------------------------------------
(* What a candidate's evaluations say. *)

(* The evaluations of a candidate, by slot and place.                      *)
LEMMA EvaluationsAre ==
  ASSUME NEW c \in Candidates, NEW a
  PROVE  a \in Evaluations(c) <=>
           \E e \in EvaluationSeeds : \E i \in DOMAIN log[<<c, e>>] :
             a = log[<<c, e>>][i]
<1>1. ASSUME NEW e \in EvaluationSeeds
      PROVE  a \in Range(Part(c, e)) <=>
               \E i \in DOMAIN log[<<c, e>>] : a = log[<<c, e>>][i]
  BY Zenon DEF Part, Range
<1>2. a \in Evaluations(c) <=> \E e \in EvaluationSeeds : a \in Range(Part(c, e))
  BY Zenon DEF Evaluations
<1> QED
  BY <1>1, <1>2

FailureShown(c) ==
  \E e \in EvaluationSeeds : \E i \in DOMAIN log[<<c, e>>] :
    \/ log[<<c, e>>][i].state = "memory_failure"
    \/ log[<<c, e>>][i].known

AboveShown(c) ==
  \E e \in EvaluationSeeds : \E i \in DOMAIN log[<<c, e>>] :
    log[<<c, e>>][i].state = "above_margin"

(* known_failure and known_above (169-172) over the slots themselves.      *)
LEMMA EvidenceShown ==
  \A c \in Candidates : /\ KnownFailure(c) <=> FailureShown(c)
                        /\ KnownAbove(c) <=> AboveShown(c)
<1> SUFFICES ASSUME NEW c \in Candidates
             PROVE  /\ KnownFailure(c) <=> FailureShown(c)
                    /\ KnownAbove(c) <=> AboveShown(c)
  OBVIOUS
<1>1. ASSUME NEW e \in EvaluationSeeds, NEW i \in DOMAIN log[<<c, e>>]
      PROVE  log[<<c, e>>][i] \in Evaluations(c)
  BY EvaluationsAre
<1>2. ASSUME NEW a \in Evaluations(c)
      PROVE  \E e \in EvaluationSeeds : \E i \in DOMAIN log[<<c, e>>] :
               a = log[<<c, e>>][i]
  BY EvaluationsAre
<1>3. KnownFailure(c) => FailureShown(c)
  BY <1>2 DEF KnownFailure, FailureShown
<1>4. FailureShown(c) => KnownFailure(c)
  BY <1>1 DEF KnownFailure, FailureShown
<1>5. KnownAbove(c) => AboveShown(c)
  BY <1>2 DEF KnownAbove, AboveShown
<1>6. AboveShown(c) => KnownAbove(c)
  BY <1>1 DEF KnownAbove, AboveShown
<1> QED
  BY <1>3, <1>4, <1>5, <1>6

-----------------------------------------------------------------------------
(* One step. *)

(* Evidence is kept, a resolved label is closed, and a label that comes    *)
(* later is one the evidence allowed before.                               *)
LEMMA StepNarrows ==
  ASSUME log \in LogType, log' \in LogType, [Next]_log, Valid, Valid',
         (\A c \in Candidates : /\ KnownFailure(c) <=> FailureShown(c)
                                /\ KnownAbove(c) <=> AboveShown(c))',
         NEW c \in Candidates
  PROVE  Possible(c)' \subseteq Possible(c)
<1> DEFINE old(e) == log[<<c, e>>]
           new(e) == log'[<<c, e>>]
<1>1. /\ KnownFailure(c) <=> FailureShown(c)
      /\ KnownAbove(c) <=> AboveShown(c)
  BY EvidenceShown
<1>2. /\ KnownFailure(c)' <=> FailureShown(c)'
      /\ KnownAbove(c)' <=> AboveShown(c)'
  OBVIOUS
<1>3. ASSUME NEW e \in EvaluationSeeds
      PROVE  /\ old(e) \in Seq(AttemptType) /\ new(e) \in Seq(AttemptType)
             /\ Kept(old(e), new(e))
             /\ SlotValid(new(e))
  <2>1. <<c, e>> \in Slots
    BY DEF Slots
  <2> QED
    BY <2>1, StepKeeps DEF LogType, AttemptType, Valid, Accepts
<1>4. ASSUME KnownFailure(c) PROVE KnownFailure(c)'
  <2>1. PICK e \in EvaluationSeeds : \E i \in DOMAIN old(e) :
          old(e)[i].state = "memory_failure" \/ old(e)[i].known
    BY <1>1, <1>4 DEF FailureShown
  <2>2. \E i \in DOMAIN new(e) :
          new(e)[i].state = "memory_failure" \/ new(e)[i].known
    BY <1>3, <2>1 DEF Kept
  <2> QED
    BY <1>2, <2>2 DEF FailureShown
<1>5. KnownAbove(c) => KnownAbove(c)'
  BY <1>1, <1>2, <1>3 DEF AboveShown, Kept
<1>6. CASE Truth(c) # "unresolved"
  <2>1. ASSUME NEW e \in EvaluationSeeds
        PROVE  StateOf(old(e)) # "unresolved"
    BY <1>6 DEF Truth, Part
  <2>2. ASSUME NEW e \in EvaluationSeeds
        PROVE  Len(new(e)) = Len(old(e)) /\ StateOf(new(e)) = StateOf(old(e))
    BY <1>3, <2>1, ResolvedIsClosed
  <2>3. ASSUME KnownFailure(c)' PROVE KnownFailure(c)
    <3>1. PICK e \in EvaluationSeeds : \E i \in DOMAIN new(e) :
            new(e)[i].state = "memory_failure" \/ new(e)[i].known
      BY <1>2, <2>3 DEF FailureShown
    <3>2. DOMAIN new(e) = DOMAIN old(e)
      BY <1>3, <2>2
    <3>3. \E i \in DOMAIN old(e) :
            old(e)[i].state = "memory_failure" \/ old(e)[i].known
      BY <1>3, <3>1, <3>2 DEF Kept
    <3> QED
      BY <1>1, <3>3 DEF FailureShown
  <2>4. {StateOf(Part(c, seed)) : seed \in EvaluationSeeds}'
          = {StateOf(Part(c, seed)) : seed \in EvaluationSeeds}
    BY <2>2 DEF Part
  <2>5. Truth(c)' = Truth(c)
    BY <1>4, <2>3, <2>4 DEF Truth
  <2> QED
    BY <1>6, <2>5 DEF Possible
<1>7. CASE Truth(c) = "unresolved"
  <2>1. Truth(c)' \in States \cup {"unresolved"}
    BY DEF Truth, States
  <2>2. KnownFailure(c)' /\ Truth(c)' # "unresolved" => Truth(c)' = "memory_failure"
    BY DEF Truth
  <2>3. ASSUME KnownAbove(c)', Truth(c)' # "unresolved"
        PROVE  Truth(c)' \in {"above_margin", "memory_failure"}
    <3>1. PICK e \in EvaluationSeeds : \E i \in DOMAIN new(e) :
            new(e)[i].state = "above_margin"
      BY <1>2, <2>3 DEF AboveShown
    <3>2. StateOf(new(e)) = "above_margin"
      BY <1>3, <3>1, ResolvedIsLast
    <3>3. "above_margin" \in {StateOf(Part(c, seed)) : seed \in EvaluationSeeds}'
      BY <3>2 DEF Part
    <3> QED
      BY <2>3, <3>3 DEF Truth
  <2>4. CASE KnownFailure(c)
    BY <1>4, <1>7, <2>2, <2>4 DEF Possible
  <2>5. CASE ~KnownFailure(c) /\ KnownAbove(c)
    BY <1>5, <1>7, <2>3, <2>5 DEF Possible
  <2>6. CASE ~KnownFailure(c) /\ ~KnownAbove(c)
    BY <1>7, <2>1, <2>6 DEF Possible, States
  <2> QED
    BY <2>4, <2>5, <2>6
<1> QED
  BY <1>6, <1>7

(* What a candidate may turn out to be only narrows (evaluation_truth and  *)
(* score, decision_benchmark.py 164-180 and 215-217).                      *)
THEOREM OutcomesNarrow == Spec => OutcomesOnlyNarrow
<1>1. TypeOK /\ TypeOK' /\ [Next]_log
      /\ (\A c \in Candidates : /\ KnownFailure(c) <=> FailureShown(c)
                                /\ KnownAbove(c) <=> AboveShown(c))'
        => [(Valid /\ Valid')
              => \A c \in Candidates : Possible(c)' \subseteq Possible(c)]_log
  BY StepNarrows DEF TypeOK, LogType, AttemptType
<1> QED
  BY <1>1, RecordTyped, EvidenceShown, PTL DEF Spec, OutcomesOnlyNarrow

-----------------------------------------------------------------------------
(* Counting up reaches every number.                                       *)
LEMMA Upwards ==
  ASSUME NEW n \in Nat, NEW S \in SUBSET (0..n), 0 \in S,
         \A i \in 1..n : i - 1 \in S => i \in S
  PROVE  S = 0..n
<1> DEFINE rest == (0..n) \ S
           less == OpToRel(<, Nat)
<1> SUFFICES ASSUME rest # {} PROVE FALSE
  OBVIOUS
<1>1. \E x \in rest : \A y \in rest : <<y, x>> \notin less
  <2>1. rest \subseteq Nat
    OBVIOUS
  <2> HIDE DEF rest, less
  <2>2. IsWellFoundedOn(less, Nat)
    BY NatLessThanWellFounded DEF less
  <2> QED
    BY <2>1, <2>2, WFMin
<1>2. PICK x \in rest : \A y \in rest : <<y, x>> \notin less
  BY <1>1
<1>3. \A y \in rest : ~(y < x)
  <2>1. less = {p \in Nat \X Nat : p[1] < p[2]}
    BY Zenon DEF OpToRel
  <2>2. \A y, z \in Nat : y < z => <<y, z>> \in less
    BY <2>1
  <2>3. rest \subseteq Nat
    OBVIOUS
  <2> HIDE DEF less, rest
  <2> QED
    BY Zenon, <1>2, <2>2, <2>3
<1>4. x \in 1..n /\ x - 1 \in 0..n
  OBVIOUS
<1>5. x - 1 \notin rest
  BY <1>3, <1>4
<1> QED
  BY <1>4, <1>5

(* What is defined step by step, from a first value on, is defined.        *)
Stepwise(g, n, T, base, step) ==
  /\ g \in [0..n -> T] /\ g[0] = base
  /\ \A i \in 1..n : g[i] = step[<<i, g[i - 1]>>]
LEMMA Iterated ==
  ASSUME NEW n \in Nat, NEW T, NEW base \in T, NEW step \in [(1..n) \X T -> T]
  PROVE  \E g : Stepwise(g, n, T, base, step)
<1> DEFINE Made(k, g) == g[0] = base /\ \A i \in 1..k : g[i] = step[<<i, g[i - 1]>>]
           S == {k \in 0..n : \E g \in [0..k -> T] : Made(k, g)}
<1>1. 0 \in S
  <2> DEFINE g == [i \in 0..0 |-> base]
  <2>1. g \in [0..0 -> T] /\ g[0] = base
    OBVIOUS
  <2> HIDE DEF g
  <2>2. Made(0, g)
    BY <2>1
  <2> QED
    BY <2>1, <2>2
<1>2. ASSUME NEW k \in 1..n, k - 1 \in S
      PROVE  k \in S
  <2>1. PICK g \in [0..(k - 1) -> T] : Made(k - 1, g)
    BY <1>2
  <2> DEFINE next == step[<<k, g[k - 1]>>]
             h == [i \in 0..k |-> IF i = k THEN next ELSE g[i]]
  <2>2. next \in T
    OBVIOUS
  <2> HIDE DEF next
  <2>3. h \in [0..k -> T]
    BY <2>2
  <2>4. h[0] = base
    BY <2>1
  <2>5. ASSUME NEW i \in 1..k
        PROVE  h[i] = step[<<i, h[i - 1]>>]
    <3>1. h[i - 1] = g[i - 1]
      OBVIOUS
    <3>2. CASE i = k
      <4>1. h[k] = next
        OBVIOUS
      <4> QED
        BY <3>1, <3>2, <4>1 DEF next
    <3>3. CASE i # k
      <4>1. h[i] = g[i] /\ i \in 1..(k - 1)
        BY <3>3
      <4> QED
        BY <2>1, <3>1, <4>1
    <3> QED
      BY <3>2, <3>3
  <2> HIDE DEF h
  <2> QED
    BY <2>3, <2>4, <2>5
<1>3. S = 0..n
  <2>1. S \in SUBSET (0..n)
    OBVIOUS
  <2> HIDE DEF S
  <2> QED
    BY <1>1, <1>2, <2>1, Upwards
<1> QED
  BY <1>3 DEF Stepwise

-----------------------------------------------------------------------------
(* An acquisition, and what a charge does to it.                           *)
Acquisition == [decisions : [Candidates -> {"approve", "reject", "abstain"}],
                transcript : Seq(Candidates \X (States \cup {"unresolved"})),
                spent : Nat, stop : BOOLEAN, over : BOOLEAN]

Effect(x, c, attempt, budget, y) ==
  /\ y \in Acquisition /\ y.stop = x.stop
  /\ x.spent <= budget => y.spent <= budget
  /\ x.over \/ x.spent >= budget => y = x
  /\ ~(x.over \/ x.spent >= budget) =>
       /\ y.spent = x.spent + 1 /\ y.over = ~attempt.repair
       /\ y.transcript = Append(x.transcript, <<c, attempt.state>>)

LEMMA ChargeTyped ==
  ASSUME NEW acc \in Acquisition, NEW c \in Candidates, NEW attempt \in AttemptType, NEW budget \in Nat
  PROVE  Effect(acc, c, attempt, budget, Charge(acc, c, attempt, budget))
<1> DEFINE q == DecisionOf(attempt.state)
           line == <<c, attempt.state>>
           r == attempt.repair
           charged == [acc EXCEPT !.spent = @ + 1, !.decisions[c] = q,
                                  !.transcript = Append(@, line), !.over = ~r]
<1>1. q \in {"approve", "reject", "abstain"}
  BY DEF DecisionOf
<1>2. line \in Candidates \X (States \cup {"unresolved"}) /\ r \in BOOLEAN
  BY DEF AttemptType
<1>3. Charge(acc, c, attempt, budget) = IF acc.over \/ acc.spent >= budget THEN acc ELSE charged
  BY Zenon DEF Charge
<1>4. acc.spent \in Nat
  BY DEF Acquisition
<1>5. charged \in Acquisition
  <2> DEFINE written == Append(acc.transcript, line)
             one == [acc EXCEPT !.spent = @ + 1]
             two == [one EXCEPT !.decisions[c] = q]
             three == [two EXCEPT !.transcript = written]
             four == [three EXCEPT !.over = ~r]
  <2> HIDE DEF q, line, r
  <2>0. written \in Seq(Candidates \X (States \cup {"unresolved"}))
    BY <1>2 DEF Acquisition
  <2>1. one \in Acquisition /\ one.transcript = acc.transcript
    BY DEF Acquisition
  <2>2. two \in Acquisition /\ two.transcript = acc.transcript
    <3> HIDE DEF one
    <3> QED
      BY <1>1, <2>1 DEF Acquisition
  <2>3. three \in Acquisition
    <3> HIDE DEF two, written
    <3> QED
      BY <2>0, <2>2 DEF Acquisition
  <2>4. four \in Acquisition
    <3> HIDE DEF three
    <3> QED
      BY <1>2, <2>3 DEF Acquisition
  <2>5. four = charged
    BY <2>2
  <2> HIDE DEF four, charged
  <2> QED
    BY <2>4, <2>5
<1>6. /\ charged.spent = acc.spent + 1 /\ charged.stop = acc.stop
      /\ charged.over = ~r /\ charged.transcript = Append(acc.transcript, line)
  <2> HIDE DEF q, line, r
  <2> QED
    BY <1>2 DEF Acquisition
<1> HIDE DEF charged
<1> QED
  BY <1>3, <1>4, <1>5, <1>6 DEF Effect

(* A candidate's records are charged one after the other.                  *)
Charges(g, acc, c, records, budget) ==
  /\ g \in [0..Len(records) -> Acquisition]
  /\ g[0] = [acc EXCEPT !.over = FALSE]
  /\ \A i \in 1..Len(records) : g[i] = Charge(g[i - 1], c, records[i], budget)
LEMMA ChargedInTurn ==
  ASSUME NEW acc \in Acquisition, NEW c \in Candidates,
         NEW records \in Seq(AttemptType), NEW budget \in Nat
  PROVE  \E g : /\ Charges(g, acc, c, records, budget)
                /\ ChargeAll(acc, c, records, budget) = g[Len(records)]
<1> DEFINE n == Len(records)
           base == [acc EXCEPT !.over = FALSE]
           step == [p \in (1..n) \X Acquisition |-> Charge(p[2], c, records[p[1]], budget)]
           F == CHOOSE f : f = [i \in 0..Len(records) |->
                  IF i = 0 THEN [acc EXCEPT !.over = FALSE]
                  ELSE Charge(f[i - 1], c, records[i], budget)]
<1>1. base \in Acquisition
  BY DEF Acquisition
<1>2. step \in [(1..n) \X Acquisition -> Acquisition]
  <2>1. ASSUME NEW p \in (1..n) \X Acquisition
        PROVE  Charge(p[2], c, records[p[1]], budget) \in Acquisition
    <3>1. p[2] \in Acquisition /\ records[p[1]] \in AttemptType
      OBVIOUS
    <3> QED
      BY <3>1, ChargeTyped DEF Effect
  <2> QED
    BY <2>1
<1>3. PICK g : Stepwise(g, n, Acquisition, base, step)
  <2>1. n \in Nat
    OBVIOUS
  <2> HIDE DEF base, step, n, F
  <2> QED
    BY Zenon, <1>1, <1>2, <2>1, Iterated
<1>4. ASSUME NEW i \in 1..n
      PROVE  g[i] = Charge(g[i - 1], c, records[i], budget)
  <2>1. <<i, g[i - 1]>> \in (1..n) \X Acquisition
    BY <1>3 DEF Stepwise
  <2>2. step[<<i, g[i - 1]>>] = Charge(g[i - 1], c, records[i], budget)
    BY <2>1
  <2> HIDE DEF step
  <2> QED
    BY <1>3, <2>2 DEF Stepwise
<1>5. g = [i \in 0..Len(records) |->
             IF i = 0 THEN [acc EXCEPT !.over = FALSE]
             ELSE Charge(g[i - 1], c, records[i], budget)]
  <2>1. g = [i \in 0..n |-> g[i]] /\ g[0] = base /\ \A i \in 0..n : i = 0 \/ i \in 1..n
    BY <1>3 DEF Stepwise
  <2> HIDE DEF n, step
  <2> QED
    BY Zenon, <1>4, <2>1 DEF n
<1>6. F = [i \in 0..Len(records) |->
             IF i = 0 THEN [acc EXCEPT !.over = FALSE]
             ELSE Charge(F[i - 1], c, records[i], budget)]
  BY Zenon, <1>5
<1>7. ChargeAll(acc, c, records, budget) = F[n]
  BY Zenon DEF ChargeAll
<1> HIDE DEF F
<1>8. F[0] = base /\ \A i \in 1..n : F[i] = Charge(F[i - 1], c, records[i], budget)
  <2>1. 0 \in 0..n /\ \A i \in 1..n : i \in 0..n /\ i # 0
    OBVIOUS
  <2> HIDE DEF n
  <2> QED
    BY Zenon, <1>6, <2>1 DEF n
<1>9. F \in [0..n -> Acquisition]
  <2> DEFINE S == {i \in 0..n : F[i] \in Acquisition}
  <2>1. n \in Nat /\ S \in SUBSET (0..n) /\ 0 \in S
    BY <1>1, <1>8
  <2>2. ASSUME NEW i \in 1..n, i - 1 \in S
        PROVE  i \in S
    <3>1. F[i - 1] \in Acquisition /\ records[i] \in AttemptType /\ i \in 0..n
      BY <2>2
    <3>2. Charge(F[i - 1], c, records[i], budget) \in Acquisition
      BY <3>1, ChargeTyped DEF Effect
    <3> QED
      BY <1>8, <3>1, <3>2
  <2>3. S = 0..n
    <3> HIDE DEF S, n
    <3> QED
      BY <2>1, <2>2, Upwards
  <2> QED
    BY <1>6, <2>3
<1> QED
  BY <1>7, <1>8, <1>9 DEF Charges

(* The records of one screen only add to what was charged, within the      *)
(* budget, and do not end the acquisition.                                 *)
LEMMA ScreenCharged ==
  ASSUME NEW acc \in Acquisition, NEW c \in Candidates,
         NEW records \in Seq(AttemptType), NEW budget \in Nat
  PROVE  /\ ChargeAll(acc, c, records, budget) \in Acquisition
         /\ ChargeAll(acc, c, records, budget).stop = acc.stop
         /\ acc.spent <= budget => ChargeAll(acc, c, records, budget).spent <= budget
         /\ IsPrefix(acc.transcript, ChargeAll(acc, c, records, budget).transcript)
<1> DEFINE n == Len(records)
<1>0. PICK g : Charges(g, acc, c, records, budget) /\ ChargeAll(acc, c, records, budget) = g[n]
  BY ChargedInTurn
<1>1. /\ g \in [0..n -> Acquisition]
      /\ g[0] = [acc EXCEPT !.over = FALSE]
      /\ \A i \in 1..n : g[i] = Charge(g[i - 1], c, records[i], budget)
      /\ ChargeAll(acc, c, records, budget) = g[n]
  BY <1>0 DEF Charges
<1> DEFINE Keeps(x) == /\ x.stop = acc.stop /\ (acc.spent <= budget => x.spent <= budget)
                       /\ IsPrefix(acc.transcript, x.transcript)
           S == {i \in 0..n : Keeps(g[i])}
<1>2. n \in Nat /\ S \in SUBSET (0..n)
  OBVIOUS
<1>3. 0 \in S
  <2>1. /\ g[0].stop = acc.stop /\ g[0].spent = acc.spent
        /\ g[0].transcript = acc.transcript
    BY <1>1 DEF Acquisition
  <2>2. IsPrefix(acc.transcript, acc.transcript)
    BY DEF IsPrefix, Acquisition
  <2> QED
    BY <1>2, <2>1, <2>2
<1>4. ASSUME NEW i \in 1..n, i - 1 \in S
      PROVE  i \in S
  <2> DEFINE x == g[i - 1]
             y == Charge(x, c, records[i], budget)
  <2>1. x \in Acquisition /\ records[i] \in AttemptType /\ Keeps(x) /\ g[i] = y
    BY <1>1, <1>4
  <2> HIDE DEF x
  <2>2. /\ y.stop = x.stop /\ (x.spent <= budget => y.spent <= budget)
        /\ y.transcript \in {x.transcript, Append(x.transcript, <<c, records[i].state>>)}
    <3> DEFINE record == records[i]
    <3>1. Effect(x, c, record, budget, y)
      <4> HIDE DEF record
      <4> QED
        BY <2>1, ChargeTyped DEF record
    <3> HIDE DEF y
    <3> QED
      BY <3>1 DEF Effect
  <2>3. IsPrefix(acc.transcript, y.transcript)
    <3> DEFINE s == acc.transcript
               t == x.transcript
               line == <<c, records[i].state>>
    <3>1. s \in Seq(Candidates \X (States \cup {"unresolved"})) /\ t \in Seq(Candidates \X (States \cup {"unresolved"}))
          /\ IsPrefix(s, t) /\ line \in Candidates \X (States \cup {"unresolved"})
      BY <2>1 DEF Acquisition, AttemptType
    <3> HIDE DEF s, t, line
    <3>2. IsPrefix(s, Append(t, line))
      BY <3>1 DEF IsPrefix
    <3> QED
      BY <2>2, <3>1, <3>2 DEF s, t, line
  <2> HIDE DEF y
  <2> QED
    BY <2>1, <2>2, <2>3
<1>5. S = 0..n
  <2> HIDE DEF S, n
  <2> QED
    BY <1>2, <1>3, <1>4, Upwards
<1>6. n \in 0..n
  OBVIOUS
<1>7. Keeps(g[n]) /\ g[n] \in Acquisition
  BY <1>1, <1>5, <1>6
<1> QED
  BY <1>1, <1>7

LEMMA ScreenTyped ==
  ASSUME NEW acc \in Acquisition, NEW c \in Candidates,
         NEW records \in Seq(AttemptType), NEW budget \in Nat
  PROVE  /\ ScreenOne(acc, c, records, budget) \in Acquisition
         /\ acc.spent <= budget => ScreenOne(acc, c, records, budget).spent <= budget
         /\ IsPrefix(acc.transcript, ScreenOne(acc, c, records, budget).transcript)
<1>1. [acc EXCEPT !.stop = TRUE] \in Acquisition
  BY DEF Acquisition
<1>2. [acc EXCEPT !.decisions[c] = "abstain", !.stop = TRUE] \in Acquisition
  <2> DEFINE one == [acc EXCEPT !.decisions[c] = "abstain"]
             two == [one EXCEPT !.stop = TRUE]
  <2>1. one \in Acquisition
    BY DEF Acquisition
  <2>2. two \in Acquisition
    <3> HIDE DEF one
    <3> QED
      BY <2>1 DEF Acquisition
  <2> QED
    BY Zenon, <2>2
<1>3. /\ [acc EXCEPT !.stop = TRUE].spent = acc.spent
      /\ [acc EXCEPT !.stop = TRUE].transcript = acc.transcript
      /\ [acc EXCEPT !.decisions[c] = "abstain", !.stop = TRUE].spent = acc.spent
      /\ [acc EXCEPT !.decisions[c] = "abstain", !.stop = TRUE].transcript = acc.transcript
  BY DEF Acquisition
<1>4. IsPrefix(acc.transcript, acc.transcript)
  BY DEF IsPrefix, Acquisition
<1>5. CASE acc.stop \/ acc.spent >= budget
  <2>1. ScreenOne(acc, c, records, budget) = [acc EXCEPT !.stop = TRUE]
    BY <1>5 DEF ScreenOne
  <2> QED
    BY <1>1, <1>3, <1>4, <2>1
<1>6. CASE ~(acc.stop \/ acc.spent >= budget) /\ records = << >>
  <2>1. ScreenOne(acc, c, records, budget) = [acc EXCEPT !.decisions[c] = "abstain", !.stop = TRUE]
    BY <1>6 DEF ScreenOne
  <2> QED
    BY <1>2, <1>3, <1>4, <2>1
<1>7. CASE ~(acc.stop \/ acc.spent >= budget) /\ records # << >>
  <2>1. ScreenOne(acc, c, records, budget) = ChargeAll(acc, c, records, budget)
    BY <1>7 DEF ScreenOne
  <2> QED
    BY ScreenCharged, <2>1
<1> QED
  BY <1>5, <1>6, <1>7

(* Candidates are screened one after the other, in the order of queries.   *)
Blank(rule) ==
  [decisions |-> [c \in Candidates |-> InitialDecision(rule, c)],
   transcript |-> << >>, spent |-> 0, stop |-> FALSE, over |-> FALSE]

LEMMA BlankTyped == ASSUME NEW rule PROVE Blank(rule) \in Acquisition
<1>1. \A c \in Candidates : InitialDecision(rule, c) \in {"approve", "reject", "abstain"}
  BY DEF InitialDecision
<1>2. << >> \in Seq(Candidates \X (States \cup {"unresolved"}))
  OBVIOUS
<1> QED
  BY <1>1, <1>2 DEF Blank, Acquisition

Screens(g, attempts, rule, budget) ==
  /\ g \in [0..Len(QueryOrder) -> Acquisition]
  /\ g[0] = Blank(rule)
  /\ \A i \in 1..Len(QueryOrder) :
       g[i] = ScreenOne(g[i - 1], QueryOrder[i], attempts[<<QueryOrder[i], Screen>>], budget)
LEMMA ScreenedInTurn ==
  ASSUME NEW attempts \in LogType, NEW rule, NEW budget \in Nat
  PROVE  \E g : /\ Screens(g, attempts, rule, budget)
                /\ Acquire(attempts, rule, budget) = g[Len(QueryOrder)]
<1> DEFINE n == Len(QueryOrder)
           base == Blank(rule)
           records(i) == attempts[<<QueryOrder[i], Screen>>]
           step == [p \in (1..n) \X Acquisition |->
                      ScreenOne(p[2], QueryOrder[p[1]], records(p[1]), budget)]
           F == CHOOSE f : f = [i \in 0..Len(QueryOrder) |->
                  IF i = 0
                  THEN [decisions |-> [c \in Candidates |-> InitialDecision(rule, c)],
                        transcript |-> << >>, spent |-> 0, stop |-> FALSE, over |-> FALSE]
                  ELSE ScreenOne(f[i - 1], QueryOrder[i], attempts[<<QueryOrder[i], Screen>>], budget)]
<1>0. n \in Nat /\ \A i \in 1..n : QueryOrder[i] \in Candidates /\ records(i) \in Seq(AttemptType)
  <2>1. QueryOrder \in Seq(Candidates)
    BY ProtocolAssumption
  <2>2. \A c \in Candidates : <<c, Screen>> \in Slots
    BY DEF Slots
  <2> QED
    BY <2>1, <2>2 DEF LogType
<1>1. base \in Acquisition
  BY BlankTyped
<1>2. step \in [(1..n) \X Acquisition -> Acquisition]
  <2>1. ASSUME NEW p \in (1..n) \X Acquisition
        PROVE  ScreenOne(p[2], QueryOrder[p[1]], records(p[1]), budget) \in Acquisition
    <3>1. p[1] \in 1..n /\ p[2] \in Acquisition
      OBVIOUS
    <3>2. QueryOrder[p[1]] \in Candidates /\ records(p[1]) \in Seq(AttemptType)
      BY <1>0, <3>1
    <3> HIDE DEF n, records
    <3> QED
      BY <3>1, <3>2, ScreenTyped
  <2> HIDE DEF n, records
  <2> QED
    BY <2>1
<1>3. PICK g : Stepwise(g, n, Acquisition, base, step)
  <2> HIDE DEF base, step, n, F
  <2> QED
    BY Zenon, <1>0, <1>1, <1>2, Iterated
<1>4. ASSUME NEW i \in 1..n
      PROVE  g[i] = ScreenOne(g[i - 1], QueryOrder[i], records(i), budget)
  <2>1. <<i, g[i - 1]>> \in (1..n) \X Acquisition
    <3> HIDE DEF step
    <3> QED
      BY <1>0, <1>3 DEF Stepwise
  <2>2. step[<<i, g[i - 1]>>] = ScreenOne(g[i - 1], QueryOrder[i], records(i), budget)
    <3> HIDE DEF records, n
    <3> QED
      BY <2>1
  <2> HIDE DEF step, n
  <2> QED
    BY <1>3, <2>2 DEF Stepwise
<1>5. g = [i \in 0..Len(QueryOrder) |->
             IF i = 0
             THEN [decisions |-> [c \in Candidates |-> InitialDecision(rule, c)],
                   transcript |-> << >>, spent |-> 0, stop |-> FALSE, over |-> FALSE]
             ELSE ScreenOne(g[i - 1], QueryOrder[i], attempts[<<QueryOrder[i], Screen>>], budget)]
  <2>1. g = [i \in 0..n |-> g[i]] /\ g[0] = base /\ \A i \in 0..n : i = 0 \/ i \in 1..n
    <3> HIDE DEF step, base
    <3> QED
      BY <1>0, <1>3 DEF Stepwise
  <2> HIDE DEF n, step
  <2> QED
    BY Zenon, <1>4, <2>1 DEF n, Blank
<1>6. F = [i \in 0..Len(QueryOrder) |->
             IF i = 0
             THEN [decisions |-> [c \in Candidates |-> InitialDecision(rule, c)],
                   transcript |-> << >>, spent |-> 0, stop |-> FALSE, over |-> FALSE]
             ELSE ScreenOne(F[i - 1], QueryOrder[i], attempts[<<QueryOrder[i], Screen>>], budget)]
  BY Zenon, <1>5
<1>7. Acquire(attempts, rule, budget) = F[n]
  BY Zenon DEF Acquire
<1> HIDE DEF F
<1>8. F[0] = base /\ \A i \in 1..n : F[i] = ScreenOne(F[i - 1], QueryOrder[i], records(i), budget)
  <2>1. 0 \in 0..n /\ \A i \in 1..n : i \in 0..n /\ i # 0
    BY <1>0
  <2> HIDE DEF n
  <2> QED
    BY Zenon, <1>6, <2>1 DEF n, Blank
<1>9. F \in [0..n -> Acquisition]
  <2> DEFINE S == {i \in 0..n : F[i] \in Acquisition}
  <2>1. S \in SUBSET (0..n) /\ 0 \in S
    BY <1>0, <1>1, <1>8
  <2>2. ASSUME NEW i \in 1..n, i - 1 \in S
        PROVE  i \in S
    <3>1. F[i - 1] \in Acquisition /\ i \in 0..n
      BY <1>0, <2>2
    <3>2. ScreenOne(F[i - 1], QueryOrder[i], records(i), budget) \in Acquisition
      <4> HIDE DEF records, n
      <4> QED
        BY <1>0, <3>1, ScreenTyped
    <3> QED
      BY <1>8, <3>1, <3>2
  <2>3. S = 0..n
    <3> HIDE DEF S, n
    <3> QED
      BY <1>0, <2>1, <2>2, Upwards
  <2> QED
    BY <1>6, <2>3
<1> QED
  BY <1>7, <1>8, <1>9 DEF Screens

-----------------------------------------------------------------------------
(* Two acquisitions, the one with less to spend or with fewer records than *)
(* the other.  Until the one has ended, they are alike; then the other may *)
(* go on.                                                                  *)
Ended(x, budget) == x.stop \/ x.spent >= budget
Alike(x, y) == x.transcript = y.transcript /\ x.spent = y.spent
Behind(x, y, budget) ==
  /\ IsPrefix(x.transcript, y.transcript)
  /\ ~Ended(x, budget) => Alike(x, y) /\ ~y.stop

(* A screen of which more is known: not yet started, or the same attempts  *)
(* with the same states, the last of which may now await a replacement.    *)
Grown(r, q) ==
  r = << >> \/ /\ Len(r) = Len(q)
               /\ \A i \in 1..Len(r) : r[i].state = q[i].state
               /\ \A i \in 1..(Len(r) - 1) : r[i].repair = q[i].repair

Lines == Seq(Candidates \X (States \cup {"unresolved"}))
LEMMA Longer ==
  ASSUME NEW s \in Lines, NEW t \in Lines, NEW line \in Candidates \X (States \cup {"unresolved"})
  PROVE  /\ IsPrefix(s, s)
         /\ IsPrefix(s, t) => IsPrefix(s, Append(t, line))
BY DEF IsPrefix, Lines
LEMMA Onward ==
  ASSUME NEW s \in Lines, NEW t \in Lines, NEW u \in Lines, IsPrefix(s, t), IsPrefix(t, u)
  PROVE  IsPrefix(s, u)
<1>1. Len(s) \in Nat /\ Len(t) \in Nat /\ Len(u) \in Nat /\ Len(s) <= Len(t) /\ Len(t) <= Len(u)
  BY DEF IsPrefix, Lines
<1>2. SubSeq(s, 1, Len(s)) = SubSeq(t, 1, Len(s)) /\ SubSeq(t, 1, Len(t)) = SubSeq(u, 1, Len(t))
  BY DEF IsPrefix
<1>3. \A i \in 1..Len(s) : s[i] = t[i]
  <2> TAKE i \in 1..Len(s)
  <2>1. SubSeq(s, 1, Len(s))[i] = s[i] /\ SubSeq(t, 1, Len(s))[i] = t[i]
    BY <1>1 DEF Lines
  <2> QED
    BY <1>2, <2>1
<1>4. \A i \in 1..Len(t) : t[i] = u[i]
  <2> TAKE i \in 1..Len(t)
  <2>1. SubSeq(t, 1, Len(t))[i] = t[i] /\ SubSeq(u, 1, Len(t))[i] = u[i]
    BY <1>1 DEF Lines
  <2> QED
    BY <1>2, <2>1
<1>5. \A i \in 1..Len(s) : s[i] = u[i]
  BY <1>1, <1>3, <1>4
<1>6. SubSeq(s, 1, Len(s)) = SubSeq(u, 1, Len(s))
  BY <1>1, <1>5 DEF Lines
<1> QED
  BY <1>1, <1>6 DEF IsPrefix

(* One attempt.                                                            *)
LEMMA ChargeBehind ==
  ASSUME NEW x \in Acquisition, NEW y \in Acquisition, NEW c \in Candidates,
         NEW r \in AttemptType, NEW q \in AttemptType, r.state = q.state,
         NEW b \in Nat, NEW d \in Nat, b <= d,
         IsPrefix(x.transcript, y.transcript),
         x.spent < b => Alike(x, y) /\ x.over = y.over
  PROVE  /\ IsPrefix(Charge(x, c, r, b).transcript, Charge(y, c, q, d).transcript)
         /\ Charge(x, c, r, b).spent < b =>
              /\ Alike(Charge(x, c, r, b), Charge(y, c, q, d))
              /\ r.repair = q.repair => Charge(x, c, r, b).over = Charge(y, c, q, d).over
<1> DEFINE v == Charge(x, c, r, b)
           w == Charge(y, c, q, d)
           line == <<c, r.state>>
<1>1. /\ x.transcript \in Lines /\ y.transcript \in Lines
      /\ x.spent \in Nat /\ y.spent \in Nat /\ x.over \in BOOLEAN /\ y.over \in BOOLEAN
      /\ line \in Candidates \X (States \cup {"unresolved"})
  BY DEF Acquisition, Lines, AttemptType
<1>2. /\ x.over \/ x.spent >= b => v = x
      /\ ~(x.over \/ x.spent >= b) =>
           v.spent = x.spent + 1 /\ v.transcript = Append(x.transcript, line) /\ v.over = ~r.repair
  <2>1. Effect(x, c, r, b, v)
    BY Zenon, ChargeTyped
  <2> HIDE DEF v
  <2> QED
    BY Zenon, <2>1 DEF Effect
<1>3. /\ y.over \/ y.spent >= d => w = y
      /\ ~(y.over \/ y.spent >= d) =>
           w.spent = y.spent + 1 /\ w.transcript = Append(y.transcript, line) /\ w.over = ~q.repair
  <2>1. line = <<c, q.state>>
    OBVIOUS
  <2>2. Effect(y, c, q, d, w)
    BY Zenon, ChargeTyped
  <2> HIDE DEF line, w
  <2> QED
    BY Zenon, <2>1, <2>2 DEF Effect
<1> HIDE DEF v, w, line
<1>4. CASE x.spent >= b
  <2>1. v = x /\ ~(v.spent < b)
    BY <1>1, <1>2, <1>4
  <2>2. w.transcript = y.transcript \/ w.transcript = Append(y.transcript, line)
    BY <1>1, <1>3
  <2>3. IsPrefix(v.transcript, w.transcript)
    BY <1>1, <2>1, <2>2, Longer
  <2> QED
    BY <2>1, <2>3 DEF v, w
<1>5. CASE x.spent < b /\ x.over
  <2>1. v = x /\ w = y
    BY <1>1, <1>2, <1>3, <1>5
  <2> QED
    BY <1>5, <2>1 DEF v, w
<1>6. CASE x.spent < b /\ ~x.over
  <2>1. y.spent < d /\ ~y.over /\ x.transcript = y.transcript /\ x.spent = y.spent
    BY <1>1, <1>6 DEF Alike
  <2>2. /\ v.spent = x.spent + 1 /\ v.transcript = Append(x.transcript, line) /\ v.over = ~r.repair
        /\ w.spent = y.spent + 1 /\ w.transcript = Append(y.transcript, line) /\ w.over = ~q.repair
    BY <1>1, <1>2, <1>3, <1>6, <2>1
  <2>3. v.transcript \in Lines
    BY <1>1, <2>2 DEF Lines
  <2>4. IsPrefix(v.transcript, w.transcript) /\ Alike(v, w)
    BY <1>1, <2>1, <2>2, <2>3, Longer DEF Alike
  <2>5. r.repair = q.repair => v.over = w.over
    BY <2>2
  <2> QED
    BY <2>4, <2>5 DEF v, w
<1> QED
  BY <1>1, <1>4, <1>5, <1>6

(* The attempts of one screen.                                             *)
LEMMA ScreenBehind ==
  ASSUME NEW x \in Acquisition, NEW y \in Acquisition, NEW c \in Candidates,
         NEW r \in Seq(AttemptType), NEW q \in Seq(AttemptType), r # << >>, Grown(r, q),
         NEW b \in Nat, NEW d \in Nat, b <= d, Alike(x, y)
  PROVE  /\ IsPrefix(ChargeAll(x, c, r, b).transcript, ChargeAll(y, c, q, d).transcript)
         /\ ChargeAll(x, c, r, b).spent < b => Alike(ChargeAll(x, c, r, b), ChargeAll(y, c, q, d))
<1> DEFINE n == Len(r)
<1>0. /\ n \in Nat \ {0} /\ Len(q) = n
      /\ \A i \in 1..n : r[i] \in AttemptType /\ q[i] \in AttemptType /\ r[i].state = q[i].state
      /\ \A i \in 1..(n - 1) : r[i].repair = q[i].repair
  BY DEF Grown
<1>a. PICK g : Charges(g, x, c, r, b) /\ ChargeAll(x, c, r, b) = g[Len(r)]
  BY Zenon, ChargedInTurn
<1>1. /\ g \in [0..n -> Acquisition]
      /\ g[0] = [x EXCEPT !.over = FALSE]
      /\ \A i \in 1..n : g[i] = Charge(g[i - 1], c, r[i], b)
      /\ ChargeAll(x, c, r, b) = g[n]
  BY Zenon, <1>0, <1>a DEF Charges
<1>b. PICK h : Charges(h, y, c, q, d) /\ ChargeAll(y, c, q, d) = h[Len(q)]
  BY Zenon, ChargedInTurn
<1>2. /\ h \in [0..n -> Acquisition]
      /\ h[0] = [y EXCEPT !.over = FALSE]
      /\ \A i \in 1..n : h[i] = Charge(h[i - 1], c, q[i], d)
      /\ ChargeAll(y, c, q, d) = h[n]
  BY Zenon, <1>0, <1>b DEF Charges
<1> HIDE DEF n
<1> DEFINE Near(v, w) == IsPrefix(v.transcript, w.transcript) /\ (v.spent < b => Alike(v, w))
           S == {i \in 0..n : /\ Near(g[i], h[i])
                              /\ i < n => (g[i].spent < b => g[i].over = h[i].over)}
<1>3. n \in Nat /\ S \in SUBSET (0..n)
  BY <1>0
<1>4. 0 \in S
  <2>1. /\ g[0].transcript = x.transcript /\ h[0].transcript = y.transcript
        /\ g[0].spent = x.spent /\ h[0].spent = y.spent /\ g[0].over = h[0].over
    BY <1>1, <1>2 DEF Acquisition
  <2>2. IsPrefix(x.transcript, x.transcript)
    BY DEF IsPrefix, Acquisition
  <2> QED
    BY <1>3, <2>1, <2>2 DEF Alike
<1>5. ASSUME NEW i \in 1..n, i - 1 \in S
      PROVE  i \in S
  <2> DEFINE v == g[i - 1]
             w == h[i - 1]
             s == r[i]
             t == q[i]
  <2>1. /\ v \in Acquisition /\ w \in Acquisition /\ s \in AttemptType /\ t \in AttemptType
        /\ s.state = t.state /\ i - 1 < n
    BY <1>0, <1>1, <1>2
  <2>2. IsPrefix(v.transcript, w.transcript) /\ (v.spent < b => Alike(v, w) /\ v.over = w.over)
    BY <1>5, <2>1
  <2>3. g[i] = Charge(v, c, s, b) /\ h[i] = Charge(w, c, t, d)
    BY <1>1, <1>2
  <2>4. i < n => s.repair = t.repair
    BY <1>0
  <2> HIDE DEF v, w, s, t
  <2>5. Near(g[i], h[i]) /\ (g[i].spent < b /\ s.repair = t.repair => g[i].over = h[i].over)
    BY <2>1, <2>2, <2>3, ChargeBehind
  <2> QED
    BY <1>3, <2>4, <2>5
<1>6. S = 0..n
  <2> HIDE DEF S
  <2> QED
    BY <1>3, <1>4, <1>5, Upwards
<1>7. n \in 0..n
  BY <1>3
<1>8. Near(g[n], h[n])
  BY <1>6, <1>7
<1> QED
  BY <1>1, <1>2, <1>8

(* One candidate.                                                          *)
LEMMA CandidateBehind ==
  ASSUME NEW x \in Acquisition, NEW y \in Acquisition, NEW c \in Candidates,
         NEW r \in Seq(AttemptType), NEW q \in Seq(AttemptType), Grown(r, q),
         NEW b \in Nat, NEW d \in Nat, b <= d, Behind(x, y, b)
  PROVE  Behind(ScreenOne(x, c, r, b), ScreenOne(y, c, q, d), b)
<1> DEFINE v == ScreenOne(x, c, r, b)
           w == ScreenOne(y, c, q, d)
<1>1. /\ v \in Acquisition /\ w \in Acquisition /\ IsPrefix(y.transcript, w.transcript)
      /\ x.transcript \in Lines /\ y.transcript \in Lines /\ w.transcript \in Lines
      /\ x.spent \in Nat /\ y.spent \in Nat
  <2>1. v \in Acquisition /\ w \in Acquisition /\ IsPrefix(y.transcript, w.transcript)
    BY ScreenTyped
  <2> HIDE DEF v, w
  <2> QED
    BY <2>1 DEF Acquisition, Lines
<1>2. IsPrefix(x.transcript, w.transcript)
  <2>1. IsPrefix(x.transcript, y.transcript)
    BY DEF Behind
  <2> HIDE DEF w
  <2> QED
    BY <1>1, <2>1, Onward
<1>3. CASE Ended(x, b)
  <2>1. v = [x EXCEPT !.stop = TRUE]
    BY <1>3 DEF ScreenOne, Ended
  <2>2. v.stop = TRUE /\ v.transcript = x.transcript
    BY <2>1 DEF Acquisition
  <2> QED
    BY <1>2, <2>2 DEF Behind, Ended
<1>4. CASE ~Ended(x, b) /\ r = << >>
  <2>1. v = [x EXCEPT !.decisions[c] = "abstain", !.stop = TRUE]
    BY <1>4 DEF ScreenOne, Ended
  <2>2. v.stop = TRUE /\ v.transcript = x.transcript
    BY <2>1 DEF Acquisition
  <2> QED
    BY <1>2, <2>2 DEF Behind, Ended
<1>5. CASE ~Ended(x, b) /\ r # << >>
  <2>1. Alike(x, y) /\ ~y.stop
    BY <1>5 DEF Behind
  <2>2. v = ChargeAll(x, c, r, b)
    BY <1>5 DEF ScreenOne, Ended
  <2>3. q # << >>
    BY <1>5 DEF Grown
  <2>4. w = ChargeAll(y, c, q, d)
    <3>1. ~(y.stop \/ y.spent >= d)
      BY <1>1, <1>5, <2>1 DEF Alike, Ended
    <3> QED
      BY <2>3, <3>1 DEF ScreenOne
  <2>5. /\ IsPrefix(ChargeAll(x, c, r, b).transcript, ChargeAll(y, c, q, d).transcript)
        /\ ChargeAll(x, c, r, b).spent < b => Alike(ChargeAll(x, c, r, b), ChargeAll(y, c, q, d))
    BY <1>5, <2>1, ScreenBehind
  <2>6. ChargeAll(y, c, q, d).stop = y.stop /\ v.spent \in Nat
    <3>1. ChargeAll(y, c, q, d).stop = y.stop
      BY Zenon, ScreenCharged
    <3> HIDE DEF v
    <3> QED
      BY <1>1, <3>1 DEF Acquisition
  <2> HIDE DEF v, w
  <2>7. IsPrefix(v.transcript, w.transcript) /\ (v.spent < b => Alike(v, w)) /\ ~w.stop
    BY Zenon, <2>1, <2>2, <2>4, <2>5, <2>6
  <2>8. ~Ended(v, b) => v.spent < b
    BY <2>6 DEF Ended
  <2> QED
    BY Zenon, <2>7, <2>8 DEF Behind, v, w
<1> QED
  BY <1>3, <1>4, <1>5

(* And so a whole acquisition: with more to spend, or with more known of   *)
(* the panel, it begins as it did.                                         *)
AllGrown(old, new) == \A c \in Candidates : Grown(old[<<c, Screen>>], new[<<c, Screen>>])
LEMMA AcquisitionGoesOn ==
  ASSUME NEW old \in LogType, NEW new \in LogType, AllGrown(old, new),
         NEW rule, NEW b \in Nat, NEW d \in Nat, b <= d
  PROVE  IsPrefix(Charged(old, rule, b), Charged(new, rule, d))
<1> DEFINE n == Len(QueryOrder)
<1>0. /\ n \in Nat
      /\ \A i \in 1..n : /\ QueryOrder[i] \in Candidates
                         /\ old[<<QueryOrder[i], Screen>>] \in Seq(AttemptType)
                         /\ new[<<QueryOrder[i], Screen>>] \in Seq(AttemptType)
                         /\ Grown(old[<<QueryOrder[i], Screen>>], new[<<QueryOrder[i], Screen>>])
  <2>1. QueryOrder \in Seq(Candidates)
    BY ProtocolAssumption
  <2>2. \A c \in Candidates : <<c, Screen>> \in Slots
    BY DEF Slots
  <2>3. \A i \in 1..n : QueryOrder[i] \in Candidates
    BY <2>1
  <2>4. \A c \in Candidates : /\ old[<<c, Screen>>] \in Seq(AttemptType)
                              /\ new[<<c, Screen>>] \in Seq(AttemptType)
                              /\ Grown(old[<<c, Screen>>], new[<<c, Screen>>])
    BY <2>2 DEF LogType, AllGrown
  <2> QED
    BY <2>1, <2>3, <2>4
<1>1. PICK g : Screens(g, old, rule, b) /\ Acquire(old, rule, b) = g[n]
  BY Zenon, ScreenedInTurn
<1>2. PICK h : Screens(h, new, rule, d) /\ Acquire(new, rule, d) = h[n]
  BY Zenon, ScreenedInTurn
<1>3. /\ g \in [0..n -> Acquisition] /\ h \in [0..n -> Acquisition]
      /\ g[0] = Blank(rule) /\ h[0] = Blank(rule)
      /\ \A i \in 1..n : /\ g[i] = ScreenOne(g[i - 1], QueryOrder[i], old[<<QueryOrder[i], Screen>>], b)
                         /\ h[i] = ScreenOne(h[i - 1], QueryOrder[i], new[<<QueryOrder[i], Screen>>], d)
  BY Zenon, <1>1, <1>2 DEF Screens
<1> HIDE DEF n
<1> DEFINE S == {i \in 0..n : Behind(g[i], h[i], b)}
<1>4. S \in SUBSET (0..n) /\ 0 \in S
  <2>1. IsPrefix(<< >>, << >>)
    BY DEF IsPrefix
  <2>2. Behind(Blank(rule), Blank(rule), b)
    BY <2>1 DEF Behind, Blank, Alike
  <2> QED
    BY <1>0, <1>3, <2>2
<1>5. ASSUME NEW i \in 1..n, i - 1 \in S
      PROVE  i \in S
  <2> DEFINE x == g[i - 1]
             y == h[i - 1]
             c == QueryOrder[i]
             r == old[<<QueryOrder[i], Screen>>]
             q == new[<<QueryOrder[i], Screen>>]
  <2>1. /\ x \in Acquisition /\ y \in Acquisition /\ c \in Candidates
        /\ r \in Seq(AttemptType) /\ q \in Seq(AttemptType) /\ Grown(r, q) /\ Behind(x, y, b)
    BY <1>0, <1>3, <1>5
  <2>2. g[i] = ScreenOne(x, c, r, b) /\ h[i] = ScreenOne(y, c, q, d)
    BY <1>3
  <2> HIDE DEF x, y, c, r, q
  <2>3. Behind(ScreenOne(x, c, r, b), ScreenOne(y, c, q, d), b)
    BY <2>1, CandidateBehind
  <2> QED
    BY <1>0, <2>2, <2>3
<1>6. S = 0..n
  <2> HIDE DEF S
  <2> QED
    BY <1>0, <1>4, <1>5, Upwards
<1>7. Behind(g[n], h[n], b)
  BY <1>0, <1>6
<1> QED
  BY <1>1, <1>2, <1>7 DEF Charged, Behind

(* No acquisition spends more than its budget.                             *)
LEMMA WithinBudget ==
  ASSUME NEW attempts \in LogType, NEW rule, NEW b \in Nat
  PROVE  Acquire(attempts, rule, b).spent <= b
<1> DEFINE n == Len(QueryOrder)
<1>0. /\ n \in Nat
      /\ \A i \in 1..n : /\ QueryOrder[i] \in Candidates
                         /\ attempts[<<QueryOrder[i], Screen>>] \in Seq(AttemptType)
  <2>1. QueryOrder \in Seq(Candidates)
    BY ProtocolAssumption
  <2>2. \A c \in Candidates : attempts[<<c, Screen>>] \in Seq(AttemptType)
    BY DEF Slots, LogType
  <2> QED
    BY <2>1, <2>2
<1>1. PICK g : Screens(g, attempts, rule, b) /\ Acquire(attempts, rule, b) = g[n]
  BY Zenon, ScreenedInTurn
<1>2. /\ g \in [0..n -> Acquisition] /\ g[0] = Blank(rule)
      /\ \A i \in 1..n : g[i] = ScreenOne(g[i - 1], QueryOrder[i], attempts[<<QueryOrder[i], Screen>>], b)
  BY Zenon, <1>1 DEF Screens
<1> HIDE DEF n
<1> DEFINE S == {i \in 0..n : g[i].spent <= b}
<1>3. S \in SUBSET (0..n) /\ 0 \in S
  BY <1>0, <1>2 DEF Blank
<1>4. ASSUME NEW i \in 1..n, i - 1 \in S
      PROVE  i \in S
  <2> DEFINE x == g[i - 1]
             c == QueryOrder[i]
             r == attempts[<<QueryOrder[i], Screen>>]
  <2>1. x \in Acquisition /\ c \in Candidates /\ r \in Seq(AttemptType) /\ x.spent <= b
    BY <1>0, <1>2, <1>4
  <2>2. g[i] = ScreenOne(x, c, r, b)
    BY <1>2
  <2> HIDE DEF x, c, r
  <2>3. ScreenOne(x, c, r, b).spent <= b
    BY <2>1, ScreenTyped
  <2> QED
    BY <1>0, <2>2, <2>3
<1>5. S = 0..n
  <2> HIDE DEF S
  <2> QED
    BY <1>0, <1>3, <1>4, Upwards
<1> QED
  BY <1>0, <1>1, <1>5

-----------------------------------------------------------------------------
(* What a step does to a slot.                                             *)
Approve(part) == [part EXCEPT ![Len(part)] = [part[Len(part)] EXCEPT !.repair = TRUE]]
LEMMA SlotStep ==
  ASSUME log \in LogType, [Next]_log, NEW t \in Slots
  PROVE  \/ log'[t] = log[t]
         \/ \E outcome \in AttemptType : log'[t] = Append(log[t], outcome)
         \/ log[t] # << >> /\ log'[t] = Approve(log[t])
<1>0. log \in [Slots -> Seq(AttemptType)]
  BY DEF LogType
<1>1. ASSUME NEW s \in OpenSlots, NEW outcome \in Outcomes, Record(s, outcome)
      PROVE  log'[t] = log[t] \/ (log'[t] = Append(log[t], outcome) /\ outcome \in AttemptType)
  <2>1. log' = [log EXCEPT ![s] = Append(log[s], outcome)] /\ outcome \in AttemptType
    BY <1>1, OutcomesTyped DEF Record
  <2> QED
    BY <1>0, <2>1
<1>2. ASSUME NEW s \in OpenSlots, ApproveRepair(s)
      PROVE  log'[t] = log[t] \/ (log[t] # << >> /\ log'[t] = Approve(log[t]))
  <2> DEFINE part == log[s]
  <2>1. log' = [log EXCEPT ![s] = [part EXCEPT ![Len(part)] = [part[Len(part)] EXCEPT !.repair = TRUE]]]
        /\ part # << >>
    BY <1>2 DEF ApproveRepair
  <2>2. log' = [log EXCEPT ![s] = Approve(part)] /\ part # << >>
    BY Zenon, <2>1 DEF Approve
  <2> DEFINE new == Approve(part)
  <2>3. log' = [log EXCEPT ![s] = new]
    BY Zenon, <2>2
  <2> HIDE DEF new
  <2>4. t = s => log'[t] = new
    BY <1>0, <2>3
  <2>5. t # s => log'[t] = log[t]
    BY <1>0, <2>3
  <2> QED
    BY Zenon, <2>2, <2>4, <2>5 DEF new
<1>3. CASE UNCHANGED log
  BY <1>3
<1> QED
  BY <1>1, <1>2, <1>3 DEF Next

(* A screen that no replacement is approved for, in a record that stays    *)
(* valid, is not yet started or has all its attempts.                      *)
LEMMA ScreenGrows ==
  ASSUME NEW old \in Seq(AttemptType), NEW new, SlotValid(new), ~AwaitsReplacement(old),
         \/ new = old
         \/ \E outcome \in AttemptType : new = Append(old, outcome)
         \/ old # << >> /\ new = Approve(old)
  PROVE  Grown(old, new)
<1> DEFINE n == Len(old)
<1>0. n \in Nat
  OBVIOUS
<1>1. CASE new = old
  BY <1>1 DEF Grown
<1>2. ASSUME NEW outcome \in AttemptType, new = Append(old, outcome)
      PROVE  old = << >>
  <2> SUFFICES ASSUME old # << >> PROVE FALSE
    OBVIOUS
  <2>1. n # 0 /\ Len(new) = n + 1 /\ (n >= 1 => new[1] = old[1])
    BY <1>2
  <2>2. Len(new) <= 2 /\ (Len(new) = 2 => new[1].repair)
    BY DEF SlotValid
  <2>3. n = 1 /\ old[1].repair
    <3> HIDE DEF n
    <3> QED
      BY <1>0, <2>1, <2>2
  <2> QED
    BY <2>3 DEF AwaitsReplacement
<1>3. CASE old # << >> /\ new = Approve(old)
  <2>1. n \in 1..n /\ old[n] \in AttemptType
    BY <1>0, <1>3
  <2> DEFINE approved == [old[n] EXCEPT !.repair = TRUE]
  <2>2. approved.state = old[n].state
    BY <2>1, Approval
  <2>3. new = [old EXCEPT ![n] = approved]
    BY <1>3 DEF Approve
  <2> HIDE DEF approved
  <2>4. /\ Len(new) = n
        /\ \A i \in 1..n : new[i] = IF i = n THEN approved ELSE old[i]
    BY <1>0, <2>1, <2>3
  <2>5. \A i \in 1..n : old[i].state = new[i].state
    BY <2>2, <2>4
  <2>6. \A i \in 1..(n - 1) : old[i].repair = new[i].repair
    BY <1>0, <2>4
  <2> QED
    BY <2>4, <2>5, <2>6 DEF Grown
<1> QED
  BY <1>1, <1>2, <1>3 DEF Grown

-----------------------------------------------------------------------------
(* acquire (125-161): no rule is charged for more attempts than its        *)
(* budget, a replacement included, and a larger budget only adds charges   *)
(* after those of a smaller one.                                           *)
THEOREM BudgetHolds == Spec => []BudgetKept
<1>1. TypeOK => BudgetKept
  <2> SUFFICES ASSUME TypeOK, NEW rule \in Rules, NEW b \in Budgets
               PROVE  /\ Acquire(log, rule, b).spent <= b
                      /\ \A d \in Budgets :
                           b <= d => IsPrefix(Charged(log, rule, b), Charged(log, rule, d))
    BY DEF BudgetKept
  <2>1. log \in LogType /\ Budgets \subseteq Nat
    BY ProtocolAssumption DEF TypeOK, LogType, AttemptType
  <2>2. AllGrown(log, log)
    BY DEF AllGrown, Grown
  <2> QED
    BY <2>1, <2>2, WithinBudget, AcquisitionGoesOn
<1> QED
  BY <1>1, RecordTyped, PTL

(* acquire (132-136): collecting more of the panel never rewrites what a   *)
(* rule was charged for, it only extends it, unless an approved            *)
(* replacement is outstanding.                                             *)
THEOREM ScreensExtend == Spec => ScreensOnlyExtend
<1>1. TypeOK /\ TypeOK' /\ [Next]_log
      => [(Valid /\ Valid'
             /\ \A c \in Candidates : ~AwaitsReplacement(log[<<c, Screen>>]))
            => \A rule \in Rules, b \in Budgets :
                 IsPrefix(Charged(log, rule, b), Charged(log', rule, b))]_log
  <2> SUFFICES ASSUME TypeOK, TypeOK', [Next]_log, Valid, Valid',
                      \A c \in Candidates : ~AwaitsReplacement(log[<<c, Screen>>]),
                      NEW rule \in Rules, NEW b \in Budgets
               PROVE  IsPrefix(Charged(log, rule, b), Charged(log', rule, b))
    OBVIOUS
  <2>1. log \in LogType /\ log' \in LogType /\ b \in Nat
    BY ProtocolAssumption DEF TypeOK, LogType, AttemptType
  <2>2. ASSUME NEW c \in Candidates
        PROVE  Grown(log[<<c, Screen>>], log'[<<c, Screen>>])
    <3> DEFINE t == <<c, Screen>>
    <3>1. t \in Slots /\ log[t] \in Seq(AttemptType) /\ SlotValid(log'[t])
      BY <2>1 DEF Slots, LogType, Valid, Accepts
    <3>2. ~AwaitsReplacement(log[t])
      OBVIOUS
    <3> HIDE DEF t
    <3>3. \/ log'[t] = log[t]
          \/ \E outcome \in AttemptType : log'[t] = Append(log[t], outcome)
          \/ log[t] # << >> /\ log'[t] = Approve(log[t])
      BY <2>1, <3>1, SlotStep
    <3> DEFINE old == log[t]
               new == log'[t]
    <3>4. Grown(old, new)
      <4> HIDE DEF old, new
      <4> QED
        BY <3>1, <3>2, <3>3, ScreenGrows DEF old, new
    <3> QED
      BY <3>4 DEF t
  <2>3. AllGrown(log, log')
    BY <2>2 DEF AllGrown
  <2>4. b <= b
    BY <2>1
  <2> QED
    BY Zenon, <2>1, <2>3, <2>4, AcquisitionGoesOn
<1> QED
  BY <1>1, RecordTyped, PTL DEF Spec, ScreensOnlyExtend

=============================================================================
