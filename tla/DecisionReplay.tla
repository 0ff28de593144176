--------------------------- MODULE DecisionReplay ---------------------------
(***************************************************************************)
(* The budgeted admission replay, decision_benchmark.py, over a record of  *)
(* attempts that grows while the panel is collected: an attempt is         *)
(* recorded, a setup failure is approved for its one replacement, the      *)
(* replacement is recorded.  At any moment `replay` may be run: it         *)
(* rejects the record (group_attempts) or screens candidates under a       *)
(* budget (acquire) and labels them (evaluation_truth, score).             *)
(*                                                                         *)
(* A completed attempt's peak is its state: group_attempts rejects a peak  *)
(* that contradicts the label.  GPU seconds and ratios are left out.       *)
(***************************************************************************)
EXTENDS Naturals, Sequences, FiniteSets, SequencesExt

CONSTANTS
  Candidates,
  QueryOrder,       (* The case's query_order.                             *)
  EvaluationSeeds,
  Screen,           (* The seed of the screen.                             *)
  DonorWithin,      (* Candidates whose donor was observed within_margin,  *)
  DonorRoomy,       (* and whose donor's peak leaves the additional guard. *)
  MaxReplacements,  (* Over all slots: 8.                                  *)
  Budgets,
  OpenSlots         (* Bound: the slots attempts are recorded for.         *)

Slots == Candidates \X ({Screen} \cup EvaluationSeeds)

ASSUME ProtocolAssumption ==
  /\ Screen \notin EvaluationSeeds
  /\ QueryOrder \in Seq(Candidates)
  /\ \A c \in Candidates : Cardinality({i \in DOMAIN QueryOrder : QueryOrder[i] = c}) = 1
  /\ MaxReplacements \in Nat
  /\ Budgets \subseteq Nat
  /\ OpenSlots \subseteq Slots

States == {"within_margin", "above_margin", "memory_failure"}
Rules == {"source_copy", "headroom_guard", "direct_screen"}

(* known: known_memory_failure.  repair: repair_reason is not empty.       *)
Attempt(state, known, repair) ==
  [state |-> state, known |-> known, repair |-> repair]

(* What the collector makes of a process: a validated outcome, or an       *)
(* unresolved one whose log may show an out-of-memory error all the same.  *)
Outcomes ==
  {Attempt("within_margin", FALSE, FALSE), Attempt("above_margin", FALSE, FALSE),
   Attempt("memory_failure", TRUE, FALSE),
   Attempt("unresolved", FALSE, FALSE), Attempt("unresolved", TRUE, FALSE)}

VARIABLE log  (* The attempts per slot, in the order of their jobs.        *)

Init == log = [s \in Slots |-> << >>]

-----------------------------------------------------------------------------
(* group_attempts. *)

Replacements(attempts) ==
  Cardinality({s \in Slots : Len(attempts[s]) > 1})

(* One replacement, after an attempt whose repair was approved; and only a *)
(* setup failure with no sign of a memory failure may be repaired.         *)
SlotValid(part) ==
  /\ Len(part) <= 2
  /\ Len(part) = 2 => part[1].repair
  /\ \A i \in DOMAIN part : part[i].repair => part[i].state = "unresolved" /\ ~part[i].known

Accepts(attempts) ==
  /\ \A s \in Slots : SlotValid(attempts[s])
  /\ Replacements(attempts) <= MaxReplacements

Valid == Accepts(log)

-----------------------------------------------------------------------------
(* The collection.  A record that is rejected is collected no further.     *)

Record(s, outcome) ==
  /\ Valid
  /\ log' = [log EXCEPT ![s] = Append(@, outcome)]

(* repairs.json names the last attempt of a slot. *)
ApproveRepair(s) ==
  /\ Valid
  /\ log[s] # << >>
  /\ log' = [log EXCEPT ![s][Len(log[s])].repair = TRUE]

Next ==
  \/ \E s \in OpenSlots, outcome \in Outcomes : Record(s, outcome)
  \/ \E s \in OpenSlots : ApproveRepair(s)

Spec == Init /\ [][Next]_log

-----------------------------------------------------------------------------
(* acquire. *)

InitialDecision(rule, c) ==
  IF rule = "direct_screen" THEN "abstain"
  ELSE IF c \in DonorWithin /\ (rule = "headroom_guard" => c \in DonorRoomy)
       THEN "approve"
       ELSE "reject"

DecisionOf(state) ==
  IF state = "within_margin" THEN "approve"
  ELSE IF state \in States THEN "reject" ELSE "abstain"

(* Mutant: the budget is looked at once per candidate. *)
MutantCharge(acc, c, attempt, budget) ==
  IF acc.over THEN acc
  ELSE [acc EXCEPT !.spent = @ + 1,
                   !.decisions[c] = DecisionOf(attempt.state),
                   !.transcript = Append(@, <<c, attempt.state>>),
                   !.over = ~attempt.repair]

(* Charge the attempt, then read it.  `over` ends the candidate's records. *)
Charge(acc, c, attempt, budget) ==
  IF acc.over \/ acc.spent >= budget THEN acc
  ELSE [acc EXCEPT !.spent = @ + 1,
                   !.decisions[c] = DecisionOf(attempt.state),
                   !.transcript = Append(@, <<c, attempt.state>>),
                   !.over = ~attempt.repair]

(* The records of a candidate's screen, in the order of their jobs. *)
ChargeAll(acc, c, records, budget) ==
  LET after[i \in 0..Len(records)] ==
        IF i = 0 THEN [acc EXCEPT !.over = FALSE]
        ELSE Charge(after[i - 1], c, records[i], budget)
  IN after[Len(records)]

(* Mutant: a candidate that was not started is passed over. *)
MutantScreenOne(acc, c, records, budget) ==
  IF acc.stop \/ acc.spent >= budget THEN [acc EXCEPT !.stop = TRUE]
  ELSE IF records = << >> THEN [acc EXCEPT !.decisions[c] = "abstain"]
  ELSE ChargeAll(acc, c, records, budget)

(* A screen that was not started ends the acquisition. *)
ScreenOne(acc, c, records, budget) ==
  IF acc.stop \/ acc.spent >= budget THEN [acc EXCEPT !.stop = TRUE]
  ELSE IF records = << >>
       THEN [acc EXCEPT !.decisions[c] = "abstain", !.stop = TRUE]
  ELSE ChargeAll(acc, c, records, budget)

Acquire(attempts, rule, budget) ==
  LET after[i \in 0..Len(QueryOrder)] ==
        IF i = 0
        THEN [decisions |-> [c \in Candidates |-> InitialDecision(rule, c)],
              transcript |-> << >>, spent |-> 0, stop |-> FALSE, over |-> FALSE]
        ELSE LET c == QueryOrder[i]
             IN ScreenOne(after[i - 1], c, attempts[<<c, Screen>>], budget)
  IN after[Len(QueryOrder)]

Charged(attempts, rule, budget) == Acquire(attempts, rule, budget).transcript

-----------------------------------------------------------------------------
(* evaluation_truth and the bounds of score. *)

Part(c, seed) == log[<<c, seed>>]

StateOf(part) == IF part = << >> THEN "unresolved" ELSE Last(part).state

Evaluations(c) == UNION {Range(Part(c, seed)) : seed \in EvaluationSeeds}

KnownFailure(c) ==
  \E a \in Evaluations(c) : a.state = "memory_failure" \/ a.known

KnownAbove(c) == \E a \in Evaluations(c) : a.state = "above_margin"

Truth(c) ==
  LET states == {StateOf(Part(c, seed)) : seed \in EvaluationSeeds}
  IN IF "unresolved" \in states THEN "unresolved"
     ELSE IF KnownFailure(c) THEN "memory_failure"
     ELSE IF "above_margin" \in states THEN "above_margin"
     ELSE "within_margin"

(* Mutant: a known exceedance settles the label. *)
MutantPossible(c) ==
  IF Truth(c) # "unresolved" THEN {Truth(c)}
  ELSE IF KnownFailure(c) THEN {"memory_failure"}
  ELSE IF KnownAbove(c) THEN {"above_margin"}
  ELSE States

(* What an unresolved candidate is taken for in the sensitivity ranges. *)
Possible(c) ==
  IF Truth(c) # "unresolved" THEN {Truth(c)}
  ELSE IF KnownFailure(c) THEN {"memory_failure"}
  ELSE IF KnownAbove(c) THEN {"above_margin", "memory_failure"}
  ELSE States

-----------------------------------------------------------------------------
(* The record's type.  group_attempts (98-105) rejects the record as soon  *)
(* as a slot holds one attempt more than it may, so none holds four.       *)
TypeOK ==
  /\ log \in [Slots -> Seq([state : States \cup {"unresolved"},
                            known : BOOLEAN, repair : BOOLEAN])]
  /\ \A s \in Slots : Len(log[s]) <= 3
  /\ \A s \in Slots : log[s] # << >> => s \in OpenSlots

(* acquire (125-161): no rule is charged for more attempts than its        *)
(* budget, a replacement included, and a larger budget only adds charges   *)
(* after those of a smaller one: the results of two budgets may be read as *)
(* one experiment stopped at two points.                                   *)
BudgetKept ==
  Valid => \A rule \in Rules, b \in Budgets :
             /\ Acquire(log, rule, b).spent <= b
             /\ \A d \in Budgets :
                  b <= d => IsPrefix(Charged(log, rule, b), Charged(log, rule, d))

AwaitsReplacement(part) == Len(part) = 1 /\ part[1].repair

(* acquire (132-136): collecting more of the panel never rewrites what a   *)
(* rule was charged for, it only extends it, unless an approved            *)
(* replacement is outstanding: a screen that was not started ends the      *)
(* acquisition, so that no later candidate is screened out of turn.        *)
ScreensOnlyExtend ==
  [][(Valid /\ Valid'
        /\ \A c \in Candidates : ~AwaitsReplacement(log[<<c, Screen>>]))
       => \A rule \in Rules, b \in Budgets :
            IsPrefix(Charged(log, rule, b), Charged(log', rule, b))]_log

(* evaluation_truth and score (164-180, 215-217): what a candidate may     *)
(* turn out to be only narrows as the panel is collected; the sensitivity  *)
(* ranges printed for an incomplete panel contain the final label.         *)
OutcomesOnlyNarrow ==
  [][(Valid /\ Valid')
       => \A c \in Candidates : Possible(c)' \subseteq Possible(c)]_log

=============================================================================
