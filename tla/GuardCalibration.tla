--------------------------- MODULE GuardCalibration ---------------------------
(***************************************************************************)
(* phaseguard_evaluation.py: the grouped held-out evaluation of PhaseGuard *)
(* and of its ablation, TotalPeakGuard.  Each case is held out in turn;    *)
(* the others are split by the order of their hashes into calibration and  *)
(* fit cases; a guard adds to its predicted peaks one correction, a rank   *)
(* of the calibration cases' largest residuals, and selects a              *)
(* configuration it holds safe.  The regressions are not in this           *)
(* repository: what is fitted is some function of the rows it was fitted   *)
(* to.  Peaks are naturals.  Runtimes order the choices, and one that is   *)
(* missing among the fit rows keeps a guard from choosing: any choice      *)
(* among the configurations held safe is allowed, and none.                *)
(***************************************************************************)
EXTENDS Integers, FiniteSets, FiniteSetsExt

CONSTANTS
  Cases,            \* cases, as numbers in the order of their hashes
  Configurations,   \* configurations of a case, as numbers in the order of their identifiers
  Phases,           \* phases of an iteration
  Total,            \* the peak over all phases, where it is a measurement of its own
  None,             \* no measurement
  Corpora,          \* [Cases -> [Configurations -> sets of trial rows]]
  Models,           \* predictions: [Cases -> [Configurations -> [Phases and Total -> Int]]]
  Limit,            \* the memory limit
  Hits, Of,         \* the promised coverage 1 - alpha, as Hits out of Of
  MinCalibration, MinFit, MinConfigurations

Methods == {"phaseguard", "total_peak"}

(* Trials are finitely many; a reading is a number or missing.             *)
Reading(v) == v = None \/ v \in Nat
GuardAssumption ==
  /\ Cases \subseteq Nat /\ IsFiniteSet(Cases)
  /\ Configurations \subseteq Nat /\ IsFiniteSet(Configurations) /\ IsFiniteSet(Phases)
  /\ Total \notin Phases /\ None \notin Int
  /\ \A trials \in Corpora, c \in Cases, k \in Configurations :
       /\ IsFiniteSet(trials[c][k])
       /\ \A r \in trials[c][k] : Reading(r.peak) /\ \A p \in Phases : Reading(r.phase[p])
  /\ \A f \in Models, c \in Cases, k \in Configurations, q \in Phases \cup {Total} : f[c][k][q] \in Int
  /\ Limit \in Nat /\ Of \in Nat \ {0} /\ Hits \in 1..(Of - 1)
  /\ {MinCalibration, MinFit, MinConfigurations} \subseteq Nat \ {0}

VARIABLES
  corpus,      \* the trial rows: [success, peak, phase]
  model,       \* what was fitted so far: pairs of fit rows and predictions
  results      \* [case, method, covered, residual, fits]

vars == <<corpus, model, results>>

-----------------------------------------------------------------------------
(* The corpus.                                                             *)

(* aggregate_configurations: the repetitions of a configuration become one *)
(* row, which failed if one failed and has the largest of every peak.      *)
Largest(values) == IF values \subseteq {None} THEN None ELSE Max(values \ {None})
Aggregated(rows) ==
  [success |-> \A r \in rows : r.success,
   peak |-> Largest({r.peak : r \in rows}),
   phase |-> [p \in Phases |-> Largest({r.phase[p] : r \in rows})]]
Present(c) == {k \in Configurations : corpus[c][k] # {}}
Row(c, k) == Aggregated(corpus[c][k])
Safe(r) == r.success /\ r.peak # None /\ r.peak <= Limit

(* primary_case_groups.                                                    *)
Primary == {c \in Cases : /\ Cardinality(Present(c)) >= MinConfigurations
                          /\ \E k \in Present(c) : Safe(Row(c, k))}

(* split_fit_calibration: the first cases calibrate, as many as are asked  *)
(* for and leave enough to fit.  (Rows without enough cases are split by   *)
(* the hash of the configuration: any such split.)                         *)
Least(n, m) == IF n < m THEN n ELSE m
First(cs, n) == {c \in cs : Cardinality({d \in cs : d < c}) < n}
RowsOf(cs) == {<<c, k>> : c \in cs, k \in Configurations} \cap
              UNION {{c} \X Present(c) : c \in cs}
ByCase(others) == Cardinality(others) > MinFit
Calibrating(others) == First(others, Least(MinCalibration, Cardinality(others) - MinFit))
Quarter(n) ==      \* rounded, a half to the even neighbour, and at least one
  LET q == n \div 4
      up == n % 4 = 3 \/ (n % 4 = 2 /\ q % 2 = 1)
  IN Least(Max({1, IF up THEN q + 1 ELSE q}), n - 2)
Splits(others) ==
  IF ByCase(others)
  THEN {[fit |-> RowsOf(others \ Calibrating(others)), calibration |-> RowsOf(Calibrating(others))]}
  ELSE LET rows == RowsOf(others)
       IN IF Cardinality(rows) < 4 THEN {}
          ELSE {[fit |-> rows \ s, calibration |-> s] :
                  s \in kSubset(Quarter(Cardinality(rows)), rows)}

-----------------------------------------------------------------------------
(* A guard.                                                                *)

(* What a guard bounds: every phase some successful fit row measured, or   *)
(* the total.  A total that is missing is not left out but is NaN, which   *)
(* the filter on missing values lets pass and the regression refuses.      *)
Succeeded(rows) == {x \in rows : Row(x[1], x[2]).success}
Measured(x, q) == IF q = Total THEN Row(x[1], x[2]).peak ELSE Row(x[1], x[2]).phase[q]
Bounded(m, fit) ==
  {q \in (IF m = "phaseguard" THEN Phases ELSE {Total}) :
     /\ \E x \in Succeeded(fit) : Measured(x, q) # None
     /\ m = "total_peak" => \A x \in Succeeded(fit) : Measured(x, q) # None}
Fitted(m, fit) == Bounded(m, fit) # {}

(* Residuals of one case: the largest over its phases and configurations.  *)
(* max of numbers and NaN is NaN (here None) if that comes first, and      *)
(* otherwise the largest number.                                           *)
Residuals(m, fit, f, rows) ==
  {Measured(y[1], y[2]) - f[y[1][1]][y[1][2]][y[2]] :
     y \in {y \in Succeeded(rows) \X Bounded(m, fit) : Measured(y[1], y[2]) # None}}
OfCase(rows, c) == {x \in rows : x[1] = c}
FirstIsNaN(m, rows) ==
  /\ m = "total_peak"
  /\ \E x \in Succeeded(rows) : Measured(x, Total) = None /\ \A y \in Succeeded(rows) : x[2] <= y[2]
Calibrated(m, fit, f, rows) ==
  {c \in Cases : Residuals(m, fit, f, OfCase(rows, c)) # {} \/ FirstIsNaN(m, OfCase(rows, c))}
CaseMax(m, fit, f, rows, c) ==
  IF FirstIsNaN(m, OfCase(rows, c)) THEN None ELSE Max(Residuals(m, fit, f, OfCase(rows, c)))

(* conformal_upper_quantile: of n values in order, the one whose rank is   *)
(* the ceiling of (n + 1)(1 - alpha), or the last; NaN is sorted last.  A  *)
(* mutant forgets that the held-out case counts.                           *)
MutantRank(n) == Least((n * Hits + Of - 1) \div Of, n)
Rank(n) == Least(((n + 1) * Hits + Of - 1) \div Of, n)
ConformalUpper(residual) ==      \* a function from cases
  LET count(P) == Cardinality({c \in DOMAIN residual : residual[c] \in P})
      all == {residual[c] : c \in DOMAIN residual} \ {None}
      rank == Rank(Cardinality(DOMAIN residual))
  IN IF count(all) < rank THEN None
     ELSE CHOOSE v \in all : count({w \in all : w <= v}) >= rank /\ count({w \in all : w < v}) < rank

(* fit: never a correction that lowers a prediction; the larger of 0 and   *)
(* NaN is 0.                                                               *)
Correction(m, s, f) ==
  LET cs == Calibrated(m, s.fit, f, s.calibration)
      upper == ConformalUpper([c \in cs |-> CaseMax(m, s.fit, f, s.calibration, c)])
  IN IF cs = {} THEN 0 ELSE IF upper = None THEN 0 ELSE Max({0, upper})

(* predict: the bounds of a row, and whether the guard holds it safe.      *)
Upper(f, x, q, correction) == Max({0, f[x[1]][x[2]][q] + correction})
HeldSafe(m, s, f, x) ==
  LET correction == Correction(m, s, f)
  IN \A q \in Bounded(m, s.fit) : Upper(f, x, q, correction) <= Limit

(* The failure classifier of PhaseGuard says what it likes, unless every   *)
(* row it was fitted to succeeded.                                         *)
Doubts(m, s, c) ==
  IF m = "phaseguard" /\ Succeeded(s.fit \cup s.calibration) # s.fit \cup s.calibration
  THEN SUBSET Present(c) ELSE {{}}

Selectable(m, s, f, c) ==
  {None} \cup (IF Fitted(m, s.fit)
               THEN UNION {{k \in Present(c) \ d : HeldSafe(m, s, f, <<c, k>>)} : d \in Doubts(m, s, c)}
               ELSE {})

Exceeds(m, s, x, bound) ==
  \E q \in Bounded(m, s.fit) : Measured(x, q) # None /\ Measured(x, q) > bound[q]
Covered(m, s, f, c) ==
  LET correction == Correction(m, s, f)
  IN \A x \in Succeeded(RowsOf({c})) :
       ~Exceeds(m, s, x, [q \in Bounded(m, s.fit) |-> Upper(f, x, q, correction)])

-----------------------------------------------------------------------------
Init == corpus \in Corpora /\ model = {} /\ results = {}

Done == {r.case : r \in results}
Scored(c, m, s, f, k) ==
  [case |-> c, method |-> m, covered |-> Covered(m, s, f, c),
   residual |-> Residuals(m, s.fit, f, RowsOf({c})) # {},
   fits |-> k = None \/ ~Row(c, k).success \/ ~Exceeds(m, s, <<c, k>>, [q \in Bounded(m, s.fit) |-> Limit])]
Passed(c) == {[case |-> c, method |-> m, covered |-> TRUE, residual |-> FALSE, fits |-> TRUE] :
               m \in Methods}

(* evaluate: the cases one after the other; a fit to the same rows is the  *)
(* same fit, and a case whose others cannot be split is passed over.       *)
Evaluate(c) ==
  /\ c \in Primary \ Done /\ \A d \in Primary \ Done : c <= d
  /\ LET others == Primary \ {c} IN
     \/ /\ Splits(others) = {}
        /\ results' = results \cup Passed(c)
        /\ UNCHANGED model
     \/ \E s \in Splits(others), f \in Models :
        /\ \A e \in model : e[1] = s.fit => e[2] = f
        /\ model' = model \cup {<<s.fit, f>>}
        /\ \E k \in Selectable("phaseguard", s, f, c), l \in Selectable("total_peak", s, f, c) :
             results' = results \cup {Scored(c, "phaseguard", s, f, k), Scored(c, "total_peak", s, f, l)}
  /\ UNCHANGED corpus

Next == \E c \in Cases : Evaluate(c)
Spec == Init /\ [][Next]_vars

-----------------------------------------------------------------------------
(* Of the cases that calibrate for one another, which are fitted to the    *)
(* same rows, a guard covers the promised share when each has been held    *)
(* out: 1 - alpha of them, or all but one where they are too few for that  *)
(* (maximum_finite_sample_coverage); a case without residuals counts not.  *)
(* For the total peak only where every configuration that succeeded has a  *)
(* total: the code does not ask for one, and a NaN at the rank's place     *)
(* sets the correction to 0 and silently gives up the share.               *)
(* And what a guard selects in a covered case fits, if it does not fail.   *)
Fold == {c \in Primary : /\ ByCase(Primary \ {c})
                         /\ c \in First(Primary, Cardinality(Calibrating(Primary \ {c})) + 1)}
TotalsMeasured == \A x \in Succeeded(RowsOf(Fold)) : Measured(x, Total) # None
PromisedCoverage ==
  Done = Primary => \A m \in {"phaseguard"} \cup (IF TotalsMeasured THEN {"total_peak"} ELSE {}) :
    LET fold == {r \in results : r.method = m /\ r.case \in Fold /\ r.residual}
        n == Cardinality(fold)
    IN Of * Cardinality({r \in fold : r.covered}) >= Least(Hits * n, Of * (n - 1))
CoveredChoiceFits == \A r \in results : r.covered => r.fits
PromiseKept == PromisedCoverage /\ CoveredChoiceFits
=============================================================================
