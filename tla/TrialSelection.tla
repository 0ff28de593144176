---------------------------- MODULE TrialSelection ----------------------------
(***************************************************************************)
(* Which of the attempts at an experiment counts.  Jobs leave trials while *)
(* tools read them: validate_trial_matrix.py and grpo_raw_evidence.py take *)
(* the one attempt that is a scientific outcome, aggregate_online.py the   *)
(* one that succeeded or else the newest, artifact_manifest.py either, for *)
(* the release.  None of them keeps a choice: it is made again, from the   *)
(* directory as it is, on every run.  What a log says is a set of marks;   *)
(* the launchers that write the trials are not in this repository.         *)
(***************************************************************************)
EXTENDS Naturals, FiniteSets

CONSTANTS
  Trained,     \* experiments of the training matrix
  Served,      \* experiments of the online serving matrix
  Jobs,        \* job numbers, as submitted
  MaxEdits     \* bound: exclusions and annotations made

SelectionAssumption ==
  /\ Trained \cap Served = {} /\ Jobs \subseteq Nat /\ IsFiniteSet(Jobs)
  /\ MaxEdits \in Nat

Experiments == Trained \cup Served

VARIABLES
  trial,       \* the trials there are: [job, of, zero, log, marks, whole]
  result,      \* jobs whose result.json is there
  excluded,    \* attempt_exclusions.csv
  annotated,   \* failure_annotations.csv, by experiment
  accepted     \* history: what the tools accepted, [of, job, success, basis]

vars == <<trial, result, excluded, annotated, accepted>>

Init == trial = {} /\ result = {} /\ excluded = {} /\ annotated = {} /\ accepted = {}

-----------------------------------------------------------------------------
(* Jobs and people.  Jobs end in any order; a trial whose log is lost has  *)
(* no marks.                                                               *)
Marks(e) == IF e \in Trained THEN {"cause", "oom"} ELSE {"infra", "memory", "ready"}

LeaveTrial(j, e) ==
  /\ \A t \in trial : t.job # j
  /\ \E zero, log, whole \in BOOLEAN, marks \in SUBSET Marks(e) :
       /\ log \/ marks = {}
       /\ zero => marks \subseteq {"ready"} /\ log
       /\ trial' = trial \cup {[job |-> j, of |-> e, zero |-> zero, log |-> log,
                                marks |-> marks, whole |-> whole]}
  /\ UNCHANGED <<result, excluded, annotated, accepted>>

LeaveResult(j) ==
  /\ j \notin result /\ \E t \in trial : t.job = j /\ t.zero /\ t.of \in Served
  /\ result' = result \cup {j}
  /\ UNCHANGED <<trial, excluded, annotated, accepted>>

Edits == Cardinality(excluded) + Cardinality(annotated)
Exclude(j) ==
  /\ Edits < MaxEdits /\ excluded' = excluded \cup {j}
  /\ UNCHANGED <<trial, result, annotated, accepted>>
Annotate(e) ==
  /\ Edits < MaxEdits /\ annotated' = annotated \cup {e}
  /\ UNCHANGED <<trial, result, excluded, accepted>>

-----------------------------------------------------------------------------
(* Training: the sole scientific outcome.                                  *)
AttemptsAt(e) == {t \in trial : t.of = e}

(* classify_failure_detailed: a concrete cause that is no outcome of the   *)
(* experiment goes before the lack of memory it may have led to.           *)
Failure(t) == IF "cause" \in t.marks THEN "infrastructure"
              ELSE IF "oom" \in t.marks THEN "memory" ELSE "runtime"

(* trial_row: only a trial without a log takes the experiment's annotation.*)
Kind(t) == CASE t.zero -> "success"
             [] ~t.zero /\ t.log -> Failure(t)
             [] ~t.zero /\ ~t.log /\ t.of \in annotated -> "memory"
             [] OTHER -> "none"
Scientific(t) == Kind(t) \in {"success", "memory"}

Admissible(e) == {t \in AttemptsAt(e) : t.job \notin excluded /\ Scientific(t)}

(* Mutants: of several outcomes the newest counts.                         *)
Newest(ts) == {t \in ts : \A u \in ts : u.job <= t.job}
MutantSoleOutcome(e) == Newest(Admissible(e))
SoleOutcome(e) == IF Cardinality(Admissible(e)) = 1 THEN Admissible(e) ELSE {}

(* What a tool accepts it accepts of the attempts, the exclusions and the  *)
(* annotations there are.                                                  *)
Basis(e) == <<excluded, annotated \cap {e}>>
Counted(t) ==
  [of |-> t.of, job |-> t.job, basis |-> Basis(t.of),
   success |-> t.zero /\ (t.of \in Served => t.job \in result)]
Accept(ts) ==
  /\ accepted' = accepted \cup {Counted(t) : t \in ts}
  /\ UNCHANGED <<trial, result, excluded, annotated>>

(* validate: every experiment of the matrix has its outcome with its files; *)
(* otherwise nothing is accepted.                                          *)
Validate ==
  /\ \A e \in Trained : SoleOutcome(e) # {} /\ \A t \in SoleOutcome(e) : t.whole
  /\ Accept(UNION {SoleOutcome(e) : e \in Trained})

(* select_attempt, for one row of a matrix.                                *)
SelectAttempt(e) ==
  /\ e \in Trained /\ SoleOutcome(e) # {} /\ \A t \in SoleOutcome(e) : t.whole
  /\ Accept(SoleOutcome(e))

-----------------------------------------------------------------------------
(* Serving: the sole success, or the newest failure.                       *)
Successful(t) == t.zero /\ t.job \in result
Successes(e) == {t \in AttemptsAt(e) : Successful(t)}

MutantChosen(e) == Newest(AttemptsAt(e))
Chosen(e) == IF Successes(e) # {} THEN Successes(e) ELSE Newest(AttemptsAt(e))
Ambiguous == \E e \in Experiments : Cardinality(Successes(e)) > 1

(* classify_failed_attempt.                                                *)
ServingFailure(t) ==
  CASE "infra" \in t.marks -> "infrastructure_failure"
    [] "infra" \notin t.marks /\ "memory" \in t.marks -> "serving_memory_failure"
    [] {"infra", "memory"} \cap t.marks = {} /\ "ready" \in t.marks -> "load_execution_failure"
    [] OTHER -> "unclassified_readiness_failure"
Retainable(t) == ServingFailure(t) \in {"serving_memory_failure", "load_execution_failure"}

(* aggregate: no experiment may be missing, and a failure is retained only *)
(* if it is one of the server's own.  (As with its strict options; an      *)
(* incomplete aggregate is written before --require-complete refuses it,   *)
(* lines 173-183, and counts for nothing here.)                            *)
Aggregate ==
  /\ ~Ambiguous
  /\ \A e \in Served : /\ AttemptsAt(e) # {}
                       /\ \A t \in Chosen(e) : t.whole /\ (Successful(t) \/ Retainable(t))
  /\ Accept(UNION {Chosen(e) : e \in Served})

-----------------------------------------------------------------------------
(* The publication manifest takes the trees of the trials of every study,  *)
(* and none at all if a study has two outcomes of a trained experiment or  *)
(* one of the studies it is told to require lacks what it counts: the      *)
(* outcome of a trained experiment, the success of a served one (of an     *)
(* online study also a failure of the server's own), or, where requests    *)
(* were matched, the only trial.                                           *)
TrainedCounts(e) == SoleOutcome(e)
ServedCounts(e, retain) ==
  {t \in Chosen(e) : ~Ambiguous /\ (Successful(t) \/ (retain /\ Retainable(t)))}
MatchedCounts(e) == {t \in AttemptsAt(e) : Cardinality(AttemptsAt(e)) = 1}

CollectFiles(required) ==
  /\ \A e \in Trained : Cardinality(Admissible(e)) <= 1
  /\ \E matched, retain \in BOOLEAN :
       LET counts(e) == IF e \in Trained THEN TrainedCounts(e)
                        ELSE IF matched THEN MatchedCounts(e) ELSE ServedCounts(e, retain)
       IN /\ \A e \in required : counts(e) # {}
          /\ Accept(UNION {counts(e) : e \in Experiments})

Next ==
  \/ \E j \in Jobs, e \in Experiments : LeaveTrial(j, e)
  \/ \E j \in Jobs : LeaveResult(j) \/ Exclude(j)
  \/ \E e \in Experiments : Annotate(e) \/ SelectAttempt(e)
  \/ \E required \in SUBSET Experiments : CollectFiles(required)
  \/ Validate
  \/ Aggregate

Spec == Init /\ [][Next]_vars

-----------------------------------------------------------------------------
(* Retries never revise.  Once a tool has accepted an outcome of a trained *)
(* experiment, whichever tool accepts one again, after whatever further    *)
(* attempts, accepts the same attempt, unless somebody has excluded an     *)
(* attempt or annotated that experiment; and a success of a served one is  *)
(* never replaced.                                                         *)
Revises(r, s) ==
  /\ r.of = s.of /\ r.job # s.job
  /\ \/ r.of \in Trained /\ r.basis = s.basis
     \/ r.of \in Served /\ r.success
Stands == \A r \in accepted, s \in accepted' \ accepted : ~Revises(r, s)
RetriesNeverRevise == [][Stands]_accepted
=============================================================================
