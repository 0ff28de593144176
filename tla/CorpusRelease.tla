--------------------------- MODULE CorpusRelease ---------------------------
(* From raw trials to a published corpus.  build_benchmark_corpus.py        *)
(* decides which attempts are scientific outcomes, holds the result against *)
(* the lock of the prospective method analysis, and writes three tables one *)
(* after another; artifact_manifest.py collects every file the tables       *)
(* name, hashes them one by one and writes a manifest, which    *)
(* anyone may verify later.  Neither tool takes a lock, either may die at   *)
(* any point, and jobs, exclusions, annotations and the log classifier      *)
(* change beside them.                                                      *)
EXTENDS Naturals, FiniteSets, Sequences

CONSTANTS
  Trials,      \* attempts that may leave a trial file
  Locked,      \* those the prospective method analysis was run on
  MaxEdits,    \* bound: exclusions, annotations and reclassifications
  MaxBuilds,   \* bound: runs of the corpus builder
  MaxReleases, \* bound: runs of the manifest tool
  NoTable

(* What the classifier makes of a trial's exit code and log.  Two kinds of  *)
(* memory failure stand for the three of SCIENTIFIC_FAILURE_KINDS,          *)
(* "infrastructure" for NON_SCIENTIFIC_FAILURE_REASONS.                     *)
Memory == {"oom", "init_oom"}
Kinds == {"success", "infrastructure", "unclassified"} \cup Memory
Tables == {"corpus", "drift", "ledger"}   \* benchmark-corpus.csv,
                   \* ...-derivation-drift.csv and artifact-manifest.csv
NoRun == [at |-> "idle"]
Row == [trial : Trials, kind : Kinds, valid : BOOLEAN, noted : BOOLEAN]

(* A trial is not a table, and a table that was never written is not one   *)
(* that was.                                                               *)
CorpusAssumption ==
  /\ Trials \cap Tables = {} /\ Locked \subseteq Trials
  /\ NoTable \notin [rows : SUBSET Row, torn : BOOLEAN]

VARIABLES
  kind,        \* trial -> what it is, or "none" while it is not there
  excluded,    \* attempt_exclusions.csv, by job
  annotated,   \* failure_annotations.csv
  edits, builds, releases,   \* how many there have been
  builder,     \* the running build: its step and what it has read
  table,       \* each table's rows, and whether its last write was cut short
  tool,        \* the running manifest tool
  manifest     \* its rows; whether it was written to the end; whether a
               \* build wrote a table while it was made

vars == <<kind, excluded, annotated, edits, builds, releases, builder, table, tool, manifest>>
world == <<kind, excluded, annotated, edits>>
runs == <<builds, releases>>

Class(k) == IF k \in Memory THEN "memory" ELSE k
LockedAs == [t \in Locked |-> "oom"]
There == {t \in Trials : kind[t] # "none"}

Init ==
  /\ kind = [t \in Trials |-> IF t \in Locked THEN LockedAs[t] ELSE "none"]
  /\ excluded = {} /\ annotated = {} /\ edits = 0
  /\ builds = 0 /\ releases = 0
  /\ builder = NoRun /\ tool = NoRun
  /\ table = [f \in Tables |-> NoTable]
  /\ manifest = [rows |-> {}, whole |-> FALSE, crossed |-> FALSE]

-----------------------------------------------------------------------------
(* The world beside the tools.                                             *)
Attempt(t) ==
  /\ kind[t] = "none"
  /\ \E k \in Kinds : kind' = [kind EXCEPT ![t] = k]
  /\ UNCHANGED <<excluded, annotated, edits, runs, builder, table, tool, manifest>>

Edited == edits < MaxEdits /\ edits' = edits + 1
Exclude(t) ==
  /\ t \in There \ excluded /\ Edited
  /\ excluded' = excluded \cup {t}
  /\ UNCHANGED <<kind, annotated, runs, builder, table, tool, manifest>>
Annotate(t) ==
  /\ kind[t] = "unclassified" /\ t \notin annotated /\ Edited
  /\ annotated' = annotated \cup {t}
  /\ UNCHANGED <<kind, excluded, runs, builder, table, tool, manifest>>
(* A revised classifier reads another failure out of the same log.         *)
Reclassify(t) ==
  /\ kind[t] \notin {"none", "success"} /\ Edited
  /\ \E k \in Kinds \ {"success"} : k # kind[t] /\ kind' = [kind EXCEPT ![t] = k]
  /\ UNCHANGED <<excluded, annotated, runs, builder, table, tool, manifest>>

-----------------------------------------------------------------------------
(* A trial's failure, the annotation standing in where the log gives none; *)
(* and whether it is a scientific outcome.                                 *)
Noted(t, notes) == kind[t] = "unclassified" /\ t \in notes
KindOf(t, notes) == IF Noted(t, notes) THEN "oom" ELSE kind[t]
Valid(t, notes, out) == t \notin out /\ KindOf(t, notes) \in {"success"} \cup Memory

(* main, lines 523-572: annotations and exclusions, then every trial there *)
(* is.  A row is the trial, what it is, whether it counts, and whether the *)
(* annotation's evidence is entered beside it.                             *)
BuildReads ==
  /\ builder = NoRun
  /\ builder' = [at |-> "scan", notes |-> annotated, out |-> excluded]
  /\ builds < MaxBuilds /\ builds' = builds + 1
  /\ UNCHANGED <<world, releases, table, tool, manifest>>
BuildScans ==
  /\ builder.at = "scan"
  /\ builder' = [at |-> "check", notes |-> builder.notes, rows |->
       {[trial |-> t, kind |-> KindOf(t, builder.notes),
         valid |-> Valid(t, builder.notes, builder.out),
         noted |-> Noted(t, builder.notes)] : t \in There}]
  /\ UNCHANGED <<world, runs, table, tool, manifest>>

ValidRows(rows) == {r \in rows : r.valid}
(* The locked trials are all there as outcomes, and none differs from its  *)
(* locked row but in the kind of its memory failure: an annotation brings  *)
(* its evidence into the row, which is one difference too many.            *)
MutantLockHolds(rows) == \A t \in Locked : \E r \in rows : r.trial = t
LockHolds(rows) ==
  \A t \in Locked : \E r \in ValidRows(rows) :
    r.trial = t /\ ~r.noted /\ Class(r.kind) = Class(LockedAs[t])
Drifted(rows) == {r \in ValidRows(rows) : r.trial \in Locked /\ r.kind # LockedAs[r.trial]}

BuildChecks ==
  /\ builder.at = "check"
  /\ IF ValidRows(builder.rows) # {} /\ LockHolds(builder.rows)
       THEN builder' = [at |-> "corpus", rows |-> builder.rows]
       ELSE builder' = NoRun
  /\ UNCHANGED <<world, runs, table, tool, manifest>>

Content(f, rows) == CASE f = "corpus" -> ValidRows(rows)
                      [] f = "drift" -> Drifted(rows)
                      [] f = "ledger" -> rows
After == [corpus |-> "drift", drift |-> "ledger", ledger |-> "idle"]
Writes(f, content, torn) ==
  /\ table' = [table EXCEPT ![f] = [rows |-> content, torn |-> torn]]
  /\ tool' = IF tool = NoRun THEN NoRun ELSE [tool EXCEPT !.crossed = TRUE]
  /\ UNCHANGED <<world, runs, manifest>>
BuildWrites(f) ==
  /\ builder.at = f
  /\ Writes(f, Content(f, builder.rows), FALSE)
  /\ builder' = IF f = "ledger" THEN NoRun ELSE [builder EXCEPT !.at = After[f]]
(* Killed: between two steps, or in a write.  What a torn table still       *)
(* holds is left out.                                                      *)
BuildDies ==
  /\ builder # NoRun /\ builder' = NoRun
  /\ \/ UNCHANGED <<world, runs, table, tool, manifest>>
     \/ builder.at \in Tables /\ Writes(builder.at, {}, TRUE)

-----------------------------------------------------------------------------
(* What collect_files finds: the corpus' trials, those the ledger says do  *)
(* not count, and the tables themselves.  The trees of later studies,      *)
(* which are in neither table, are left out.                               *)
Rows(f) == IF table[f] = NoTable THEN {} ELSE table[f].rows
Referenced == {r.trial : r \in Rows("corpus")}
MutantExcludedTrials == {r.trial : r \in {q \in Rows("ledger") : ~q.valid /\ q.kind # "success"}}
ExcludedTrials == {r.trial : r \in {q \in Rows("ledger") : ~q.valid}}

(* Trial files never change once they are there, so they are hashed with   *)
(* the step that finds them; the tables follow one by one, by their names. *)
HashOrder == <<"ledger", "corpus", "drift">>
Collect ==
  /\ tool = NoRun
  /\ tool' = [at |-> 1, rows |-> {<<t, t>> : t \in Referenced \cup ExcludedTrials},
              files |-> {f \in Tables : table[f] # NoTable}, crossed |-> FALSE]
  /\ releases < MaxReleases /\ releases' = releases + 1
  /\ UNCHANGED <<world, builds, builder, table, manifest>>
HashNext ==
  /\ tool # NoRun /\ tool.at \in DOMAIN HashOrder
  /\ LET f == HashOrder[tool.at]
     IN  tool' = [tool EXCEPT !.at = @ + 1,
                    !.rows = @ \cup (IF f \in tool.files THEN {<<f, table[f]>>} ELSE {})]
  /\ UNCHANGED <<world, runs, builder, table, manifest>>
WriteManifest ==
  /\ tool # NoRun /\ tool.at = Len(HashOrder) + 1 /\ tool' = NoRun
  /\ manifest' = [rows |-> tool.rows, whole |-> TRUE, crossed |-> tool.crossed]
  /\ UNCHANGED <<world, runs, builder, table>>
(* Killed: in the write too, and a manifest of fewer files would verify.   *)
(* What a torn manifest still lists is left out.                           *)
ToolDies ==
  /\ tool # NoRun /\ tool' = NoRun
  /\ \/ UNCHANGED manifest
     \/ /\ tool.at = Len(HashOrder) + 1
        /\ manifest' = [rows |-> {}, whole |-> FALSE, crossed |-> tool.crossed]
  /\ UNCHANGED <<world, runs, builder, table>>

(* verify_manifest: every file it lists is there as it was hashed.         *)
Listed == {row[1] : row \in manifest.rows}
Verified == manifest.rows # {} /\ \A row \in manifest.rows :
                                    row[1] \in Tables => table[row[1]] = row[2]

Next ==
  \/ \E t \in Trials : Attempt(t) \/ Exclude(t) \/ Annotate(t) \/ Reclassify(t)
  \/ BuildReads \/ BuildScans \/ BuildChecks \/ BuildDies
  \/ \E f \in Tables : BuildWrites(f)
  \/ Collect \/ HashNext \/ WriteManifest \/ ToolDies
Spec == Init /\ [][Next]_vars

-----------------------------------------------------------------------------
(* A manifest that was written to the end, beside no build, and verifies    *)
(* now, over a corpus and a ledger of one build, covers every trial that    *)
(* build saw, whatever has been excluded, annotated or reclassified since;  *)
(* and the corpus it covers has every locked trial with its locked outcome. *)
ReleaseWhole ==
  (/\ manifest.whole /\ ~manifest.crossed /\ Verified
   /\ {"corpus", "ledger"} \subseteq Listed
   /\ ~table["corpus"].torn /\ ~table["ledger"].torn
   /\ Rows("corpus") = ValidRows(Rows("ledger")))
  => /\ \A r \in Rows("ledger") : r.trial \in Listed
     /\ LockHolds(Rows("corpus"))
=============================================================================
