--------------------------- MODULE StudyCollection ---------------------------
(***************************************************************************)
(* One cell of the matched study: NPairs pairs (one per training seed),    *)
(* whose runners write their files while collect_estimation_study.py reads *)
(* them.  A pair runs the two configurations of the cell, 2 and 4 GPUs, in *)
(* an order the matrix fixes; a configuration is labelled from its slot in *)
(* every pair.  The runner is reduced to the files it writes, in their     *)
(* order (MatchedPair has the rest); a killed runner writes no more.  What *)
(* the raw evidence of an attempt says is one of Verdicts.  A write of a   *)
(* file is one step, except that a kill may tear the last line of the      *)
(* ledger or of the allocation trace, whose lines are not told apart.      *)
(***************************************************************************)
EXTENDS Naturals, FiniteSets

CONSTANTS
  NPairs,      \* pairs of the cell, numbered in matrix order
  TwoFirst,    \* the pairs whose first period is the 2-GPU configuration
  Jobs,        \* scheduler jobs
  NoJob,       \* not a job
  Cancelled,   \* the pairs whose job is cancelled: its batch step may outlive its recorded end
  Verdicts,    \* what an attempt's raw evidence may amount to
  MaxGrowth    \* bound: events a ledger gains once it has been hashed

Pairs == 1..NPairs
Periods == 1..2
Configs == {2, 4}
Labels == {"within_margin", "above_margin", "memory_failure"}

ASSUME StudyAssumption ==
  /\ NPairs \in Nat \ {0}
  /\ TwoFirst \subseteq Pairs
  /\ NoJob \notin Jobs
  /\ Cancelled \subseteq Pairs
  /\ Verdicts \subseteq Labels \cup {"invalid"}
  /\ MaxGrowth \in Nat

VARIABLES
  files,       \* per pair: what its runner has written
  pc,          \* the collector
  at,          \* the pair it reads
  accounting,  \* the accounting file: per pair the ledger its claim is bound to, if any
  hash,        \* per pair: the ledger as its hash was taken
  seen,        \* per pair: what it read
  snapshot,    \* history: the files of the pairs it found, when it began to verify
  output       \* "none", "published"

collector == <<pc, at, hash, seen, snapshot, output>>
vars == <<files, accounting, collector>>

Events == ({"claimed", "started", "torn", "closed"} \X {0}) \cup ({"terminal"} \X Periods)
Blank == [job |-> NoJob, manifest |-> "none", ledger |-> {}, trace |-> "none",
          record |-> [k \in Periods |-> "none"], summary |-> FALSE]
Files == [job : Jobs \cup {NoJob}, manifest : {"none", "started", "rejected"},
          ledger : SUBSET Events, trace : {"none", "whole", "torn"},
          record : [Periods -> Verdicts \cup {"none", "not_started"}], summary : BOOLEAN]

TypeOK ==
  /\ files \in [Pairs -> Files]
  /\ pc \in {"idle", "manifest", "hash", "ledger", "trace", "summary", "record1",
             "record2", "verify", "write", "done", "aborted"}
  /\ at \in Pairs
  /\ accounting \in [Pairs -> SUBSET Events]
  /\ hash \in [Pairs -> SUBSET Events]
  /\ seen \in [Pairs -> Files]
  /\ snapshot \in [Pairs -> Files]
  /\ output \in {"none", "published"}

Init ==
  /\ files = [p \in Pairs |-> Blank]
  /\ pc = "idle" /\ at = 1 /\ output = "none"
  /\ accounting = [p \in Pairs |-> {}]
  /\ hash = [p \in Pairs |-> {}]
  /\ seen = [p \in Pairs |-> Blank]
  /\ snapshot = [p \in Pairs |-> Blank]

-----------------------------------------------------------------------------
(* The runners.                                                            *)

Has(f, name, k) == <<name, k>> \in f.ledger

(* A runner that is killed writes no more: it need not take a step, may    *)
(* leave half a line, and has certainly stopped when its job has ended,    *)
(* unless that was cancelled (allocation_cost expects its ledger to end    *)
(* later).  A pair is followed before the collector starts, while its own  *)
(* files are read, and until they have been compared: what it writes while *)
(* another pair is read could as well come before or after.                *)
Followed(p) ==
  CASE pc \in {"write", "done", "aborted"} -> FALSE
    [] pc = "idle" -> TRUE
    [] pc = "verify" -> p >= at /\ seen[p].manifest # "none"
    [] OTHER -> p = at
Ended(p) == accounting[p] # {} /\ p \notin Cancelled
Alive(p) == /\ Followed(p)
            /\ files[p].job # NoJob /\ ~Ended(p)
            /\ ~Has(files[p], "torn", 0) /\ files[p].trace # "torn"

Writes(p, f) == /\ files' = [files EXCEPT ![p] = f]
                /\ UNCHANGED <<accounting, collector>>

Appends(p, name, k) ==
  /\ \A read \in {hash[p], accounting[p]} \ {{}} :
       Cardinality(files[p].ledger \ read) < MaxGrowth      \* bound
  /\ Writes(p, [files[p] EXCEPT !.ledger = @ \cup {<<name, k>>}])

Claim(p) ==
  /\ Followed(p) /\ files[p].job = NoJob
  /\ \E j \in Jobs :
       /\ \A q \in Pairs : Ended(q) => files[q].job # j
       /\ Writes(p, [files[p] EXCEPT !.job = j, !.ledger = {<<"claimed", 0>>}])

(* The manifest comes once the protocol and the allocation are accepted, or *)
(* rejected: then no payload starts and both periods are recorded so.       *)
Manifest(p) ==
  /\ Alive(p) /\ files[p].manifest = "none"
  /\ \E m \in {"started", "rejected"} : Writes(p, [files[p] EXCEPT !.manifest = m])

StartPair(p) ==
  /\ Alive(p) /\ files[p].manifest = "started" /\ ~Has(files[p], "started", 0)
  /\ Appends(p, "started", 0)

InPeriod(p, k) ==
  /\ Alive(p) /\ (files[p].manifest = "rejected" \/ Has(files[p], "started", 0))
  /\ ~Has(files[p], "terminal", k)
  /\ k = 2 => Has(files[p], "terminal", 1)

(* The allocation is sampled before, beside and after a payload, which has *)
(* started only once a gate has written two samples.                       *)
Sampling(p) ==
  /\ files[p].manifest = "started"
  /\ \E k \in Periods : InPeriod(p, k) /\ files[p].record[k] = "none"
Sample(p) ==
  /\ Sampling(p) /\ files[p].trace = "none"
  /\ Writes(p, [files[p] EXCEPT !.trace = "whole"])

Record(p, k) ==
  /\ InPeriod(p, k) /\ files[p].record[k] = "none"
  /\ \E v \in {"not_started"} \cup (IF files[p].trace = "whole" THEN Verdicts ELSE {}) :
       Writes(p, [files[p] EXCEPT !.record[k] = v])

(* A mutant: the durable event comes before the file it vouches for.       *)
MutantTerminal(p, k) ==
  /\ InPeriod(p, k)
  /\ Appends(p, "terminal", k)
Terminal(p, k) ==
  /\ InPeriod(p, k) /\ files[p].record[k] # "none"
  /\ Appends(p, "terminal", k)

Summarise(p) ==
  /\ Alive(p) /\ Has(files[p], "terminal", 2) /\ ~files[p].summary
  /\ Writes(p, [files[p] EXCEPT !.summary = TRUE])

Close(p) ==
  /\ Alive(p) /\ files[p].summary /\ ~Has(files[p], "closed", 0)
  /\ Appends(p, "closed", 0)

Torn(f) == Has(f, "torn", 0) \/ f.trace = "torn"

TearLedger(p) ==
  /\ \A q \in Pairs : ~Torn(files[q])      \* bound: one torn file
  /\ \/ \E k \in Periods : InPeriod(p, k) /\ files[p].record[k] # "none"
     \/ Alive(p) /\ files[p].summary /\ ~Has(files[p], "closed", 0)
  /\ Appends(p, "torn", 0)

TearTrace(p) ==
  /\ \A q \in Pairs : ~Torn(files[q])      \* the same bound
  /\ Sampling(p)
  /\ Writes(p, [files[p] EXCEPT !.trace = "torn"])

Runner(p) ==
  \/ Claim(p)
  \/ Manifest(p)
  \/ StartPair(p)
  \/ Sample(p)
  \/ \E k \in Periods : Record(p, k) \/ Terminal(p, k)
  \/ Summarise(p)
  \/ Close(p)
  \/ TearLedger(p)
  \/ TearTrace(p)

-----------------------------------------------------------------------------
(* capture_allocation_accounting.py: the scheduler's records of ended jobs, *)
(* one for every claim there is, bound to the hashes of its manifest and    *)
(* ledger; refused when two pairs name one job.                            *)
Claimed == {p \in Pairs : files[p].manifest # "none"}

Capture ==
  /\ pc = "idle" /\ \A p \in Pairs : accounting[p] = {}
  /\ \A p, q \in Claimed : files[p].job = files[q].job => p = q
  /\ accounting' = [p \in Pairs |-> IF p \in Claimed THEN files[p].ledger ELSE {}]
  /\ UNCHANGED <<files, collector>>

-----------------------------------------------------------------------------
(* What the collector makes of what it read: s is its record of the files, *)
(* a the accounting.                                                       *)

(* validate_pair, without the rule on reused jobs: first what it demands   *)
(* of manifest and ledger, then, of a pair that started, a trace of which  *)
(* every line can be read, and at least one.                               *)
LedgerValid(f) ==
  /\ f.manifest # "none"
  /\ Has(f, "claimed", 0) /\ ~Has(f, "torn", 0)
  /\ f.manifest = "started" => Has(f, "started", 0)
TraceRead(f) == LedgerValid(f) /\ f.manifest = "started"
Valid(f) == LedgerValid(f) /\ (f.manifest = "started" => f.trace = "whole")

Reused(s, p) == \E q \in 1..(p - 1) : s[q].job = s[p].job /\ Valid(s[q])
Accepted(s, p) == Valid(s[p]) /\ ~Reused(s, p)

Recorded(s, p, k) ==
  s[p].record[k] # "none" /\ Has(s[p], "terminal", k) /\ Accepted(s, p)

(* process_slot: the outcome of a slot, if its evidence is whole.  The     *)
(* second period needs the first one's end.                                *)
Eligible(s, p, k) ==
  /\ s[p].record[k] \in Labels
  /\ k = 2 => Has(s[p], "terminal", 1)
  /\ Recorded(s, p, k)

Slot(s, p, k) ==
  [state |-> IF Eligible(s, p, k) THEN s[p].record[k] ELSE "unresolved",
   costKnown |-> Recorded(s, p, k)]

PeriodOf(p, g) == IF (g = 2) = (p \in TwoFirst) THEN 1 ELSE 2
SlotOf(s, p, g) == Slot(s, p, PeriodOf(p, g))

(* configurations: what is known of each, and a label only when every seed *)
(* has an eligible slot.                                                   *)
Known(s, g, label) == \E p \in Pairs : SlotOf(s, p, g).state = label

Worst(s, g) == IF Known(s, g, "memory_failure") THEN "memory_failure"
               ELSE IF Known(s, g, "above_margin") THEN "above_margin"
               ELSE "within_margin"

(* A mutant: a failure that is known decides, whatever is missing.         *)
MutantResolved(s, g) ==
  \/ Known(s, g, "memory_failure")
  \/ \A p \in Pairs : SlotOf(s, p, g).state # "unresolved"
(* Another: one eligible slot is enough.                                   *)
MutantResolvedOnce(s, g) == \E p \in Pairs : SlotOf(s, p, g).state # "unresolved"
Resolved(s, g) == \A p \in Pairs : SlotOf(s, p, g).state # "unresolved"
State(s, g) == IF Resolved(s, g) THEN Worst(s, g) ELSE "unresolved"

(* allocation_cost: the whole job, when the scheduler's record is bound to *)
(* the files as they were read.                                            *)
WholeKnown(s, a, p) == Accepted(s, p) /\ a[p] # {} /\ s[p].ledger = a[p]

(* ... and the time until the runner's own summary.                        *)
ObservedKnown(s, p) ==
  /\ Accepted(s, p) /\ s[p].manifest = "started"
  /\ s[p].summary /\ Has(s[p], "closed", 0)
  /\ \A k \in Periods : Has(s[p], "terminal", k)

(* paired_summaries compares the two task sizes of a pair if both          *)
(* completed, cost_summary totals what is known and is complete only if    *)
(* all is, evaluate scores the resolved configurations and lists the rest. *)
Completed(s, p, g) == SlotOf(s, p, g).state \in {"within_margin", "above_margin"}

Report(s, a) ==
  [slots |-> [p \in Pairs |-> [k \in Periods |-> Slot(s, p, k)]],
   configurations |-> [g \in Configs |->
     [state |-> State(s, g), failureKnown |-> Known(s, g, "memory_failure"),
      exceedanceKnown |-> Known(s, g, "above_margin")]],
   compared |-> {p \in Pairs : \A g \in Configs : Completed(s, p, g)},
   scored |-> {g \in Configs : State(s, g) # "unresolved"},
   whole |-> {p \in Pairs : WholeKnown(s, a, p)},
   observed |-> {p \in Pairs : ObservedKnown(s, p)},
   complete |-> \A p \in Pairs : WholeKnown(s, a, p)]

-----------------------------------------------------------------------------
(* The collector.  Pairs are read in matrix order; the first file that is  *)
(* missing or wrong ends the reading of its pair.                          *)

Goto(step) == pc' = step /\ at' = at
NextPair == pc' = (IF at = NPairs THEN "verify" ELSE "manifest")
            /\ at' = IF at = NPairs THEN 1 ELSE at + 1

Start ==
  /\ pc = "idle"
  /\ pc' = "manifest"
  /\ UNCHANGED <<files, accounting, at, hash, seen, snapshot, output>>

ReadManifest ==
  /\ pc = "manifest"
  /\ seen' = [seen EXCEPT ![at].job = IF files[at].manifest = "none" THEN NoJob ELSE files[at].job,
                          ![at].manifest = files[at].manifest]
  /\ IF files[at].manifest = "none" THEN NextPair ELSE Goto("hash")
  /\ UNCHANGED <<files, accounting, hash, snapshot, output>>

(* Evidence.touch: the file is hashed, and read only then.                 *)
HashLedger ==
  /\ pc = "hash" /\ Goto("ledger")
  /\ hash' = [hash EXCEPT ![at] = files[at].ledger]
  /\ UNCHANGED <<files, accounting, seen, snapshot, output>>

ReadLedger ==
  /\ pc = "ledger"
  /\ seen' = [seen EXCEPT ![at].ledger = files[at].ledger]
  /\ IF TraceRead(seen'[at]) THEN Goto("trace")
     ELSE IF Accepted(seen', at) THEN Goto("record1") ELSE NextPair
  /\ UNCHANGED <<files, accounting, hash, snapshot, output>>

(* The trace is read once, after the ledger.  (Its samples are not told    *)
(* apart, so that one which only grows is taken for unchanged; the code    *)
(* gives up.  Hash and text are one step: a trace that was torn, or had    *)
(* its first line, in between is another one when the hashes are compared.) *)
ReadTrace ==
  /\ pc = "trace"
  /\ seen' = [seen EXCEPT ![at].trace = files[at].trace]
  /\ IF Accepted(seen', at) THEN Goto("summary") ELSE NextPair
  /\ UNCHANGED <<files, accounting, hash, snapshot, output>>

ReadSummary ==
  /\ pc = "summary" /\ Goto("record1")
  /\ seen' = [seen EXCEPT ![at].summary = files[at].summary]
  /\ UNCHANGED <<files, accounting, hash, snapshot, output>>

ReadRecord(k) ==
  /\ pc = (IF k = 1 THEN "record1" ELSE "record2")
  /\ seen' = [seen EXCEPT ![at].record[k] = files[at].record[k]]
  /\ IF k = 1 THEN Goto("record2") ELSE NextPair
  /\ UNCHANGED <<files, accounting, hash, snapshot, output>>

(* After the last pair: every accounting job must be of an accepted pair,  *)
(* then every file read is hashed again, pair after pair.                  *)
Unidentified == \E p \in Pairs : /\ accounting[p] # {}
                                 /\ ~\E q \in Pairs : Accepted(seen, q) /\ seen[q].job = files[p].job

Hashed(p) == seen[p].manifest # "none"

(* A mutant: the hashes are not compared again.                            *)
MutantUnchanged(p) == Hashed(p) => hash[p] \subseteq files[p].ledger
Unchanged(p) ==
  /\ Hashed(p) => hash[p] = files[p].ledger
  /\ TraceRead(seen[p]) => seen[p].trace = files[p].trace

Verify ==
  /\ pc = "verify"
  /\ (at = 1 => ~Unidentified) /\ Unchanged(at)
  /\ pc' = IF at = NPairs THEN "write" ELSE "verify"
  /\ at' = IF at = NPairs THEN at ELSE at + 1
  /\ snapshot' = IF at > 1 THEN snapshot
                 ELSE [p \in Pairs |-> IF Hashed(p) THEN files[p] ELSE Blank]
  /\ UNCHANGED <<files, accounting, hash, seen, output>>

Abort ==
  /\ pc = "verify" /\ ((at = 1 /\ Unidentified) \/ ~Unchanged(at))
  /\ pc' = "aborted" /\ at' = 1
  /\ hash' = [p \in Pairs |-> {}]
  /\ seen' = [p \in Pairs |-> Blank]
  /\ snapshot' = [p \in Pairs |-> Blank]
  /\ UNCHANGED <<files, accounting, output>>

(* write_results: an exclusive directory, its manifest last.               *)
WriteResults ==
  /\ pc = "write"
  /\ output' = "published" /\ Goto("done")
  /\ UNCHANGED <<files, accounting, hash, seen, snapshot>>

Collector ==
  \/ Start
  \/ ReadManifest
  \/ HashLedger
  \/ ReadLedger
  \/ ReadTrace
  \/ ReadSummary
  \/ \E k \in Periods : ReadRecord(k)
  \/ Verify
  \/ Abort
  \/ WriteResults

Next ==
  \/ \E p \in Pairs : Runner(p)
  \/ Capture
  \/ Collector

Spec == Init /\ [][Next]_vars

-----------------------------------------------------------------------------
(* Properties.                                                             *)

Published == output = "published"

(* A published report is the report of one moment.  The files are read one *)
(* after the other while runners write, yet what is published is what a    *)
(* collector would have concluded that saw every pair it found as it was   *)
(* when verification began.                                                *)
ReportIsSnapshot ==
  Published => Report(seen, accounting) = Report(snapshot, accounting)

(* As the study goes on, reports of it only learn: a label is kept, and so *)
(* is a known failure or exceedance, while every job is one pair's and no  *)
(* kill tears a file.  A torn line is the exception that matters: the pair *)
(* is rejected whole, so that a runner killed in its second period, while  *)
(* it writes the ledger or the trace, takes back what the first period had *)
(* shown (validate_pair reads both, and one unreadable line is enough).    *)
(* (What is known of an open configuration is reported in the same breath  *)
(* as its label, lines 752-756.)                                           *)
Refines ==
  /\ files' # files
  /\ \A p, q \in Pairs : files'[p].job = files'[q].job => p = q \/ files'[p].job = NoJob
  /\ \A p \in Pairs : ~Torn(files'[p])
  => \A g \in Configs :
       /\ State(files, g) # "unresolved" => State(files', g) = State(files, g)
       /\ \A l \in Labels : Known(files, g, l) => Known(files', g, l)
LabelsOnlyRefine == [][Refines]_files

(* A published label is the truth of the whole configuration: every seed   *)
(* ran it to a durable end and the label is the worst of what they show.   *)
(* A configuration with a slot that is not eligible has none (line 750),   *)
(* even if another slot's failure would already decide it.                 *)
LabelIsTruth ==
  Published => \A g \in Configs :
    LET outcome(p) == files[p].record[PeriodOf(p, g)]
        label == Report(seen, accounting).configurations[g].state
    IN label # "unresolved" =>
         /\ \A p \in Pairs : /\ outcome(p) \in Labels
                             /\ Has(files[p], "terminal", PeriodOf(p, g))
         /\ label = "memory_failure" <=> \E p \in Pairs : outcome(p) = "memory_failure"
         /\ label = "within_margin" <=> \A p \in Pairs : outcome(p) = "within_margin"

(* The costs nest: a pair whose observed allocation time is reported has   *)
(* the time of both its invocations reported too.  It rests on the order   *)
(* of the runner's writes (record, terminal event, summary, last event)    *)
(* and on the collector's reading the ledger before the files it vouches   *)
(* for.                                                                    *)
CostsNest ==
  Published => LET r == Report(seen, accounting)
               IN \A p \in r.observed : \A k \in Periods : r.slots[p][k].costKnown
=============================================================================
