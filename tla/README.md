# Verification of RLVRAM-Bench

TLA+ models, TLC runs and TLAPS proofs for the code of this repository: the
programs that run pairs of GPU jobs under a scheduler exactly once, judge from
the files they leave which of them count, and replay admission decisions over
the record. Source paths are relative to `src/`.

## 1. Inventory

| Part | Source | State it keeps | Operations |
|---|---|---|---|
| matched-pair runner | `memory_tuner/run_matched_gpu.py` | a pair's directory (claim, `ledger.jsonl`, `allocation-trace.jsonl`, `pair.json`, `period-N.json`, `pair-summary.json`), attempt directories, the frame of `execute_pair`, a payload process tree, a sampler thread | `claim_pair`, `execute_pair`, `wait_idle`, `run_payload`, `cleanup_children`, `assess_period`, the signal handler |
| durable journal | `memory_tuner/device_contract.py` 60-88 | an append-only file and a sequence number | `write_new_json`, `Journal.emit` |
| matched-pair collector | `memory_tuner/collect_estimation_study.py` | none; it reads the runner's files | `validate_pair`, `validate_period_provenance`, `process_slot`, then aggregation, costs and staged output |
| device contract | `memory_tuner/device_contract.py` | the journal and identity files of a Ray job | `preflight_ray`, `execute_training`, worker records |
| launcher and monitor | `run_grpo_instrumented.slurm`, `memory_tuner/gpu_monitor.py` | background processes, a trial file | traps, fatal watchdog, telemetry |
| decision replay | `decision_benchmark.py` | none; protocol and attempts come in | `group_attempts`, `acquire`, `evaluation_truth`, `score`, `replay` |
| decision collector | `memory_tuner/collect_decision_benchmark.py` | a results directory published by rename | `collect` |
| attempts and failure taxonomy | `memory_tuner/trial_attempts.py`, `rl_trial_attempts.py`, `log_parser.py`, `failure_taxonomy.py` | trial files per job | selection of the attempt that counts, classification of a log |
| configuration search | `memory_tuner/core.py` | trials so far | candidates in order of pressure, `choose_next`, `parse_log` |
| study planning and baselines | `plan_estimation_study.py`, `estimation_baselines.py` | matrix, protocol, amendments, predictions and their seal | plan, amend, `load_protocol`, `freeze` |
| host capacity study | `host_capacity_protocol.py`, `collect_host_capacity.py` | a directory derived from the sealed original | `freeze`, `load_design`, `verify_protocol` |
| allocation accounting | `capture_allocation_accounting.py`, `replication_control_accounting.py` | rows of the scheduler bound to claims | capture, reconstruct, publish |
| phase guard | `phaseguard.py`, `phaseguard_evaluation.py` | none | grouped split, calibration, selection, held-out evaluation |
| worker instrumentation | `instrumented_python_packages/verl` | what of policy and rollout is on each GPU | `train_batch`, `infer_batch`, `update_weights`, sleep |
| corpus and artifact | `build_benchmark_corpus.py`, `artifact_manifest.py`, and `reproduce.py` for the way back | tables, a manifest, an archive | build, collect, verify, extract |
| reproduction drivers | `reproduce.py`, `replication_reproduction.py` | a work directory | restore, hide, rebuild, compare |
| environment capture, statistics, figures | the rest | none | host queries and computations over tables |

How they interact. The scheduler starts the runner, which starts the launcher
as its payload; the launcher starts the trainer, the device contract and the
monitor. All of them meet in files: nobody replies to anybody. The collector
comes later, trusts no status the runner wrote, and judges the evidence anew;
the study's tables and the replay are computed from what it accepts. Inside the
runner there are two threads (main and sampler) which share `result`, the trace
journal and `known`, and any step may be interrupted by SIGTERM or SIGINT,
turned into an `InterruptedError`, or be the last one (SIGKILL).

What is hard: a claim two jobs race for; exceptions in the middle of `finally`
clauses, whose order decides what is recorded; a second thread that may outlive
its join; processes that fork and change session beside the scans that look for
them; time that is checked and then spent; half-written journals; and a
collector that must reach the right conclusion from whatever is left. The list
of hazards, each at its line, is in `PROJECT.json`.

What makes the parts correct: no slot is ever run twice; every claimed slot is
accounted for; what enters the study ran alone, undisturbed and behind an idle
gate, and what is reported as not started was not; a clean-up ends in time and
reports no false success; a claimed pair ends; a replay charges no more than
its budget, and growing the record never rewrites history. A study's report is
that of one moment, and later reports only learn; predictions are made from
what they are sealed under, and before the outcomes; a run is accepted only for
the devices it really used; a release is complete and rebuilds from its own
archive; a reconstruction never reads what it is compared with.

## 2. Modules and the code they model

**`OneShotPair`** is the abstract promise: one owner for ever, each of two slots
launched at most once, in order, by the owner, settled once and for all, and
nothing after the owner has closed.

**`MatchedPair`** is the runner. A job is a program counter with the local
variables of `execute_pair` (`fatal`, `result`, `execution`); the pair's
directory is shared by the jobs; each payload and each sampler thread acts on
its own. The actions follow `execute_pair` from the mkdir to `journal.close()`;
`Interrupt*` are the places a signal can strike and what the enclosing handlers
then do (10 groups, by the `try` that encloses the step; a signal at the head of
the loop, 774-803, goes straight to the summary in either period), `Crash` is SIGKILL,
`JobEnds` is the scheduler killing what is left. Abstractions:

- "validated" stands for `completed` and `memory_failure`; "cut" for the
  payload timeout and the allocation deadline; the verification of matrix,
  protocol, source and allocation is one accept-or-reject choice;
- a record is *sound* if the execution has no error, valid sampling, an exit of
  its own and a complete clean-up; whether the payload's files prove an outcome
  is a free choice made when it exits (`proof`);
- the trace journal is kept as what a reader can find in it per period and as
  empty, whole or broken; a torn ledger line is an event of its own;
- file-system errors occur where a step may fail (manifest checks, preparation,
  assessment), not at every write; a job killed before its claim leaves no
  trace and is left out; time is a free choice here.

`signals`, `spawns`, `hit`, `overlap` and `unguarded` only observe.

**`PairCollector`** extends it with what `validate_pair`,
`validate_period_provenance` and `process_slot` conclude from the files, as
predicates of the state: they may be asked at every moment, so every crash
point is covered. Comparisons of identities field by field are left out.

**`PayloadBudget`** is the runner's clock: idle gates, the check of the time
left, the poll loop, the sampler join and the four waits of the clean-up, each
with its own timeout and at most `Lag` over it. The file work before a launch
may take any time, longer than a payload's timeout too: a launch then comes late,
within the reserve or after the deadline. One runner, no signals. A query
of a post gate may still run up to 20 seconds past the deadline, which is five
seconds before the allocation's end; the module says nothing about that.

**`ProcessCleanup`** is the process tree under `cleanup_children`: the payload's
processes fork, leave the process group and exit as they like; the runner
discovers, terminates, waits, discovers again and kills. A scan (one psutil
walk) is atomic; the runner is a subreaper, so descendants stay descendants; a
process is a PID with its creation time; a zombie is dead. The sampler's
`nvidia-smi` is a child of the runner too, and its contamination test is here.

**`DecisionReplay`** is the admission replay over a log of attempts that grows
while a panel is collected and repairs are approved by hand. `acquire`,
`evaluation_truth` and the sensitivity assignments of `score` are operators of
the log; `group_attempts` is `Valid`. GPU costs, ratios and peaks are left out
(`group_attempts` rejects a peak that contradicts its label). A rejected record
is collected no further: a bound.

**`Launcher`** is a payload from the inside: the launcher shell line by line
where it starts, waits for and ends its children, its EXIT trap, the fatal
engine watchdog, `gpu_monitor.py` up to its first sample and from its signal
on, and the container. `set -e` is a choice of failure at each command that can
fail. The runner's `cleanup_children` may send SIGTERM to the shell, the
monitor, the watchdog and the container, each once, in any order and at any
step; bash runs its EXIT trap then, but not a second time inside it (`cut`). A
worker log is written before the shell copies them (`early`) or after (`late`).
The validation and capture before the monitor are one accept-or-reject step,
numbers and the phase marker are left out, and time is a free choice. No
constants.

**`StudyCollection`** is the collector over a whole cell: pairs whose runners
still write (reduced to the files in their order), the hashing, the reading one
pair after the other, `configurations`, `evaluate`, costs and the publication.
A rewritten accounting file, jobs used twice, torn ledgers and torn allocation
traces are in it (both periods share both files, and one unreadable line rejects
the pair), and so are cancelled jobs whose runner writes on after their recorded
end (`Cancelled`). The field-by-field identity checks are one verdict.

**`StudyFreeze`** is how a study is fixed before its outcomes: planners, an
amendment, freezers that load the protocol, fit, load it again, write and seal,
runners that claim, and edits of every input beside them. Equal hashes are equal
version numbers, and an edit never restores a version.

**`HostFollowup`** is the study that inherits from that one. Here files may be
edited and edited back, for the hashes of the original are constants of the code.

**`DecisionPublication`** extends `DecisionReplay` with collectors that read
slot by slot while attempts begin and end, stage, and rename. A manifest without
periods that payload evidence of its own job contradicts fails a collection
(`contradicted`).

**`ControlAccounting`** goes from the rows of `sacct` to the published cost of the
replication control while its blocks are still written.

**`DeviceGate`** is one invocation under the device contract: inspecting
children, contexts that outlive them, the idle gate, the trainer with its ranks,
Ray's placement (any), the UUID patches, and the terminal evidence. The fresh
driver's own checks (mask, address, the gate's record) may fail. That a child
which ends well leaves no process is assumed of the operating system.

**`WorkerResidency`** is what of a model lies on a GPU: policy and rollout on
each rank through synchronisation, generation, sleep, log-probabilities and
update, for every setting of offloading, cache, dummy load and adapters. The
trainer and vLLM are external; their calls are those the file answers. The
rollout is vLLM's: the branch for SGLang (783-785) is not followed, nor is the
engine of a separate reference model (697-703).

**`TrialSelection`**, **`TunerSearch`** and **`GuardCalibration`** are the choices:
which attempt counts while retries, exclusions and annotations come in; which
configuration is probed next (utilisation in twentieths, pressure as an integer
of the same order, the order of keys a constant); which configuration a calibrated guard holds safe. Logs are
sets of marks, regressions are arbitrary predictions. An aggregate is what passes
the strict options: `aggregate_online` writes its output before
`--require-complete` refuses it (173-183), and such an output counts for nothing
here. In `GuardCalibration` a total peak that is missing is NaN, as in the code
(`phaseguard_evaluation.py:103`): it passes the filter on missing values, makes a
regression on it raise, is sorted last among residuals, and `max(0.0, nan)` is 0.

**`CorpusRelease`**, **`ArchiveTree`** and **`Reconstruction`** are the release:
the three tables and the manifest beside edits and deaths of the tools; the
rules by which trees are walked, what an archive holds and what it verifies to;
what a rebuilding child can read. A locked row that an annotation brings evidence
into is refused, as in the code (`Noted`). In `ArchiveTree` a name stands for a
class of names; its universe leaves out links to links. Traces and files found by
name are followed wherever a link leads, and the nodes have links to what the
target's own tree leaves out. In `Reconstruction` a stray write spoils a place; it
is not followed as a carrier of published facts to a place a later child reads.

Operators named `Mutant...` are deliberate faults, one per property: put in
place of the definition after them they must make the property fail.

## 3. Runs

| Run | Question | Bounds |
|---|---|---|
| `pair_race` | is a slot launched twice when two jobs meet (`LaunchedAtMostOnce`)? | 2 jobs (symmetric), kills anywhere, no signals |
| `pair_evidence` | is the claim accounted for and `OneShotPair` implemented (`Accounted`, `ImplementsOneShot`), is what the collector concludes right (`VerdictsTrue`) and complete (`VerdictsAgree`), and does a claimed pair end (`ClaimEnds`)? | 1 job, 1 signal at any step, kills, a sampler that outlives its join; fairness below |
| `sampler_overlap` | the comment at `run_matched_gpu.py:490`; TLC finds it violated | 1 job, no signals |
| `payload_budget` | `CleanupInTime`, `PayloadBounded`, `CutOnlyAfterSlowStart` | small times, reserve exactly what the waits add up to, file work up to 5 against a payload's timeout of 4 |
| `payload_cut` | the test named at `test_matched_gpu.py:676`; TLC finds it violated | the same |
| `process_cleanup` | `OnlyLateSurvivors`, `QueriesUnharmed`, `OwnNeverForeign` | leader and two more processes, the sampler's query |
| `decision_replay` | `BudgetKept`, `ScreensOnlyExtend`, `OutcomesOnlyNarrow` | 2 candidates, 1 screen each, 2 evaluation seeds of one, cap 1, budgets 0 to 3 |
| `launcher` | `TrialCovered`, `NoOrphans`, `LogsKept`, `StallEnds`, `LauncherEnds` | none: paired or not, durable metrics or not, one SIGTERM per process |
| `study` | is a report one moment's, a label the truth, do costs nest, and does a later report only learn (`ReportIsSnapshot`, `LabelIsTruth`, `CostsNest`, `LabelsOnlyRefine`)? | 2 pairs in opposite orders, 2 jobs, kills, 1 event after the hash; `labels`: two outcomes, one torn ledger or trace; `costs`: a cancelled job, whose runner writes on after its recorded end, one outcome |
|  | does a published cost charge every claim (`CostCovers`)? | 2 blocks, 2 events each, 2 seconds |
| `records` | `AcceptedMeansSealedInputs`, `PredictedBeforeClaimed` | 2 planners, 2 freezers, 1 run, 1 edit of each input |
| | `InheritsSealed` | 2 makers, 1 pair, 2 edits of anything |
| | `NothingOverlooked`, `PublishedWhole` | 2 collectors, 2 open slots, 2 invocations |
| `both_ends` | `GeneratesFresh`, `OneResident` | 2 ranks, 2 updates of 2 mini-batches |
| | `StartsAlone`, `AcceptanceTrue` (what is accepted ran as assigned, and what is sound is accepted) | 2 GPUs of 3, in another order than the driver's |
| | `ReleaseWhole` | 2 trials, 1 locked, 2 edits, 2 builds, 1 manifest |
| | `ArchiveFaithful` (it rebuilds its own manifest, and nothing is smuggled in, where links stay: `LinksStay`) | up to 3 of 36 nodes of every class, links that do not stay among them |
| | `RebuiltBlind` (what is rebuilt or replayed saw nothing it is compared with) | all panels, 1 stray write |
| | `RetriesNeverRevise` | 2 experiments, 2 jobs, 1 exclusion or annotation |
| | `FrontierHalves` (an action property) | 6 candidates, two of them tied, any outcomes of all |
| | `PromiseKept` | 5 cases of 2 configurations, coverage 1/2, missing totals among them |
| `traces_kept` | the comment at `artifact_manifest.py:232-236`; TLC finds it violated | as `both_ends` |

`study`, `records`, `both_ends` and `traces_kept` each explore several modules that share
no state, one after the other: a variable `part` says which, the others stay off. `study`
explores its cell twice, as `labels` and as `costs`, each with a bound of its own
(`Bounded`); the theorems hold of any other part too, which has no such bound.

Why the bounds are enough. A pair has exactly two periods and a runner one main
thread, so one job already has every interleaving of runner, payload and
sampler; a second one matters only at the claim. One signal reaches every
handler that runs without one; a second signal inside a handler that the first
one started is outside the bound of the runs (the theorems have no bound). In `PayloadBudget` the ratios of the real 1500, 60 and 180 seconds do not
matter, the sums do: the instance has no slack. Three processes are a parent, a
child in its group and one outside it; the proof covers any number. In
`DecisionReplay` a candidate behind another and a replacement on both sides of
the screen/evaluation boundary are present.

Of the newer runs: a cell's two configurations need two pairs in opposite
orders, and a collector reads two files apart once something changes between
them. An input edited once is changed between any two looks at it; the proof
has no bound. Two collectors are a race, and a third loses to the same rename.
One torn file rejects a pair as surely as two. File work longer than a payload's
timeout brings a launch within the reserve and after the deadline.
Two seconds put an event before, at and after the end of a job. A trainer with
ranks on two of three GPUs can be placed on a wrong one, twice on one, and off
the list. Three nodes are a file, an alias of it and an empty directory.
Five cases leave two to calibrate and two to fit when one is held out. Six
candidates, two of them with the same pressure, have every sequence of
outcomes: the bisection is three deep, and the frontier is used up before the
candidates are.

`CHECK_DEADLOCK FALSE` everywhere: a runner or a launcher that has ended, a
clean-up that has reported and a rejected record are terminal on purpose.

### What three of the runs found

- `sampler_overlap`: "A still-running sampler must never overlap a subsequent
  period" does not hold. The incomplete clean-up is made fatal (862-865) only
  after two calls that may raise: the assessment of the period (858; TLC's
  shortest trace is `AssessRaises`, as when `log.read_text` at 603 fails) and the
  post-period gate (860, a query of it). The handler at 867-872 then leaves `fatal`
  unset and period 2 starts. `EligibleNotBesideRemains`
  shows that the collector keeps such a period 2 out: the gate is missing.
- `payload_cut`: a launch is refused if the full timeout does not fit, but the
  files are hashed and the data verified after that check, and line 464 then
  cuts the payload before its timeout. `CutOnlyAfterSlowStart` is what does
  hold: only a preparation longer than the time to spare can do that.
- `traces_kept`: a directory of traces that rows name is to be in the archive
  (`artifact_manifest.py:232-236`). One that holds nothing but a link to a file
  elsewhere is not empty (252-257), and its file is listed where it lies
  (290-293): the archive has no such directory, and the manifest cannot be rebuilt
  from it. `ArchiveFaithful` says when it can: `LinksStay`.

Also seen, and allowed by the properties as stated: a signal between the fork
in `Popen` and the assignment leaves a process nobody cleans up or records
(`NotStartedNeverSpawned` shows that the attempt's files give it away); the
runner's own `validated_outcomes` counts a slot whose post gate failed, the
collector does not; a torn ledger line in period 2 makes the collector reject
period 1 too, for it rejects the journal, and so does a torn line of the
allocation trace: a report made before the kill may have a label that a later one
takes back, and `LabelsOnlyRefine` says that this, and a job used twice, is the
only way. Where a total peak is missing, the guard of the total peak may silently
have the correction 0; `PromiseKept` makes it no promise there, and neither does
any document of the repository. In the launcher, `NoOrphans` says exactly what SIGTERM
to the shell may leave behind. A monitor: if the signal falls between its fork
(182) and the trap (233), or inside the EXIT trap. A watchdog, which then waits for
a line nobody will write: if it falls before line 278 has noted its id, or inside
the trap. A launcher that ends by itself leaves neither. SIGTERM while the
container still runs, which is the runner's own timeout, makes the trap copy the
worker logs and then remove the scratch directory under the container
(226-227): `LogsKept` says that what was written before the copying is copied even
then, and that later logs are lost in this way only. And a monitor terminated by
somebody else ends with status 0, so that the
trial is written although its samples stop early (`TrialCovered` excepts it: the
runner only does this while it ends the payload).

### Fairness

`MatchedPair`: `WF_vars(Runner(j))` for each job, and nothing else: every wait of the runner
has a timeout (queries 10 s, gate, poll loop, join, both waits), so it is always
able to take its next step. The one exception is `git` (717-720), which is called
without a timeout and assumed to answer. The payload is not assumed to exit nor the sampler
to stop, no signal and no kill is assumed to come.

`Launcher`: weak fairness of the shell, the monitor, the watchdog and of a
container that was sent SIGTERM. The shell only waits for processes and files;
the monitor looks at its flag after every sample and the watchdog sleeps 5 and
60 seconds. That SIGTERM ends the container is the watchdog's own assumption.
Failures, SIGTERM and the payload's progress have no fairness.

## 4. Proofs

For all values of the constants, under the assumptions the modules name.

- `MatchedPair_proofs`: `TypeCorrect`, `Spec => []TypeOK` (inductive, one lemma
  per group of actions), and, in its second half, `NeverRetried` (`LaunchedAtMostOnce`) and
  `RunnerIsOneShot` (`ImplementsOneShot`). Neither is inductive: `OneShotInv`
  adds that only the claimant is past the claim (`OwnerActs`), that an unclaimed
  pair is empty, and that the claimant has settled every period before its own,
  and has launched and settled none after it, nor its own while it stands before
  the step that does (`InOrder`). Each group of actions has a lemma that it
  preserves `OneShotInv` and one that it maps to a step or a stutter of
  `OneShotPair`. Last, `ClaimAccounted` (`Accounted`): `AccountInv` says what a
  claimant that no signal met outside its handlers has written at each step
  (`WrittenBehind`): the manifest, the record and terminal event of each period
  behind it, the summary, the last event. It holds over `OneShotInv`, and over
  the ledger only ever growing by a line (`LedgerGrows`, `LoggedKept`).
  Then the collector, which reads what the runner left whenever it likes.
  `CollectorTellsTruth` (`VerdictsTrue`): `VerdictInv` says, step by step, what
  of an execution is there and that a signal has made it unsound (`Frame`), how
  a post gate comes to say that nothing is left (`Gate`), and that a record is
  true of its slot (`RecordTrue`). `CollectorFindsAll` (`VerdictsAgree`):
  `AgreeInv` follows a claimant that has met no signal (`Calm`): its ledger has
  every event once and in order (`Orderly`), none before the step that writes it
  (`Script`), each step has left the evidence the collector will ask for
  (`Growing`), and a record says "validated" exactly of what the collector finds
  again (`RecordFound`). Both rest on `OneShotInv`, the second on `AccountInv`
  too; one lemma per group of actions and invariant.
- `PayloadBudget_proofs`: `CleanedInTime`, `TimeoutHolds`, `CutAfterSlowStart`.
  `TimeInv` gives, for each step, the latest the clock may show (`Latest`): the
  reserve less the waits still to come, counted from the launch where that came
  within the reserve or later. Assumes `ReserveFits` (the waits and six
  lags fit in the reserve: 25 + 15 + 5 + 5 + 0.2 of 60 seconds), and nothing of the
  file work, which no code bounds: a clean-up ends before the deadline, or within
  `CLEANUP_RESERVE` of a launch that came so late.
- `ProcessCleanup_proofs`: `CompleteCleanup`, `SamplerUnharmed`,
  `NoFalseContamination`. `CleanupInv`: after the last scan all that live are
  known or late (`AllKnown`), after the group's kill all that live in it are
  doomed (`GroupDoomed`), a complete verdict is true (`VerdictTrue`), the query
  is listed only when the join timed out (`QueryInv`), and a payload process in
  a sample that still lives is among the children listed after it (`SampleInv`).
- `DecisionReplay_proofs`: `RecordTyped` and `OutcomesNarrow`
  (`OutcomesOnlyNarrow`). In a valid record a resolved attempt is the last of
  its slot (`ResolvedIsLast`), so a label once given stays; evidence of a failure
  or an exceedance is never lost (`StepKeeps`), so a later label is one the
  evidence allowed. And `BudgetHolds` (`BudgetKept`) and `ScreensExtend`
  (`ScreensOnlyExtend`): two acquisitions, one with less to spend or with less of
  the panel to see (`Grown`), are alike until the one has ended, and then only the
  other goes on (`Behind`). The two loops of `acquire` are functions of the
  position: that they are defined (`Iterated`), and what holds at every position,
  is counted up to (`Upwards`, from the well-foundedness of the naturals).
- `Launcher_proofs`: `LauncherTyped`, `SampledThroughout`, `NothingLeft`,
  `LogsSaved`. `LauncherInv` says where the shell may be while the payload runs
  (`PayloadInv`), who may have asked the monitor to stop (`MonitorInv`), that a
  gap leaves the monitor failed until the shell reads its status (`GapInv`), and
  that the watchdog lives while the shell knows it (`DogInv`). `NothingLeft` and
  `LogsSaved` say for SIGTERM at every line what may be left or lost (section 3).
- `Records_proofs`, over the run's own `MCRecords`. The freeze: `SealedInputs`
  (`AcceptedMeansSealedInputs`) and `Predicted` (`PredictedBeforeClaimed`).
  `FreezeInv`: inputs only grow, so that what is the same at the first and the
  last look is the same in between (`Bracketed`); the outputs are those of the
  one freezer that wrote them (`OneWriter`); nobody took the time before they
  were there (`StampedAfter`). Assumes only that `NoFile` is no file.
  The follow-up: `FollowupInherits` (`InheritsSealed`). `FollowupInv`: a maker
  that is past a step found, or made, the files behind it (`Behind`), files stay
  once made (lemma `FilesStay`), and a time is taken only over a whole design. Assumes
  `FollowupAssumption`: `NoFile` is no file's content.
  The publication: `NothingIsOverlooked` (`NothingOverlooked`) and
  `PublishedOnce` (`PublishedWhole`, an action property). `PublicationInv`:
  every invocation is in the record or pending, but of a slot where evidence
  contradicts a manifest (`Counted`), what a collector
  read of a slot has all that had begun before it (`HasRead`), and what it
  stages replay has accepted (`ReadWhole`). That an uncounted invocation fails
  the collection is what makes `HasRead` inductive.
- `BothEnds_proofs`, over the run's own `MCBothEnds`:
  - The residency. `FreshWeights` (`GeneratesFresh`) and `NeverBoth`
    (`OneResident`), and both of the run's specification in `ResidencyOfTheRun`.
    `ResidencyInv`: per rank, when parameters and cache may be on a device
    (`Apart`), how far a synchronisation has come (`Mapped`), whose weights it
    holds (`Current`), and how many steps the rank has taken (`Counted`); across
    ranks, versions differ by their progress only (`Aligned`).
  - The device gate. `DevicesAreFree` (`StartsAlone`, an action property):
    `GateFree` says that only a lost child leaves orphans, and that a lost child
    ends the gate, so that an idle sample stays true while the gate counts.
    `AcceptanceIsTrue` (`AcceptanceTrue`): `GateTrue` says, rank by rank, what
    each state of a worker has put into the records (`RankTrue`), and which
    evidence each step of the trainer has left (`EvidenceTrue`).
  - The release. `ReleasesAreWhole` (`ReleaseWhole`). `ReleaseInv`: what a build
    holds is of the exclusions it read (`Building`), every table written keeps
    the locked trials (`LockKept`), what is hashed is what was listed
    (`Hashing`), and a manifest that no build crossed lists every trial that the
    corpus and ledger in its rows need (`Manifested`).
  - Attempts. `OutcomesStand` (`RetriesNeverRevise`, an action property).
    `SelectionInv`: an accepted attempt remains admissible while its basis does
    (`Remains`), since trials, results, exclusions and annotations only come in.
  - The tuner. `TrialsHalve` (`FrontierHalves`, an action property), for any
    finite space of candidates and any order of keys. `Ranked`, a lemma about
    strict total orders on a finite set, is why the candidate in the middle is
    there at all; half of the frontier lies to either side of it.
  - The guard. `PromiseIsKept` (`PromiseKept`). `GuardInv`: fits to the same rows
    are one fit (`OneFit`), and every result is the comparison of a guard of that
    fit calibrated on cases other than its own (`Explained`). The argument is the
    one of split conformal prediction, without probabilities (`Promise`): of the
    cases whose residual is above the quantile of the others, the least has
    `Rank(n - 1)` cases at or below it, and all of those are covered.
    `ConformalIs` is what the quantile is: an element with so many at or below it.
    NaN residuals are in the model, sorted last; for the total peak the share is
    promised only where no total of the cases is missing (`TotalsMeasured`), which
    the code does not ask for. The phase guard leaves missing peaks out, and has
    no such condition.
  - The archive. `ArchivesAreFaithful` (`ArchiveFaithful`), for any nodes and any
    number of them, whatever their links lead to. That an archive packed without links
    verifies has no condition on links, but that no selected file lies outside. That one which verifies is
    collected again as it was, with nothing smuggled in, has a condition on the
    repository, which no code enforces: that traces and named files are no links to what
    the target's own tree leaves out, and that some trace lies in the trace tree
    itself (`LinksStay`). Without it, a file found by its name
    (`artifact_manifest.py:799-808`) through a link is listed where it lies, and the
    link is not; if it lies, say, below a `cache` directory of the evidence, the
    archive verifies and yet a collection of what was extracted does not list it
    again. The other case is the run `traces_kept`. `ArchiveInv`: the repository keeps its shape (`TreeShape`,
    `NothingBelow`), the manifest is what the rules keep of it, the archive has
    what is listed and the empty directories, each link as a link or as what it
    leads to (`Packs`), and extraction changes none of it. The rules are first put without the
    order in which they are tried (`KeepsLink` and what follows it), so that they
    can be compared between the two trees: what is collected of the extracted
    tree is what was collected of the repository (`CollectsAgain`), since
    in an archive that verifies every listed path means what it did.
  - The reconstruction. `RebuildsAreBlind` (`RebuiltBlind`), for every combination
    of parts the driver accepts. `RebuildInv` says where a published fact can lie
    once results are moved aside (`MovedAside`: `PublishedAt`, `ToldAt`), what the
    children that ran could read (`NoneSaw`), that the host panel is not rebuilt
    before every replay that shares its outcome (`HostUntold`), that a spoilt
    input has a check ahead of it (`SpoiltIsKnown`), and that what is not yet
    rebuilt is still to be done (`AllRebuilt`). The last three need the order of
    the script (`WellOrdered`), proved for all scripts at once by how scripts are
    concatenated; the places hidden from each child then cover the places where
    its facts lie (`RebuildsBlind`, `ReplaysBlind`).
  They assume what the modules name of their constants: `DeviceAssumption`,
  `CorpusAssumption`, `TreeAssumption`, `SelectionAssumption`, `SearchAssumption`,
  `GuardAssumption`, `WorkerAssumption`. `TreeAssumption` says only what a node is.
- `Study_proofs`, over the run's own `MCStudy`: `ReportOfOneMoment`
  (`ReportIsSnapshot`), `LabelsTrue` (`LabelIsTruth`), `CostsAreNested`
  (`CostsNest`), `StudyLearns` (`LabelsOnlyRefine`, an action property, of every
  step in which no job is used twice and no kill tears a ledger or a trace).
  `ReportInv`: a runner's files are in the order it writes them (`Ordered`) and
  only ever become more (`Became`); what the collector holds was read of them
  (`ReadOf`), and once it has read a file the ledger vouches for, it is the one
  (`RecordRead`, `SummaryRead`, in `Progress`); since it hashes a ledger before it
  reads it, an equal hash at the end means that the ledger, and with it every
  file that counts, stood still in between (`Verified`). Assumes
  `StudyAssumption`. And `Charged` (`CostCovers`), an action property:
  `ControlInv` says that the scheduler's records are ordered in time (`Records`),
  that a manifest follows a ledger (`Ledgers`), and that what was once saved of a
  job stays true of it (`ResponseTrue`, `AccountingTrue`). Assumes
  `ControlAssumption`.

Only model-checked: `ClaimEnds`, `StallEnds` and `LauncherEnds`, liveness under
fairness, which is out of the prover's reach. Every invariant and every action
property that a passing run checks is stated by a theorem.

## 5. Not modelled

- Figures, tables and statistics (bootstrap intervals, residency and revision
  analyses): floating-point computations over finished tables, read once.
- Environment capture: queries of the host.
- The regressions behind the baselines and the guard, and the patterns by which
  logs are recognised: what they compute is a choice here.
- The planner of the decision panel, the tables of the failure taxonomy, the
  summaries and command lines of every tool: sequential and run once.
- Vendored worker code beyond what moves parameters, caches and weights; the
  trainer, vLLM, Ray, the driver and the scheduler, which are external.
- An accepted memory failure need not cover all devices; nothing is claimed of
  those it does not cover.

What is left to do: `Launcher` as the payload of `MatchedPair`, with `DeviceGate`
in its container, as one composition.

## 6. Running

`tlc -config MCPairCollector.cfg MCPairCollector.tla`, and likewise for each row of
`runs` in `PROJECT.json`; `tlapm M_proofs.tla` for the proofs. `PROJECT.json`
maps every definition to the lines it models.
