----------------------------- MODULE MCBothEnds -----------------------------
(* The two ends of the pipeline and the choices between.  Where evidence   *)
(* is made: two ranks' residency over two updates of two mini-batches, and *)
(* the device gate with two GPUs of three, not neighbours and in another   *)
(* order than the driver's.  Where it is given away: the corpus release    *)
(* over two trials, one of them locked, the archive of up to MaxNodes      *)
(* files, links and empty directories of every class, and the              *)
(* reconstruction from the archive.  Between: which attempt at an          *)
(* experiment counts, which configuration the tuner probes next, and which *)
(* one a guard calibrated on other cases holds safe.  They share no state, *)
(* so each is explored by itself: `part` says which; the residency stays   *)
(* in a first state then, and the variables of the others are Off.         *)
EXTENDS WorkerResidency, SequencesExt

CONSTANTS d1, d2, d3, Allocation, Expected, Nvml, Masks, Nowhere,
          Trials, Locked, MaxEdits, MaxBuilds, MaxReleases, NoTable, MaxStray,
          Nodes, MaxNodes, Elsewhere, Nothing, Refused,
          g, s, Trained, Served, Jobs,
          ActorBatches, RolloutBatches, RefBatches, Utilizations, Offloads,
          GlobalBatch, WorldSize, Key,
          ka, kb, p1, p2, Cases, Configurations, Phases, Total, None, Limit, Hits, Of,
          Corpora, Models, MinCalibration, MinFit, MinConfigurations, Off

VARIABLES
  part,
  at, mode, left, calm, lost, contexts, orphans,
  worker, evidence, records, updates, exit, oom,
  kind, excluded, annotated, edits, builds, releases, builder, table, tool, manifest,
  has, isolated, content, todo, seen, soiled, dirty,
  repository, listing, archive, extracted,
  trial, result, barred, noted, accepted,
  observations,
  corpus, model, results

(* Two of three GPUs, not neighbours and in another order than the driver's.*)
MCExpected == <<d1, d3>>
MCNvml == <<d3, d1, d2>>
MCMasks == {<<d1>>, <<d2>>, <<d1, d3>>, <<d3>>}

(* A repository: in every kind of tree something that is taken and         *)
(* something that is not, links to either and out of it, empty directories.*)
Is(p) == <<p, [kind |-> "file", data |-> p]>>
To(p, q) == <<p, [kind |-> "link", to |-> q]>>
EmptyAt(p) == <<p, [kind |-> "directory"]>>
MCNodes ==
  {Is(p) : p \in {<<"trial", "record">>, <<"trial", "global_step", "weights">>,
                  <<"evidence", "record">>, <<"evidence", "cache", "record">>,
                  <<"evidence", "weights">>, <<"retained", "ray-logs", "ray", "log">>,
                  <<"retained", "ray", "log">>, <<"source", "cache", "code">>,
                  <<"source", "weights">>, <<"source", "tool", "code">>,
                  <<"trace", "rank", "events">>, <<"named", "figure">>}}
  \cup {To(<<"trial", "latest">>, q) : q \in {<<"trial", "record">>,
           <<"trial", "global_step", "weights">>, Elsewhere}}
  \cup {To(<<"evidence", "alias">>, q) : q \in {<<"evidence", "record">>,
           <<"evidence", "cache", "record">>, <<"evidence", "weights">>,
           <<"evidence", "cache">>, <<"trial", "record">>, Elsewhere}}
  \cup {To(<<"retained", "alias">>, q) : q \in {<<"retained", "ray", "log">>,
           <<"retained", "ray-logs", "ray", "log">>}}
  \cup {To(<<"source", "alias">>, <<"source", "cache", "code">>),
        To(<<"trace", "linked">>, <<"evidence", "cache">>)}
  \cup {To(<<"named", "alias">>, q) : q \in {<<"named", "figure">>, <<"evidence", "record">>,
           <<"evidence", "cache", "record">>, Elsewhere}}
  \cup {To(<<"trace", "alias">>, q) : q \in {<<"trace", "rank", "events">>, <<"evidence", "record">>,
           <<"evidence", "cache", "record">>}}
  \cup {EmptyAt(p) : p \in {<<"retained", "attempt">>, <<"retained", "ray">>,
                             <<"trace">>, <<"trace", "rank">>}}

(* Candidates' keys, as the bounds are single digits: knob after knob.     *)
Digit(on) == IF on THEN 1 ELSE 0
MCSpace == [actor : ActorBatches, rollout : RolloutBatches, ref : RefBatches,
            utilization : Utilizations, dynamic : BOOLEAN, offload : Offloads, optimizer : Offloads]
MCKey == [c \in MCSpace |->
  FoldSeq(LAMBDA knob, n : 10 * n + knob, 0,
          <<c.actor, c.rollout, c.ref, c.utilization % 10,
            Digit(c.dynamic), Digit(c.offload), Digit(c.optimizer)>>)]

(* Trials: what succeeded, and the peak of either phase.                   *)
Ran(x, y) == [success |-> TRUE, phase |-> (p1 :> x @@ p2 :> y),
              peak |-> IF x = None \/ (y # None /\ y > x) THEN y ELSE x]
Failed(x, y) == [Ran(x, y) EXCEPT !.success = FALSE]
NoTotal(x, y) == [Ran(x, y) EXCEPT !.peak = None]
(* Cases that calibrate for one another, and cases to fit to.              *)
Varied == {(ka :> {Ran(2, 1)} @@ kb :> {Ran(None, 2)}),
           (ka :> {Ran(2, 1), Ran(3, 0)} @@ kb :> {Ran(0, 4)}),
           (ka :> {Ran(4, None)} @@ kb :> {Failed(1, 4)}),
           (ka :> {NoTotal(2, 1)} @@ kb :> {Ran(3, 0)})}
Plain == (ka :> {Ran(2, 1)} @@ kb :> {Ran(1, 2)})
MCCorpora == {[c \in Cases |-> IF c \in 1..3 THEN f[c] ELSE Plain] : f \in [1..3 -> Varied]}
  \cup {[c \in Cases |-> IF c = 4 THEN (ka :> {Ran(2, 1)} @@ kb :> {NoTotal(2, 1)}) ELSE Plain]}
Predicts(x, y, z) == (p1 :> x @@ p2 :> y @@ Total :> z)
MCModels == {[c \in Cases |-> (ka :> Predicts(2, 1, 2) @@ kb :> Predicts(1, 2, 2))],
             [c \in Cases |-> (ka :> Predicts(1, 1, 1) @@ kb :> Predicts(1, 2, 1))]}

-----------------------------------------------------------------------------
Gate == INSTANCE DeviceGate
Corpus == INSTANCE CorpusRelease
Archive == INSTANCE ArchiveTree WITH Outside <- Elsewhere, manifest <- listing
Rebuild == INSTANCE Reconstruction
Selection == INSTANCE TrialSelection WITH MaxEdits <- 1, excluded <- barred, annotated <- noted
Tuner == INSTANCE TunerSearch
Guard == INSTANCE GuardCalibration
ASSUME EndsAssumed == Gate!DeviceAssumption /\ Corpus!CorpusAssumption /\ Archive!TreeAssumption
ASSUME ChoicesAssumed == Selection!SelectionAssumption /\ Tuner!SearchAssumption /\ Guard!GuardAssumption

gateVars == <<at, mode, left, calm, lost, contexts, orphans,
              worker, evidence, records, updates, exit, oom>>
corpusVars == <<kind, excluded, annotated, edits, builds, releases,
                builder, table, tool, manifest>>
rebuildVars == <<has, isolated, content, todo, seen, soiled, dirty>>
archiveVars == <<repository, listing, archive, extracted>>
selectionVars == <<trial, result, barred, noted, accepted>>
guardVars == <<corpus, model, results>>
endVars == <<vars, gateVars, corpusVars, archiveVars, rebuildVars>>
choiceVars == <<selectionVars, observations, guardVars>>

ResidencyIdle ==
  Init /\ config = [offload |-> TRUE, freeCache |-> TRUE, dummy |-> TRUE, lora |-> "none"]
GateOff ==
  /\ at = Off /\ mode = Off /\ left = Off /\ calm = Off /\ lost = Off
  /\ contexts = Off /\ orphans = Off /\ worker = Off /\ evidence = Off
  /\ records = Off /\ updates = Off /\ exit = Off /\ oom = Off
CorpusOff ==
  /\ kind = Off /\ excluded = Off /\ annotated = Off /\ edits = Off /\ builds = Off
  /\ releases = Off /\ builder = Off /\ table = Off /\ tool = Off /\ manifest = Off
RebuildOff ==
  /\ has = Off /\ isolated = Off /\ content = Off /\ todo = Off
  /\ seen = Off /\ soiled = Off /\ dirty = Off

ArchiveOff == repository = Off /\ listing = Off /\ archive = Off /\ extracted = Off
EndsOff == ResidencyIdle /\ GateOff /\ CorpusOff /\ ArchiveOff /\ RebuildOff
SelectionOff == trial = Off /\ result = Off /\ barred = Off /\ noted = Off /\ accepted = Off
TunerOff == observations = Off
GuardOff == corpus = Off /\ model = Off /\ results = Off
ChoicesOff == SelectionOff /\ TunerOff /\ GuardOff

MCInit ==
  \/ part = "residency" /\ Init /\ GateOff /\ CorpusOff /\ ArchiveOff /\ RebuildOff /\ ChoicesOff
  \/ part = "gate" /\ ResidencyIdle /\ Gate!Init /\ CorpusOff /\ ArchiveOff /\ RebuildOff /\ ChoicesOff
  \/ part = "corpus" /\ ResidencyIdle /\ GateOff /\ Corpus!Init /\ ArchiveOff /\ RebuildOff /\ ChoicesOff
  \/ part = "archive" /\ ResidencyIdle /\ GateOff /\ CorpusOff /\ Archive!Init /\ RebuildOff /\ ChoicesOff
  \/ part = "rebuild" /\ ResidencyIdle /\ GateOff /\ CorpusOff /\ ArchiveOff /\ Rebuild!Init /\ ChoicesOff
  \/ part = "selection" /\ EndsOff /\ Selection!Init /\ TunerOff /\ GuardOff
  \/ part = "tuner" /\ EndsOff /\ Tuner!Init /\ SelectionOff /\ GuardOff
  \/ part = "guard" /\ EndsOff /\ Guard!Init /\ SelectionOff /\ TunerOff
MCNext ==
  /\ UNCHANGED part
  /\ \/ part = "residency" /\ Next /\ UNCHANGED <<gateVars, corpusVars, archiveVars, rebuildVars, choiceVars>>
     \/ part = "gate" /\ Gate!Next /\ UNCHANGED <<vars, corpusVars, archiveVars, rebuildVars, choiceVars>>
     \/ part = "corpus" /\ Corpus!Next /\ UNCHANGED <<vars, gateVars, archiveVars, rebuildVars, choiceVars>>
     \/ part = "archive" /\ Archive!Next /\ UNCHANGED <<vars, gateVars, corpusVars, rebuildVars, choiceVars>>
     \/ part = "rebuild" /\ Rebuild!Next /\ UNCHANGED <<vars, gateVars, corpusVars, archiveVars, choiceVars>>
     \/ part = "selection" /\ Selection!Next /\ UNCHANGED <<endVars, observations, guardVars>>
     \/ part = "tuner" /\ Tuner!Next /\ UNCHANGED <<endVars, selectionVars, guardVars>>
     \/ part = "guard" /\ Guard!Next /\ UNCHANGED <<endVars, selectionVars, observations>>
MCSpec == MCInit /\ [][MCNext]_<<part, endVars, choiceVars>>

(* DeviceGate: children and trainer start on devices nothing is left on.   *)
StartsAlone == [][part = "gate" => Gate!StartsOnFreeDevices]_gateVars
(* DeviceGate: what is accepted ran on the devices its records name, and a *)
(* sound run leaves every file that acceptance asks for.                   *)
AcceptanceTrue == part = "gate" => Gate!AcceptanceTrue
(* CorpusRelease: a verified release covers every trial and keeps the lock.*)
ReleaseWhole == part = "corpus" => Corpus!ReleaseWhole
(* ArchiveTree: an archive that verifies yields its own manifest again,    *)
(* and has no payload and nothing from outside, under whatever name, where *)
(* no trace or named file is a link to what its tree leaves out.           *)
ArchiveFaithful == part = "archive" => Archive!ArchiveFaithful
(* ArchiveTree: a directory of traces that rows name is in the archive, as *)
(* publication_empty_directories says (artifact_manifest.py:229-237).      *)
TracesKept == part = "archive" => Archive!TracesKept
(* Reconstruction: what is compared was made without the published form,   *)
(* and replays of predictions are blind to their outcomes.                 *)
RebuiltBlind == part = "rebuild" => Rebuild!RebuiltBlind
(* TrialSelection: a further attempt never replaces an accepted outcome.   *)
RetriesNeverRevise == [][part = "selection" => Selection!Stands]_accepted
(* TunerSearch: every informative trial halves the frontier.               *)
FrontierHalves == [][part = "tuner" => Tuner!Halves]_observations
(* GuardCalibration: held-out coverage is what conformal ranks promise.    *)
PromiseKept == part = "guard" => Guard!PromiseKept
=============================================================================
