--------------------------- MODULE Reconstruction ---------------------------
(* Rebuilding the published results from the archive (reproduce.py and      *)
(* replication_reproduction.py).  The driver moves the published results    *)
(* aside, puts back the inputs of each analysis, runs the analyses as child *)
(* processes and compares what they make with what was published.  With     *)
(* isolation a child's namespace hides a list of paths; it may read every   *)
(* other file, and write every one below the work directory.  The model is  *)
(* about which published facts lie in a place a child could have read, and  *)
(* about input that changed under it; what the analyses compute is left out.*)
EXTENDS Naturals, Sequences, FiniteSets

CONSTANTS MaxStray      \* bound: places that children write and should not

Panels == {"decision", "estimation", "host", "completion", "control"}
Replications == {"completion", "control"}
Products == {"tables", "review", "curated"} \cup Panels   \* what is compared
Replays == {"estimation", "host", "completion"}   \* panels whose predictions are replayed

Reference(x) == <<"reference", x>>   \* the published files of a product
Outcome(p) == <<"outcome", p>>       \* anything that tells how a panel came out
Input(p) == <<"input", p>>           \* its frozen inputs

(* Directories and files of the extracted artifact, of the work directory, *)
(* and outside of it.                                                      *)
Bench(p) == <<"artifact/benchmark", p>>
Account(p) == <<"artifact/benchmark/allocation_accounting.json", p>>
Raw(p) == <<"artifact/output", p>>
Source(p) == <<"artifact/reproduction_sources", p>>   \* amended, or control's
Original == <<"artifact/reproduction_sources", "original">>
Made(x) == <<"work", x>>
Profiles == <<"artifact", "profiles">>
Logs == <<"artifact", "logs">>
Paper == <<"artifact", "paper">>
OldProfiles == <<"work", "reference-profiles">>
OldBenchmark == <<"work", "reference-benchmark">>
OriginalRoot == <<"outside", "ORIGINAL_ROOT">>
LiveParent == <<"outside", "LIVE_PARENT">>
CodeViews == <<"outside", "ROOT/benchmark">>
OfPanels(where(_)) == {where(p) : p \in Panels}
InWork == UNION {OfPanels(Bench), OfPanels(Account), OfPanels(Raw),
                 {Source(p) : p \in Replications}, {Original, Profiles, Logs, Paper},
                 {OldProfiles, OldBenchmark}, {Made(x) : x \in Products}}
Outside == {OriginalRoot, LiveParent, CodeViews}
Places == InWork \cup Outside

VARIABLES
  has,         \* the parts of this release
  isolated,    \* --isolate-analysis
  content,     \* which facts lie in which place
  todo,        \* what the driver still has to do, in order
  seen,        \* child -> the facts it could read
  soiled,      \* child -> the places it could read that were no longer as published
  dirty        \* the places a child has written and should not have

vars == <<has, isolated, content, todo, seen, soiled, dirty>>

(* The driver's steps, in the order of main and reconstruct_panels.        *)
Do(kind, x) == <<kind, x>>
If(condition, steps) == IF condition THEN steps ELSE << >>
Replicated(p) ==
  If(p \in has,
     <<Do("check", p)>>
     \o If(p = "completion", <<Do("replay", p), Do("check", p)>>)
     \o <<Do("rebuild", p), Do("compare", p), Do("check", p)>>
     \o If(p = "control" /\ "control_accounting" \in has,
           <<Do("cost", p), Do("check", p), Do("compare", p)>>))
Rebuilt(x) == If(x \in has, <<Do("rebuild", x), Do("compare", x)>>)
Replayed(p) == If(p \in has, <<Do("replay", p)>>)
Script ==
  <<Do("move", "profiles"), Do("restore", "inputs")>>
  \o Rebuilt("tables") \o Rebuilt("review") \o Rebuilt("curated")
  \o Replayed("estimation") \o Rebuilt("estimation")
  \o Replayed("host") \o Rebuilt("host") \o Rebuilt("decision")
  \o Replicated("completion") \o Replicated("control")

(* Combinations the driver accepts: the curated views are built from the   *)
(* review tables, every panel needs them, the host follow-up inherits the  *)
(* estimation panel's predictions, and a replication panel needs isolation.*)
Legal(parts, alone) ==
  /\ "tables" \in parts
  /\ "curated" \in parts => "review" \in parts
  /\ parts \cap Panels # {} => "curated" \in parts
  /\ "host" \in parts => "estimation" \in parts
  /\ "control_accounting" \in parts => "control" \in parts
  /\ parts \cap Replications # {} => alone

(* As extracted and verified against the archive's manifest.               *)
Published == {Reference(x) : x \in Products} \cup {Outcome(p) : p \in Panels}
Extracted(l) ==
  CASE l = Profiles -> {Reference("tables"), Reference("review"), Input("same_node")}
    [] l[1] = "artifact/benchmark" -> {Reference(l[2]), Outcome(l[2]), Input(l[2])}
    [] l[1] \in {"artifact/benchmark/allocation_accounting.json", "artifact/output"} -> {Outcome(l[2])}
    [] l \in {Logs, Paper} -> {Outcome(p) : p \in Panels}
    [] l = LiveParent -> {Reference(p) : p \in Replications} \cup {Outcome(p) : p \in Replications}
    [] l \in Outside \ {LiveParent} -> Published
    [] OTHER -> {}

Init ==
  /\ has \in SUBSET (Products \cup {"control_accounting"}) /\ isolated \in BOOLEAN
  /\ Legal(has, isolated)
  /\ content = [l \in Places |-> {f \in Extracted(l) : f[2] \in has \cup {"same_node"}}]
  /\ todo = Script
  /\ seen = << >> /\ soiled = << >> /\ dirty = {}

Step(kind, x) == todo # << >> /\ Head(todo) = Do(kind, x) /\ todo' = Tail(todo)

-----------------------------------------------------------------------------
(* The published tables and, in a release with panels, the whole benchmark *)
(* directory leave the analysis tree.                                      *)
Benchmark == OfPanels(Bench) \cup OfPanels(Account)
MoveAside ==
  /\ Step("move", "profiles")
  /\ content' = [l \in Places |->
       CASE l = OldProfiles -> content[Profiles]
         [] l = Profiles -> {}
         [] l = OldBenchmark /\ "curated" \in has ->
              {Reference("curated")} \cup UNION {content[b] : b \in Benchmark}
         [] l \in Benchmark /\ "curated" \in has -> {}
         [] OTHER -> content[l]]
  /\ UNCHANGED <<has, isolated, seen, soiled, dirty>>

(* What comes back of a panel: inputs named one by one, never its results. *)
(* The replication panels bring their inputs in their source snapshots.    *)
MutantRestored(p) == IF p \in Replications THEN {} ELSE content[OldBenchmark]
Restored(p) == IF p \in Replications THEN {} ELSE {Input(p)}
Accounted == (has \cap {"estimation", "host", "completion"})
               \cup (IF "control_accounting" \in has THEN {"control"} ELSE {})
RestoreInputs ==
  /\ Step("restore", "inputs")
  /\ content' = [l \in Places |->
       CASE l = Profiles -> {Input("same_node")}
         [] l \in {Bench(p) : p \in has} -> Restored(l[2])
         [] l \in {Account(p) : p \in Accounted} -> {Outcome(l[2])}
         [] OTHER -> content[l]]
  /\ UNCHANGED <<has, isolated, seen, soiled, dirty>>

-----------------------------------------------------------------------------
(* What is hidden from the children.                                       *)
Snapshots(p) == IF p = "completion" THEN {Source(p), Original} ELSE {Source(p)}
PanelHidden == IF has \cap Replications # {} THEN {LiveParent} ELSE {}
BaseHidden == {OldProfiles, OldBenchmark, OriginalRoot, CodeViews} \cup PanelHidden
Hidden ==
  IF has \cap Replications = {} THEN BaseHidden
  ELSE BaseHidden \cup UNION {Snapshots(p) \cup {Raw(p), Bench(p), Account(p)} : p \in Replications}

(* A replay of predictions may not see how its panel came out.             *)
MutantReplayHidden == Hidden \cup {Raw("estimation"), Raw("host"), Logs, Paper, Made("estimation")}
ReplayHidden ==
  Hidden \cup {Raw("estimation"), Raw("host"), Logs, Paper,
               Account("estimation"), Account("host"), Made("estimation")}
CompletionReplayHidden ==
  UNION {BaseHidden, OfPanels(Raw), {Logs, Paper}, {LiveParent},
         {Bench(p) : p \in Replications}, {Account(p) : p \in Replications},
         {Source("control"), Source("completion")}, {Made(p) : p \in Replications}}
Other(p) == IF p = "completion" THEN "control" ELSE "completion"
CollectorHidden(p) ==
  UNION {BaseHidden, {LiveParent}, {Raw(Other(p)), Made(Other(p))}, Snapshots(Other(p))}

HiddenFrom(kind, x) ==
  IF ~isolated THEN {}
  ELSE IF kind = "replay"
       THEN IF x = "completion" THEN CompletionReplayHidden ELSE ReplayHidden
  ELSE CASE x \in Replications -> CollectorHidden(x)
         [] x = "host" -> Hidden \cup {Made("estimation"), Raw("estimation")}
         [] OTHER -> Hidden

(* A child reads what it can and makes its product; it may also spoil some *)
(* place of the work directory it can see.  A spoilt place is no longer as *)
(* published; that a stray write also copies what was published to where a *)
(* later child may read it is left out.                                    *)
Leaked(x) == x \in {"estimation", "host"} /\ Reference(x) \in content[Bench(x)]
Product(kind, x) == IF kind = "rebuild" /\ x \in Panels THEN {Outcome(x)} ELSE {}
Noted(record, child, what) ==
  [c \in DOMAIN record \cup {child} |-> IF c = child THEN what ELSE record[c]]
Child(kind, x) ==
  LET visible == Places \ HiddenFrom(kind, x) IN
  /\ Step(kind, x) /\ ~Leaked(x)
  /\ seen' = Noted(seen, <<kind, x>>, UNION {content[l] : l \in visible})
  /\ soiled' = Noted(soiled, <<kind, x>>, dirty \cap visible)
  /\ \/ UNCHANGED dirty
     \/ /\ Cardinality(dirty) < MaxStray
        /\ \E l \in (visible \cap InWork) \ dirty : dirty' = dirty \cup {l}
  /\ content' = [content EXCEPT ![Made(x)] = @ \cup Product(kind, x)]
  /\ UNCHANGED <<has, isolated>>

(* The comparison with the published files, in the parent.                 *)
Compare(x) ==
  /\ Step("compare", x)
  /\ UNCHANGED <<has, isolated, content, seen, soiled, dirty>>

(* The inventory of a replication panel's sources, raw evidence, accounting*)
(* and published results is as it was bound before any analysis.           *)
Bound(p) == {Raw(p), OldBenchmark, Account(p)} \cup Snapshots(p)
InputsStand(p) == dirty \cap Bound(p) = {}
CheckInputs(p) ==
  /\ Step("check", p) /\ InputsStand(p)
  /\ UNCHANGED <<has, isolated, content, seen, soiled, dirty>>

Next ==
  \/ MoveAside \/ RestoreInputs
  \/ \E x \in Products : \/ Child("rebuild", x) \/ Compare(x)
  \/ \E p \in Replays : Child("replay", p)
  \/ Child("cost", "control")
  \/ \E p \in Replications : CheckInputs(p)
Spec == Init /\ [][Next]_vars

-----------------------------------------------------------------------------
Passed == todo = << >>

(* verification.json says "passed" only if, with isolation, no child could *)
(* have read the published form of what it rebuilt, in any place it was    *)
(* moved or restored to; and a replication panel was rebuilt from inputs   *)
(* that were as published when its children read them.                     *)
RebuiltIndependently ==
  Passed =>
    /\ isolated => \A x \in has \cap Products : Reference(x) \notin seen[Do("rebuild", x)]
    /\ \A c \in DOMAIN soiled : c[2] \in Replications => soiled[c] \cap Bound(c[2]) = {}

(* With isolation, no replay of frozen predictions could read how its own  *)
(* panel, or the one it shares predictions or a source tree with, came out:*)
(* not in raw records, logs, manuscript, accounting, or a rebuilt result.  *)
BlindTo == [estimation |-> {"estimation", "host"}, host |-> {"estimation", "host"},
            completion |-> Replications]
PredictionsBlind ==
  \A p \in Replays : isolated /\ Do("replay", p) \in DOMAIN seen =>
    {Outcome(q) : q \in BlindTo[p]} \cap seen[Do("replay", p)] = {}

(* What is rebuilt or replayed did not see what it is compared with.       *)
RebuiltBlind == RebuiltIndependently /\ PredictionsBlind
=============================================================================
