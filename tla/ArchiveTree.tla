----------------------------- MODULE ArchiveTree -----------------------------
(* Which files of a repository are given away, and that the archive can be *)
(* held against itself.  artifact_manifest.py walks the evidence trees,    *)
(* each with its own rule for runtime directories, model payloads and      *)
(* links, and lists the files it finds with their hashes; an archiver that *)
(* is not in the repository packs them, and the empty directories it is    *)
(* told of; reproduce.py extracts the archive and verifies it, and         *)
(* whoever has it may collect the manifest again.  One tree stands for all *)
(* of a rule.  A path is its tree, its directories and its name; a name    *)
(* stands for a class of names, and the content of a file is unlike that   *)
(* of any other.                                                           *)
EXTENDS Naturals, Sequences, SequencesExt

CONSTANTS
  Nodes,       \* what a repository may hold: pairs of a path and a node
  MaxNodes,    \* bound: how many of them it holds
  Outside,     \* a file that is not in the repository
  Nothing, Refused

File(data) == [kind |-> "file", data |-> data]
Link(to) == [kind |-> "link", to |-> to]       \* to a path, or Outside
EmptyDirectory == [kind |-> "directory"]

Tree(p) == p[1]
Directories(p) == SubSeq(p, 2, Len(p) - 1)
Payload(p) == Last(p) = "weights"
Runtime == {"cache", "ray", "global_step"}     \* not "ray-logs"
Trace == <<"trace">>      \* the allocator directory a corpus row names

VARIABLES
  repository,  \* path -> node
  manifest,    \* the rows: a path and what its content was
  archive,     \* path -> node
  extracted    \* path -> node

vars == <<repository, manifest, archive, extracted>>

Function(pairs) == [p \in {n[1] : n \in pairs} |-> (CHOOSE n \in pairs : n[1] = p)[2]]
Below(p, q) == Len(p) > Len(q) /\ IsPrefix(q, p)
Consistent(pairs) == \A m, n \in pairs : m # n => m[1] # n[1] /\ ~Below(m[1], n[1])

Init ==
  /\ \E held \in [1..MaxNodes -> Nodes] :
       LET pairs == ToSet(held) IN Consistent(pairs) /\ repository = Function(pairs)
  /\ manifest = Nothing /\ archive = Nothing /\ extracted = Nothing

-----------------------------------------------------------------------------
(* A directory is there if it is empty or something is below it.  Links    *)
(* lead to no other links here.                                            *)
Resolve(fs, p) == IF p \in DOMAIN fs /\ fs[p].kind = "link" THEN fs[p].to ELSE p
Content(fs, p) ==
  LET r == Resolve(fs, p)
  IN IF r = Outside THEN Outside
     ELSE IF r \in DOMAIN fs /\ fs[r].kind = "file" THEN fs[r].data ELSE Nothing
IsFile(fs, p) == Content(fs, p) # Nothing
IsDirectory(fs, d) == \E p \in DOMAIN fs : Below(p, d) \/ (p = d /\ fs[p] = EmptyDirectory)
In(fs, tree) == {p \in DOMAIN fs : Tree(p) = tree}

-----------------------------------------------------------------------------
(* What is listed.                                                         *)

(* add_trial_tree: everything but what is in a checkpoint.                 *)
Checkpoint(p) == "global_step" \in ToSet(Directories(p))
TrialFiles(fs) == {p \in In(fs, "trial") : IsFile(fs, p) /\ ~Checkpoint(p)}

(* add_estimation_tree: nothing in a runtime directory, but the logs of    *)
(* workers below a directory made to keep them; no payload; and no link to *)
(* what would not have been taken, or out of the tree.                     *)
Excluded(dirs, retain) ==
  \E i \in DOMAIN dirs :
    dirs[i] \in Runtime /\ ~(retain /\ dirs[i] = "ray" /\ i > 1 /\ dirs[i - 1] = "ray-logs")
Retaining == {"retained"}     \* the replication trees; not "evidence"
Taken(p) == ~Excluded(Directories(p), Tree(p) \in Retaining) /\ ~Payload(p)
(* A mutant looks at links, and not at what they lead to.                  *)
MutantEvidenceFiles(fs, tree) == {p \in In(fs, tree) : IsFile(fs, p) /\ Taken(p)}
EvidenceFiles(fs, tree) ==
  {p \in In(fs, tree) :
     /\ IsFile(fs, p) /\ Taken(p)
     /\ LET target == Resolve(fs, p)
        IN target # Outside /\ Tree(target) = tree /\ Taken(target)}

(* add_reproduction_source_tree: everything but the leavings of tools, and *)
(* a directory may be called as a cache is; a link or a payload is refused.*)
SourceFiles(fs) == {p \in In(fs, "source") : "tool" \notin ToSet(Directories(p)) /\ fs[p] # EmptyDirectory}
SourceRefused(fs) == \E p \in SourceFiles(fs) : fs[p].kind = "link" \/ Payload(p)

(* collect_files: a directory of allocator traces that a corpus row names, *)
(* and files found by their names.  What other rows name is left out.      *)
TraceFiles(fs) == {Resolve(fs, p) : p \in {q \in In(fs, "trace") : IsFile(fs, q)}}
NamedFiles(fs) == {Resolve(fs, p) : p \in {q \in In(fs, "named") : IsFile(fs, q)}}
Collected(fs) ==
  TrialFiles(fs) \cup EvidenceFiles(fs, "evidence") \cup EvidenceFiles(fs, "retained")
    \cup SourceFiles(fs) \cup TraceFiles(fs) \cup NamedFiles(fs)
Rows(fs) ==
  IF SourceRefused(fs) \/ ~IsDirectory(fs, Trace) THEN Refused
  ELSE {<<p, Content(fs, p)>> : p \in Collected(fs)}

(* What the rule of its own tree takes.  Traces, and what is found by its  *)
(* name, are followed wherever links lead (290-293, 799-807), and no check *)
(* keeps such a link from leading to a file that the rule of its own tree  *)
(* leaves out, or a directory of traces from holding nothing but links out *)
(* of it.                                                                  *)
Selected(p) ==
  \/ Tree(p) = "trial" /\ ~Checkpoint(p)
  \/ Tree(p) \in {"evidence", "retained"} /\ Taken(p)
  \/ Tree(p) = "source" /\ "tool" \notin ToSet(Directories(p))
  \/ Tree(p) \in {"trace", "named"}

LinksStay(fs) ==
  /\ \A p \in In(fs, "trace") \cup In(fs, "named") :
       IsFile(fs, p) => Resolve(fs, p) = Outside \/ Selected(Resolve(fs, p))
  /\ \E p \in In(fs, "trace") : Resolve(fs, p) # Outside /\ Tree(Resolve(fs, p)) = "trace"

(* A file is told by its content.                                          *)
TreeAssumption ==
  /\ Outside # Nothing
  /\ \A n \in Nodes :
       /\ n[1] \in Seq(STRING) \ {<< >>} /\ n[1] \notin {Outside, Nothing}
       /\ n[2] \in {File(n[1]), EmptyDirectory} \/ n[2] = Link(n[2].to)

(* replication_empty_directories and publication_empty_directories: those  *)
(* of the replication trees, outside of runtime directories, and below a   *)
(* recorded directory of traces, which may hold no linked directory.       *)
Empty(fs, tree) == {p \in In(fs, tree) : fs[p] = EmptyDirectory}
RetainedEmpty(fs) == {p \in Empty(fs, "retained") : ToSet(Tail(p)) \cap Runtime = {}}
MutantEmptyDirectories(fs) == RetainedEmpty(fs)
EmptyDirectories(fs) == RetainedEmpty(fs) \cup Empty(fs, "trace")
LinkedDirectory(fs) == \E p \in In(fs, "trace") : fs[p].kind = "link" /\ ~IsFile(fs, p)

-----------------------------------------------------------------------------
(* main: a manifest is written only if nothing is missing.                 *)
Collect ==
  /\ manifest = Nothing /\ manifest' = Rows(repository)
  /\ UNCHANGED <<repository, archive, extracted>>

(* The archiver packs what is listed, a link as a link or as what it leads *)
(* to, and the empty directories.                                          *)
Listed == {row[1] : row \in manifest} \ {Outside}
Pack ==
  /\ manifest \notin {Nothing, Refused} /\ archive = Nothing
  /\ LET links == {p \in Listed : repository[p].kind = "link"}
         empty == EmptyDirectories(repository)
     IN \E kept \in SUBSET links :
          archive' = IF LinkedDirectory(repository) THEN Refused
                     ELSE [p \in Listed \cup empty |->
                             IF p \in kept \cup empty THEN repository[p]
                             ELSE File(Content(repository, p))]
  /\ UNCHANGED <<repository, manifest, extracted>>

(* reproduce.py: a link that leads out of the destination is refused.      *)
Confined(node) == node.kind = "link" => node.to # Outside
Extract ==
  /\ archive \notin {Nothing, Refused} /\ extracted = Nothing
  /\ extracted' = IF \A p \in DOMAIN archive : Confined(archive[p]) THEN archive ELSE Refused
  /\ UNCHANGED <<repository, manifest, archive>>
Next == Collect \/ Pack \/ Extract
Spec == Init /\ [][Next]_vars

(* verify_manifest, in the extracted artifact.                             *)
Verified(fs) == manifest # {} /\ \A row \in manifest : row[1] # Outside /\ Content(fs, row[1]) = row[2]

-----------------------------------------------------------------------------
Arrived == extracted \notin {Nothing, Refused}

(* An extracted archive that verifies yields the manifest it came with     *)
(* when that is collected again: nothing the selection looks at, be it an  *)
(* empty directory or the target of a link, is lost with what it leaves    *)
(* out.  Not so where traces or named files are links that do not stay     *)
(* (LinksStay): what they led to is listed without them.  And one packed   *)
(* without links verifies, unless a file was found by its name that lies   *)
(* elsewhere.                                                              *)
ArchiveRebuilds ==
  Arrived =>
    /\ LinksStay(repository) /\ Verified(extracted) => Rows(extracted) = manifest
    /\ (/\ manifest # {} /\ \A row \in manifest : row[1] # Outside
        /\ \A p \in DOMAIN extracted : extracted[p].kind # "link")
       => Verified(extracted)

(* Under no name of an evidence tree does an archive hold the content of   *)
(* an evidence tree's payload or runtime directory, or of a file outside;  *)
(* unless a trace or a named file is a link to it, and so lists it under   *)
(* its own.                                                                *)
Forbidden == {p \in DOMAIN repository :
                /\ Tree(p) \in {"evidence", "retained"} /\ ~Taken(p)} \cup {Outside}
NothingSmuggled ==
  Arrived /\ LinksStay(repository) => \A p \in DOMAIN extracted :
    Tree(p) \in {"evidence", "retained"} => Content(extracted, p) \notin Forbidden

(* An archive is what was selected: all that its own verification needs,   *)
(* and nothing under another name.                                         *)
ArchiveFaithful == ArchiveRebuilds /\ NothingSmuggled

(* What publication_empty_directories says of the directories of traces    *)
(* that rows name: they are in the archive, as the manifest is rebuilt     *)
(* with them.                                                              *)
TracesKept == Arrived => IsDirectory(extracted, Trace)
=============================================================================
