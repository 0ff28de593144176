--------------------------- MODULE ProcessCleanup ---------------------------
(***************************************************************************)
(* A payload's processes and the rounds of cleanup_children, in            *)
(* memory_tuner/run_matched_gpu.py: discover, TERM, grace, discover again, *)
(* KILL, and a verdict over the processes that were discovered.            *)
(*                                                                         *)
(* The runner is a subreaper (prctl at line 776), so every process that    *)
(* descends from it stays its descendant whatever becomes of its parent,   *)
(* and a scan finds all that live.  A process is its PID with its creation *)
(* time, as `known` has it.  Zombies are dead: living_owned leaves them    *)
(* out, and the waitpid loop only buries them.  Time is abstract: the      *)
(* grace may run out whenever it is looked at.                             *)
(***************************************************************************)
EXTENDS FiniteSets

CONSTANTS
  Procs,   (* Every process the payload may ever start.                    *)
  Leader,  (* The payload itself, the leader of the new session.           *)
  Smi      (* The nvidia-smi the sampler thread is waiting for.            *)

ASSUME ProcessAssumption == Leader \in Procs /\ Smi \notin Procs

VARIABLES
  (* The machine. *)
  alive,     (* The processes that run.                                    *)
  born,      (* The payload's processes that were ever started.            *)
  group,     (* The members of the payload's process group.                *)
  doomed,    (* The processes SIGKILL was sent to.                         *)
  (* The frames of run_payload and cleanup_children. *)
  pc,        (* The next step.                                             *)
  known,     (* `known`.                                                   *)
  todo,      (* What the loop over living_owned(known) has left.           *)
  complete,  (* cleanup["complete"].                                       *)
  (* The sampler thread. *)
  sampler,   (* Its next step.                                             *)
  seen,      (* The payload's processes in its last sample.                *)
  current,   (* `current_children`.                                        *)
  foreign,   (* contamination_detected.                                    *)
  joined,    (* `sampler_stopped`.                                         *)
  (* Observation only. *)
  late,      (* The processes born after the last scan of the clean-up.    *)
  hurt       (* The sampler's query was signalled by the clean-up.         *)

machine == <<alive, born, group, doomed>>
thread == <<sampler, seen, current, foreign>>
frame == <<pc, known, todo, complete, joined>>
vars == <<machine, frame, thread, late, hurt>>

Init ==
  /\ alive = {Leader}
  /\ born = {Leader}
  /\ group = {Leader}
  /\ doomed = {}
  /\ pc = "poll"
  /\ known = {}
  /\ todo = {}
  /\ complete = FALSE
  /\ joined = TRUE
  /\ sampler = "idle"
  /\ seen = {}
  /\ current = {}
  /\ foreign = FALSE
  /\ late = {}
  /\ hurt = FALSE

-----------------------------------------------------------------------------
(* The payload. *)

(* No scan comes after these steps begin. *)
AfterScan == {"kill", "wait", "done", "raised"}

(* A child is born in its parent's group, or leads a session of its own    *)
(* before it does anything else.  What SIGKILL was sent to forks no more.  *)
Fork(p, q) ==
  /\ p \in alive \ doomed
  /\ q \notin born
  /\ alive' = alive \cup {q}
  /\ born' = born \cup {q}
  /\ late' = IF pc \in AfterScan THEN late \cup {q} ELSE late
  /\ group' \in {group, IF p \in group THEN group \cup {q} ELSE group}
  /\ UNCHANGED <<doomed, frame, thread, hurt>>

(* setsid: not for the leader, which leads the session already.            *)
Escape(p) ==
  /\ p \in alive \ doomed
  /\ p \in group \ {Leader}
  /\ group' = group \ {p}
  /\ UNCHANGED <<alive, born, doomed, frame, thread,
                 late, hurt>>

(* A process exits, or dies of a signal, in its own time: one that ignores *)
(* SIGTERM or is deep in a driver may outlive everything the runner does.  *)
Exit(p) ==
  /\ p \in alive
  /\ alive' = alive \ {p}
  /\ UNCHANGED <<born, group, doomed, frame, thread,
                 late, hurt>>

Payload ==
  \/ \E p, q \in Procs : Fork(p, q)
  \/ \E p \in Procs : Escape(p)
  \/ \E p \in Procs : Exit(p)

-----------------------------------------------------------------------------
(* The sampler thread, until the poll loop is left. *)

QueryStarts ==
  /\ pc = "poll"
  /\ sampler = "idle"
  /\ sampler' = "query"
  /\ alive' = alive \cup {Smi}
  /\ UNCHANGED <<born, group, doomed, frame, seen, current, foreign, late, hurt>>

(* The query shows the payload's processes of that moment.  The next one   *)
(* is another process, which nobody knows yet.                             *)
QueryEnds ==
  /\ sampler = "query"
  /\ sampler' = "sampled"
  /\ alive' = alive \ {Smi}
  /\ known' = known \ {Smi}
  /\ todo' = todo \ {Smi}
  /\ doomed' = doomed \ {Smi}
  /\ seen' = alive \ {Smi}
  /\ UNCHANGED <<born, group, pc, complete, joined, current, foreign, late,
                 hurt>>

LookForChildren ==
  /\ sampler = "sampled"
  /\ sampler' = "looked"
  /\ current' = alive
  /\ UNCHANGED <<machine, frame, seen, foreign, late, hurt>>

(* foreign: in the sample, no child now or before, and still there.        *)
(* Mutant: only the runner's own scans count.                              *)
MutantJudge ==
  /\ sampler = "looked"
  /\ sampler' = "idle"
  /\ foreign' = (foreign \/ (seen \ known) \cap alive # {})
  /\ seen' = {}
  /\ current' = {}
  /\ UNCHANGED <<machine, frame, late, hurt>>

Judge ==
  /\ sampler = "looked"
  /\ sampler' = "idle"
  /\ foreign' = (foreign \/ (seen \ (current \cup known)) \cap alive # {})
  /\ seen' = {}
  /\ current' = {}
  /\ UNCHANGED <<machine, frame, late, hurt>>

Sampler == QueryStarts \/ QueryEnds \/ LookForChildren \/ Judge

-----------------------------------------------------------------------------
(* The runner. *)

Living(ps) == ps \cap alive

Goto(from, to) == pc = from /\ pc' = to

Scan == known' = known \cup alive

(* The poll loop looks for new children ten times a second.                *)
Poll ==
  /\ Goto("poll", "poll")
  /\ Scan
  /\ UNCHANGED <<machine, todo, complete, joined, thread, late, hurt>>

(* The payload exited or was given up: stop_sampling is set, and the       *)
(* sampler thread is joined.  The rounds go on without it if that fails.   *)
PollEnds ==
  /\ Goto("poll", "join")
  /\ UNCHANGED <<machine, known, todo, complete, joined, thread, late, hurt>>

(* Mutant: a join that returns is taken for one that succeeded. *)
MutantJoinSampler ==
  /\ Goto("join", "discover")
  /\ joined' = TRUE
  /\ UNCHANGED <<machine, known, todo, complete, thread, late, hurt>>

JoinSampler ==
  /\ Goto("join", "discover")
  /\ joined' = (sampler = "idle")
  /\ UNCHANGED <<machine, known, todo, complete, thread, late, hurt>>

(* Discover, and list who is to be terminated.                             *)
Discover ==
  /\ Goto("discover", "term")
  /\ Scan
  /\ todo' = Living(known')
  /\ UNCHANGED <<machine, complete, joined, thread, late, hurt>>

TermOne(p) ==
  /\ pc = "term"
  /\ p \in todo
  /\ todo' = todo \ {p}
  /\ hurt' = (hurt \/ p = Smi)
  /\ UNCHANGED <<machine, pc, known, complete, joined, thread, late>>

(* killpg(SIGTERM) changes nothing here: a process exits when it likes.    *)
TermGroup ==
  /\ Goto("term", "grace")
  /\ todo = {}
  /\ UNCHANGED <<machine, known, todo, complete, joined, thread, late, hurt>>

GraceAgain ==
  /\ Goto("grace", "grace")
  /\ Living(known) # {}
  /\ Scan
  /\ UNCHANGED <<machine, todo, complete, joined, thread, late, hurt>>

(* The grace is over, or nobody known is alive: discover again, and list   *)
(* who is to be killed.  Mutant: no second discovery.                      *)
MutantGraceEnds ==
  /\ Goto("grace", "kill")
  /\ todo' = Living(known)
  /\ UNCHANGED <<machine, known, complete, joined, thread, late, hurt>>

GraceEnds ==
  /\ Goto("grace", "kill")
  /\ Scan
  /\ todo' = Living(known')
  /\ UNCHANGED <<machine, complete, joined, thread, late, hurt>>

KillOne(p) ==
  /\ pc = "kill"
  /\ p \in todo
  /\ todo' = todo \ {p}
  /\ doomed' = doomed \cup Living({p})
  /\ hurt' = (hurt \/ p = Smi)
  /\ UNCHANGED <<alive, born, group, pc, known, complete, joined, thread, late>>

(* killpg(SIGKILL) reaches every member of the group, found or not.        *)
KillGroup ==
  /\ Goto("kill", "wait")
  /\ todo = {}
  /\ doomed' = doomed \cup Living(group)
  /\ UNCHANGED <<alive, born, group, known, todo, complete, joined, thread,
                 late, hurt>>

(* Both waits are over, whoever is dead.                                   *)
Verdict ==
  /\ Goto("wait", "done")
  /\ complete' = (joined /\ Living(known) = {})
  /\ UNCHANGED <<machine, known, todo, joined, thread, late, hurt>>

(* SIGTERM or SIGINT to the runner: nothing is reported.                   *)
Interrupted ==
  /\ pc \in {"join", "discover", "term", "grace", "kill", "wait"}
  /\ pc' = "raised"
  /\ UNCHANGED <<machine, known, todo, complete, joined, thread, late, hurt>>

Runner ==
  \/ Poll \/ PollEnds \/ JoinSampler
  \/ Discover \/ (\E p \in todo : TermOne(p)) \/ TermGroup
  \/ GraceAgain \/ GraceEnds \/ (\E p \in todo : KillOne(p)) \/ KillGroup
  \/ Verdict

Next == Payload \/ Sampler \/ Runner \/ Interrupted

Spec == Init /\ [][Next]_vars

-----------------------------------------------------------------------------
(* Properties. *)

Steps == {"poll", "join", "discover", "term", "grace", "kill", "wait", "done",
          "raised"}

TypeOK ==
  /\ alive \subseteq born \cup {Smi}
  /\ born \subseteq Procs
  /\ group \subseteq born
  /\ doomed \subseteq born \cup {Smi}
  /\ pc \in Steps
  /\ known \subseteq born \cup {Smi}
  /\ todo \subseteq known
  /\ complete \in BOOLEAN
  /\ joined \in BOOLEAN
  /\ sampler \in {"idle", "query", "sampled", "looked"}
  /\ seen \subseteq born
  /\ current \subseteq born \cup {Smi}
  /\ foreign \in BOOLEAN
  /\ late \subseteq born
  /\ hurt \in BOOLEAN

(* Who a complete clean-up may leave behind: a process born after the last *)
(* scan, which is under a SIGKILL of its group or out of its group by now. *)
(* Whoever was born before, in whatever session, is dead.                  *)
OnlyLateSurvivors ==
  complete => \A p \in alive : p \in late /\ (p \in doomed \/ p \notin group)

(* The rounds signal every child of the runner, and the sampler's queries  *)
(* are children too: none is signalled unless the join timed out, and then *)
(* the clean-up is not complete (run_matched_gpu.py:475).                  *)
QueriesUnharmed == hurt => ~joined

(* However the payload forks, escapes its session and exits beside a       *)
(* sample, its own processes are never taken for another tenant's.         *)
OwnNeverForeign == ~foreign

=============================================================================
