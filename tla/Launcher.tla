------------------------------ MODULE Launcher ------------------------------
(***************************************************************************)
(* A payload from the inside: run_grpo_instrumented.slurm and the monitor  *)
(* it starts, memory_tuner/gpu_monitor.py.  The launcher shell, the fatal  *)
(* engine watchdog, the GPU monitor and the container with the trainer run *)
(* side by side, and the runner's clean-up may send each of them SIGTERM.  *)
(*                                                                         *)
(* bash runs its EXIT trap when SIGTERM ends it, and a background function *)
(* does not inherit the trap.  SIGKILL, which runs no code here, is left   *)
(* to ProcessCleanup.  Time is abstract: the grace may end at any moment.  *)
(* The `sleep` a killed watchdog leaves behind for a moment is left out.   *)
(***************************************************************************)
VARIABLES
  paired,   (* RLVRAM_GPU_UUIDS is set: a period of a matched pair.         *)
  durable,  (* RLVRAM_DURABLE_METRICS_DIR is set.                           *)
  (* The shell. *)
  sh,       (* Its next step.                                               *)
  trap,     (* `trap cleanup EXIT` is in force.                             *)
  armed,    (* It has been.                                                 *)
  (* Its children. *)
  monitor,  (* The GPU monitor: see Monitors.                               *)
  stop,     (* `running` is False.                                          *)
  dog,      (* The watchdog: see Dogs.                                      *)
  dogPid,   (* FATAL_WATCHDOG_PID is set.                                   *)
  payload,  (* The container: see Payloads.                                 *)
  doomed,   (* SIGTERM was sent to it.                                      *)
  (* Files. *)
  csv,      (* gpu-memory.csv: "none", "empty" or "sampled".                *)
  fatal,    (* The training log shows a fatal engine error.                 *)
  unsaved,  (* Worker logs the output directory does not have: see Written. *)
  scratch,  (* $SCRATCH_RUNTIME exists.                                     *)
  trial,    (* trial-*.json exists.                                         *)
  (* Observation only. *)
  gap,      (* The payload ran while the monitor was not sampling.          *)
  cut,      (* SIGTERM ended the EXIT trap.                                 *)
  outside   (* Whom the runner's clean-up sent SIGTERM.                     *)

options == <<paired, durable>>
shell == <<sh, trap, armed>>
children == <<monitor, stop, dog, dogPid, payload, doomed>>
files == <<csv, fatal, unsaved, scratch, trial>>
vars == <<options, shell, children, files, gap, cut, outside>>

Monitors == {"none", "starting", "opening", "sampling", "exited", "failed"}
Dogs == {"none", "watch", "grace", "search", "ended"}
Payloads == {"none", "run", "stalled", "dead"}

Main == {"prepare", "monitor", "trap", "ready", "look", "log", "noteDog",
         "start", "running", "stopMonitor", "waitMonitor", "trial", "retain",
         "remove"}
Trap == {"trapDog", "trapMonitor", "trapWait", "trapRetain", "trapRemove"}

Running == payload \in {"run", "stalled"}
Gone == {"none", "exited", "failed"}

Init ==
  /\ paired \in BOOLEAN
  /\ durable \in BOOLEAN
  /\ sh = "prepare"
  /\ trap = FALSE
  /\ armed = FALSE
  /\ monitor = "none"
  /\ stop = FALSE
  /\ dog = "none"
  /\ dogPid = FALSE
  /\ payload = "none"
  /\ doomed = FALSE
  /\ csv = "none"
  /\ fatal = FALSE
  /\ unsaved = {}
  /\ scratch = TRUE
  /\ trial = FALSE
  /\ gap = FALSE
  /\ cut = FALSE
  /\ outside = {}

-----------------------------------------------------------------------------
(* SIGTERM. *)

(* The monitor's handler asks its loop to end; before the handlers are     *)
(* installed, the signal kills it.                                         *)
TermMonitor ==
  /\ monitor' = IF monitor = "starting" THEN "failed" ELSE monitor
  /\ stop' = (stop \/ monitor \in {"opening", "sampling"})

TermDog == dog' = "ended"

(* Under `set -e` a failing command ends the shell, and so does SIGTERM.   *)
ShellFails ==
  /\ sh' = IF trap THEN "trapDog" ELSE "dead"
  /\ UNCHANGED <<trap, armed>>

-----------------------------------------------------------------------------
(* The shell. *)

Goto(from, to) ==
  /\ sh = from
  /\ sh' = to
  /\ UNCHANGED <<trap, armed>>

(* Ports, device contract, directories, snapshot, environment capture.     *)
Prepare ==
  /\ sh = "prepare"
  /\ Goto("prepare", "monitor") \/ ShellFails
  /\ UNCHANGED <<children, files>>

StartMonitor ==
  /\ Goto("monitor", "trap")
  /\ monitor' = "starting"
  /\ UNCHANGED <<stop, dog, dogPid, payload, doomed, files>>

SetTrap ==
  /\ sh = "trap"
  /\ sh' = IF paired THEN "ready" ELSE "log"
  /\ trap' = TRUE
  /\ armed' = TRUE
  /\ UNCHANGED <<children, files>>

(* A pair's payload waits for the monitor's first sample: the monitor is   *)
(* alive, then its files are there, or not yet, or not within 100 looks.   *)
Ready ==
  /\ sh = "ready"
  /\ IF monitor \in Gone THEN ShellFails ELSE Goto("ready", "look")
  /\ UNCHANGED <<children, files>>

Look ==
  /\ sh = "look"
  /\ IF csv = "sampled" THEN Goto("look", "log")
     ELSE Goto("look", "ready") \/ ShellFails
  /\ UNCHANGED <<children, files>>

(* The training log is created, the watchdog reads it, and the shell then  *)
(* notes whom to kill.                                                     *)
StartDog ==
  /\ Goto("log", "noteDog")
  /\ dog' = "watch"
  /\ UNCHANGED <<monitor, stop, dogPid, payload, doomed, files>>

NoteDog ==
  /\ Goto("noteDog", "start")
  /\ dogPid' = TRUE
  /\ UNCHANGED <<monitor, stop, dog, payload, doomed, files>>

StartPayload ==
  /\ Goto("start", "running")
  /\ payload' = "run"
  /\ UNCHANGED <<monitor, stop, dog, dogPid, doomed, files>>

(* The pipeline is over; the watchdog is killed and waited for.            *)
PayloadOver ==
  /\ Goto("running", "stopMonitor")
  /\ payload = "dead"
  /\ TermDog
  /\ dogPid' = FALSE
  /\ UNCHANGED <<monitor, stop, payload, doomed, files>>

(* Mutant: the monitor is waited for and not killed. *)
MutantStopMonitor ==
  /\ Goto("stopMonitor", "waitMonitor")
  /\ UNCHANGED <<children, files>>

StopMonitor ==
  /\ Goto("stopMonitor", "waitMonitor")
  /\ TermMonitor
  /\ UNCHANGED <<dog, dogPid, payload, doomed, files>>

(* A pair has no trial without a monitor that ended well.  Mutant: the     *)
(* monitor's status is waited for and not read.                            *)
MutantWaitMonitor ==
  /\ sh = "waitMonitor"
  /\ monitor \in Gone
  /\ Goto("waitMonitor", "trial")
  /\ UNCHANGED <<children, files>>

WaitMonitor ==
  /\ sh = "waitMonitor"
  /\ monitor \in Gone
  /\ IF paired /\ monitor = "failed" THEN ShellFails
     ELSE Goto("waitMonitor", "trial")
  /\ UNCHANGED <<children, files>>

(* The peak is read from the monitor's file, which may be missing.         *)
WriteTrial ==
  /\ sh = "trial"
  /\ IF csv = "none"
     THEN ShellFails /\ UNCHANGED trial
     ELSE Goto("trial", "retain") /\ trial' = TRUE
  /\ UNCHANGED <<children, csv, fatal, unsaved, scratch>>

(* retain_ray_worker_logs, which does nothing unless metrics are durable.  *)
Retained == unsaved' = {w \in unsaved : ~durable}

(* A failure keeps the scratch directory.                                  *)
RetainLogs ==
  /\ sh = "retain"
  /\ \/ Goto("retain", "remove") /\ Retained
     \/ /\ durable
        /\ sh' = "dead" /\ trap' = FALSE
        /\ UNCHANGED <<armed, unsaved>>
  /\ UNCHANGED <<children, csv, fatal, scratch, trial>>

RemoveScratch ==
  /\ sh = "remove"
  /\ scratch' = FALSE
  /\ sh' = "dead" /\ trap' = FALSE
  /\ UNCHANGED <<armed, children, csv, fatal, unsaved, trial>>

-----------------------------------------------------------------------------
(* cleanup, the EXIT trap. *)

TrapDog ==
  /\ Goto("trapDog", "trapMonitor")
  /\ IF dogPid THEN TermDog ELSE UNCHANGED dog
  /\ UNCHANGED <<monitor, stop, dogPid, payload, doomed, files>>

(* Mutant: the monitor is left to end by itself. *)
MutantTrapMonitor ==
  /\ Goto("trapMonitor", "trapRetain")
  /\ UNCHANGED <<children, files>>

TrapMonitor ==
  /\ Goto("trapMonitor", "trapWait")
  /\ TermMonitor
  /\ UNCHANGED <<dog, dogPid, payload, doomed, files>>

TrapWait ==
  /\ Goto("trapWait", "trapRetain")
  /\ monitor \in Gone
  /\ UNCHANGED <<children, files>>

(* Mutant: the scratch directory goes whatever became of its logs. *)
MutantTrapRetain ==
  /\ sh = "trapRetain"
  /\ \/ Goto("trapRetain", "trapRemove") /\ Retained
     \/ durable /\ Goto("trapRetain", "trapRemove") /\ UNCHANGED unsaved
  /\ UNCHANGED <<children, csv, fatal, scratch, trial>>

TrapRetain ==
  /\ sh = "trapRetain"
  /\ \/ Goto("trapRetain", "trapRemove") /\ Retained
     \/ durable /\ Goto("trapRetain", "dead") /\ UNCHANGED unsaved
  /\ UNCHANGED <<children, csv, fatal, scratch, trial>>

TrapRemove ==
  /\ Goto("trapRemove", "dead")
  /\ scratch' = FALSE
  /\ UNCHANGED <<children, csv, fatal, unsaved, trial>>

Shell ==
  \/ Prepare \/ StartMonitor \/ SetTrap \/ Ready \/ Look
  \/ StartDog \/ NoteDog \/ StartPayload \/ PayloadOver
  \/ StopMonitor \/ WaitMonitor \/ WriteTrial
  \/ RetainLogs \/ RemoveScratch
  \/ TrapDog \/ TrapMonitor \/ TrapWait \/ TrapRetain \/ TrapRemove

-----------------------------------------------------------------------------
(* gpu_monitor.py. *)

InstallHandlers ==
  /\ monitor = "starting"
  /\ monitor' = "opening"
  /\ UNCHANGED <<shell, stop, dog, dogPid, payload, doomed, files>>

(* The files are opened; the first sample follows unless it was stopped.   *)
OpenFiles ==
  /\ monitor = "opening"
  /\ csv = "none"
  /\ csv' = "empty"
  /\ UNCHANGED <<shell, children, fatal, unsaved, scratch, trial>>

FirstSample ==
  /\ monitor = "opening"
  /\ csv = "empty"
  /\ ~stop
  /\ monitor' = "sampling"
  /\ csv' = "sampled"
  /\ UNCHANGED <<shell, stop, dog, dogPid, payload, doomed, fatal, unsaved,
                 scratch, trial>>

StopSampling ==
  /\ stop
  /\ monitor = "sampling" \/ (monitor = "opening" /\ csv = "empty")
  /\ monitor' = "exited"
  /\ UNCHANGED <<shell, stop, dog, dogPid, payload, doomed, files>>

Monitor == InstallHandlers \/ OpenFiles \/ FirstSample \/ StopSampling

(* NVML, the disk or the marker file fail it.                              *)
MonitorFails ==
  /\ monitor \notin Gone
  /\ monitor' = "failed"
  /\ UNCHANGED <<shell, stop, dog, dogPid, payload, doomed, files>>

-----------------------------------------------------------------------------
(* fatal_engine_watchdog. *)

SeeFatal ==
  /\ dog = "watch"
  /\ fatal
  /\ dog' = "grace"
  /\ UNCHANGED <<shell, monitor, stop, dogPid, payload, doomed, files>>

GraceOver ==
  /\ dog = "grace"
  /\ dog' = "search"
  /\ UNCHANGED <<shell, monitor, stop, dogPid, payload, doomed, files>>

(* Is the trainer's command one that pgrep finds?  A pair's trainer is     *)
(* started as memory_tuner.device_contract, which it does not.             *)
TrainerFound == ~paired

(* The trainer is terminated, or the container that holds it.  Mutant:     *)
(* the trainer alone.                                                      *)
MutantTerminate ==
  /\ dog = "search"
  /\ dog' = "ended"
  /\ doomed' = (doomed \/ (Running /\ TrainerFound))
  /\ UNCHANGED <<shell, monitor, stop, dogPid, payload, files>>

Terminate ==
  /\ dog = "search"
  /\ dog' = "ended"
  /\ doomed' = (doomed \/ Running)
  /\ UNCHANGED <<shell, monitor, stop, dogPid, payload, files>>

Watchdog == SeeFatal \/ GraceOver \/ Terminate

-----------------------------------------------------------------------------
(* The container. *)

(* A log is written before the shell has copied them, or after.            *)
Written == IF sh \in {"remove", "trapRemove", "dead"} THEN "late" ELSE "early"

WriteLogs ==
  /\ Running
  /\ unsaved' = unsaved \cup {Written}
  /\ fatal' \in {fatal, TRUE}
  /\ UNCHANGED <<shell, children, csv, scratch, trial>>

Stall ==
  /\ payload = "run"
  /\ payload' = "stalled"
  /\ UNCHANGED <<shell, monitor, stop, dog, dogPid, doomed, files>>

Exits ==
  /\ payload = "run"
  /\ payload' = "dead"
  /\ UNCHANGED <<shell, monitor, stop, dog, dogPid, doomed, files>>

Dies ==
  /\ Running
  /\ doomed
  /\ payload' = "dead"
  /\ UNCHANGED <<shell, monitor, stop, dog, dogPid, doomed, files>>

Container == WriteLogs \/ Stall \/ Exits \/ Dies

-----------------------------------------------------------------------------
(* cleanup_children of the runner, which terminates those alive in any     *)
(* order.  The EXIT trap is not run again inside itself.                   *)

TermShell ==
  /\ sh # "dead"
  /\ IF sh \in Trap
     THEN sh' = "dead" /\ cut' = TRUE /\ UNCHANGED <<trap, armed>>
     ELSE ShellFails /\ UNCHANGED cut
  /\ UNCHANGED children

TermOther(p) ==
  /\ \/ /\ p = "monitor"
        /\ monitor \notin Gone
        /\ TermMonitor
        /\ UNCHANGED <<dog, dogPid, payload, doomed>>
     \/ /\ p = "dog"
        /\ dog \in {"watch", "grace", "search"}
        /\ TermDog
        /\ UNCHANGED <<monitor, stop, dogPid, payload, doomed>>
     \/ /\ p = "payload"
        /\ Running
        /\ doomed' = TRUE
        /\ UNCHANGED <<monitor, stop, dog, dogPid, payload>>
  /\ UNCHANGED <<shell, cut>>

Terminated(p) ==
  /\ p \notin outside
  /\ outside' = outside \cup {p}
  /\ IF p = "shell" THEN TermShell ELSE TermOther(p)
  /\ UNCHANGED files

-----------------------------------------------------------------------------
Observed == gap' = (gap \/ (Running' /\ monitor' # "sampling"))

Step(A) == A /\ Observed /\ UNCHANGED <<options, cut, outside>>

Next ==
  \/ Step(Shell)
  \/ Step(Monitor)
  \/ Step(MonitorFails)
  \/ Step(Watchdog)
  \/ Step(Container)
  \/ \E p \in {"shell", "monitor", "dog", "payload"} :
       Terminated(p) /\ Observed /\ UNCHANGED options

(* The shell waits for processes and files only, the monitor looks at its  *)
(* flag after every sample, and the watchdog sleeps a bounded time: each   *)
(* goes on when it can.  SIGTERM ends a container that has received it.    *)
Fairness ==
  /\ WF_vars(Step(Shell))
  /\ WF_vars(Step(Monitor))
  /\ WF_vars(Step(Watchdog))
  /\ WF_vars(Step(Dies))

Spec == Init /\ [][Next]_vars /\ Fairness

-----------------------------------------------------------------------------
(* Types, and that a pair's payload starts after the monitor's first       *)
(* sample (the look for the device map and the memory file).               *)
TypeOK ==
  /\ paired \in BOOLEAN /\ durable \in BOOLEAN
  /\ trap \in BOOLEAN /\ armed \in BOOLEAN
  /\ stop \in BOOLEAN /\ dogPid \in BOOLEAN /\ doomed \in BOOLEAN
  /\ fatal \in BOOLEAN /\ unsaved \subseteq {"early", "late"}
  /\ scratch \in BOOLEAN /\ trial \in BOOLEAN
  /\ gap \in BOOLEAN /\ cut \in BOOLEAN
  /\ sh \in Main \cup Trap \cup {"dead"}
  /\ monitor \in Monitors
  /\ dog \in Dogs
  /\ payload \in Payloads
  /\ csv \in {"none", "empty", "sampled"}
  /\ outside \subseteq {"shell", "monitor", "dog", "payload"}
  /\ paired /\ payload # "none" => csv = "sampled"

(* A pair's trial file means memory was sampled for as long as the payload *)
(* ran: a monitor that fails at any moment, before its first sample or     *)
(* after, costs the trial.  A monitor somebody else terminates ends well   *)
(* and does not: that is left to the runner, which then reports no         *)
(* success.                                                                *)
TrialCovered == paired /\ trial /\ "monitor" \notin outside => ~gap

(* A launcher that ends by itself, at whatever step, leaves no monitor and *)
(* no watchdog behind.  One that SIGTERM ends leaves its monitor only if   *)
(* the signal fell between the fork of the monitor and the trap, or inside *)
(* the EXIT trap; and its watchdog only if the signal fell before the      *)
(* watchdog's id was noted, or inside the EXIT trap.                       *)
NoOrphans ==
  sh = "dead" =>
    /\ monitor \in Gone \/ ("shell" \in outside /\ (~armed \/ cut))
    /\ dog \in {"none", "ended"} \/ ("shell" \in outside /\ (~dogPid \/ cut))

(* With durable metrics, the scratch directory goes only after every       *)
(* worker log written before the copying has been copied, however the      *)
(* launcher ends.  A log written after the copying is lost, and only under *)
(* a launcher that SIGTERM ended while its container was still running.    *)
LogsKept ==
  durable /\ ~scratch =>
    /\ "early" \notin unsaved
    /\ unsaved # {} => "shell" \in outside

(* A payload that stalls after a fatal engine error ends without the       *)
(* runner's timeout, unless the runner ends the launcher or its watchdog:  *)
(* the watchdog finds the container even when the trainer's command line   *)
(* is one it does not know.                                                *)
StallEnds ==
  payload = "stalled" /\ fatal ~>
    payload = "dead" \/ outside \cap {"shell", "dog"} # {}

(* A launcher whose payload is over ends: it never waits for good for the  *)
(* monitor it has killed.                                                  *)
LauncherEnds == payload = "dead" ~> sh = "dead"

=============================================================================
