-------------------------- MODULE Launcher_proofs --------------------------
(***************************************************************************)
(* The launcher's safety: a pair's trial was sampled throughout; who may   *)
(* outlive the launcher, and when; and durable logs are copied before      *)
(* their scratch directory goes.  All three rest on LauncherInv.           *)
(***************************************************************************)
EXTENDS Launcher, TLAPS

(* The shell before the payload, and after it. *)
Before == {"prepare", "monitor", "trap", "ready", "look", "log", "noteDog",
           "start"}
After == {"stopMonitor", "waitMonitor", "trial", "retain", "remove"}

(* The trap is in force from SetTrap to the end. *)
TrapInv ==
  /\ sh \in {"prepare", "monitor", "trap"} => ~trap /\ ~armed
  /\ sh \in (Main \cup Trap) \ {"prepare", "monitor", "trap"} => trap /\ armed

(* The payload runs while the shell waits for it, unless somebody          *)
(* terminates the shell.                                                   *)
PayloadInv ==
  /\ sh \in Before => payload = "none" /\ ~gap
  /\ sh \in After => payload = "dead"
  /\ sh # "running" /\ "shell" \notin outside => ~Running
  /\ trial => payload = "dead"

(* The monitor: its file follows its steps, a pair waits for it, and only  *)
(* the shell, once the payload is over, and the runner ask it to end.      *)
MonitorInv ==
  /\ csv = "sampled" => monitor \in {"sampling", "exited", "failed"}
  /\ sh \in {"prepare", "monitor"} => monitor = "none"
  /\ sh \in {"log", "noteDog", "start"} /\ paired => csv = "sampled"
  /\ "monitor" \notin outside
       => (sh \in Before \cup {"running", "stopMonitor"}
             => ~stop /\ monitor # "exited")
  /\ sh \in {"trial", "retain", "remove", "trapRetain", "trapRemove"}
       => monitor \in Gone

(* A gap costs the monitor its good status. *)
GapInv ==
  paired /\ gap /\ "monitor" \notin outside =>
    /\ sh \in {"running", "stopMonitor", "waitMonitor"} => monitor = "failed"
    /\ sh \notin {"trial", "retain", "remove"}
    /\ ~trial

(* The watchdog lives while the shell knows it. *)
DogInv ==
  /\ sh \in Before \ {"noteDog", "start"} => dog = "none"
  /\ sh \in {"start", "running"} => dogPid
  /\ sh \in After => dog \in {"none", "ended"}
  /\ sh \in Trap \ {"trapDog"}
       => dog \in {"none", "ended"} \/ ("shell" \in outside /\ ~dogPid)
  /\ sh = "trapDog"
       => dogPid \/ dog \in {"none", "ended"} \/ "shell" \in outside

(* The scratch directory goes last, after the logs. *)
ScratchInv ==
  /\ ~scratch => sh = "dead"
  /\ sh \in {"remove", "trapRemove"} /\ durable
       => "early" \notin unsaved /\ (unsaved # {} => "shell" \in outside)

LauncherInv ==
  /\ TypeOK
  /\ TrapInv
  /\ PayloadInv
  /\ MonitorInv
  /\ GapInv
  /\ DogInv
  /\ ScratchInv
  /\ NoOrphans
  /\ LogsKept

-----------------------------------------------------------------------------
(* The invariant is inductive. *)

LEMMA LauncherInit == Init => LauncherInv
BY DEF Init, LauncherInv, TypeOK, TrapInv, PayloadInv, MonitorInv, GapInv,
       DogInv, ScratchInv, NoOrphans, LogsKept, Main, Trap, Monitors, Dogs,
       Payloads, Gone, Running, Before, After

(* Each group of steps keeps the types. *)

LEMMA ShellTypes ==
  ASSUME TypeOK, MonitorInv, Observed, UNCHANGED <<options, cut, outside>>,
         Prepare \/ StartMonitor \/ SetTrap \/ Ready \/ Look \/ StartDog \/
         NoteDog \/ StartPayload
  PROVE  TypeOK'
<1> USE DEF TypeOK, MonitorInv, Main, Trap, Monitors, Dogs, Payloads, Observed,
            Running, options, shell, children, files
<1>1. CASE Prepare
  BY <1>1 DEF Prepare, Goto, ShellFails
<1>2. CASE StartMonitor
  BY <1>2 DEF StartMonitor, Goto
<1>3. CASE SetTrap
  BY <1>3 DEF SetTrap
<1>4. CASE Ready
  BY <1>4 DEF Ready, Goto, ShellFails
<1>5. CASE Look
  BY <1>5 DEF Look, Goto, ShellFails
<1>6. CASE StartDog
  BY <1>6 DEF StartDog, Goto
<1>7. CASE NoteDog
  BY <1>7 DEF NoteDog, Goto
<1>8. CASE StartPayload
  BY <1>8 DEF StartPayload, Goto
<1> HIDE DEF TypeOK
<1> QED
  BY <1>1, <1>2, <1>3, <1>4, <1>5, <1>6, <1>7, <1>8

LEMMA EndTypes ==
  ASSUME TypeOK, MonitorInv, Observed, UNCHANGED <<options, cut, outside>>,
         PayloadOver \/ StopMonitor \/ WaitMonitor \/ WriteTrial \/
         RetainLogs \/ RemoveScratch
  PROVE  TypeOK'
<1> USE DEF TypeOK, MonitorInv, Main, Trap, Monitors, Dogs, Payloads, Observed,
            Running, options, shell, children, files
<1>1. CASE PayloadOver
  <2>1. dogPid' \in BOOLEAN
    BY <1>1, Zenon DEF PayloadOver, Goto, TermDog
  <2> QED
    BY <1>1, <2>1 DEF PayloadOver, Goto, TermDog
<1>2. CASE StopMonitor
  BY <1>2 DEF StopMonitor, Goto, TermMonitor
<1>3. CASE WaitMonitor
  BY <1>3 DEF WaitMonitor, Goto, ShellFails
<1>4. CASE WriteTrial
  <2>1. trial' \in BOOLEAN
    BY <1>4, Zenon DEF WriteTrial, Goto, ShellFails
  <2> QED
    BY <1>4, <2>1 DEF WriteTrial, Goto, ShellFails
<1>5. CASE RetainLogs
  <2>1. trap' \in BOOLEAN /\ unsaved' \subseteq {"early", "late"}
    BY <1>5, Zenon DEF RetainLogs, Goto, Retained
  <2> QED
    BY <1>5, <2>1 DEF RetainLogs, Goto, Retained
<1>6. CASE RemoveScratch
  <2>1. trap' \in BOOLEAN /\ scratch' \in BOOLEAN
    BY <1>6, Zenon DEF RemoveScratch
  <2> QED
    BY <1>6, <2>1 DEF RemoveScratch
<1> HIDE DEF TypeOK
<1> QED
  BY <1>1, <1>2, <1>3, <1>4, <1>5, <1>6

LEMMA TrapTypes ==
  ASSUME TypeOK, MonitorInv, Observed, UNCHANGED <<options, cut, outside>>,
         TrapDog \/ TrapMonitor \/ TrapWait \/ TrapRetain \/ TrapRemove
  PROVE  TypeOK'
<1> USE DEF TypeOK, MonitorInv, Main, Trap, Monitors, Dogs, Payloads, Observed,
            Running, options, shell, children, files
<1>1. CASE TrapDog
  BY <1>1 DEF TrapDog, Goto, TermDog
<1>2. CASE TrapMonitor
  BY <1>2 DEF TrapMonitor, Goto, TermMonitor
<1>3. CASE TrapWait
  BY <1>3 DEF TrapWait, Goto
<1>4. CASE TrapRetain
  <2>1. unsaved' \subseteq {"early", "late"}
    BY <1>4, Zenon DEF TrapRetain, Goto, Retained
  <2> QED
    BY <1>4, <2>1 DEF TrapRetain, Goto, Retained
<1>5. CASE TrapRemove
  <2>1. scratch' \in BOOLEAN
    BY <1>5, Zenon DEF TrapRemove, Goto
  <2> QED
    BY <1>5, <2>1 DEF TrapRemove, Goto
<1> HIDE DEF TypeOK
<1> QED
  BY <1>1, <1>2, <1>3, <1>4, <1>5

LEMMA ChildrenTypes ==
  ASSUME TypeOK, MonitorInv, Observed, UNCHANGED <<options, cut, outside>>,
         InstallHandlers \/ OpenFiles \/ FirstSample \/ StopSampling \/
         MonitorFails \/ SeeFatal \/ GraceOver \/ Terminate \/ WriteLogs \/
         Stall \/ Exits \/ Dies
  PROVE  TypeOK'
<1> USE DEF TypeOK, MonitorInv, Main, Trap, Monitors, Dogs, Payloads, Observed,
            Running, options, shell, children, files
<1>1. CASE InstallHandlers
  BY <1>1 DEF InstallHandlers
<1>2. CASE OpenFiles
  BY <1>2 DEF OpenFiles
<1>3. CASE FirstSample
  BY <1>3 DEF FirstSample
<1>4. CASE StopSampling
  BY <1>4 DEF StopSampling
<1>5. CASE MonitorFails
  BY <1>5 DEF MonitorFails
<1>6. CASE SeeFatal
  BY <1>6 DEF SeeFatal
<1>7. CASE GraceOver
  BY <1>7 DEF GraceOver
<1>8. CASE Terminate
  BY <1>8 DEF Terminate
<1>9. CASE WriteLogs
  <2>1. fatal' \in BOOLEAN
    BY <1>9, Zenon DEF WriteLogs
  <2>2. unsaved' \subseteq {"early", "late"}
    <3>1. Written \in {"early", "late"}
      BY DEF Written
    <3> QED
      BY <1>9, <3>1 DEF WriteLogs
  <2> QED
    BY <1>9, <2>1, <2>2 DEF WriteLogs
<1>10. CASE Stall
  BY <1>10 DEF Stall
<1>11. CASE Exits
  BY <1>11 DEF Exits
<1>12. CASE Dies
  BY <1>12 DEF Dies
<1> HIDE DEF TypeOK
<1> QED
  BY <1>1, <1>2, <1>3, <1>4, <1>5, <1>6, <1>7, <1>8, <1>9, <1>10, <1>11, <1>12

LEMMA TermTypes ==
  ASSUME TypeOK, Observed, UNCHANGED options,
         NEW p \in {"shell", "monitor", "dog", "payload"}, Terminated(p)
  PROVE  TypeOK'
<1> USE DEF TypeOK, Main, Trap, Monitors, Dogs, Payloads, Observed, Running,
            options, shell, children, files, Terminated
<1>1. CASE p = "shell"
  <2>1. cut' \in BOOLEAN
    BY <1>1, Zenon DEF TermShell, ShellFails
  <2> QED
    BY <1>1, <2>1 DEF TermShell, ShellFails
<1>2. CASE p # "shell"
  <2>1. stop' \in BOOLEAN /\ doomed' \in BOOLEAN
    BY <1>2, Zenon DEF TermOther, TermMonitor, TermDog
  <2> QED
    BY <1>2, <2>1 DEF TermOther, TermMonitor, TermDog
<1> QED
  BY <1>1, <1>2

(* Each group of steps keeps the rest. *)

LEMMA StartKeeps ==
  ASSUME LauncherInv, TypeOK',
         Step(Prepare) \/ Step(StartMonitor) \/ Step(SetTrap) \/
         Step(Ready) \/ Step(Look) \/ Step(StartDog) \/ Step(NoteDog) \/
         Step(StartPayload)
  PROVE  LauncherInv'
<1> USE DEF LauncherInv, TypeOK, TrapInv, PayloadInv, MonitorInv, GapInv,
            DogInv, ScratchInv, NoOrphans, LogsKept, Main, Trap, Monitors,
            Dogs, Payloads, Gone, Running, Before, After, options, shell,
            children, files, Step, Observed
<1>1. CASE Step(Prepare)
  BY <1>1, SMTT(20) DEF Prepare, Goto, ShellFails
<1>2. CASE Step(StartMonitor)
  BY <1>2, SMTT(20) DEF StartMonitor, Goto
<1>3. CASE Step(SetTrap)
  BY <1>3, SMTT(20) DEF SetTrap
<1>4. CASE Step(Ready)
  <2> USE <1>4 DEF Ready, Goto, ShellFails
  <2>1. TrapInv' /\ PayloadInv' /\ GapInv'
    BY ZenonT(40)
  <2>2. MonitorInv' /\ DogInv' /\ NoOrphans'
    BY ZenonT(40)
  <2>3. ScratchInv' /\ LogsKept'
    BY ZenonT(40)
  <2> QED
    BY <2>1, <2>2, <2>3
<1>5. CASE Step(Look)
  <2> USE <1>5 DEF Look, Goto, ShellFails
  <2>1. TrapInv' /\ PayloadInv' /\ GapInv'
    BY ZenonT(40)
  <2>2. MonitorInv' /\ DogInv' /\ NoOrphans'
    BY ZenonT(40)
  <2>3. ScratchInv' /\ LogsKept'
    BY ZenonT(40)
  <2> QED
    BY <2>1, <2>2, <2>3
<1>6. CASE Step(StartDog)
  BY <1>6 DEF StartDog, Goto
<1>7. CASE Step(NoteDog)
  BY <1>7 DEF NoteDog, Goto
<1>8. CASE Step(StartPayload)
  BY <1>8, SMTT(20) DEF StartPayload, Goto
<1> QED
  BY <1>1, <1>2, <1>3, <1>4, <1>5, <1>6, <1>7, <1>8

LEMMA EndKeeps ==
  ASSUME LauncherInv, TypeOK',
         Step(PayloadOver) \/ Step(StopMonitor) \/ Step(WaitMonitor) \/
         Step(WriteTrial) \/ Step(RetainLogs) \/ Step(RemoveScratch)
  PROVE  LauncherInv'
<1> USE DEF LauncherInv, TypeOK, TrapInv, PayloadInv, MonitorInv, GapInv,
            DogInv, ScratchInv, NoOrphans, LogsKept, Main, Trap, Monitors,
            Dogs, Payloads, Gone, Running, Before, After, options, shell,
            children, files, Step, Observed
<1>1. CASE Step(PayloadOver)
  BY <1>1, SMTT(20) DEF PayloadOver, Goto, TermDog
<1>2. CASE Step(StopMonitor)
  BY <1>2, SMTT(20) DEF StopMonitor, Goto, TermMonitor
<1>3. CASE Step(WaitMonitor)
  <2> USE <1>3 DEF WaitMonitor, Goto, ShellFails
  <2>1. TrapInv' /\ PayloadInv' /\ GapInv'
    BY ZenonT(40)
  <2>2. MonitorInv'
    BY ZenonT(40)
  <2>3. DogInv' /\ NoOrphans'
    BY ZenonT(40)
  <2>4. ScratchInv' /\ LogsKept'
    BY ZenonT(40)
  <2> QED
    BY <2>1, <2>2, <2>3, <2>4
<1>4. CASE Step(WriteTrial)
  <2> USE <1>4 DEF WriteTrial, Goto, ShellFails
  <2>1. TrapInv' /\ PayloadInv' /\ GapInv'
    BY ZenonT(40)
  <2>2. MonitorInv'
    BY ZenonT(40)
  <2>3. DogInv' /\ NoOrphans'
    BY ZenonT(40)
  <2>4. ScratchInv' /\ LogsKept'
    BY ZenonT(40)
  <2> QED
    BY <2>1, <2>2, <2>3, <2>4
<1>5. CASE Step(RetainLogs)
  <2> USE <1>5 DEF RetainLogs, Goto, Retained
  <2>1. TrapInv' /\ PayloadInv' /\ GapInv'
    BY ZenonT(40)
  <2>2. MonitorInv' /\ DogInv' /\ NoOrphans'
    BY ZenonT(40)
  <2>3. ScratchInv' /\ LogsKept'
    BY ZenonT(40)
  <2> QED
    BY <2>1, <2>2, <2>3
<1>6. CASE Step(RemoveScratch)
  BY <1>6, SMTT(20) DEF RemoveScratch
<1> QED
  BY <1>1, <1>2, <1>3, <1>4, <1>5, <1>6

LEMMA TrapKeeps ==
  ASSUME LauncherInv, TypeOK',
         Step(TrapDog) \/ Step(TrapMonitor) \/ Step(TrapWait) \/
         Step(TrapRetain) \/ Step(TrapRemove)
  PROVE  LauncherInv'
<1> USE DEF LauncherInv, TypeOK, TrapInv, PayloadInv, MonitorInv, GapInv,
            DogInv, ScratchInv, NoOrphans, LogsKept, Main, Trap, Monitors,
            Dogs, Payloads, Gone, Running, Before, After, options, shell,
            children, files, Step, Observed
<1>1. CASE Step(TrapDog)
  BY <1>1, SMTT(20) DEF TrapDog, Goto, TermDog
<1>2. CASE Step(TrapMonitor)
  BY <1>2, SMTT(20) DEF TrapMonitor, Goto, TermMonitor
<1>3. CASE Step(TrapWait)
  BY <1>3, SMTT(20) DEF TrapWait, Goto
<1>4. CASE Step(TrapRetain)
  <2> USE <1>4 DEF TrapRetain, Goto, Retained
  <2>1. TrapInv' /\ PayloadInv' /\ GapInv'
    BY ZenonT(40)
  <2>2. MonitorInv' /\ DogInv' /\ NoOrphans'
    BY ZenonT(40)
  <2>3. ScratchInv' /\ LogsKept'
    BY ZenonT(40)
  <2> QED
    BY <2>1, <2>2, <2>3
<1>5. CASE Step(TrapRemove)
  BY <1>5, SMTT(20) DEF TrapRemove, Goto
<1> QED
  BY <1>1, <1>2, <1>3, <1>4, <1>5

LEMMA ChildrenKeep ==
  ASSUME LauncherInv, TypeOK',
         Step(InstallHandlers) \/ Step(OpenFiles) \/ Step(FirstSample) \/
         Step(StopSampling) \/ Step(MonitorFails) \/ Step(SeeFatal) \/
         Step(GraceOver) \/ Step(Terminate) \/ Step(WriteLogs) \/
         Step(Stall) \/ Step(Exits) \/ Step(Dies)
  PROVE  LauncherInv'
<1> USE DEF LauncherInv, TypeOK, TrapInv, PayloadInv, MonitorInv, GapInv,
            DogInv, ScratchInv, NoOrphans, LogsKept, Main, Trap, Monitors,
            Dogs, Payloads, Gone, Running, Before, After, options, shell,
            children, files, Step, Observed
<1>1. CASE Step(InstallHandlers)
  BY <1>1 DEF InstallHandlers
<1>2. CASE Step(OpenFiles)
  BY <1>2 DEF OpenFiles
<1>3. CASE Step(FirstSample)
  BY <1>3 DEF FirstSample
<1>4. CASE Step(StopSampling)
  BY <1>4 DEF StopSampling
<1>5. CASE Step(MonitorFails)
  BY <1>5 DEF MonitorFails
<1>6. CASE Step(SeeFatal)
  BY <1>6 DEF SeeFatal
<1>7. CASE Step(GraceOver)
  BY <1>7 DEF GraceOver
<1>8. CASE Step(Terminate)
  BY <1>8 DEF Terminate
<1>9. CASE Step(WriteLogs)
  <2> USE <1>9 DEF WriteLogs
  <2>1. TrapInv' /\ PayloadInv' /\ GapInv' /\ MonitorInv' /\ DogInv' /\ NoOrphans'
    BY SMTT(20)
  <2>2. CASE sh \in {"remove", "trapRemove", "dead"}
    <3>1. Written = "late" /\ "shell" \in outside
      BY <2>2 DEF Written
    <3> QED
      BY <2>1, <2>2, <3>1, SMTT(20)
  <2>3. CASE sh \notin {"remove", "trapRemove", "dead"}
    <3>1. scratch /\ ScratchInv' /\ LogsKept'
      BY <2>3
    <3> QED
      BY <2>1, <3>1
  <2> QED
    BY <2>2, <2>3
<1>10. CASE Step(Stall)
  BY <1>10 DEF Stall
<1>11. CASE Step(Exits)
  BY <1>11 DEF Exits
<1>12. CASE Step(Dies)
  BY <1>12, SMTT(20) DEF Dies
<1> QED
  BY <1>1, <1>2, <1>3, <1>4, <1>5, <1>6, <1>7, <1>8, <1>9, <1>10, <1>11, <1>12

LEMMA TerminationKeeps ==
  ASSUME LauncherInv, TypeOK',
         NEW p \in {"shell", "monitor", "dog", "payload"},
         Terminated(p), Observed, UNCHANGED options
  PROVE  LauncherInv'
<1> USE DEF LauncherInv, TypeOK, TrapInv, PayloadInv, MonitorInv, GapInv,
            DogInv, ScratchInv, NoOrphans, LogsKept, Main, Trap, Monitors,
            Dogs, Payloads, Gone, Running, Before, After, options, shell,
            children, files, Step, Observed
<1>1. CASE p = "shell"
  <2> USE <1>1 DEF Terminated, TermShell, ShellFails
  <2>1. TrapInv' /\ PayloadInv' /\ GapInv'
    BY SMTT(20)
  <2>2. MonitorInv'
    BY SMTT(20)
  <2>3. DogInv' /\ NoOrphans'
    BY SMTT(20)
  <2>4. ScratchInv' /\ LogsKept'
    BY SMTT(20)
  <2> QED
    BY <2>1, <2>2, <2>3, <2>4
<1>2. CASE p # "shell"
  <2> USE <1>2 DEF Terminated, TermOther, TermMonitor, TermDog
  <2>1. TrapInv' /\ PayloadInv' /\ GapInv'
    BY SMTT(20)
  <2>2. MonitorInv'
    BY SMTT(20)
  <2>3. DogInv' /\ NoOrphans'
    BY SMTT(20)
  <2>4. ScratchInv' /\ LogsKept'
    BY SMTT(20)
  <2> QED
    BY <2>1, <2>2, <2>3, <2>4
<1> QED
  BY <1>1, <1>2

LEMMA LauncherStep == LauncherInv /\ [Next]_vars => LauncherInv'
<1> SUFFICES ASSUME LauncherInv, [Next]_vars PROVE LauncherInv'
  OBVIOUS
<1> TypeOK /\ MonitorInv
  BY DEF LauncherInv
<1>1. CASE Step(Shell)
  BY <1>1, ShellTypes, EndTypes, TrapTypes, StartKeeps, EndKeeps, TrapKeeps
     DEF Step, Shell
<1>2. CASE Step(Monitor) \/ Step(MonitorFails) \/ Step(Watchdog)
           \/ Step(Container)
  BY <1>2, ChildrenTypes, ChildrenKeep DEF Step, Monitor, Watchdog, Container
<1>3. CASE \E p \in {"shell", "monitor", "dog", "payload"} :
             Terminated(p) /\ Observed /\ UNCHANGED options
  BY <1>3, TermTypes, TerminationKeeps
<1>4. CASE UNCHANGED vars
  BY <1>4 DEF vars, options, shell, children, files, LauncherInv, TypeOK,
        TrapInv, PayloadInv, MonitorInv, GapInv, DogInv, ScratchInv,
        NoOrphans, LogsKept, Running
<1> QED
  BY <1>1, <1>2, <1>3, <1>4 DEF Next

LEMMA LauncherSafe == Spec => []LauncherInv
  BY LauncherInit, LauncherStep, PTL DEF Spec

-----------------------------------------------------------------------------
(* Every variable keeps its type, and a pair's payload starts after the    *)
(* monitor's first sample.                                                 *)
THEOREM LauncherTyped == Spec => []TypeOK
<1>1. LauncherInv => TypeOK
  BY DEF LauncherInv
<1> QED
  BY <1>1, LauncherSafe, PTL

(* A pair's trial file means that memory was sampled throughout.           *)
THEOREM SampledThroughout == Spec => []TrialCovered
<1>1. LauncherInv => TrialCovered
  BY DEF LauncherInv, GapInv, TrialCovered
<1> QED
  BY <1>1, LauncherSafe, PTL

(* A launcher that has ended by itself has left no monitor and no          *)
(* watchdog; one that SIGTERM ended, a monitor only if the trap was not    *)
(* yet set or was itself cut, a watchdog only if its id was not yet noted  *)
(* or the trap was cut.                                                    *)
THEOREM NothingLeft == Spec => []NoOrphans
<1>1. LauncherInv => NoOrphans
  BY DEF LauncherInv
<1> QED
  BY <1>1, LauncherSafe, PTL

(* Durable worker logs written before the copying are copied before the    *)
(* scratch directory goes, whoever ends the launcher; later ones are lost  *)
(* only under a launcher that SIGTERM ended.                               *)
THEOREM LogsSaved == Spec => []LogsKept
<1>1. LauncherInv => LogsKept
  BY DEF LauncherInv
<1> QED
  BY <1>1, LauncherSafe, PTL

=============================================================================
