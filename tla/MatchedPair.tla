---------------------------- MODULE MatchedPair ----------------------------
(***************************************************************************)
(* The matched-pair runner, memory_tuner/run_matched_gpu.py: one SLURM job *)
(* claims a pair by creating its directory, then runs the pair's two       *)
(* periods, one payload process each, and leaves a ledger, an allocation   *)
(* trace, pair.json, two period records and a summary behind.              *)
(*                                                                         *)
(* A runner is a program counter per job.  SIGTERM and SIGINT raise        *)
(* InterruptedError wherever the runner is, and SIGKILL ends it there; the *)
(* payload's processes and the allocation sampler thread act on their own. *)
(* Time is abstract: every deadline may pass or not (PayloadBudget has the *)
(* arithmetic of the deadlines).                                           *)
(***************************************************************************)
EXTENDS Naturals, Sequences

CONSTANTS
  Jobs,        (* Scheduler jobs started for this pair (a resubmission is  *)
               (* a new job).                                              *)
  NoJob,       (* No job holds the claim.                                  *)
  MaxSignals   (* Bound: signals delivered over a behaviour.               *)

ASSUME NoJobAssumption == NoJob \notin Jobs
ASSUME MaxSignalsAssumption == MaxSignals \in Nat

Periods == 1..2

(* Statuses of a period record; "validated" is "completed" or              *)
(* "memory_failure", which nothing here tells apart.                       *)
Statuses == {"not_launched", "infrastructure_invalid", "validated"}

(* Why the poll loop was left: the payload exited, or its timeout or the   *)
(* allocation's deadline cut it off.                                       *)
Ends == {"none", "exit", "cut"}

VARIABLES
  (* Durable: the pair's directory, shared by every job. *)
  claim,      (* Which job's mkdir created the directory.                  *)
  ledger,     (* ledger.jsonl: [event, period, sequence].                  *)
  manifest,   (* pair.json: "none", "partial", "noalloc" or "alloc".       *)
  record,     (* period-N.json per period: a record, NoRecord or Partial.  *)
  summary,    (* pair-summary.json exists.                                 *)
  ev,         (* allocation-trace.jsonl per period: see NoTrace.           *)
  traceState, (* The trace is "empty", "whole" or "broken": it repeats a   *)
              (* sequence number or has a torn line.                       *)
  (* The frame of execute_pair, per job. *)
  pc,         (* The next step.                                            *)
  period,     (* The period of the loop.                                   *)
  fatal,      (* `fatal` is not None.                                      *)
  exec,       (* `result` of run_payload: see NoExec.                      *)
  res,        (* `result` of the period: see NoResult.                     *)
  seq,        (* Journal.sequence of the ledger.                           *)
  (* The machine. *)
  live,       (* The payload's process tree per period.                    *)
  sampler,    (* The period's sampler thread is alive.                     *)
  proof,      (* The period's payload left the full evidence of a success  *)
              (* or of a diagnosed memory failure.                         *)
  (* Observation only: read by properties, by no guard but the bound. *)
  signals,    (* Signals delivered so far.                                 *)
  spawns,     (* Payload processes ever started per period.                *)
  hit,        (* A signal arrived while the period's payload was run.      *)
  overlap,    (* Period 2 was started beside period 1's remains.           *)
  unguarded   (* A signal arrived where no handler accounts for the slot.  *)

durable == <<claim, ledger, manifest, record, summary>>
trace == <<ev, traceState>>
frame == <<period, fatal, exec, res>>
machine == <<live, sampler, proof>>
observed == <<signals, spawns, hit, overlap, unguarded>>
vars == <<durable, trace, pc, frame, seq, machine, observed>>

(* A record that holds no execution.  files: the attempt directory is not  *)
(* empty.  sound: no error, valid sampling, exited by itself, and cleaned  *)
(* up completely.  dirty: contamination was detected.                      *)
Blank(s) == [launched |-> FALSE, status |-> s, files |-> FALSE,
             sound |-> FALSE, dirty |-> FALSE]
NoRecord == Blank("none")
Partial == Blank("partial")

(* The period's part of the trace: the pre gate ended on two idle samples, *)
(* there are payload samples, one of them shows a foreign or excluded      *)
(* process, one came after the sampler was given up, and the post gate     *)
(* ended on two idle samples.                                              *)
NoTrace == [pre |-> FALSE, samples |-> FALSE, tainted |-> FALSE,
            late |-> FALSE, post |-> FALSE]

(* tracked: `process` is not None.  end: why the poll loop was left.       *)
(* invalid: an error, or sampling_valid is False.                          *)
NoExec == [spawned |-> FALSE, tracked |-> FALSE, end |-> "none",
           invalid |-> FALSE, dirty |-> FALSE, joined |-> TRUE,
           complete |-> FALSE, interrupted |-> FALSE]

NoResult == [launched |-> FALSE, status |-> "not_launched", files |-> FALSE]

Init ==
  /\ claim = NoJob
  /\ ledger = << >>
  /\ manifest = "none"
  /\ record = [p \in Periods |-> NoRecord]
  /\ summary = FALSE
  /\ ev = [p \in Periods |-> NoTrace]
  /\ traceState = "empty"
  /\ pc = [j \in Jobs |-> "start"]
  /\ period = [j \in Jobs |-> 1]
  /\ fatal = [j \in Jobs |-> FALSE]
  /\ exec = [j \in Jobs |-> NoExec]
  /\ res = [j \in Jobs |-> NoResult]
  /\ seq = [j \in Jobs |-> 0]
  /\ live = [p \in Periods |-> "none"]
  /\ sampler = [p \in Periods |-> FALSE]
  /\ proof = [p \in Periods |-> FALSE]
  /\ signals = 0
  /\ spawns = [p \in Periods |-> 0]
  /\ hit = [p \in Periods |-> FALSE]
  /\ overlap = FALSE
  /\ unguarded = FALSE

-----------------------------------------------------------------------------
(* The journal. *)

Event(e, p, n) == [event |-> e, period |-> p, sequence |-> n]

Goto(j, from, to) ==
  /\ pc[j] = from
  /\ pc' = [pc EXCEPT ![j] = to]

Write(e, p, n) == ledger' = Append(ledger, Event(e, p, n))

(* Journal.emit: write, flush, fsync, and only then count.                 *)
Emit(j, e, p) ==
  /\ Write(e, p, seq[j])
  /\ seq' = [seq EXCEPT ![j] = @ + 1]

PairEvents == {"pair_claimed", "pair_started", "pair_terminal"}
PeriodEvents == {"dispatched", "spawned", "terminal"}

(* The steps that write an event. *)
Emitters ==
  {<<"claimed", "pair_claimed">>, <<"started", "pair_started">>,
   <<"dispatch", "dispatched">>, <<"emitSpawn", "spawned">>,
   <<"terminal", "terminal">>, <<"rejTerminal", "terminal">>,
   <<"close", "pair_terminal">>, <<"rejClose", "pair_terminal">>}

(* The event the runner is about to write, if any. *)
Emits(j) ==
  {Event(e, 0, seq[j]) : e \in {f \in PairEvents : <<pc[j], f>> \in Emitters}}
    \cup
  {Event(e, period[j], seq[j]) :
     e \in {f \in PeriodEvents : <<pc[j], f>> \in Emitters}}

(* An exception inside emit may leave the event written but not counted.   *)
InterruptedEmit(j) ==
  \/ ledger' = ledger
  \/ \E e \in Emits(j) : ledger' = Append(ledger, e)

-----------------------------------------------------------------------------
(* execute_pair up to the loop over the periods. *)

(* The matrix is verified before anything is claimed.                      *)
Enter(j) ==
  /\ pc[j] = "start"
  /\ \E next \in {"mkdir", "done"} : pc' = [pc EXCEPT ![j] = next]
  /\ UNCHANGED <<durable, trace, frame, seq, machine, observed>>

(* The pair's directory is not there.  Mutant: its name holds the job ID.  *)
MutantClaimFree(j) == claim # j

ClaimFree(j) == claim = NoJob

(* claim_pair: mkdir is exclusive, so is the ledger opened in it.          *)
ClaimPair(j) ==
  /\ ClaimFree(j)
  /\ Goto(j, "mkdir", "claimed")
  /\ claim' = j
  /\ UNCHANGED <<ledger, manifest, record, summary, trace, frame, seq,
                 machine, observed>>

ClaimTaken(j) ==
  /\ ~ClaimFree(j)
  /\ Goto(j, "mkdir", "done")
  /\ UNCHANGED <<durable, trace, frame, seq, machine, observed>>

RecordClaim(j) ==
  /\ Goto(j, "claimed", "verify")
  /\ Emit(j, "pair_claimed", 0)
  /\ UNCHANGED <<claim, manifest, record, summary, trace, frame, machine,
                 observed>>

(* The scheduler's record, the visible devices and their inventory are     *)
(* those of one whole four-GPU allocation, or they are not.                *)
AllocationContext == {"manifest", "rejManifest"}

(* Protocol, commit, rows and allocation are verified, or the claim is     *)
(* consumed by a rejection.                                                *)
Verify(j) ==
  /\ pc[j] = "verify"
  /\ \E next \in AllocationContext :
       pc' = [pc EXCEPT ![j] = next]
  /\ UNCHANGED <<durable, trace, frame, seq, machine, observed>>

RejectManifest(j) ==
  /\ Goto(j, "rejManifest", "rejRecord")
  /\ manifest' = "noalloc"
  /\ UNCHANGED <<claim, ledger, record, summary, trace, frame, seq, machine,
                 observed>>

RejectRecord(j) ==
  /\ Goto(j, "rejRecord", "rejTerminal")
  /\ record' = [record EXCEPT ![period[j]] = Blank("not_launched")]
  /\ UNCHANGED <<claim, ledger, manifest, summary, trace, frame, seq,
                 machine, observed>>

(* The last period is followed by the summary.                             *)
AfterPeriod(j, again, last) ==
  IF period[j] = 2
  THEN /\ pc' = [pc EXCEPT ![j] = last]
       /\ UNCHANGED period
  ELSE /\ pc' = [pc EXCEPT ![j] = again]
       /\ period' = [period EXCEPT ![j] = @ + 1]

RejectTerminal(j) ==
  /\ pc[j] = "rejTerminal"
  /\ AfterPeriod(j, "rejRecord", "rejSummary")
  /\ Emit(j, "terminal", period[j])
  /\ UNCHANGED <<claim, manifest, record, summary, trace, fatal, exec, res,
                 machine, observed>>

RejectSummary(j) ==
  /\ Goto(j, "rejSummary", "rejClose")
  /\ summary' = TRUE
  /\ UNCHANGED <<claim, ledger, manifest, record, trace, frame, seq, machine,
                 observed>>

(* The process ends: its frame is gone, and the scheduler ends what is     *)
(* left of the job, daemon threads and processes alike.                    *)
JobEnds(j) ==
  /\ period' = [period EXCEPT ![j] = 1]
  /\ fatal' = [fatal EXCEPT ![j] = FALSE]
  /\ exec' = [exec EXCEPT ![j] = NoExec]
  /\ res' = [res EXCEPT ![j] = NoResult]
  /\ seq' = [seq EXCEPT ![j] = 0]
  /\ live' = [p \in Periods |-> "none"]
  /\ sampler' = [p \in Periods |-> FALSE]
  /\ UNCHANGED proof

RejectClose(j) ==
  /\ Goto(j, "rejClose", "done")
  /\ Write("pair_terminal", 0, seq[j])
  /\ JobEnds(j)
  /\ UNCHANGED <<claim, manifest, record, summary, trace, observed>>

WriteManifest(j) ==
  /\ Goto(j, "manifest", "trace")
  /\ manifest' = "alloc"
  /\ UNCHANGED <<claim, ledger, record, summary, trace, frame, seq, machine,
                 observed>>

(* The trace is opened and the runner becomes a subreaper, or is fatal.    *)
OpenTrace(j) ==
  /\ Goto(j, "trace", "started")
  /\ \E failed \in BOOLEAN : fatal' = [fatal EXCEPT ![j] = failed]
  /\ UNCHANGED <<durable, trace, period, exec, res, seq, machine, observed>>

StartPair(j) ==
  /\ Goto(j, "started", "gate")
  /\ Emit(j, "pair_started", 0)
  /\ UNCHANGED <<claim, manifest, record, summary, trace, frame, machine,
                 observed>>

-----------------------------------------------------------------------------
(* One period, up to the payload. *)

(* The except clause of the period: what was launched is invalid now.      *)
Raised(r) ==
  IF r.launched THEN [r EXCEPT !.status = "infrastructure_invalid"] ELSE r

(* A line is added to the trace.                                           *)
Sampled == IF traceState = "empty" THEN "whole" ELSE traceState

(* The pre-period idle gate: two consecutive idle samples of all four GPUs. *)
GatePass(j) ==
  /\ ~fatal[j]
  /\ Goto(j, "gate", "prep")
  /\ ev' = [ev EXCEPT ![period[j]].pre = TRUE]
  /\ traceState' = Sampled
  /\ UNCHANGED <<durable, frame, seq, machine, observed>>

(* Already fatal, or the gate timed out, which is fatal, or a query raised. *)
GateFail(j) ==
  /\ Goto(j, "gate", "finish")
  /\ \E lasting \in BOOLEAN :
       fatal' = [fatal EXCEPT ![j] = @ \/ lasting]
  /\ traceState' \in {traceState} \cup IF fatal[j] THEN {} ELSE {Sampled}
  /\ UNCHANGED <<durable, ev, period, exec, res, seq, machine, observed>>

(* Time is left, the inputs are the frozen ones, the attempt directory is  *)
(* new, and dispatch.json is in it.                                        *)
Prepare(j) ==
  /\ Goto(j, "prep", "dispatch")
  /\ res' = [res EXCEPT ![j].files = TRUE]
  /\ UNCHANGED <<durable, trace, period, fatal, exec, seq, machine, observed>>

(* Too little time is fatal; an input that differs is not.                 *)
PrepareFail(j) ==
  /\ Goto(j, "prep", "finish")
  /\ \E lasting \in BOOLEAN, files \in BOOLEAN :
       /\ fatal' = [fatal EXCEPT ![j] = lasting]
       /\ res' = [res EXCEPT ![j].files = files]
  /\ UNCHANGED <<durable, trace, period, exec, seq, machine, observed>>

Dispatch(j) ==
  /\ Goto(j, "dispatch", "popen")
  /\ Emit(j, "dispatched", period[j])
  /\ UNCHANGED <<claim, manifest, record, summary, trace, frame, machine,
                 observed>>

-----------------------------------------------------------------------------
(* run_payload. *)

(* Period 1 left a process nobody has cleaned up, or its sampler.          *)
Remains == live[1] \in {"run", "left"} \/ sampler[1]

Popen(j) ==
  /\ Goto(j, "popen", "mark")
  /\ live' = [live EXCEPT ![period[j]] = "run"]
  /\ spawns' = [spawns EXCEPT ![period[j]] = @ + 1]
  /\ overlap' = (overlap \/ (period[j] = 2 /\ Remains))
  /\ UNCHANGED <<durable, trace, frame, seq, sampler, proof, signals, hit,
                 unguarded>>

PopenFail(j) ==
  /\ Goto(j, "popen", "stop")
  /\ exec' = [exec EXCEPT ![j].invalid = TRUE]
  /\ UNCHANGED <<durable, trace, period, fatal, res, seq, machine, observed>>

(* `process = Popen(...)` is assigned and spawned is set: a separate step,  *)
(* for a signal may fall before it.                                        *)
Mark(j) ==
  /\ Goto(j, "mark", "emitSpawn")
  /\ exec' = [exec EXCEPT ![j].spawned = TRUE, ![j].tracked = TRUE]
  /\ UNCHANGED <<durable, trace, period, fatal, res, seq, machine, observed>>

(* The spawn is journaled and the sampler thread started.                  *)
RecordSpawn(j) ==
  /\ Goto(j, "emitSpawn", "wait")
  /\ Emit(j, "spawned", period[j])
  /\ sampler' = [sampler EXCEPT ![period[j]] = TRUE]
  /\ UNCHANGED <<claim, manifest, record, summary, trace, frame, live, proof,
                 observed>>

(* The sampler thread: a sample is judged, written and counted.            *)
Tick(j) ==
  /\ pc[j] \in {"wait", "stop"}
  /\ sampler[period[j]]
  /\ \E bad \in BOOLEAN :
       /\ exec' = [exec EXCEPT ![j].dirty = @ \/ bad]
       /\ ev' = [ev EXCEPT ![period[j]].samples = TRUE,
                           ![period[j]].tainted = @ \/ bad]
  /\ UNCHANGED <<durable, traceState, pc, period, fatal, res, seq, machine,
                 observed>>

(* A query or a write of the sampler raised: the thread ends.              *)
SamplerFail(j) ==
  /\ pc[j] \in {"wait", "stop"}
  /\ sampler[period[j]]
  /\ sampler' = [sampler EXCEPT ![period[j]] = FALSE]
  /\ exec' = [exec EXCEPT ![j].invalid = TRUE]
  /\ UNCHANGED <<durable, trace, pc, period, fatal, res, seq, live, proof,
                 observed>>

(* The poll loop: the payload exited, its time is over, the allocation's   *)
(* is, or the sampler failed.                                              *)
PayloadExit(j) ==
  /\ Goto(j, "wait", "stop")
  /\ exec' = [exec EXCEPT ![j].end = "exit"]
  /\ \E full \in BOOLEAN : proof' = [proof EXCEPT ![period[j]] = full]
  /\ UNCHANGED <<durable, trace, period, fatal, res, seq, live, sampler,
                 observed>>

(* Mutant: no deadline.                                                    *)
MutantPayloadStopped(j) ==
  /\ Goto(j, "wait", "stop")
  /\ exec[j].invalid
  /\ UNCHANGED exec
  /\ UNCHANGED <<durable, trace, period, fatal, res, seq, machine, observed>>

PayloadStopped(j) ==
  /\ Goto(j, "wait", "stop")
  /\ \/ \E late \in BOOLEAN :
          exec' = [exec EXCEPT ![j].end = "cut", ![j].invalid = @ \/ late]
     \/ exec[j].invalid /\ UNCHANGED exec
  /\ UNCHANGED <<durable, trace, period, fatal, res, seq, machine, observed>>

(* finally: the sampler is told to stop and joined, which may time out.    *)
JoinSampler(j) ==
  LET p == period[j] IN
  /\ Goto(j, "stop", "cleanup")
  /\ \E joined \in IF sampler[p] THEN BOOLEAN ELSE {TRUE} :
       /\ sampler' = [sampler EXCEPT ![p] = @ /\ ~joined]
       /\ exec' = [exec EXCEPT
            ![j].joined = joined,
            ![j].invalid = @ \/ ~joined \/ ~ev[p].samples]
  /\ UNCHANGED <<durable, trace, period, fatal, res, seq, live, proof, observed>>

(* cleanup_children ends every process the runner knows of, or leaves one. *)
(* Without a process object there is nothing to clean up.                  *)
Cleanup(j) ==
  LET p == period[j] IN
  /\ Goto(j, "cleanup", "assess")
  /\ \E complete \in IF exec[j].tracked THEN BOOLEAN ELSE {TRUE} :
       /\ exec' = [exec EXCEPT ![j].complete = complete /\ exec[j].joined]
       /\ IF exec[j].tracked
          THEN live' = [live EXCEPT
                 ![p] = IF complete THEN "cleaned" ELSE "left"]
          ELSE UNCHANGED live
  /\ UNCHANGED <<durable, trace, period, fatal, res, seq, sampler, proof,
                 observed>>

-----------------------------------------------------------------------------
(* One period, after the payload. *)

(* assess_period: an invalid invocation is nothing, whatever its log says. *)
Sound(x) == ~x.invalid /\ x.complete /\ x.end = "exit"

Assessment(x, full) ==
  IF Sound(x) /\ ~x.dirty /\ full
  THEN "validated" ELSE "infrastructure_invalid"

Assess(j) ==
  /\ Goto(j, "assess", "post")
  /\ res' = [res EXCEPT
       ![j].launched = exec[j].spawned,
       ![j].status = Assessment(exec[j], proof[period[j]])]
  /\ UNCHANGED <<durable, trace, period, fatal, exec, seq, machine, observed>>

(* The assessment raises what it does not catch.                           *)
AssessRaises(j) ==
  /\ Goto(j, "assess", "finish")
  /\ res' = [res EXCEPT ![j] = Raised([@ EXCEPT !.launched = exec[j].spawned])]
  /\ UNCHANGED <<durable, trace, period, fatal, exec, seq, machine, observed>>

(* The post-period idle gate, and what makes the pair stop.                *)
PostIdle(j) ==
  /\ Goto(j, "post", "finish")
  /\ ev' = [ev EXCEPT ![period[j]].post = TRUE]
  /\ fatal' = [fatal EXCEPT ![j] =
       @ \/ ~exec[j].complete \/ exec[j].interrupted]
  /\ UNCHANGED <<durable, traceState, period, exec, res, seq, machine,
                 observed>>

PostNotIdle(j) ==
  /\ Goto(j, "post", "finish")
  /\ fatal' = [fatal EXCEPT ![j] = TRUE]
  /\ UNCHANGED <<durable, trace, period, exec, res, seq, machine, observed>>

(* A query of the post gate raises: the lines that set fatal are skipped.  *)
PostRaises(j) ==
  /\ Goto(j, "post", "finish")
  /\ res' = [res EXCEPT ![j] = Raised(@)]
  /\ UNCHANGED <<durable, trace, period, fatal, exec, seq, machine, observed>>

RecordOf(j) ==
  [launched |-> res[j].launched, status |-> res[j].status,
   files |-> res[j].files, sound |-> Sound(exec[j]),
   dirty |-> exec[j].dirty]

(* The period's record, launched or not.  Mutant: launched only.           *)
MutantFinish(j) ==
  /\ Goto(j, "finish", "terminal")
  /\ record' = IF res[j].launched
               THEN [record EXCEPT ![period[j]] = RecordOf(j)]
               ELSE record
  /\ UNCHANGED <<claim, ledger, manifest, summary, trace, frame, seq, machine,
                 observed>>

Finish(j) ==
  /\ Goto(j, "finish", "terminal")
  /\ record' = [record EXCEPT ![period[j]] = RecordOf(j)]
  /\ UNCHANGED <<claim, ledger, manifest, summary, trace, frame, seq, machine,
                 observed>>

Terminal(j) ==
  /\ pc[j] = "terminal"
  /\ AfterPeriod(j, "gate", "summary")
  /\ Emit(j, "terminal", period[j])
  /\ res' = [res EXCEPT ![j] = NoResult]
  /\ exec' = [exec EXCEPT ![j] = NoExec]
  /\ UNCHANGED <<claim, manifest, record, summary, trace, fatal, machine,
                 observed>>

Summarise(j) ==
  /\ Goto(j, "summary", "close")
  /\ summary' = TRUE
  /\ UNCHANGED <<claim, ledger, manifest, record, trace, frame, seq, machine,
                 observed>>

ClosePair(j) ==
  /\ Goto(j, "close", "done")
  /\ Write("pair_terminal", 0, seq[j])
  /\ JobEnds(j)
  /\ UNCHANGED <<claim, manifest, record, summary, trace, observed>>

-----------------------------------------------------------------------------
(* Signals: InterruptedError at the step the runner is about to take.      *)

Deliver == signals < MaxSignals /\ signals' = signals + 1

Unheard == UNCHANGED <<spawns, hit, overlap>>

(* Before the claim nothing is lost.                                       *)
InterruptEarly(j) ==
  /\ Deliver
  /\ pc[j] \in {"start", "mkdir"}
  /\ pc' = [pc EXCEPT ![j] = "done"]
  /\ Unheard
  /\ UNCHANGED <<durable, trace, frame, seq, machine, unguarded>>

(* Outside every try: the exception ends the process.  A file being        *)
(* written stays partial.                                                  *)
InterruptBare(j) ==
  /\ Deliver
  /\ pc[j] \in {"claimed", "rejManifest", "rejRecord", "rejTerminal",
                "rejSummary", "rejClose", "manifest", "trace", "summary",
                "close"}
  /\ pc' = [pc EXCEPT ![j] = "done"]
  /\ JobEnds(j)
  /\ InterruptedEmit(j)
  /\ \/ UNCHANGED <<manifest, record>>
     \/ /\ pc[j] \in {"manifest", "rejManifest"}
        /\ manifest' = "partial" /\ UNCHANGED record
     \/ /\ pc[j] = "rejRecord"
        /\ record' = [record EXCEPT ![period[j]] = Partial]
        /\ UNCHANGED manifest
  /\ unguarded' = TRUE
  /\ Unheard
  /\ UNCHANGED <<claim, summary, trace>>

(* During verification the claim is rejected.                              *)
InterruptVerify(j) ==
  /\ Deliver
  /\ Goto(j, "verify", "rejManifest")
  /\ Unheard
  /\ UNCHANGED <<durable, trace, frame, seq, machine, unguarded>>

(* At the head of the loop, before a period's own try: the outer finally   *)
(* still writes the summary, and that period has no record and no event.   *)
InterruptStart(j) ==
  /\ Deliver
  /\ pc[j] \in {"started", "gate"}
  /\ pc' = [pc EXCEPT ![j] = "summary"]
  /\ InterruptedEmit(j)
  /\ unguarded' = TRUE
  /\ Unheard
  /\ UNCHANGED <<claim, manifest, record, summary, trace, frame, seq,
                 machine>>

(* In the period's try, around run_payload: the gate's last sample or the  *)
(* attempt directory may be there already.                                 *)
InterruptTry(j) ==
  /\ Deliver
  /\ pc[j] \in {"gate", "prep", "dispatch"}
  /\ pc' = [pc EXCEPT ![j] = "finish"]
  /\ InterruptedEmit(j)
  /\ fatal' = [fatal EXCEPT ![j] = TRUE]
  /\ \/ UNCHANGED <<trace, res>>
     \/ /\ pc[j] = "gate" /\ ~fatal[j]
        /\ traceState' = Sampled
        /\ \E pre \in BOOLEAN : ev' = [ev EXCEPT ![period[j]].pre = pre]
        /\ UNCHANGED res
     \/ /\ pc[j] = "prep"
        /\ res' = [res EXCEPT ![j].files = TRUE]
        /\ UNCHANGED trace
  /\ Unheard
  /\ UNCHANGED <<claim, manifest, record, summary, period, exec, seq, machine,
                 unguarded>>

(* In run_payload's try: caught there.  Popen may have started the process *)
(* without `process` being assigned.                                       *)
InterruptPayload(j) ==
  /\ Deliver
  /\ pc[j] \in {"popen", "mark", "emitSpawn", "wait"}
  /\ pc' = [pc EXCEPT ![j] = "stop"]
  /\ InterruptedEmit(j)
  /\ \E tracked \in IF pc[j] = "mark" THEN BOOLEAN ELSE {exec[j].tracked} :
       exec' = [exec EXCEPT ![j].tracked = tracked, ![j].invalid = TRUE,
                            ![j].interrupted = TRUE]
  /\ hit' = [hit EXCEPT ![period[j]] = TRUE]
  /\ UNCHANGED <<claim, manifest, record, summary, trace, period, fatal, res,
                 seq, machine, spawns, overlap, unguarded>>

(* Between the sampler's construction and its start: the finally joins a   *)
(* thread that was never started, which raises a RuntimeError.  That is no *)
(* interrupt to execute_pair: the payload runs on, nothing is fatal.       *)
InterruptUnstarted(j) ==
  /\ Deliver
  /\ Goto(j, "emitSpawn", "finish")
  /\ Emit(j, "spawned", period[j])
  /\ exec' = [exec EXCEPT ![j] = NoExec]
  /\ hit' = [hit EXCEPT ![period[j]] = TRUE]
  /\ UNCHANGED <<claim, manifest, record, summary, trace, period, fatal, res,
                 machine, spawns, overlap, unguarded>>

(* In run_payload's finally: the exception leaves run_payload, and its     *)
(* result with it; `launched` keeps its first value.  Mutant: a return in  *)
(* the finally swallows the exception.                                     *)
MutantInterruptCleanup(j) ==
  /\ Deliver
  /\ Goto(j, "stop", "cleanup")
  /\ hit' = [hit EXCEPT ![period[j]] = TRUE]
  /\ UNCHANGED <<durable, trace, frame, seq, machine, spawns, overlap,
                 unguarded>>

InterruptCleanup(j) ==
  /\ Deliver
  /\ pc[j] \in {"stop", "cleanup"}
  /\ pc' = [pc EXCEPT ![j] = "finish"]
  /\ exec' = [exec EXCEPT ![j] = NoExec]
  /\ fatal' = [fatal EXCEPT ![j] = TRUE]
  /\ hit' = [hit EXCEPT ![period[j]] = TRUE]
  /\ \/ UNCHANGED live
     \/ /\ pc[j] = "cleanup" /\ exec[j].tracked
        /\ live' = [live EXCEPT ![period[j]] = "cleaned"]
  /\ UNCHANGED <<durable, trace, period, res, seq, sampler, proof, spawns,
                 overlap, unguarded>>

(* In the period's try after run_payload: before or after its result is    *)
(* taken over, before or after the last idle sample.                       *)
InterruptAssess(j) ==
  /\ Deliver
  /\ pc[j] \in {"assess", "post"}
  /\ pc' = [pc EXCEPT ![j] = "finish"]
  /\ fatal' = [fatal EXCEPT ![j] = TRUE]
  /\ \/ /\ pc[j] = "assess"
        /\ exec' = [exec EXCEPT ![j] = NoExec]
        /\ UNCHANGED <<res, ev>>
     \/ /\ pc[j] = "assess"
        /\ res' = [res EXCEPT
             ![j] = Raised([@ EXCEPT !.launched = exec[j].spawned])]
        /\ UNCHANGED <<exec, ev>>
     \/ /\ pc[j] = "post"
        /\ res' = [res EXCEPT ![j] = Raised(@)]
        /\ \/ UNCHANGED ev
           \/ ev' = [ev EXCEPT ![period[j]].post = TRUE]
        /\ UNCHANGED exec
  /\ Unheard
  /\ UNCHANGED <<durable, traceState, period, seq, machine, unguarded>>

(* In the period's finally: the record or its terminal event is lost, and  *)
(* the pair goes to its summary.  Mutant: to its next period.              *)
MutantInterruptFinally(j) ==
  /\ Deliver
  /\ pc[j] = "finish" /\ period[j] = 1
  /\ pc' = [pc EXCEPT ![j] = "gate"]
  /\ period' = [period EXCEPT ![j] = 2]
  /\ Unheard
  /\ UNCHANGED <<durable, trace, fatal, exec, res, seq, machine, unguarded>>

InterruptFinally(j) ==
  /\ Deliver
  /\ pc[j] \in {"finish", "terminal"}
  /\ pc' = [pc EXCEPT ![j] = "summary"]
  /\ InterruptedEmit(j)
  /\ \/ UNCHANGED record
     \/ /\ pc[j] = "finish"
        /\ record' = [record EXCEPT ![period[j]] = Partial]
  /\ unguarded' = TRUE
  /\ Unheard
  /\ UNCHANGED <<claim, manifest, summary, trace, frame, seq, machine>>

Interrupt(j) ==
  \/ InterruptEarly(j) \/ InterruptBare(j) \/ InterruptVerify(j)
  \/ InterruptStart(j) \/ InterruptTry(j) \/ InterruptPayload(j)
  \/ InterruptUnstarted(j) \/ InterruptCleanup(j) \/ InterruptAssess(j) \/ InterruptFinally(j)

(* The steps that write the trace, or whose sampler does.                  *)
TraceWriters == {"gate", "post", "wait", "stop"}

(* A killed runner leaves the line it was writing torn, or the file.  One  *)
(* killed before its claim has only not come.                              *)
Torn == Event("torn", 0, 99)

Crash(j) ==
  /\ pc[j] \notin {"start", "mkdir", "done", "dead"}
  /\ pc' = [pc EXCEPT ![j] = "dead"]
  /\ JobEnds(j)
  /\ \/ UNCHANGED <<ledger, manifest, record>>
     \/ /\ Emits(j) # {}
        /\ ledger' = Append(ledger, Torn) /\ UNCHANGED <<manifest, record>>
     \/ /\ pc[j] \in {"manifest", "rejManifest"}
        /\ manifest' = "partial" /\ UNCHANGED <<ledger, record>>
     \/ /\ pc[j] \in {"finish", "rejRecord"}
        /\ record' = [record EXCEPT ![period[j]] = Partial]
        /\ UNCHANGED <<ledger, manifest>>
  /\ \E torn \in IF pc[j] \in TraceWriters \/ \E p \in Periods : sampler[p]
                 THEN BOOLEAN ELSE {FALSE} :
       traceState' = IF torn THEN "broken" ELSE traceState
  /\ UNCHANGED <<claim, summary, ev, observed>>

-----------------------------------------------------------------------------
(* A sampler thread that outlived its join.  It shares the trace with the  *)
(* main thread and with the next sampler, and a sequence number with them; *)
(* a signal in the main thread's write leaves one that was not counted.    *)

Outlived(j, p) ==
  /\ claim = j /\ pc[j] \notin {"done", "dead"}
  /\ sampler[p]
  /\ p # period[j] \/ pc[j] \notin {"wait", "stop"}

LateTick(j, p) ==
  /\ Outlived(j, p)
  /\ \E twice \in IF pc[j] \in TraceWriters \/ signals > 0
                  THEN BOOLEAN ELSE {FALSE} :
       traceState' = IF twice THEN "broken" ELSE traceState
  /\ ev' = [ev EXCEPT ![p].late = TRUE]
  /\ UNCHANGED <<durable, pc, frame, seq, machine, observed>>

LateStop(j, p) ==
  /\ Outlived(j, p)
  /\ sampler' = [sampler EXCEPT ![p] = FALSE]
  /\ UNCHANGED <<durable, trace, pc, frame, seq, live, proof, observed>>

-----------------------------------------------------------------------------
(* The steps of the runner itself, and everything that happens to it.      *)

Claiming(j) ==
  Enter(j) \/ ClaimPair(j) \/ ClaimTaken(j) \/ RecordClaim(j) \/ Verify(j)

Rejecting(j) ==
  \/ RejectManifest(j) \/ RejectRecord(j) \/ RejectTerminal(j)
  \/ RejectSummary(j) \/ RejectClose(j)

Starting(j) == WriteManifest(j) \/ OpenTrace(j) \/ StartPair(j)

Launching(j) ==
  \/ GatePass(j) \/ GateFail(j) \/ Prepare(j) \/ PrepareFail(j)
  \/ Dispatch(j) \/ Popen(j) \/ PopenFail(j) \/ Mark(j) \/ RecordSpawn(j)

Ending(j) == PayloadStopped(j) \/ JoinSampler(j) \/ Cleanup(j)

Settling(j) ==
  \/ Assess(j) \/ AssessRaises(j) \/ PostIdle(j) \/ PostNotIdle(j)
  \/ PostRaises(j) \/ Finish(j) \/ Terminal(j) \/ Summarise(j)
  \/ ClosePair(j)

Runner(j) ==
  \/ Claiming(j) \/ Rejecting(j) \/ Starting(j) \/ Launching(j)
  \/ Ending(j) \/ Settling(j)

Sampling(j) ==
  \/ Tick(j) \/ SamplerFail(j)
  \/ \E p \in Periods : LateTick(j, p) \/ LateStop(j, p)

Next ==
  \E j \in Jobs :
    \/ Runner(j) \/ PayloadExit(j) \/ Sampling(j)
    \/ Interrupt(j) \/ Crash(j)

(* The runner never blocks for ever: each wait of its code has a timeout.  *)
(* That the payload exits is not assumed.                                  *)
Fairness == \A j \in Jobs : WF_vars(Runner(j))

Spec == Init /\ [][Next]_vars /\ Fairness

-----------------------------------------------------------------------------
(* Properties. *)

RecordType ==
  [launched : BOOLEAN, status : Statuses \cup {"none", "partial"},
   files : BOOLEAN, sound : BOOLEAN, dirty : BOOLEAN]

ExecType ==
  [spawned : BOOLEAN, tracked : BOOLEAN,
   end : Ends, invalid : BOOLEAN,
   dirty : BOOLEAN, joined : BOOLEAN, complete : BOOLEAN,
   interrupted : BOOLEAN]

ResultType == [launched : BOOLEAN, status : Statuses, files : BOOLEAN]

TraceType == [pre : BOOLEAN, samples : BOOLEAN, tainted : BOOLEAN,
              late : BOOLEAN, post : BOOLEAN]

EventType ==
  [event : PairEvents \cup PeriodEvents \cup {"torn"}, period : 0..2,
   sequence : Nat]

Labels ==
  {"start", "mkdir", "claimed", "verify", "rejManifest", "rejRecord",
   "rejTerminal", "rejSummary", "rejClose", "manifest", "trace", "started",
   "gate", "prep", "dispatch", "popen", "mark", "emitSpawn", "wait", "stop",
   "cleanup", "assess", "post", "finish", "terminal", "summary", "close",
   "done", "dead"}

Ended(j) == pc[j] \in {"done", "dead"}

(* Every variable has its type, at every step of every job; a slot's       *)
(* payload is started at most once.                                        *)
TypeOK ==
  /\ claim \in Jobs \cup {NoJob}
  /\ ledger \in Seq(EventType)
  /\ manifest \in {"none", "partial", "noalloc", "alloc"}
  /\ record \in [Periods -> RecordType]
  /\ summary \in BOOLEAN
  /\ ev \in [Periods -> TraceType]
  /\ traceState \in {"empty", "whole", "broken"}
  /\ pc \in [Jobs -> Labels]
  /\ period \in [Jobs -> Periods]
  /\ fatal \in [Jobs -> BOOLEAN]
  /\ exec \in [Jobs -> ExecType]
  /\ res \in [Jobs -> ResultType]
  /\ seq \in [Jobs -> Nat]
  /\ live \in [Periods -> {"none", "run", "left", "cleaned"}]
  /\ sampler \in [Periods -> BOOLEAN]
  /\ proof \in [Periods -> BOOLEAN]
  /\ signals \in 0..MaxSignals
  /\ spawns \in [Periods -> Nat]
  /\ hit \in [Periods -> BOOLEAN]
  /\ overlap \in BOOLEAN
  /\ unguarded \in BOOLEAN

(* The no-retry claim (claim_pair): whatever jobs, signals and crashes     *)
(* come, the payload of a slot is started at most once.                    *)
LaunchedAtMostOnce == \A p \in Periods : spawns[p] <= 1

(* The finally clauses of execute_pair: a claimed pair whose signals all   *)
(* fell where a handler accounts for the slot ends with both period        *)
(* records, both terminal events, the summary and its terminal event.      *)
Logged(e, p) ==
  \E i \in 1..Len(ledger) : ledger[i].event = e /\ ledger[i].period = p

Accounted ==
  \A j \in Jobs :
    claim = j /\ pc[j] = "done" /\ ~unguarded =>
      /\ manifest \in {"noalloc", "alloc"}
      /\ summary
      /\ Logged("pair_terminal", 0)
      /\ \A p \in Periods :
           record[p].status \in Statuses /\ Logged("terminal", p)

(* Every claimed pair is brought to an end: the claimant exits, killed or  *)
(* not, and does not stay in a gate, a poll loop or a join.                *)
ClaimEnds == \A j \in Jobs : claim = j ~> Ended(j)

Settled(p) == record[p].status \in Statuses

(* The runner implements the one-shot pair.                                *)
Abstract == INSTANCE OneShotPair WITH
  owner <- claim,
  launched <- {p \in Periods : spawns[p] > 0},
  settled <- {p \in Periods : Settled(p)},
  closed <- \E j \in Jobs : claim = j /\ Ended(j)

ImplementsOneShot == Abstract!Spec

(* Why it does: the strengthening that every step preserves.  Only the     *)
(* claimant is past its claim, it has settled every period before the one  *)
(* it is in, and it has launched and settled no period after it, nor the   *)
(* one it is in while it stands before the step that does so.              *)
Unlaunched ==
  {"claimed", "verify", "manifest", "trace", "started", "gate", "prep",
   "dispatch", "popen"}

Unrecorded ==
  Unlaunched \cup {"rejManifest", "rejRecord", "mark", "emitSpawn", "wait",
                   "stop", "cleanup", "assess", "post", "finish"}

OwnerActs ==
  \A j \in Jobs :
    /\ pc[j] \notin {"start", "mkdir", "done", "dead"} => claim = j
    /\ pc[j] \in {"start", "mkdir"} => claim # j /\ period[j] = 1

UnclaimedEmpty ==
  claim = NoJob => \A p \in Periods : spawns[p] = 0 /\ ~Settled(p)

InOrder(j) ==
  \A p \in Periods :
    /\ p > period[j] => spawns[p] = 0 /\ ~Settled(p)
    /\ p < period[j] => Settled(p)
    /\ p = period[j] =>
         /\ pc[j] \in Unlaunched => spawns[p] = 0
         /\ pc[j] \in Unrecorded => ~Settled(p)
         /\ pc[j] \in {"terminal", "rejTerminal"} => Settled(p)

OneShotInv ==
  /\ OwnerActs
  /\ UnclaimedEmpty
  /\ \A j \in Jobs : claim = j /\ ~Ended(j) => InOrder(j)
  /\ LaunchedAtMostOnce

(* run_payload's comment: "A still-running sampler must never overlap a    *)
(* subsequent period."  What enforces it is the fatal error after the post *)
(* gate, and both ways past it are steps of the runner: the assessment     *)
(* raises (AssessRaises), or a query of the post gate does (PostRaises).   *)
SamplerNeverOverlaps ==
  \A j \in Jobs : pc[j] \in {"mark", "emitSpawn", "wait"} /\ period[j] = 2
                    => ~sampler[1]

=============================================================================
