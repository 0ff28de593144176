--------------------------- MODULE PayloadBudget ---------------------------
(***************************************************************************)
(* The runner's clock: how wait_idle, the check before a launch, the poll  *)
(* loop of run_payload, its sampler join and cleanup_children divide the   *)
(* time of an allocation (memory_tuner/run_matched_gpu.py).                *)
(*                                                                         *)
(* One runner, no signals: MatchedPair has those.  A step lets the clock   *)
(* run for as long as its own timeout allows, and at most Lag beyond it    *)
(* for the code around the wait.  Time is zero when execute_pair computes  *)
(* its deadline, and its unit is whatever the constants are given in.      *)
(***************************************************************************)
EXTENDS Integers

CONSTANTS
  Deadline,        (* The allocation's end less five seconds.               *)
  PayloadTimeout,  (* PAYLOAD_TIMEOUT.                                      *)
  Reserve,         (* CLEANUP_RESERVE.                                      *)
  IdleTimeout,     (* IDLE_TIMEOUT.                                         *)
  Query,           (* The longest sample_allocation: two nvidia-smi calls.  *)
  Pause,           (* Between two samples of a gate.                        *)
  Nap,             (* Between two looks at the payload.                     *)
  Join, Grace, Wait, WaitFloor, Settle, (* Timeouts of the clean-up.        *)
  Work,            (* Bound: the longest stretch of file work, such as the  *)
                   (* preparation of a launch or the assessment.  Nothing   *)
                   (* in the code bounds it, and nothing here assumes that  *)
                   (* it is short.                                          *)
  Lag              (* Bound: the code around a wait.                        *)

ASSUME TimesAreNat ==
  /\ Deadline \in Nat /\ PayloadTimeout \in Nat /\ Reserve \in Nat
  /\ IdleTimeout \in Nat /\ Query \in Nat /\ Pause \in Nat /\ Nap \in Nat
  /\ Join \in Nat /\ Grace \in Nat /\ Wait \in Nat /\ WaitFloor \in Nat
  /\ Settle \in Nat /\ Work \in Nat /\ Lag \in Nat

(* 25 + 15 + 5 + 5 seconds and two naps of a tenth fit into 60: what is    *)
(* left is room for the code in between.                                   *)
ASSUME ReserveFits ==
  /\ WaitFloor <= Wait
  /\ 2 * Nap + Join + Grace + Wait + Settle + 6 * Lag <= Reserve

VARIABLES
  now,      (* time.monotonic().                                            *)
  pc,       (* The next step.                                               *)
  period,   (* The period of the loop.                                      *)
  until,    (* `deadline` of the wait_idle under way.                       *)
  idle,     (* `consecutive` of the wait_idle under way.                    *)
  started,  (* `started` of the period's run_payload.                       *)
  (* Observation only, of the period under way. *)
  checked,  (* When its launch was found to fit.                            *)
  ended,    (* When its poll loop was left.                                 *)
  cause,    (* Why it was left.                                             *)
  cleaned   (* When cleanup_children gave its verdict.                      *)

vars == <<now, pc, period, until, idle, checked, started, ended, cause, cleaned>>

Causes == {"none", "exit", "timeout", "deadline", "sampler"}

Unset == -1

Least(a, b) == IF a < b THEN a ELSE b
Most(a, b) == IF a < b THEN b ELSE a

(* max(0, min(t, deadline - now)): a wait that ends with the allocation.   *)
Within(t) == Most(0, Least(t, Deadline - now))

(* The clock runs for at most d and some lag.                              *)
Pass(d) == \E t \in 0..(d + Lag) : now' = now + t

Goto(from, to) == pc = from /\ pc' = to

Init ==
  /\ now = 0
  /\ pc = "pre"
  /\ period = 1
  /\ until = Least(IdleTimeout, Deadline)
  /\ idle = 0
  /\ checked = Unset
  /\ started = Unset
  /\ ended = Unset
  /\ cause = "none"
  /\ cleaned = Unset

gate == <<until, idle>>
marks == <<started, checked, ended, cause, cleaned>>

-----------------------------------------------------------------------------
(* The idle gates. *)

Gates == {"pre", "post"}

OpenGate ==
  /\ until' = Least(now' + IdleTimeout, Deadline)
  /\ idle' = 0

(* The next period, if there is one and nothing was fatal.                 *)
NextPeriod(fatal) ==
  IF period = 1 /\ ~fatal
  THEN /\ pc' = "pre"
       /\ period' = 2
       /\ OpenGate
       /\ started' = Unset /\ checked' = Unset /\ ended' = Unset
       /\ cause' = "none" /\ cleaned' = Unset
  ELSE /\ pc' = "done"
       /\ UNCHANGED <<period, gate, marks>>

(* A sample of the allocation, and the pause after one that does not pass. *)
GateSample ==
  /\ pc \in Gates
  /\ now < until
  /\ \E t \in 0..(Query + Lag), sampleIdle \in BOOLEAN :
       LET consecutive == IF sampleIdle THEN idle + 1 ELSE 0
           pause == Least(Pause, Most(0, until - (now + t)))
       IN /\ consecutive < 2
          /\ now' = now + t + pause
          /\ idle' = consecutive
  /\ UNCHANGED <<pc, period, until, marks>>

GatePass ==
  /\ now < until
  /\ idle = 1
  /\ Pass(Query)
  /\ \/ /\ Goto("pre", "check")
        /\ UNCHANGED <<period, gate, marks>>
     \/ /\ pc = "post"
        /\ \E complete \in BOOLEAN : NextPeriod(~complete)

GateFail ==
  /\ pc \in Gates
  /\ now >= until
  /\ Pass(0)
  /\ NextPeriod(TRUE)

(* A query fails or times out: the period ends, and it is not fatal. *)
GateRaises ==
  /\ pc \in Gates
  /\ now < until
  /\ Pass(Query)
  /\ NextPeriod(FALSE)

-----------------------------------------------------------------------------
(* The launch. *)

(* Mutant: the clean-up's reserve is forgotten.                            *)
MutantTimeLeft == Deadline - now >= PayloadTimeout

TimeLeft == Deadline - now >= PayloadTimeout + Reserve

Check ==
  /\ Goto("check", "prepare")
  /\ TimeLeft
  /\ checked' = now
  /\ UNCHANGED <<now, period, gate, started, ended, cause, cleaned>>

CheckFail ==
  /\ pc = "check"
  /\ ~TimeLeft
  /\ Pass(0)
  /\ NextPeriod(TRUE)

(* The environment, the frozen files, the data, the snapshot, the attempt  *)
(* directory and dispatch.json; then run_payload starts its clock.         *)
Prepare ==
  /\ Goto("prepare", "poll")
  /\ Pass(Work)
  /\ started' = now'
  /\ UNCHANGED <<period, gate, checked, ended, cause, cleaned>>

PrepareFail ==
  /\ pc = "prepare"
  /\ Pass(Work)
  /\ NextPeriod(FALSE)

-----------------------------------------------------------------------------
(* The poll loop. *)

(* Mutant: the timeout is stretched by the reserve.                        *)
MutantTimedOut == now - started >= PayloadTimeout + Reserve

TimedOut == now - started >= PayloadTimeout

(* Mutant: the payload may use the whole allocation.                       *)
MutantOutOfTime == now >= Deadline

OutOfTime == now >= Deadline - Reserve

(* What the loop finds, in the order of its tests. *)
Found(why) ==
  \/ why = "exit"
  \/ why = "timeout" /\ TimedOut
  \/ why = "deadline" /\ OutOfTime /\ ~TimedOut
  \/ why = "sampler" /\ ~OutOfTime /\ ~TimedOut

PollEnds(why) ==
  /\ Goto("poll", "join")
  /\ Found(why)
  /\ Pass(0)
  /\ ended' = now
  /\ cause' = why
  /\ UNCHANGED <<period, gate, checked, started, cleaned>>

(* The loop sleeps a nap, or what is left of the payload's time. *)
PollAgain ==
  /\ pc = "poll"
  /\ ~TimedOut
  /\ ~OutOfTime
  /\ Pass(Least(Nap, Most(0, PayloadTimeout - (now - started))))
  /\ now' # now
  /\ UNCHANGED <<pc, period, gate, marks>>

-----------------------------------------------------------------------------
(* The clean-up: join the sampler, TERM and grace, KILL and wait, settle.  *)

JoinSampler ==
  /\ Goto("join", "grace")
  /\ Pass(Within(Join))
  /\ UNCHANGED <<period, gate, marks>>

(* The loop looks at the clock after every nap. *)
GraceEnds ==
  /\ Goto("grace", "wait")
  /\ Pass(IF Within(Grace) = 0 THEN 0 ELSE Within(Grace) + Nap)
  /\ UNCHANGED <<period, gate, marks>>

WaitEnds ==
  /\ Goto("wait", "settle")
  /\ Pass(Most(WaitFloor, Least(Wait, Deadline - now)))
  /\ UNCHANGED <<period, gate, marks>>

Verdict ==
  /\ Goto("settle", "assess")
  /\ Pass(Within(Settle))
  /\ cleaned' = now'
  /\ UNCHANGED <<period, gate, checked, started, ended, cause>>

(* assess_period, then the post gate opens. *)
Assess ==
  /\ Goto("assess", "post")
  /\ Pass(Work)
  /\ OpenGate
  /\ UNCHANGED <<period, marks>>

Next ==
  \/ GateSample \/ GatePass \/ GateFail \/ GateRaises
  \/ Check \/ CheckFail \/ Prepare \/ PrepareFail
  \/ \E why \in Causes : PollEnds(why)
  \/ PollAgain
  \/ JoinSampler \/ GraceEnds \/ WaitEnds \/ Verdict \/ Assess

Spec == Init /\ [][Next]_vars

-----------------------------------------------------------------------------
(* Properties. *)

Steps == Gates \cup {"check", "prepare", "poll", "join", "grace", "wait",
                     "settle", "assess", "done"}

TypeOK ==
  /\ now \in Nat
  /\ pc \in Steps
  /\ period \in 1..2
  /\ until \in Int
  /\ idle \in 0..1
  /\ checked \in Int
  /\ started \in Int
  /\ ended \in Int
  /\ cause \in Causes
  /\ cleaned \in Int

(* Whatever ends a payload, its processes are cleaned up and the verdict   *)
(* is given before the allocation's deadline: CLEANUP_RESERVE, held back   *)
(* by the check of the time left and by the poll loop, covers the sampler  *)
(* join, the grace, both waits and the code between them.  Where the file  *)
(* work before a launch took so long that it came within the reserve or    *)
(* after the deadline, its verdict comes within the reserve of the launch. *)
CleanupInTime == cleaned <= Most(Deadline, started + Reserve)

(* A payload runs for its fixed timeout and at most one nap and lag more,  *)
(* however late in the allocation it was started.                          *)
PayloadBounded ==
  ended # Unset => ended - started <= PayloadTimeout + Lag

(* The allocation's deadline cuts a payload short of its timeout only when *)
(* the work between the check of the time left and the launch took longer  *)
(* than the time the check found to spare.                                 *)
CutOnlyAfterSlowStart ==
  cause = "deadline" =>
    /\ checked <= Deadline - Reserve - PayloadTimeout
    /\ started > Deadline - Reserve - PayloadTimeout

(* test_matched_gpu.py:676, test_fixed_timeout_is_not_shortened_to_fit_    *)
(* allocation: a payload that is launched has its full fixed timeout.      *)
TimeoutNotShortened == cause # "deadline"

=============================================================================
