------------------------ MODULE PayloadBudget_proofs ------------------------
(***************************************************************************)
(* The clean-up ends with the allocation, for every choice of timeouts     *)
(* that fit the reserve.                                                   *)
(***************************************************************************)
EXTENDS PayloadBudget, TLAPS

(* From when on the poll loop cannot go on: the start of the reserve, or   *)
(* the launch where that came later.                                       *)
LastCall == Most(Deadline - Reserve, started)

(* How late the clock can be at each step from the launch to the verdict:  *)
(* every step adds its own timeout and one lag.                            *)
Latest ==
  /\ pc = "poll" => now <= LastCall + Nap + Lag
  /\ pc = "join" => now <= LastCall + Nap + 2 * Lag
  /\ pc = "grace" => now <= LastCall + Nap + Join + 3 * Lag
  /\ pc = "wait" => now <= LastCall + 2 * Nap + Join + Grace + 4 * Lag
  /\ pc = "settle" => now <= LastCall + 2 * Nap + Join + Grace + Wait + 5 * Lag

Clock == now \in Nat /\ until \in Int /\ started \in Int /\ checked \in Int

(* What is known of the launch of the period under way. *)
Launch ==
  /\ pc \in {"prepare", "poll"} => checked <= Deadline - Reserve - PayloadTimeout
  /\ pc = "poll" => started <= now /\ now - started <= PayloadTimeout + Lag
  /\ pc \in {"pre", "check", "prepare", "poll"}
       => cause = "none" /\ ended = Unset /\ cleaned = Unset

TimeInv ==
  /\ Clock
  /\ Latest
  /\ Launch
  /\ cleaned \in Int /\ CleanupInTime
  /\ ended \in Int
  /\ PayloadBounded
  /\ CutOnlyAfterSlowStart

(* The helpers of the deadlines, in the forms the steps use. *)
LEMMA WithinBound ==
  ASSUME NEW t \in Nat, now \in Nat
  PROVE  Within(t) \in Nat /\ Within(t) <= t
BY TimesAreNat DEF Within, Most, Least

LEMMA GateBound ==
  ASSUME NEW t \in Nat
  PROVE  Least(t + IdleTimeout, Deadline) \in Int
BY TimesAreNat DEF Least

LEMMA WaitBound ==
  ASSUME now \in Nat
  PROVE  /\ Most(WaitFloor, Least(Wait, Deadline - now)) \in Nat
         /\ Most(WaitFloor, Least(Wait, Deadline - now)) <= Wait
BY TimesAreNat, ReserveFits DEF Most, Least

LEMMA LastCallBound ==
  ASSUME started \in Int
  PROVE  /\ LastCall \in Int
         /\ Deadline - Reserve <= LastCall /\ started <= LastCall
         /\ LastCall + Reserve = Most(Deadline, started + Reserve)
BY TimesAreNat DEF LastCall, Most

LEMMA AfterLastCall ==
  ASSUME NEW n \in Nat
  PROVE  n <= Most(Deadline - Reserve, n) + Nap + Lag
BY TimesAreNat DEF Most

(* A mark that is not set is in time. *)
LEMMA UnsetInTime ==
  ASSUME NEW s \in Int
  PROVE  Unset <= Most(Deadline, s + Reserve)
BY TimesAreNat DEF Most, Unset

LEMMA InitTime == Init => TimeInv
<1> SUFFICES ASSUME Init PROVE TimeInv
  OBVIOUS
<1>1. started \in Int /\ cleaned = Unset
  BY DEF Init, Unset
<1>2. CleanupInTime
  BY <1>1, UnsetInTime DEF CleanupInTime
<1> QED
  BY <1>2, TimesAreNat
     DEF Init, Least, TimeInv, Clock, Latest, Launch, PayloadBounded,
         CutOnlyAfterSlowStart, Unset

(* A step that is neither part of a launch nor of a clean-up leaves the    *)
(* marks alone or forgets them.                                            *)
LEMMA NewPeriod ==
  ASSUME TimeInv, now' \in Nat, NEW fatal \in BOOLEAN, NextPeriod(fatal)
  PROVE  TimeInv'
<1>1. now \in Nat /\ until \in Int /\ now' \in Nat
  BY DEF TimeInv, Clock
<1>2. CASE period = 1 /\ ~fatal
  <2>0. pc' = "pre" /\ until' = Least(now' + IdleTimeout, Deadline)
    BY <1>2 DEF NextPeriod, OpenGate
  <2>1. pc' = "pre" /\ until' \in Int
    BY <2>0, <1>1, GateBound
  <2>2. /\ started' = Unset /\ checked' = Unset /\ ended' = Unset
        /\ cause' = "none" /\ cleaned' = Unset
    BY <1>2 DEF NextPeriod
  <2>3. CleanupInTime'
    BY <2>2, UnsetInTime DEF CleanupInTime, Unset
  <2> QED
    BY <2>1, <2>2, <2>3, TimesAreNat
       DEF TimeInv, Clock, Latest, Launch, PayloadBounded,
           CutOnlyAfterSlowStart, Unset
<1>3. CASE ~(period = 1 /\ ~fatal)
  <2>1. pc' = "done" /\ UNCHANGED until /\ UNCHANGED marks
    BY <1>3 DEF NextPeriod, gate
  <2> QED
    BY <2>1, <1>1
       DEF TimeInv, Clock, Latest, Launch, PayloadBounded,
           CutOnlyAfterSlowStart, LastCall, CleanupInTime, marks
<1> QED BY <1>2, <1>3

LEMMA StepTime == TimeInv /\ [Next]_vars => TimeInv'
<1> SUFFICES ASSUME TimeInv, [Next]_vars PROVE TimeInv'
  OBVIOUS
<1> USE TimesAreNat
<1>now. /\ now \in Nat /\ until \in Int /\ started \in Int
        /\ checked \in Int /\ ended \in Int /\ cleaned \in Int
  BY DEF TimeInv, Clock
<1>1. CASE GateSample
  <2>1. now' \in Nat
    BY <1>1, <1>now DEF GateSample, Least, Most
  <2>2. pc' = pc /\ pc \in Gates /\ UNCHANGED until /\ UNCHANGED marks
    BY <1>1 DEF GateSample
  <2> QED BY <2>1, <2>2 DEF TimeInv, Clock, Latest, Launch,
                            PayloadBounded, CutOnlyAfterSlowStart, marks, Gates,
                            LastCall, CleanupInTime
<1>2. CASE GatePass
  <2>1. now' \in Nat
    BY <1>2, <1>now DEF GatePass, Pass
  <2>2. CASE Goto("pre", "check") /\ UNCHANGED <<period, gate, marks>>
    BY <2>1, <2>2 DEF gate, TimeInv, Clock, Latest, Launch,
                      PayloadBounded, CutOnlyAfterSlowStart, marks, Goto,
                      LastCall, CleanupInTime
  <2>3. CASE \E complete \in BOOLEAN : NextPeriod(~complete)
    BY <2>1, <2>3, NewPeriod
  <2> QED BY <1>2, <2>2, <2>3 DEF GatePass
<1>3. CASE GateFail
  <2>1. now' \in Nat
    BY <1>3, <1>now DEF GateFail, Pass
  <2> QED BY <1>3, <2>1, NewPeriod DEF GateFail
<1>4. CASE GateRaises
  <2>1. now' \in Nat
    BY <1>4, <1>now DEF GateRaises, Pass
  <2> QED BY <1>4, <2>1, NewPeriod DEF GateRaises
<1>5. CASE Check
  <2>1. /\ pc' = "prepare" /\ pc = "check" /\ checked' = now
        /\ UNCHANGED <<now, until, started, ended, cause, cleaned>>
        /\ now <= Deadline - Reserve - PayloadTimeout
    BY <1>5, <1>now DEF gate, Check, TimeLeft, Goto
  <2>2. CleanupInTime'
    BY <2>1 DEF TimeInv, CleanupInTime
  <2> QED
    BY <2>1, <2>2, <1>now DEF TimeInv, Clock, Latest, Launch, PayloadBounded,
                              CutOnlyAfterSlowStart, Unset
<1>6. CASE CheckFail
  <2>1. now' \in Nat
    BY <1>6, <1>now DEF CheckFail, Pass
  <2> QED BY <1>6, <2>1, NewPeriod DEF CheckFail
<1>7. CASE Prepare
  <2>1. now' \in Nat /\ now' <= now + Work + Lag
    BY <1>7, <1>now DEF Prepare, Pass
  <2>2. pc = "prepare" /\ pc' = "poll" /\ started' = now'
        /\ UNCHANGED <<until, checked, ended, cause, cleaned>>
    BY <1>7 DEF gate, Prepare, Goto
  <2>3. checked <= Deadline - Reserve - PayloadTimeout
    BY <2>2 DEF TimeInv, Launch
  <2>4. cause = "none" /\ ended = Unset /\ cleaned = Unset
    BY <2>2 DEF TimeInv, Launch
  <2>5. Clock' /\ Latest'
    <3>1. now' <= LastCall' + Nap + Lag
      <4>1. now' <= Most(Deadline - Reserve, now') + Nap + Lag
        BY <2>1, AfterLastCall
      <4>2. LastCall' = Most(Deadline - Reserve, now')
        BY <2>2, Zenon DEF LastCall
      <4> QED
        BY <4>1, <4>2, Zenon
    <3>2. Latest'
      BY <3>1, <2>2 DEF Latest
    <3>3. Clock'
      BY <2>1, <2>2, <1>now DEF Clock
    <3> QED
      BY <3>2, <3>3
  <2>6. CleanupInTime'
    BY <2>1, <2>2, <2>4, UnsetInTime DEF CleanupInTime, Unset
  <2>7. started' <= now' /\ now' - started' <= PayloadTimeout + Lag
    <3>1. started' = now'
      BY <2>2
    <3>2. PICK n \in Nat : n = now'
      BY <2>1
    <3>3. n <= n /\ n - n <= PayloadTimeout + Lag
      OBVIOUS
    <3> QED BY <3>1, <3>2, <3>3, Zenon
  <2>8. /\ checked' <= Deadline - Reserve - PayloadTimeout
        /\ cause' = "none" /\ ended' = Unset /\ cleaned' = Unset
    BY <2>2, <2>3, <2>4
  <2>9. Launch'
    BY <2>7, <2>8 DEF Launch
  <2> QED
    BY <2>2, <2>5, <2>4, <2>9, <2>6, <1>now
       DEF TimeInv, PayloadBounded, CutOnlyAfterSlowStart, Unset
<1>8. CASE PrepareFail
  <2>1. now' \in Nat
    BY <1>8, <1>now DEF PrepareFail, Pass
  <2> QED BY <1>8, <2>1, NewPeriod DEF PrepareFail
<1>9. ASSUME NEW why \in Causes, PollEnds(why) PROVE TimeInv'
  <2>1. now' \in Nat /\ now' <= now + Lag
    BY <1>9, <1>now DEF PollEnds, Pass
  <2>2. pc = "poll" /\ pc' = "join" /\ ended' = now /\ cause' = why
        /\ UNCHANGED <<until, checked, started, cleaned>>
    BY <1>9 DEF gate, PollEnds, Goto
  <2>3. now <= LastCall + Nap + Lag
        /\ checked <= Deadline - Reserve - PayloadTimeout
        /\ now - started <= PayloadTimeout + Lag
    BY <2>2 DEF TimeInv, Latest, Launch
  <2>4. why = "deadline" => started > Deadline - Reserve - PayloadTimeout
    BY <1>9, <1>now DEF PollEnds, Found, OutOfTime, TimedOut
  <2>5. LastCall \in Int /\ LastCall' = LastCall /\ CleanupInTime'
    BY <2>2, <1>now, LastCallBound DEF TimeInv, LastCall, CleanupInTime
  <2> QED
    BY <2>1, <2>2, <2>3, <2>4, <2>5, <1>now
       DEF TimeInv, Clock, Latest, Launch, PayloadBounded,
           CutOnlyAfterSlowStart, Unset
<1>10. CASE PollAgain
  <2>1. pc = "poll" /\ pc' = "poll" /\ UNCHANGED until /\ UNCHANGED marks
    BY <1>10 DEF gate, PollAgain
  <2>2. now < Deadline - Reserve /\ now - started < PayloadTimeout /\ started <= now
    BY <1>10, <1>now DEF PollAgain, OutOfTime, TimedOut, TimeInv, Launch
  <2>3. PICK t \in 0..(Least(Nap, Most(0, PayloadTimeout - (now - started))) + Lag) :
             now' = now + t
    BY <1>10 DEF PollAgain, Pass
  <2>4. t \in Nat /\ t <= Nap + Lag /\ t <= PayloadTimeout - (now - started) + Lag
    BY <2>2, <2>3, <1>now DEF Least, Most
  <2>5. now' \in Nat /\ now' <= LastCall + Nap + Lag
        /\ started <= now' /\ now' - started <= PayloadTimeout + Lag
    BY <2>2, <2>3, <2>4, <1>now, LastCallBound
  <2> QED
    BY <2>1, <2>5
       DEF TimeInv, Clock, Latest, Launch, PayloadBounded,
           CutOnlyAfterSlowStart, LastCall, CleanupInTime, marks
<1>11. CASE JoinSampler
  <2>1. pc = "join" /\ pc' = "grace" /\ UNCHANGED until /\ UNCHANGED marks
    BY <1>11 DEF gate, JoinSampler, Goto
  <2>2. now' \in Nat /\ now' <= now + Join + Lag
    BY <1>11, <1>now, WithinBound DEF JoinSampler, Pass
  <2>3. LastCall \in Int /\ LastCall' = LastCall /\ CleanupInTime'
    BY <2>1, <1>now, LastCallBound DEF TimeInv, LastCall, CleanupInTime, marks
  <2> QED
    BY <2>1, <2>2, <2>3, <1>now
       DEF TimeInv, Clock, Latest, Launch, PayloadBounded,
           CutOnlyAfterSlowStart, marks
<1>12. CASE GraceEnds
  <2>1. pc = "grace" /\ pc' = "wait" /\ UNCHANGED until /\ UNCHANGED marks
    BY <1>12 DEF gate, GraceEnds, Goto
  <2>2. now' \in Nat /\ now' <= now + Grace + Nap + Lag
    BY <1>12, <1>now, WithinBound DEF GraceEnds, Pass
  <2>3. LastCall \in Int /\ LastCall' = LastCall /\ CleanupInTime'
    BY <2>1, <1>now, LastCallBound DEF TimeInv, LastCall, CleanupInTime, marks
  <2> QED
    BY <2>1, <2>2, <2>3, <1>now
       DEF TimeInv, Clock, Latest, Launch, PayloadBounded,
           CutOnlyAfterSlowStart, marks
<1>13. CASE WaitEnds
  <2>1. pc = "wait" /\ pc' = "settle" /\ UNCHANGED until /\ UNCHANGED marks
    BY <1>13 DEF gate, WaitEnds, Goto
  <2>2. now' \in Nat /\ now' <= now + Wait + Lag
    BY <1>13, <1>now, WaitBound DEF WaitEnds, Pass
  <2>3. LastCall \in Int /\ LastCall' = LastCall /\ CleanupInTime'
    BY <2>1, <1>now, LastCallBound DEF TimeInv, LastCall, CleanupInTime, marks
  <2> QED
    BY <2>1, <2>2, <2>3, <1>now
       DEF TimeInv, Clock, Latest, Launch, PayloadBounded,
           CutOnlyAfterSlowStart, marks
<1>14. CASE Verdict
  <2>1. pc = "settle" /\ pc' = "assess" /\ cleaned' = now'
        /\ UNCHANGED <<until, started, checked, ended, cause>>
    BY <1>14 DEF gate, Verdict, Goto
  <2>2. now' \in Nat /\ now' <= now + Settle + Lag
    BY <1>14, <1>now, WithinBound DEF Verdict, Pass
  <2>3. now' <= LastCall + Reserve
    BY <2>1, <2>2, <1>now, LastCallBound, ReserveFits DEF TimeInv, Latest
  <2>4. CleanupInTime'
    BY <2>1, <2>3, <1>now, LastCallBound DEF CleanupInTime, Most
  <2> QED
    BY <2>1, <2>2, <2>4, <1>now DEF TimeInv, Clock, Latest, Launch,
                                    PayloadBounded, CutOnlyAfterSlowStart
<1>15. CASE Assess
  <2>1. now' \in Nat /\ until' \in Int
    BY <1>15, <1>now DEF Assess, Pass, OpenGate, Least
  <2>2. pc' = "post" /\ UNCHANGED marks
    BY <1>15 DEF Assess, Goto
  <2> QED
    BY <2>1, <2>2
       DEF TimeInv, Clock, Latest, Launch, PayloadBounded,
           CutOnlyAfterSlowStart, LastCall, CleanupInTime, marks
<1>16. CASE UNCHANGED vars
  BY <1>16 DEF vars, TimeInv, Clock, Latest, Launch, PayloadBounded,
               CutOnlyAfterSlowStart, LastCall, CleanupInTime
<1> QED
  BY <1>1, <1>2, <1>3, <1>4, <1>5, <1>6, <1>7, <1>8, <1>9, <1>10, <1>11,
     <1>12, <1>13, <1>14, <1>15, <1>16 DEF Next

LEMMA TimeHolds == Spec => []TimeInv
BY InitTime, StepTime, PTL DEF Spec

(* For all timeouts that fit the reserve and file work of any length, the  *)
(* clean-up of a payload is over before the allocation's deadline or, if   *)
(* the launch came later than the reserve allows, within the reserve of    *)
(* the launch (run_matched_gpu.py:377-417, 455-493, 810).                  *)
THEOREM CleanedInTime == Spec => []CleanupInTime
<1>1. TimeInv => CleanupInTime
  BY DEF TimeInv, CleanupInTime
<1> QED BY <1>1, TimeHolds, PTL

(* A payload never outlives its fixed timeout by more than one lag         *)
(* (run_matched_gpu.py:455-469).                                           *)
THEOREM TimeoutHolds == Spec => []PayloadBounded
<1>1. TimeInv => PayloadBounded
  BY DEF TimeInv
<1> QED BY <1>1, TimeHolds, PTL

(* The allocation cuts a payload short only after a slow preparation       *)
(* (run_matched_gpu.py:464, 810-848).                                      *)
THEOREM CutAfterSlowStart == Spec => []CutOnlyAfterSlowStart
<1>1. TimeInv => CutOnlyAfterSlowStart
  BY DEF TimeInv
<1> QED BY <1>1, TimeHolds, PTL

=============================================================================
