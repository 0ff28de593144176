---------------------------- MODULE OneShotPair ----------------------------
(***************************************************************************)
(* What one matched pair of runs promises, whatever the scheduler, the     *)
(* signals and the crashes do: the pair is claimed by one job for ever;    *)
(* each of its two slots is launched at most once, by the claimant, in     *)
(* order, and never after it was settled; a settled slot stays settled;    *)
(* and when the claimant has stopped, nothing happens to the pair again.   *)
(*                                                                         *)
(* MatchedPair, translated from memory_tuner/run_matched_gpu.py, is shown  *)
(* to implement this module.                                               *)
(***************************************************************************)
EXTENDS Naturals

CONSTANTS
  Jobs,     (* Scheduler jobs that may be started for this pair.           *)
  NoJob     (* The owner of a pair nobody has claimed.                     *)

Periods == 1..2

VARIABLES
  owner,    (* The job that holds the pair's permanent claim, or NoJob.    *)
  launched, (* The slots whose payload process was started.                *)
  settled,  (* The slots a period record was written for.                  *)
  closed    (* The claimant has exited or was killed.                      *)

vars == <<owner, launched, settled, closed>>

Init ==
  /\ owner = NoJob
  /\ launched = {}
  /\ settled = {}
  /\ closed = FALSE

Claim(j) ==
  /\ owner = NoJob
  /\ owner' = j
  /\ UNCHANGED <<launched, settled, closed>>

(* A slot is launched once, unsettled, and only after every earlier one    *)
(* was settled.                                                            *)
Launch(p) ==
  /\ owner # NoJob /\ ~closed
  /\ p \notin launched \cup settled
  /\ \A q \in Periods : q < p => q \in settled
  /\ launched' = launched \cup {p}
  /\ UNCHANGED <<owner, settled, closed>>

Settle(p) ==
  /\ owner # NoJob /\ ~closed
  /\ p \notin settled
  /\ \A q \in Periods : q < p => q \in settled
  /\ settled' = settled \cup {p}
  /\ UNCHANGED <<owner, launched, closed>>

Close ==
  /\ owner # NoJob /\ ~closed
  /\ closed' = TRUE
  /\ UNCHANGED <<owner, launched, settled>>

Next ==
  \/ \E j \in Jobs : Claim(j)
  \/ \E p \in Periods : Launch(p) \/ Settle(p)
  \/ Close

Spec == Init /\ [][Next]_vars

=============================================================================
