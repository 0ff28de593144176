--------------------------- MODULE PairCollector ---------------------------
(***************************************************************************)
(* The independent reconstruction of a matched pair,                       *)
(* memory_tuner/collect_estimation_study.py: what validate_pair,           *)
(* validate_period_provenance and process_slot conclude from the files the *)
(* runner of MatchedPair left, at whatever moment it stopped.  The         *)
(* collector trusts no status: it judges the evidence again.               *)
(***************************************************************************)
EXTENDS MatchedPair, FiniteSets

Positions(e, p) ==
  {i \in 1..Len(ledger) : ledger[i].event = e /\ ledger[i].period = p}

(* one_event: the event is there once.                                     *)
OneEvent(e, p) == Cardinality(Positions(e, p)) = 1

Precedes(e, f, p) ==
  \A i \in Positions(e, p), k \in Positions(f, p) : i < k

(* Evidence.journal: lines are whole and numbered from 0 without a gap or  *)
(* a repetition.  Mutant: numbered from 1.                                 *)
MutantJournalWhole ==
  /\ ledger # << >>
  /\ \A i \in 1..Len(ledger) : ledger[i].sequence = i

JournalWhole ==
  /\ ledger # << >>
  /\ \A i \in 1..Len(ledger) : ledger[i].sequence = i - 1

(* validate_pair: the manifest is whole, the claim comes first, no event   *)
(* of a period is repeated, and nothing was launched without an            *)
(* allocation.                                                             *)
PairValid ==
  /\ manifest \in {"noalloc", "alloc"}
  /\ JournalWhole
  /\ OneEvent("pair_claimed", 0) /\ 1 \in Positions("pair_claimed", 0)
  /\ \A e \in {"dispatched", "spawned", "terminal"}, p \in Periods :
       Cardinality(Positions(e, p)) <= 1
  /\ IF manifest = "noalloc"
     THEN \A e \in {"dispatched", "spawned"}, p \in Periods :
            Positions(e, p) = {}
     ELSE OneEvent("pair_started", 0) /\ traceState = "whole"

(* The record is whole, equals its terminal event, and its launch flag is  *)
(* the ledger's.                                                           *)
RecordAgrees(p) ==
  /\ record[p].status \in Statuses
  /\ OneEvent("terminal", p)
  /\ record[p].launched = OneEvent("spawned", p)

(* Period 2 counts only behind period 1's cleanup gate.  Mutant: without.  *)
MutantPreviousGate(p) == TRUE

PreviousGate(p) == p = 2 => OneEvent("terminal", 1) /\ ev[1].post

(* validate_period_provenance of a launched period.                        *)
Provenance(p) ==
  /\ record[p].launched
  /\ RecordAgrees(p)
  /\ OneEvent("dispatched", p)
  /\ Precedes("dispatched", "spawned", p)
  /\ Precedes("spawned", "terminal", p)
  /\ ev[p].pre /\ ev[p].samples /\ ~ev[p].late
  /\ PreviousGate(p)
  /\ record[p].dirty = ev[p].tainted

(* validate_raw_environment, validate_completed_allocator: what the        *)
(* payload itself left is whole, of its devices and of its period.         *)
RawEvidence(p) == proof[p]

(* assess_period again, the idle gate being part of the cleanup.  Mutant:  *)
(* the runner's cleanup flag alone.                                        *)
MutantAssessAgain(p) == record[p].sound /\ ~ev[p].tainted /\ RawEvidence(p)

AssessAgain(p) ==
  record[p].sound /\ ~ev[p].tainted /\ RawEvidence(p) /\ ev[p].post

(* process_slot: the slot's outcome is taken into the study.               *)
Eligible(p) == AssessAgain(p) /\ Provenance(p) /\ PairValid

(* process_slot: the slot is reported as never launched, which a payload   *)
(* directory contradicts.  Mutant: whatever the directory holds.           *)
MutantNotStarted(p) ==
  ~record[p].launched /\ RecordAgrees(p) /\ PairValid

NotStarted(p) ==
  ~record[p].launched /\ ~record[p].files /\ RecordAgrees(p) /\ PairValid

-----------------------------------------------------------------------------
(* Properties. *)

(* A slot enters the study only if its payload was started once, no signal *)
(* arrived while it was run, and its record says it was cleaned up.        *)
EligibleRanAlone ==
  \A p \in Periods : Eligible(p) =>
    /\ spawns[p] = 1
    /\ ~hit[p]
    /\ record[p].launched

(* Period 2 enters the study only if nothing of period 1, process or       *)
(* sampler thread, was left beside it when it was started: the runner may  *)
(* start it so (a post gate whose query raises), the collector sees that   *)
(* the gate is missing.                                                    *)
EligibleNotBesideRemains == Eligible(2) => ~overlap

(* A slot the study reports as never started was never started, although   *)
(* a signal between Popen and the journal leaves a process no event tells. *)
NotStartedNeverSpawned ==
  \A p \in Periods : NotStarted(p) => spawns[p] = 0

(* What the collector says of a slot is what happened to it.               *)
VerdictsTrue == EligibleRanAlone /\ EligibleNotBesideRemains /\ NotStartedNeverSpawned

(* The collector loses nothing that ran undisturbed: with no signal, a     *)
(* period the runner validated and found idle after is eligible, unless a  *)
(* sampler thread was given up or, for period 2, period 1 has no gate.     *)
Undisturbed(p) ==
  /\ signals = 0 /\ traceState # "broken" /\ ~ev[p].late
  /\ record[p].status = "validated" /\ ev[p].post
  /\ p = 2 => ev[1].post

ValidatedIsEligible ==
  \A j \in Jobs, p \in Periods :
    claim = j /\ pc[j] = "done" /\ Undisturbed(p) => Eligible(p)

(* The study and the runner agree on what they count: an eligible slot is  *)
(* one the runner validated, or one a signal reached after its evidence    *)
(* was complete.                                                           *)
EligibleWasValidated ==
  \A p \in Periods :
    Eligible(p) => record[p].status = "validated" \/ signals > 0

(* The study counts what the runner validated, both ways.                  *)
VerdictsAgree == ValidatedIsEligible /\ EligibleWasValidated

=============================================================================
