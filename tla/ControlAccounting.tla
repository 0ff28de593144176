-------------------------- MODULE ControlAccounting --------------------------
(* What the replication control cost.  Each control block is claimed by    *)
(* one job of two GPUs, which goes on writing its ledger; the scheduler    *)
(* ends jobs; someone saves the scheduler's answer about some of them; and *)
(* replication_control_accounting.py binds the rows of that answer to the  *)
(* blocks as they are then (capture_allocation_accounting.py), later holds *)
(* the binding against the blocks as they have become, and adds up.  Time  *)
(* is in whole seconds, as the scheduler's is.                             *)
EXTENDS Naturals, FiniteSets, FiniteSetsExt, Sequences

CONSTANTS
  Blocks,      \* and the job that claims it has the block's name
  MaxTime,     \* bound: seconds
  MaxEvents,   \* bound: events in a ledger
  NotYet

ControlAssumption == MaxTime \in Nat /\ MaxEvents \in Nat /\ NotYet \notin Nat

VARIABLES
  now,
  job,         \* the scheduler's records: [start, end, state, batchEnd]
  block,       \* [directory, ledger, manifest]; the ledger is its times
  response,    \* the saved answer: block -> [job, batch]
  accounting,  \* captured: block -> [row, ledger]
  cost         \* published: block -> [whole, batch] in GPU seconds

vars == <<now, job, block, response, accounting, cost>>
collected == <<response, accounting, cost>>

Unstarted == [start |-> NotYet, end |-> NotYet, state |-> "PENDING", batchEnd |-> NotYet]
Unclaimed == [directory |-> FALSE, ledger |-> << >>, manifest |-> FALSE]
Init ==
  /\ now = 0
  /\ job = [b \in Blocks |-> Unstarted] /\ block = [b \in Blocks |-> Unclaimed]
  /\ response = NotYet /\ accounting = NotYet /\ cost = NotYet

-----------------------------------------------------------------------------
(* The scheduler.  A job that is cancelled may be recorded as ended before *)
(* its batch step is.                                                      *)
Tick == now < MaxTime /\ now' = now + 1 /\ UNCHANGED <<job, block, collected>>
StartJob(b) ==
  /\ job[b].start = NotYet
  /\ job' = [job EXCEPT ![b] = [@ EXCEPT !.start = now, !.state = "RUNNING"]]
  /\ UNCHANGED <<now, block, collected>>
EndJob(b) ==
  /\ job[b].state = "RUNNING"
  /\ \E state \in {"COMPLETED", "CANCELLED"}, batchEnd \in {now, NotYet} :
       /\ batchEnd = NotYet => state = "CANCELLED"
       /\ job' = [job EXCEPT ![b] = [@ EXCEPT !.end = now, !.state = state, !.batchEnd = batchEnd]]
  /\ UNCHANGED <<now, block, collected>>
Alive(b) == job[b].start # NotYet /\ job[b].batchEnd = NotYet
EndBatch(b) ==
  /\ job[b].end # NotYet /\ job[b].batchEnd = NotYet
  /\ job' = [job EXCEPT ![b].batchEnd = now]
  /\ UNCHANGED <<now, block, collected>>

(* The control runner: the directory, the ledger, then the manifest.       *)
Wrote(b, value) == block' = [block EXCEPT ![b] = value] /\ UNCHANGED <<now, job, collected>>
MakeDirectory(b) ==
  Alive(b) /\ ~block[b].directory /\ Wrote(b, [block[b] EXCEPT !.directory = TRUE])
AddEvent(b) ==
  /\ Alive(b) /\ block[b].directory /\ Len(block[b].ledger) < MaxEvents
  /\ Len(block[b].ledger) > 0 => block[b].manifest
  /\ Wrote(b, [block[b] EXCEPT !.ledger = Append(@, now)])
WriteManifest(b) ==
  /\ Alive(b) /\ block[b].ledger # << >> /\ ~block[b].manifest
  /\ Wrote(b, [block[b] EXCEPT !.manifest = TRUE])

(* Someone saves, at any moment, what the scheduler says of some jobs; the *)
(* row of a batch step may be missing.                                     *)
SaveResponse ==
  /\ response = NotYet
  /\ \E jobs \in SUBSET {b \in Blocks : job[b].start # NotYet} : \E steps \in SUBSET jobs :
       response' = [b \in jobs |-> [job |-> job[b], batch |-> b \in steps]]
  /\ UNCHANGED <<now, job, block, accounting, cost>>

-----------------------------------------------------------------------------
(* block_claims: every directory is a claim, and one without a manifest    *)
(* must not pass for none.  A mutant passes over it.                       *)
MutantClaims == {b \in Blocks : block[b].manifest}
Claims == {b \in Blocks : block[b].directory}
ClaimsWhole == Claims # {} /\ \A b \in Claims : block[b].manifest

(* derived: a terminal row; and a terminal batch row, that outlives the    *)
(* allocation only if it was cancelled.                                    *)
Terminal(row) ==
  /\ row.job.end # NotYet
  /\ row.batch => /\ row.job.batchEnd # NotYet
                  /\ row.job.batchEnd <= row.job.end \/ row.job.state = "CANCELLED"
Bound(row) == IF row.batch THEN Max({row.job.end, row.job.batchEnd}) ELSE row.job.end
(* reconstruct: the ledger lies within what the scheduler recorded.        *)
Within(row, ledger) ==
  /\ row.job.start <= ledger[1] /\ ledger[Len(ledger)] <= Bound(row)
  /\ row.batch => ledger[Len(ledger)] <= row.job.batchEnd

(* reconstruct: every claim has an accounting, bound to manifest and       *)
(* ledger as they are.                                                     *)
Sound(records) ==
  /\ ClaimsWhole /\ DOMAIN records = Claims
  /\ \A b \in DOMAIN records :
       /\ Terminal(records[b].row) /\ records[b].ledger = block[b].ledger
       /\ Within(records[b].row, block[b].ledger)

(* capture, and a reconstruction before the records are written once.      *)
Captured == [b \in DOMAIN response |-> [row |-> response[b], ledger |-> block[b].ledger]]
Capture ==
  /\ response # NotYet /\ accounting = NotYet /\ Sound(Captured)
  /\ accounting' = Captured
  /\ UNCHANGED <<now, job, block, response, cost>>

GpuSeconds(first, last) == 2 * (last - first)
Publish ==
  /\ accounting # NotYet /\ cost = NotYet /\ Sound(accounting)
  /\ cost' = [b \in DOMAIN accounting |->
       LET row == accounting[b].row
       IN [whole |-> GpuSeconds(row.job.start, row.job.end),
           batch |-> IF row.batch THEN GpuSeconds(row.job.start, row.job.batchEnd) ELSE NotYet]]
  /\ UNCHANGED <<now, job, block, response, accounting>>

Next ==
  \/ Tick \/ SaveResponse \/ Capture \/ Publish
  \/ \E b \in Blocks : \/ StartJob(b) \/ EndJob(b) \/ EndBatch(b)
                       \/ MakeDirectory(b) \/ AddEvent(b) \/ WriteManifest(b)
Spec == Init /\ [][Next]_vars

-----------------------------------------------------------------------------
(* A cost that is published charges every block that had been claimed, one *)
(* whose runner died before its manifest too, each for the whole time its  *)
(* allocation was held and not for a time before its end was known, and    *)
(* for all the work its ledger shows by then.                              *)
Covers ==
  cost' # NotYet =>
    /\ DOMAIN cost' = {b \in Blocks : block[b].directory}
    /\ \A b \in DOMAIN cost' :
         /\ job[b].end # NotYet /\ cost'[b].whole = GpuSeconds(job[b].start, job[b].end)
         /\ LET last == block[b].ledger[Len(block[b].ledger)]
            IN last > job[b].end => cost'[b].batch # NotYet
                                    /\ GpuSeconds(job[b].start, last) <= cost'[b].batch
CostCovers == [][Covers]_cost
=============================================================================
