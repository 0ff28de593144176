------------------------- MODULE DecisionPublication -------------------------
(***************************************************************************)
(* collect_decision_benchmark.py: collectors that read the record of       *)
(* DecisionReplay slot by slot while it grows, replay it, stage their      *)
(* results in a private directory and publish them by renaming it.  An     *)
(* invocation leaves payload evidence first and its allocation manifest    *)
(* last; only the manifest makes it an attempt.  An allocation that started *)
(* no process leaves a manifest without periods; payload evidence of the    *)
(* same job contradicts such a manifest.                                   *)
(***************************************************************************)
EXTENDS DecisionReplay

CONSTANTS
  Collectors,
  NoOutput,      \* the output directory is not there
  MaxAttempts    \* bound: invocations altogether

Files == {"attempts", "scores", "manifest"}

VARIABLES
  started,    \* slots with payload evidence that no manifest accounts for
  declined,   \* slots with a manifest without periods
  contradicted,  \* slots with such a manifest and payload evidence of its job
  invoked,    \* invocations per slot
  collector,  \* per collector: its step, the repairs and slots it read, and
              \* (history) the invocations there were when it began
  output      \* per file of the output directory: the collector it comes from

publication == <<started, declined, contradicted, invoked, collector, output>>

Nobody == [at |-> "idle", repairs |-> [s \in Slots |-> {}], todo |-> Slots,
           read |-> [s \in Slots |-> << >>], before |-> [s \in Slots |-> 0]]

PInit ==
  /\ Init
  /\ started = {} /\ declined = {} /\ contradicted = {}
  /\ invoked = [s \in Slots |-> 0]
  /\ collector = [c \in Collectors |-> Nobody]
  /\ output = [f \in Files |-> NoOutput]

Exists == \E f \in Files : output[f] # NoOutput

-----------------------------------------------------------------------------
(* The record grows. *)

Invocations == FoldFunction(+, 0, invoked)
Invoke(s) ==
  /\ Invocations < MaxAttempts /\ s \notin started
  /\ started' = started \cup {s} /\ invoked' = [invoked EXCEPT ![s] = @ + 1]
  /\ UNCHANGED <<log, declined, contradicted, collector, output>>

(* It matters only to a slot that has nothing else.                        *)
Decline(s) ==
  /\ s \notin declined /\ invoked[s] = 0
  /\ declined' = declined \cup {s}
  /\ UNCHANGED <<log, started, contradicted, invoked, collector, output>>

Finalise(s) ==
  /\ s \in started
  /\ \E outcome \in Outcomes : Record(s, outcome)
  /\ started' = started \ {s}
  /\ UNCHANGED <<declined, contradicted, invoked, collector, output>>

(* The invocation's manifest has no period though its evidence is there.   *)
FinaliseEmpty(s) ==
  /\ s \in started
  /\ started' = started \ {s} /\ contradicted' = contradicted \cup {s}
  /\ UNCHANGED <<log, declined, invoked, collector, output>>

Repair(s) == ApproveRepair(s) /\ UNCHANGED publication

-----------------------------------------------------------------------------
(* A collector. *)

Goto(c, step) == collector' = [collector EXCEPT ![c].at = step]
Elsewhere == <<log, started, declined, contradicted, invoked>>

Repaired(s) == {i \in DOMAIN log[s] : log[s][i].repair}

Begin(c) ==
  /\ collector[c].at = "idle"
  /\ IF Exists THEN Goto(c, "failed")
     ELSE collector' = [collector EXCEPT ![c].at = "reading", ![c].before = invoked,
                                         ![c].repairs = [s \in Slots |-> Repaired(s)]]
  /\ UNCHANGED <<Elsewhere, output>>

(* A mutant: evidence without a manifest is passed over.                   *)
MutantReadSlot(c, s) ==
  /\ collector[c].at = "reading" /\ s \in collector[c].todo
  /\ collector' = [collector EXCEPT ![c].todo = @ \ {s}, ![c].read[s] = log[s]]
  /\ UNCHANGED <<Elsewhere, output>>
(* Evidence without a manifest, or against one, fails the collection.      *)
ReadSlot(c, s) ==
  /\ collector[c].at = "reading" /\ s \in collector[c].todo
  /\ IF s \in started \cup contradicted THEN Goto(c, "failed")
     ELSE collector' = [collector EXCEPT
            ![c].todo = @ \ {s},
            ![c].read[s] = [i \in DOMAIN log[s] |->
              [log[s][i] EXCEPT !.repair = i \in collector[c].repairs[s]]]]
  /\ UNCHANGED <<Elsewhere, output>>

(* Every slot needs a record and replay must accept them all.              *)
Build(c) ==
  /\ collector[c].at = "reading" /\ collector[c].todo = {}
  /\ Goto(c, IF /\ \A s \in OpenSlots : collector[c].read[s] # << >> \/ s \in declined
                /\ Accepts(collector[c].read)
             THEN "staged" ELSE "failed")
  /\ UNCHANGED <<Elsewhere, output>>

Look(c) ==
  /\ collector[c].at = "staged"
  /\ Goto(c, IF Exists THEN "failed" ELSE "renaming")
  /\ UNCHANGED <<Elsewhere, output>>

(* A mutant: the staged files are moved one by one.                        *)
MutantRename(c) ==
  /\ collector[c].at = "renaming"
  /\ \E f \in Files :
       /\ output[f] # c
       /\ output' = [output EXCEPT ![f] = c]
  /\ UNCHANGED <<Elsewhere, collector>>
(* The rename of a directory over one that has files in it fails.          *)
Rename(c) ==
  /\ collector[c].at = "renaming"
  /\ IF Exists THEN Goto(c, "failed") /\ UNCHANGED output
     ELSE Goto(c, "done") /\ output' = [f \in Files |-> c]
  /\ UNCHANGED Elsewhere

PNext ==
  \/ \E s \in OpenSlots : Invoke(s) \/ Decline(s) \/ Finalise(s) \/ FinaliseEmpty(s)
                         \/ Repair(s)
  \/ \E c \in Collectors :
       \/ Begin(c) \/ Build(c) \/ Look(c) \/ Rename(c)
       \/ \E s \in Slots : ReadSlot(c, s)

PSpec == PInit /\ [][PNext]_<<log, publication>>

-----------------------------------------------------------------------------
(* Two collectors side by side (lines 249-252): what is published is one   *)
(* collector's complete set, from the moment it appears and for ever.      *)
StaysWhole ==
  Exists' => /\ \A f, g \in Files : output'[f] = output'[g]
             /\ Exists => output' = output
PublishedWhole == [][StaysWhole]_output

(* The slots are read at different moments while attempts go on.  A        *)
(* publication has every invocation that had begun when its collector      *)
(* began (lines 58-65 and 75-78: payload evidence that no manifest has, or  *)
(* that one contradicts, stops it), and its record is one replay accepts.  *)
NothingOverlooked ==
  \A c \in Collectors : collector[c].at = "done" =>
    /\ \A s \in Slots : Len(collector[c].read[s]) >= collector[c].before[s]
    /\ Accepts(collector[c].read)
=============================================================================
