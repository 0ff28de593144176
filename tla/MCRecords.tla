------------------------------ MODULE MCRecords ------------------------------
(* The places where a record is sealed while it may still grow: the freeze *)
(* of an estimation study, that of the follow-up which inherits from it, and  *)
(* the publication of the decision panel.  They share no state, so each is *)
(* explored by itself: `part` says which; the freeze stays in its first    *)
(* state then, and the variables of the others are Off.                    *)
EXTENDS StudyFreeze, TLC

CONSTANTS
  a, s0, e1, QueryOrder, Screen, DonorWithin, DonorRoomy, MaxReplacements, Budgets,
  Candidates, EvaluationSeeds, OpenSlots, Collectors, NoOutput, MaxAttempts,
  Makers, Pairs, Off

VARIABLES
  part,
  log, started, declined, contradicted, invoked, collector, output,
  changed, code, file, directory, maker, followed, pair, edits

Publication == INSTANCE DecisionPublication
Followup == INSTANCE HostFollowup WITH MaxEdits <- 2, stamped <- followed
ASSUME FollowupAssumed == Followup!FollowupAssumption

publicationVars == <<log, started, declined, contradicted, invoked, collector, output>>
PublicationOff ==
  /\ log = Off /\ started = Off /\ declined = Off /\ contradicted = Off
  /\ invoked = Off /\ collector = Off /\ output = Off
followupVars == <<changed, code, file, directory, maker, followed, pair, edits>>
FollowupOff ==
  /\ changed = Off /\ code = Off /\ file = Off /\ directory = Off
  /\ maker = Off /\ followed = Off /\ pair = Off /\ edits = Off

MCInit ==
  \/ part = "freeze" /\ Init /\ PublicationOff /\ FollowupOff
  \/ part = "publication" /\ Init /\ Publication!PInit /\ FollowupOff
  \/ part = "followup" /\ Init /\ PublicationOff /\ Followup!Init
MCNext ==
  /\ UNCHANGED part
  /\ \/ part = "freeze" /\ Next /\ UNCHANGED <<publicationVars, followupVars>>
     \/ part = "publication" /\ Publication!PNext /\ UNCHANGED <<vars, followupVars>>
     \/ part = "followup" /\ Followup!Next /\ UNCHANGED <<vars, publicationVars>>
MCSpec == MCInit /\ [][MCNext]_<<part, vars, publicationVars, followupVars>>

(* DecisionPublication: no invocation begun before the collector is left out.*)
NothingOverlooked == part = "publication" => Publication!NothingOverlooked
(* DecisionPublication: a published directory is one collector's, and stays.*)
PublishedWhole == [][part = "publication" => Publication!StaysWhole]_output
(* HostFollowup: an accepted pair is scored by what the original sealed.   *)
InheritsSealed == part = "followup" => Followup!InheritsSealed

MCCandidates == {a}
MCOrder == <<a>>
MCSeeds == {e1}
MCOpen == {<<a, s0>>, <<a, e1>>}
Symmetry == Permutations(Collectors)
=============================================================================
