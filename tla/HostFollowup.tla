----------------------------- MODULE HostFollowup -----------------------------
(***************************************************************************)
(* host_capacity_protocol.py: a follow-up study that inherits the settings *)
(* and the predictions of the original, sealed one.  Its directory is      *)
(* created once and filled file by file; the runner and the collector      *)
(* derive the design anew and compare.  Files may be edited, and edited    *)
(* back, at any time, and a freeze may die between any two of them.  The   *)
(* hashes of the original protocol and seal are constants of the code.     *)
(* One run of load_design is one step.                                     *)
(***************************************************************************)
EXTENDS Naturals

CONSTANTS
  Makers,      \* runs of freeze
  Pairs,       \* pairs of the follow-up, each claimed by its job
  NoFile,
  MaxEdits     \* bound: edits of any file

(* What the follow-up takes from the original; a file derived from them is *)
(* the set of those that were not as sealed when it was derived.           *)
Inherited == {"matrix", "predictions"}
Names == Inherited \cup {"protocol", "freeze"}
AsSealed == {}

FollowupAssumption ==
  /\ MaxEdits \in Nat
  /\ NoFile \notin {0, 1} /\ \A content \in SUBSET Inherited : content # NoFile

VARIABLES
  changed,     \* the inherited files of the original that are not as sealed
  code,        \* the version of the implementation
  file,        \* the files of the follow-up's directory
  directory,   \* it exists
  maker,       \* [at, derived, code]
  stamped,     \* history: makers that took the time of their freeze
  pair,        \* [at, stamp, there]: which freezes and files its claim came after
  edits

vars == <<changed, code, file, directory, maker, stamped, pair, edits>>
people == <<changed, code, edits>>

Init ==
  /\ changed = {} /\ code = 0 /\ edits = 0
  /\ file = [n \in Names |-> NoFile] /\ directory = FALSE
  /\ maker = [m \in Makers |-> [at |-> "idle", derived |-> {}, code |-> 0]]
  /\ stamped = {}
  /\ pair = [p \in Pairs |-> [at |-> "idle", stamp |-> {}, there |-> {}]]

-----------------------------------------------------------------------------
(* People edit a file of the original, of the code or of the follow-up.    *)
Toggle(s, x) == (s \ {x}) \cup ({x} \ s)
EditAny ==
  /\ edits < MaxEdits /\ edits' = edits + 1
  /\ \/ \E n \in Inherited : changed' = Toggle(changed, n) /\ UNCHANGED <<code, file>>
     \/ code' = 1 - code /\ UNCHANGED <<changed, file>>
     \/ \E n \in Inherited : /\ file[n] # NoFile
                             /\ file' = [file EXCEPT ![n] = Toggle(@, n)]
                             /\ UNCHANGED <<changed, code>>
  /\ UNCHANGED <<directory, maker, stamped, pair>>

-----------------------------------------------------------------------------
(* original_anchor, and planned: the files derived from the original as it *)
(* is.                                                                     *)
Anchored == changed = {}
Planned(n) == changed \cap {n}

(* freeze.                                                                 *)
Goto(m, step) == maker' = [maker EXCEPT ![m].at = step]
Quiet == UNCHANGED <<people, pair>>

CheckAnchor(m) ==
  /\ maker[m].at = "idle"
  /\ Goto(m, IF ~directory /\ Anchored THEN "anchored" ELSE "failed")
  /\ UNCHANGED <<file, directory, stamped>> /\ Quiet

Derive(m) ==
  /\ maker[m].at = "anchored"
  /\ maker' = [maker EXCEPT ![m] = [at |-> "derived", derived |-> changed, code |-> code]]
  /\ UNCHANGED <<file, directory, stamped>> /\ Quiet

MakeDirectory(m) ==
  /\ maker[m].at = "derived"
  /\ Goto(m, IF directory THEN "failed" ELSE "matrix")
  /\ directory' = TRUE
  /\ UNCHANGED <<file, stamped>> /\ Quiet

WriteFile(m, n, next) ==
  /\ maker[m].at = n /\ Goto(m, next)
  /\ file' = [file EXCEPT ![n] = IF n = "protocol" THEN maker[m].code ELSE maker[m].derived \cap {n}]
  /\ UNCHANGED <<directory, stamped>> /\ Quiet

(* The time of the freeze is taken when all else is written.              *)
StampNow(m) ==
  /\ maker[m].at = "stamp" /\ Goto(m, "freeze")
  /\ stamped' = stamped \cup {m}
  /\ UNCHANGED <<file, directory>> /\ Quiet

WriteFreeze(m) ==
  /\ maker[m].at = "freeze" /\ Goto(m, "done")
  /\ file' = [file EXCEPT !["freeze"] =
       [by |-> m, protocol |-> file["protocol"], matrix |-> file["matrix"], predictions |-> file["predictions"]]]
  /\ UNCHANGED <<directory, stamped>> /\ Quiet

Freeze(m) ==
  \/ CheckAnchor(m) \/ Derive(m) \/ MakeDirectory(m)
  \/ WriteFile(m, "matrix", "predictions")
  \/ WriteFile(m, "predictions", "protocol")
  \/ WriteFile(m, "protocol", "stamp")
  \/ StampNow(m) \/ WriteFreeze(m)

-----------------------------------------------------------------------------
(* load_design: the original stands, the implementation is the frozen one, *)
(* the files are what the original gives, and the freeze binds them.       *)
Complete == \A n \in Names : file[n] # NoFile
Binds == /\ file["freeze"].protocol = file["protocol"]
         /\ \A n \in Inherited : file["freeze"][n] = file[n]

(* A mutant trusts the freeze.                                             *)
MutantDesignLoads == Complete /\ Anchored /\ file["protocol"] = code /\ Binds
DesignLoads ==
  /\ Complete /\ Anchored
  /\ file["protocol"] = code
  /\ \A n \in Inherited : file[n] = Planned(n)
  /\ Binds

(* A job claims its pair, then execute_pair verifies the protocol.         *)
ClaimPair(p) ==
  /\ pair[p].at = "idle"
  /\ pair' = [pair EXCEPT ![p] = [at |-> "claimed", stamp |-> stamped,
                                  there |-> {n \in Names : file[n] # NoFile}]]
  /\ UNCHANGED <<people, file, directory, maker, stamped>>

VerifyProtocol(p) ==
  /\ pair[p].at = "claimed"
  /\ pair' = [pair EXCEPT ![p].at = IF DesignLoads THEN "launched" ELSE "rejected"]
  /\ UNCHANGED <<people, file, directory, maker, stamped>>

Next ==
  \/ EditAny
  \/ \E m \in Makers : Freeze(m)
  \/ \E p \in Pairs : ClaimPair(p) \/ VerifyProtocol(p)

Spec == Init /\ [][Next]_vars

-----------------------------------------------------------------------------
(* load_frozen and the chronology of validate_pair, by the follow-up's own *)
(* freeze: what the collector accepts at this moment.                      *)
AcceptsPair(p) ==
  DesignLoads /\ pair[p].at = "launched" /\ file["freeze"].by \in pair[p].stamp

(* An accepted pair of the follow-up is scored against the predictions of  *)
(* the original as they were sealed, and those were in place, with the     *)
(* design and its protocol, before the pair was claimed.                   *)
InheritsSealed ==
  \A p \in Pairs : AcceptsPair(p) =>
    /\ \A n \in Inherited : file[n] = AsSealed
    /\ Names \ {"freeze"} \subseteq pair[p].there
=============================================================================
