---------------------------- MODULE Study_proofs ----------------------------
(***************************************************************************)
(* A cell's report, for any number of pairs, jobs and verdicts, and the    *)
(* cost of its replication control, for any number of blocks and events:   *)
(* whatever is written, or saved, while the collectors read.               *)
(***************************************************************************)
EXTENDS MCStudy, Integers, Sequences, TLAPS

-----------------------------------------------------------------------------
(* The study collector.                                                    *)

(* What a runner has written, in the order it writes: nothing before the   *)
(* claim, a record before its terminal event, both periods' before the     *)
(* summary, that before the last event.                                    *)
Ordered(f) ==
  /\ f.job = NoJob => f = Blank
  /\ \A k \in Periods : Has(f, "terminal", k) => f.record[k] # "none"
  /\ Has(f, "closed", 0) => f.summary

(* A trace is begun once, and torn once.                                   *)
Later(t, u) == t # u => t = "none" \/ u = "torn"

(* g is what f has become: what was written stays as it was.               *)
Became(f, g) ==
  /\ f.job # NoJob => g.job = f.job
  /\ f.manifest # "none" => g.manifest = f.manifest
  /\ f.ledger \subseteq g.ledger
  /\ Later(f.trace, g.trace)
  /\ \A k \in Periods : f.record[k] # "none" => g.record[k] = f.record[k]
  /\ f.summary => g.summary

(* What the collector has read of a pair whose files are now f: some of    *)
(* it, at some moment, and its name only with its manifest.                *)
ReadOf(s, f) ==
  /\ s.manifest = "none" => s = Blank
  /\ s.manifest # "none" => s.manifest = f.manifest /\ s.job = f.job
  /\ s.ledger \subseteq f.ledger
  /\ Later(s.trace, f.trace)

(* Once a file that the ledger vouches for has been read, it is the one.   *)
SummaryRead(s) == s.manifest = "started" /\ Has(s, "closed", 0) => s.summary
RecordRead(s, f, k) == Has(s, "terminal", k) => s.record[k] = f.record[k] /\ f.record[k] # "none"
WholeRead(s, f) == SummaryRead(s) /\ \A k \in Periods : RecordRead(s, f, k)

(* How far the reading of pair p has come.                                 *)
Reading == {"manifest", "hash", "ledger", "trace", "summary", "record1", "record2"}
Judged(p) ==      \* its ledger has been read
  \/ pc \in {"verify", "write", "done"}
  \/ pc \in Reading /\ p < at
  \/ pc \in {"trace", "summary", "record1", "record2"} /\ p = at
Finished(p) == pc \in {"verify", "write", "done"} \/ (pc \in Reading /\ p < at)

Progress(p) ==
  /\ pc \in Reading /\ (p > at \/ (p = at /\ pc = "manifest")) => seen[p] = Blank /\ hash[p] = {}
  /\ pc \in {"idle", "aborted"} => seen[p] = Blank /\ hash[p] = {}
  /\ pc \in {"hash", "ledger"} /\ p = at => Hashed(p) /\ seen[p].ledger = {}
  /\ pc = "trace" /\ p = at => Hashed(p)
  /\ pc \in {"summary", "record1", "record2"} /\ p = at => Accepted(seen, p)
  /\ Judged(p) => hash[p] \subseteq seen[p].ledger
  /\ pc \in {"record1", "record2"} /\ p = at => SummaryRead(seen[p])
  /\ pc = "record2" /\ p = at => RecordRead(seen[p], files[p], 1)
  /\ Finished(p) /\ Accepted(seen, p) => WholeRead(seen[p], files[p])

(* While the hashes are compared again: what was read is also what the     *)
(* snapshot held, and the ledgers compared so far are the same.            *)
Comparing == (pc = "verify" /\ at > 1) \/ pc \in {"write", "done"}
Compared(p) == pc \in {"write", "done"} \/ (pc = "verify" /\ p < at)
Verified(p) ==
  Comparing =>
    /\ ReadOf(seen[p], snapshot[p]) /\ Ordered(snapshot[p])
    /\ Hashed(p) => Became(snapshot[p], files[p])
    /\ ~Hashed(p) => snapshot[p] = Blank
    /\ Compared(p) /\ Hashed(p) => hash[p] = snapshot[p].ledger
    /\ Compared(p) /\ TraceRead(seen[p]) => seen[p].trace = snapshot[p].trace

ReportInv ==
  /\ TypeOK
  /\ output = "published" => pc = "done"
  /\ \A p \in Pairs : /\ Ordered(files[p])
                      /\ ReadOf(seen[p], files[p]) /\ hash[p] \subseteq files[p].ledger
                      /\ Progress(p) /\ Verified(p)

-----------------------------------------------------------------------------
FilesOK == files \in [Pairs -> Files] /\ \A p \in Pairs : Ordered(files[p])

LEMMA BlankTyped == Blank \in Files /\ Ordered(Blank) /\ Blank.ledger = {} /\ Blank.manifest = "none"
                    /\ Blank.trace = "none"
BY DEF Blank, Files, Ordered, Has

(* Every step of a runner writes files in their order, over what is there. *)
LEMMA Written ==
  ASSUME FilesOK, NEW p \in Pairs, NEW f \in Files, Ordered(f), Became(files[p], f), Writes(p, f)
  PROVE  FilesOK' /\ \A q \in Pairs : Became(files[q], files'[q])
<1>1. \A q \in Pairs : Became(files[q], files[q])
  BY DEF Became, Later
<1> QED
  BY <1>1 DEF FilesOK, Writes

LEMMA Appended ==
  ASSUME FilesOK, NEW p \in Pairs, NEW e, NEW k, <<e, k>> \in Events, Appends(p, e, k),
         files[p].job # NoJob,
         e = "terminal" => k \in Periods /\ files[p].record[k] # "none",
         e = "closed" => files[p].summary
  PROVE  FilesOK' /\ \A q \in Pairs : Became(files[q], files'[q])
<1> DEFINE f == [files[p] EXCEPT !.ledger = @ \cup {<<e, k>>}]
<1>1. files[p] \in Files /\ Ordered(files[p])
  BY DEF FilesOK
<1>2. /\ f \in Files /\ f.job = files[p].job /\ f.manifest = files[p].manifest
      /\ f.record = files[p].record /\ f.summary = files[p].summary
      /\ f.ledger = files[p].ledger \cup {<<e, k>>} /\ f.trace = files[p].trace
  BY <1>1 DEF Files
<1>3. Writes(p, f)
  BY DEF Appends
<1> HIDE DEF f
<1>4. Became(files[p], f)
  BY <1>2 DEF Became, Later
<1>5. Ordered(f)
  BY <1>1, <1>2 DEF Ordered, Has
<1> QED
  BY <1>2, <1>3, <1>4, <1>5, Written

LEMMA RunnerWrites ==
  ASSUME FilesOK, NEW p \in Pairs, Runner(p)
  PROVE  FilesOK' /\ \A q \in Pairs : Became(files[q], files'[q])
<1>1. files[p] \in Files /\ Ordered(files[p])
  BY DEF FilesOK
<1>2. CASE Claim(p)
  <2>1. PICK j \in Jobs :
          Writes(p, [files[p] EXCEPT !.job = j, !.ledger = {<<"claimed", 0>>}])
    BY <1>2, Zenon DEF Claim
  <2> DEFINE f == [files[p] EXCEPT !.job = j, !.ledger = {<<"claimed", 0>>}]
  <2>2. files[p] = Blank
    BY <1>1, <1>2 DEF Claim, Ordered
  <2>3. /\ f \in Files /\ f.job = j /\ f.ledger = {<<"claimed", 0>>}
        /\ f.record = files[p].record /\ f.summary = files[p].summary
        /\ f.manifest = files[p].manifest /\ f.trace = files[p].trace
    <3>1. {<<"claimed", 0>>} \in SUBSET Events
      BY DEF Events
    <3> QED
      BY <1>1, <3>1 DEF Files
  <2>4. Writes(p, f)
    BY <2>1
  <2> HIDE DEF f
  <2>5. Ordered(f) /\ Became(files[p], f)
    BY <2>2, <2>3, StudyAssumption DEF Ordered, Became, Later, Has, Blank
  <2> QED
    BY <2>3, <2>4, <2>5, Written
<1>3. CASE Manifest(p)
  <2>1. PICK m \in {"started", "rejected"} : Writes(p, [files[p] EXCEPT !.manifest = m])
    BY <1>3 DEF Manifest
  <2> DEFINE f == [files[p] EXCEPT !.manifest = m]
  <2>2. /\ f \in Files /\ f.job = files[p].job /\ f.ledger = files[p].ledger
        /\ f.record = files[p].record /\ f.summary = files[p].summary /\ f.trace = files[p].trace
    BY <1>1 DEF Files
  <2>3. Writes(p, f) /\ files[p].job # NoJob /\ files[p].manifest = "none"
    BY <1>3, <2>1 DEF Manifest, Alive
  <2> HIDE DEF f
  <2>4. Ordered(f) /\ Became(files[p], f)
    BY <1>1, <2>2, <2>3 DEF Ordered, Became, Later, Has
  <2> QED
    BY <2>2, <2>3, <2>4, Written
<1>9. CASE StartPair(p)
  BY <1>9, Appended DEF StartPair, Alive, Events
<1>10. CASE Sample(p) \/ TearTrace(p)
  <2>1. PICK t \in {"whole", "torn"} :
          /\ Writes(p, [files[p] EXCEPT !.trace = t])
          /\ t = "whole" => files[p].trace = "none"
    BY <1>10 DEF Sample, TearTrace
  <2> DEFINE f == [files[p] EXCEPT !.trace = t]
  <2>2. /\ f \in Files /\ f.job = files[p].job /\ f.ledger = files[p].ledger
        /\ f.record = files[p].record /\ f.summary = files[p].summary
        /\ f.manifest = files[p].manifest /\ f.trace = t
    BY <1>1 DEF Files
  <2>3. Writes(p, f) /\ files[p].job # NoJob
    BY <1>10, <2>1 DEF Sample, TearTrace, Sampling, InPeriod, Alive
  <2> HIDE DEF f
  <2>4. Ordered(f) /\ Became(files[p], f)
    BY <1>1, <2>1, <2>2, <2>3 DEF Ordered, Became, Later, Has
  <2> QED
    BY <2>2, <2>3, <2>4, Written
<1>4. ASSUME NEW k \in Periods, Record(p, k)
      PROVE  FilesOK' /\ \A q \in Pairs : Became(files[q], files'[q])
  <2>1. PICK v \in Verdicts \cup {"not_started"} : Writes(p, [files[p] EXCEPT !.record[k] = v])
    BY <1>4 DEF Record
  <2> DEFINE f == [files[p] EXCEPT !.record[k] = v]
  <2>2. v # "none"
    BY StudyAssumption DEF Labels
  <2>3. /\ f \in Files /\ f.job = files[p].job /\ f.ledger = files[p].ledger
        /\ f.manifest = files[p].manifest /\ f.summary = files[p].summary /\ f.trace = files[p].trace
        /\ f.record = [files[p].record EXCEPT ![k] = v]
    BY <1>1 DEF Files
  <2>4. /\ Writes(p, f) /\ files[p].job # NoJob /\ files[p].record[k] = "none"
        /\ files[p].record \in [Periods -> Verdicts \cup {"none", "not_started"}]
    BY <1>1, <1>4, <2>1 DEF Record, InPeriod, Alive, Files
  <2> HIDE DEF f
  <2>5. Ordered(f) /\ Became(files[p], f)
    BY <1>1, <2>2, <2>3, <2>4 DEF Ordered, Became, Later, Has
  <2> QED
    BY <2>3, <2>4, <2>5, Written
<1>5. ASSUME NEW k \in Periods, Terminal(p, k)
      PROVE  FilesOK' /\ \A q \in Pairs : Became(files[q], files'[q])
  BY <1>5, Appended DEF Terminal, InPeriod, Alive, Events
<1>6. CASE Summarise(p)
  <2> DEFINE f == [files[p] EXCEPT !.summary = TRUE]
  <2>1. /\ f \in Files /\ f.job = files[p].job /\ f.ledger = files[p].ledger
        /\ f.record = files[p].record /\ f.manifest = files[p].manifest /\ f.summary
        /\ f.trace = files[p].trace
    BY <1>1 DEF Files
  <2>2. Writes(p, f) /\ files[p].job # NoJob
    BY <1>6 DEF Summarise, Alive
  <2> HIDE DEF f
  <2>3. Ordered(f) /\ Became(files[p], f)
    BY <1>1, <2>1, <2>2 DEF Ordered, Became, Later, Has
  <2> QED
    BY <2>1, <2>2, <2>3, Written
<1>7. CASE Close(p)
  BY <1>7, Appended DEF Close, Alive, Events
<1>8. CASE TearLedger(p)
  <2>1. Appends(p, "torn", 0) /\ files[p].job # NoJob /\ <<"torn", 0>> \in Events
    BY <1>8 DEF TearLedger, InPeriod, Alive, Events
  <2> QED
    BY <2>1, Appended
<1> QED
  BY <1>2, <1>3, <1>4, <1>5, <1>6, <1>7, <1>8, <1>9, <1>10 DEF Runner

LEMMA BecameAgain ==
  ASSUME NEW f, NEW g, NEW h, Became(f, g), Became(g, h)
  PROVE  Became(f, h)
BY DEF Became, Later

LEMMA BecameItself == ASSUME NEW f PROVE Became(f, f)
BY DEF Became, Later

(* What was read of the files stays read of what they become.              *)
LEMMA ReadStays ==
  ASSUME NEW s, NEW f, NEW g, ReadOf(s, f), Ordered(f), Became(f, g)
  PROVE  /\ ReadOf(s, g)
         /\ \A k \in Periods : RecordRead(s, f, k) => RecordRead(s, g, k)
         /\ WholeRead(s, f) => WholeRead(s, g)
<1>1. s.manifest # "none" => f.job # NoJob
  BY BlankTyped DEF ReadOf, Ordered
<1>2. ReadOf(s, g)
  BY <1>1 DEF ReadOf, Became, Later
<1>3. \A k \in Periods : RecordRead(s, f, k) => RecordRead(s, g, k)
  BY DEF RecordRead, Became
<1> QED
  BY <1>2, <1>3 DEF WholeRead

(* Whether a pair is accepted hangs on the manifests and ledgers up to it, *)
(* and on the traces of those that started.                                *)
LEMMA AcceptedSame ==
  ASSUME NEW s, NEW t, NEW p \in Pairs,
         \A q \in Pairs : q <= p => /\ s[q].manifest = t[q].manifest
                                    /\ s[q].job = t[q].job /\ s[q].ledger = t[q].ledger
                                    /\ TraceRead(s[q]) => s[q].trace = t[q].trace
  PROVE  Accepted(s, p) <=> Accepted(t, p)
<1>1. \A q \in 1..(p - 1) : q \in Pairs /\ q <= p
  BY StudyAssumption DEF Pairs
<1>2. p \in Pairs /\ p <= p
  BY DEF Pairs
<1>3. \A q \in Pairs : q <= p => (Valid(s[q]) <=> Valid(t[q]))
  BY DEF Valid, LedgerValid, TraceRead, Has
<1> QED
  BY <1>1, <1>2, <1>3 DEF Accepted, Reused

(* The parts of the invariant that a pair contributes.                     *)
PairOK(p) ==
  /\ Ordered(files[p])
  /\ ReadOf(seen[p], files[p]) /\ hash[p] \subseteq files[p].ledger
  /\ Progress(p) /\ Verified(p)

LEMMA InitReport == Init => ReportInv
<1> SUFFICES ASSUME Init PROVE ReportInv
  OBVIOUS
<1>1. TypeOK
  BY BlankTyped, StudyAssumption DEF Init, TypeOK, Pairs
<1>2. ASSUME NEW p \in Pairs PROVE PairOK(p)
  BY <1>2, BlankTyped DEF Init, PairOK, ReadOf, Later, Progress, Judged, Finished, Reading, Verified, Comparing
<1> QED
  BY <1>1, <1>2 DEF ReportInv, PairOK, Init

LEMMA RunnerKeepsReport ==
  ASSUME ReportInv, NEW r \in Pairs, Runner(r)
  PROVE  ReportInv'
<1>1. UNCHANGED <<accounting, pc, at, hash, seen, snapshot, output>>
  <2>1. \E f : Writes(r, f)
    BY Zenon DEF Runner, Claim, Manifest, StartPair, Sample, Record, Terminal, Summarise, Close,
                 TearLedger, TearTrace, Appends
  <2> QED
    BY <2>1 DEF Writes, collector
<1>2. FilesOK' /\ \A q \in Pairs : Became(files[q], files'[q])
  BY RunnerWrites DEF ReportInv, TypeOK, FilesOK
<1>3. TypeOK'
  BY <1>1, <1>2 DEF ReportInv, TypeOK, FilesOK
<1>4. ASSUME NEW p \in Pairs PROVE PairOK(p)'
  <2>1. Ordered(files'[p]) /\ Became(files[p], files'[p])
    BY <1>2 DEF FilesOK
  <2>2. PairOK(p)
    BY DEF ReportInv, PairOK
  <2>3. /\ ReadOf(seen[p], files'[p])
        /\ \A k \in Periods : RecordRead(seen[p], files[p], k) => RecordRead(seen[p], files'[p], k)
        /\ WholeRead(seen[p], files[p]) => WholeRead(seen[p], files'[p])
    BY <2>1, <2>2, ReadStays DEF PairOK
  <2>4. hash[p] \subseteq files'[p].ledger
    BY <2>1, <2>2 DEF PairOK, Became
  <2>5. Progress(p)'
    BY <1>1, <2>2, <2>3 DEF PairOK, Progress, Judged, Finished, Hashed, Periods
  <2>6. Verified(p)'
    <3>1. Became(snapshot[p], files[p]) => Became(snapshot[p], files'[p])
      BY <2>1, BecameAgain
    <3> QED
      BY <1>1, <2>2, <3>1 DEF PairOK, Verified, Comparing, Compared, Hashed
  <2> QED
    BY <1>1, <2>1, <2>3, <2>4, <2>5, <2>6 DEF PairOK
<1> QED
  BY <1>1, <1>3, <1>4 DEF ReportInv, PairOK

(* A step of the collector that leaves what it has read.                   *)
LEMMA StartKeepsReport ==
  ASSUME ReportInv, Start \/ WriteResults \/ Capture
  PROVE  ReportInv'
<1>1. UNCHANGED <<files, hash, seen, snapshot>>
  BY DEF Start, WriteResults, Capture, collector
<1>2. TypeOK'
  <2>1. accounting' \in [Pairs -> SUBSET Events]
    BY DEF ReportInv, TypeOK, Files, Start, WriteResults, Capture
  <2> QED
    BY <1>1, <2>1 DEF ReportInv, TypeOK, Start, WriteResults, Capture, Goto, collector
<1>3. ASSUME NEW p \in Pairs PROVE PairOK(p)'
  <2>1. PairOK(p)
    BY DEF ReportInv, PairOK
  <2>2. CASE Start
    BY <1>1, <2>1, <2>2, BlankTyped
       DEF PairOK, Start, Progress, Judged, Finished, Reading, Verified, Comparing, Accepted, Valid, LedgerValid
  <2>3. CASE WriteResults
    BY <1>1, <2>1, <2>3
       DEF PairOK, WriteResults, Goto, Progress, Judged, Finished, Reading, Verified, Comparing,
           Compared, Hashed
  <2>4. CASE Capture
    BY <1>1, <2>1, <2>4
       DEF PairOK, Capture, collector, Progress, Judged, Finished, Verified, Comparing, Compared, Hashed
  <2> QED
    BY <2>2, <2>3, <2>4
<1> QED
  BY <1>2, <1>3 DEF ReportInv, PairOK, Start, WriteResults, Capture, collector, Goto

(* The next pair, or the comparison of the hashes from the first one on.   *)
LEMMA NextPairMoves ==
  ASSUME NextPair, at \in Pairs, pc \in Reading
  PROVE  /\ at' \in Pairs /\ pc' \in {"manifest", "verify"} /\ ~Comparing'
         /\ \A p \in Pairs : Finished(p)' <=> Finished(p) \/ p = at
         /\ \A p \in Pairs : pc' = "manifest" /\ p >= at' => p > at
BY StudyAssumption DEF NextPair, Pairs, Reading, Comparing, Finished

LEMMA ReadManifestKeepsReport ==
  ASSUME ReportInv, ReadManifest
  PROVE  ReportInv'
<1>1. pc = "manifest" /\ UNCHANGED <<files, accounting, hash, snapshot, output>>
  BY DEF ReadManifest
<1>2. at \in Pairs /\ files[at] \in Files /\ seen \in [Pairs -> Files] /\ seen[at] = Blank /\ hash[at] = {}
  BY <1>1 DEF ReportInv, TypeOK, Progress, Reading, Pairs
<1>3. /\ \A q \in Pairs : q # at => seen'[q] = seen[q]
      /\ seen' \in [Pairs -> Files]
      /\ files[at].manifest = "none" => seen'[at] = Blank
      /\ files[at].manifest # "none" => seen'[at] = [Blank EXCEPT !.job = files[at].job, !.manifest = files[at].manifest]
  <2> DEFINE j == IF files[at].manifest = "none" THEN NoJob ELSE files[at].job
             m == files[at].manifest
  <2>1. seen' = [seen EXCEPT ![at].job = j, ![at].manifest = m]
    BY DEF ReadManifest
  <2>2. j \in Jobs \cup {NoJob} /\ m \in {"none", "started", "rejected"}
    BY <1>2 DEF Files
  <2>3. seen' = [seen EXCEPT ![at] = [Blank EXCEPT !.job = j, !.manifest = m]]
    BY <1>2, <2>1
  <2>4. [Blank EXCEPT !.job = j, !.manifest = m] \in Files
    BY <2>2, BlankTyped DEF Files, Blank
  <2>5. m = "none" => [Blank EXCEPT !.job = j, !.manifest = m] = Blank
    <3>1. Blank \in Files /\ Blank.job = NoJob /\ Blank.manifest = "none"
      BY BlankTyped DEF Blank
    <3>2. m = "none" => j = NoJob
      OBVIOUS
    <3> HIDE DEF j, m
    <3>3. [Blank EXCEPT !.job = NoJob, !.manifest = "none"] = Blank
      BY <3>1 DEF Files
    <3> QED
      BY <3>2, <3>3
  <2> QED
    BY <1>2, <2>3, <2>4, <2>5
<1>4. /\ ReadOf(seen'[at], files[at]) /\ seen'[at].ledger = {}
      /\ files[at].manifest # "none" => seen'[at].manifest = files[at].manifest
  BY <1>3, BlankTyped DEF ReadOf, Later, Blank
<1>5. \/ files[at].manifest = "none" /\ NextPair
      \/ files[at].manifest # "none" /\ pc' = "hash" /\ at' = at
  BY DEF ReadManifest, Goto
<1>6. TypeOK'
  BY <1>1, <1>2, <1>3, <1>5, NextPairMoves DEF ReportInv, TypeOK, Reading
<1>7. ASSUME NEW p \in Pairs PROVE PairOK(p)'
  <2>1. PairOK(p)
    BY DEF ReportInv, PairOK
  <2>2. ReadOf(seen'[p], files[p])
    BY <1>3, <1>4, <2>1 DEF PairOK
  <2>3. ~Comparing'
    BY <1>2, <1>1, <1>5, NextPairMoves DEF Comparing, Reading
  <2>4. p < at => (Accepted(seen', p) <=> Accepted(seen, p))
    <3>1. ASSUME p < at PROVE \A q \in Pairs : q <= p => seen'[q] = seen[q]
      BY <1>2, <1>3, <3>1 DEF Pairs
    <3> QED
      BY <3>1, AcceptedSame
  <2>5. Progress(p)'
    <3>1. CASE files[at].manifest # "none"
      BY <1>1, <1>2, <1>3, <1>4, <1>5, <2>1, <2>4, <3>1
         DEF PairOK, Progress, Judged, Finished, Reading, Hashed, Pairs
    <3>2. CASE files[at].manifest = "none" /\ p # at
      <4>1. /\ at' \in Pairs /\ pc' \in {"manifest", "verify"}
            /\ Finished(p)' <=> Finished(p)
            /\ pc' = "manifest" /\ p >= at' => p > at
        BY <1>1, <1>2, <1>5, <3>2, NextPairMoves DEF Reading
      <4>2. Finished(p) <=> p < at
        BY <1>1 DEF Finished, Reading
      <4> QED
        BY <1>1, <1>2, <1>3, <2>1, <2>4, <3>2, <4>1, <4>2
           DEF PairOK, Progress, Judged, Finished, Reading, Pairs
    <3>3. CASE files[at].manifest = "none" /\ p = at
      <4>1. seen'[p] = Blank /\ hash'[p] = {} /\ pc' \in {"manifest", "verify"} /\ ~Accepted(seen', p)
        BY <1>1, <1>2, <1>3, <1>5, <3>3, NextPairMoves, BlankTyped DEF Reading, Accepted, Valid, LedgerValid
      <4> QED
        BY <4>1 DEF Progress
    <3> QED
      BY <3>1, <3>2, <3>3
  <2> QED
    BY <1>1, <2>1, <2>2, <2>3, <2>5 DEF PairOK, Verified
<1> QED
  BY <1>1, <1>5, <1>6, <1>7, NextPairMoves, <1>2 DEF ReportInv, PairOK, Reading
LEMMA HashLedgerKeepsReport ==
  ASSUME ReportInv, HashLedger
  PROVE  ReportInv'
<1>1. /\ pc = "hash" /\ pc' = "ledger" /\ at' = at
      /\ UNCHANGED <<files, accounting, seen, snapshot, output>>
      /\ hash' = [hash EXCEPT ![at] = files[at].ledger]
  BY DEF HashLedger, Goto
<1>2. /\ at \in Pairs /\ files[at].ledger \in SUBSET Events
      /\ hash' \in [Pairs -> SUBSET Events]
      /\ \A p \in Pairs : hash'[p] = IF p = at THEN files[at].ledger ELSE hash[p]
  BY <1>1 DEF ReportInv, TypeOK, Files
<1>3. TypeOK'
  BY <1>1, <1>2 DEF ReportInv, TypeOK
<1>4. ASSUME NEW p \in Pairs PROVE PairOK(p)'
  <2>1. PairOK(p)
    BY DEF ReportInv, PairOK
  <2> QED
    BY <1>1, <1>2, <2>1 DEF PairOK, Progress, Judged, Finished, Reading, Verified, Comparing, Hashed, Pairs
<1> QED
  BY <1>1, <1>3, <1>4 DEF ReportInv, PairOK

LEMMA ReadLedgerKeepsReport ==
  ASSUME ReportInv, ReadLedger
  PROVE  ReportInv'
<1>1. pc = "ledger" /\ UNCHANGED <<files, accounting, hash, snapshot, output>>
  BY DEF ReadLedger
<1>2. /\ at \in Pairs /\ files[at] \in Files /\ seen \in [Pairs -> Files]
      /\ Hashed(at) /\ ReadOf(seen[at], files[at]) /\ hash[at] \subseteq files[at].ledger
  BY <1>1 DEF ReportInv, TypeOK, Progress
<1> DEFINE s == [seen[at] EXCEPT !.ledger = files[at].ledger]
<1>3. seen' = [seen EXCEPT ![at] = s]
  BY DEF ReadLedger
<1>4. /\ s \in Files /\ s.job = seen[at].job /\ s.manifest = seen[at].manifest
      /\ s.ledger = files[at].ledger /\ s.record = seen[at].record /\ s.summary = seen[at].summary
      /\ s.trace = seen[at].trace
  BY <1>2 DEF Files
<1> HIDE DEF s
<1>5. seen' \in [Pairs -> Files] /\ \A p \in Pairs : seen'[p] = IF p = at THEN s ELSE seen[p]
  BY <1>2, <1>3, <1>4
<1>6. ReadOf(s, files[at]) /\ s.manifest = files[at].manifest
  BY <1>2, <1>4 DEF ReadOf, Hashed
<1>7. \/ TraceRead(s) /\ at' = at /\ pc' = "trace"
      \/ Accepted(seen', at) /\ ~TraceRead(s) /\ at' = at /\ pc' = "record1"
      \/ ~Accepted(seen', at) /\ ~TraceRead(s) /\ NextPair
  BY <1>2, <1>5 DEF ReadLedger, Goto
<1>8. TypeOK'
  BY <1>1, <1>2, <1>5, <1>7, NextPairMoves DEF ReportInv, TypeOK, Reading
<1>9. ASSUME NEW p \in Pairs PROVE PairOK(p)'
  <2>1. PairOK(p)
    BY DEF ReportInv, PairOK
  <2>2. ReadOf(seen'[p], files[p]) /\ hash[p] \subseteq files[p].ledger
    BY <1>5, <1>6, <2>1 DEF PairOK
  <2>3. ~Comparing'
    BY <1>1, <1>2, <1>7, NextPairMoves DEF Comparing, Reading
  <2>4. p < at => (Accepted(seen', p) <=> Accepted(seen, p))
    <3>1. ASSUME p < at PROVE \A q \in Pairs : q <= p => seen'[q] = seen[q]
      BY <1>2, <1>5, <3>1 DEF Pairs
    <3> QED
      BY <3>1, AcceptedSame
  <2>5. p = at => hash[p] \subseteq seen'[p].ledger
    BY <1>2, <1>4, <1>5
  <2>8. CASE TraceRead(s)
    <3>1. Progress(p)'
      BY <1>1, <1>2, <1>5, <1>7, <2>1, <2>4, <2>5, <2>8
         DEF PairOK, Progress, Judged, Finished, Reading, Pairs, TraceRead, LedgerValid, Hashed
    <3> QED
      BY <1>1, <2>1, <2>2, <2>3, <3>1 DEF PairOK, Verified
  <2>6. CASE Accepted(seen', at) /\ ~TraceRead(s)
    <3>1. pc' = "record1" => SummaryRead(s)
      BY <1>2, <1>5, <2>6 DEF SummaryRead, Accepted, Valid, TraceRead
    <3>2. Progress(p)'
      BY <1>1, <1>2, <1>5, <1>7, <2>1, <2>4, <2>5, <2>6, <3>1
         DEF PairOK, Progress, Judged, Finished, Reading, Pairs
    <3> QED
      BY <1>1, <2>1, <2>2, <2>3, <3>2 DEF PairOK, Verified
  <2>7. CASE ~Accepted(seen', at) /\ ~TraceRead(s)
    <3>1. /\ at' \in Pairs /\ pc' \in {"manifest", "verify"}
          /\ Finished(p)' <=> Finished(p) \/ p = at
          /\ pc' = "manifest" /\ p >= at' => p > at
      BY <1>1, <1>2, <1>7, <2>7, NextPairMoves DEF Reading
    <3>2. Finished(p) <=> p < at
      BY <1>1 DEF Finished, Reading
    <3>3. Progress(p)'
      BY <1>1, <1>2, <1>5, <2>1, <2>4, <2>5, <2>7, <3>1, <3>2
         DEF PairOK, Progress, Judged, Finished, Reading, Pairs
    <3> QED
      BY <1>1, <2>1, <2>2, <2>3, <3>3 DEF PairOK, Verified
  <2> QED
    BY <2>6, <2>7, <2>8
<1> QED
  BY <1>1, <1>2, <1>7, <1>8, <1>9, NextPairMoves DEF ReportInv, PairOK, Reading

LEMMA ReadTraceKeepsReport ==
  ASSUME ReportInv, ReadTrace
  PROVE  ReportInv'
<1>1. pc = "trace" /\ UNCHANGED <<files, accounting, hash, snapshot, output>>
  BY DEF ReadTrace
<1>2. /\ at \in Pairs /\ files[at] \in Files /\ seen \in [Pairs -> Files]
      /\ Hashed(at) /\ ReadOf(seen[at], files[at]) /\ hash[at] \subseteq seen[at].ledger
  BY <1>1 DEF ReportInv, TypeOK, Progress, Judged
<1> DEFINE s == [seen[at] EXCEPT !.trace = files[at].trace]
<1>3. seen' = [seen EXCEPT ![at] = s]
  BY DEF ReadTrace
<1>4. /\ s \in Files /\ s.job = seen[at].job /\ s.manifest = seen[at].manifest
      /\ s.ledger = seen[at].ledger /\ s.record = seen[at].record /\ s.summary = seen[at].summary
      /\ s.trace = files[at].trace
  BY <1>2 DEF Files
<1> HIDE DEF s
<1>5. seen' \in [Pairs -> Files] /\ \A p \in Pairs : seen'[p] = IF p = at THEN s ELSE seen[p]
  BY <1>2, <1>3, <1>4
<1>6. ReadOf(s, files[at])
  BY <1>2, <1>4 DEF ReadOf, Later, Hashed
<1>7. \/ Accepted(seen', at) /\ at' = at /\ pc' = "summary"
      \/ ~Accepted(seen', at) /\ NextPair
  BY DEF ReadTrace, Goto
<1>8. TypeOK'
  BY <1>1, <1>2, <1>5, <1>7, NextPairMoves DEF ReportInv, TypeOK, Reading
<1>9. ASSUME NEW p \in Pairs PROVE PairOK(p)'
  <2>1. PairOK(p)
    BY DEF ReportInv, PairOK
  <2>2. ReadOf(seen'[p], files[p]) /\ hash[p] \subseteq files[p].ledger
    BY <1>5, <1>6, <2>1 DEF PairOK
  <2>3. ~Comparing'
    BY <1>1, <1>2, <1>7, NextPairMoves DEF Comparing, Reading
  <2>4. p < at => (Accepted(seen', p) <=> Accepted(seen, p))
    <3>1. ASSUME p < at PROVE \A q \in Pairs : q <= p => seen'[q] = seen[q]
      BY <1>2, <1>5, <3>1 DEF Pairs
    <3> QED
      BY <3>1, AcceptedSame
  <2>5. p = at => hash[p] \subseteq seen'[p].ledger
    BY <1>2, <1>4, <1>5
  <2>6. CASE Accepted(seen', at)
    <3>1. Progress(p)'
      BY <1>1, <1>2, <1>5, <1>7, <2>1, <2>4, <2>5, <2>6
         DEF PairOK, Progress, Judged, Finished, Reading, Pairs
    <3> QED
      BY <1>1, <2>1, <2>2, <2>3, <3>1 DEF PairOK, Verified
  <2>7. CASE ~Accepted(seen', at)
    <3>1. /\ at' \in Pairs /\ pc' \in {"manifest", "verify"}
          /\ Finished(p)' <=> Finished(p) \/ p = at
          /\ pc' = "manifest" /\ p >= at' => p > at
      BY <1>1, <1>2, <1>7, <2>7, NextPairMoves DEF Reading
    <3>2. Finished(p) <=> p < at
      BY <1>1 DEF Finished, Reading
    <3>3. Progress(p)'
      BY <1>1, <1>2, <1>5, <2>1, <2>4, <2>5, <2>7, <3>1, <3>2
         DEF PairOK, Progress, Judged, Finished, Reading, Pairs
    <3> QED
      BY <1>1, <2>1, <2>2, <2>3, <3>3 DEF PairOK, Verified
  <2> QED
    BY <2>6, <2>7
<1> QED
  BY <1>1, <1>2, <1>7, <1>8, <1>9, NextPairMoves DEF ReportInv, PairOK, Reading

(* Reading a file that the ledger vouches for.                             *)
LEMMA ReadMore ==
  ASSUME ReportInv, pc \in {"summary", "record1", "record2"}, NEW s \in Files,
         seen' = [seen EXCEPT ![at] = s],
         s.manifest = seen[at].manifest, s.job = seen[at].job, s.ledger = seen[at].ledger,
         s.trace = seen[at].trace,
         UNCHANGED <<files, accounting, hash, snapshot, output>>,
         SummaryRead(s),
         \/ at' = at /\ pc' = "record1"
         \/ at' = at /\ pc' = "record2" /\ RecordRead(s, files[at], 1)
         \/ NextPair /\ WholeRead(s, files[at])
  PROVE  ReportInv'
<1>1. /\ at \in Pairs /\ seen \in [Pairs -> Files] /\ Accepted(seen, at)
      /\ ReadOf(seen[at], files[at]) /\ hash[at] \subseteq seen[at].ledger
  BY DEF ReportInv, TypeOK, Progress, Judged
<1>2. seen' \in [Pairs -> Files] /\ \A p \in Pairs : seen'[p] = IF p = at THEN s ELSE seen[p]
  BY <1>1
<1>3. \A p \in Pairs : Accepted(seen', p) <=> Accepted(seen, p)
  BY <1>2, AcceptedSame
<1>4. ReadOf(s, files[at])
  BY <1>1 DEF ReadOf, Accepted, Valid, LedgerValid
<1>5. TypeOK'
  BY <1>1, <1>2, NextPairMoves DEF ReportInv, TypeOK, Reading
<1>6. ASSUME NEW p \in Pairs PROVE PairOK(p)'
  <2>1. PairOK(p)
    BY DEF ReportInv, PairOK
  <2>2. ReadOf(seen'[p], files[p])
    BY <1>2, <1>4, <2>1 DEF PairOK
  <2>3. hash[p] \subseteq files[p].ledger /\ Ordered(files[p])
    BY <2>1 DEF PairOK
  <2>4. CASE at' = at /\ (pc' = "record1" \/ (pc' = "record2" /\ RecordRead(s, files[at], 1)))
    <3>1. Progress(p)'
      <4>1. CASE p = at
        <5>1. /\ seen'[p] = s /\ files'[p] = files[p] /\ Accepted(seen', p)
              /\ hash'[p] \subseteq seen'[p].ledger /\ at' = p
          BY <1>1, <1>2, <1>3, <2>4, <4>1
        <5>2. pc' = "record2" => RecordRead(s, files[p], 1)
          BY <2>4, <4>1
        <5>3. ~Finished(p)' /\ ~(p > at')
          BY <2>4, <5>1 DEF Finished, Pairs
        <5> QED
          BY <2>4, <4>1, <5>1, <5>2, <5>3 DEF Progress
      <4>2. CASE p # at
        <5>1. seen'[p] = seen[p] /\ (Judged(p)' <=> Judged(p)) /\ (Finished(p)' <=> Finished(p))
          BY <1>2, <2>4, <4>2 DEF Judged, Finished, Reading
        <5> QED
          BY <1>3, <2>1, <2>4, <4>2, <5>1 DEF PairOK, Progress, Reading
      <4> QED
        BY <4>1, <4>2
    <3>2. ~Comparing'
      BY <2>4 DEF Comparing
    <3> QED
      BY <2>1, <2>2, <2>3, <3>1, <3>2 DEF PairOK, Verified
  <2>5. CASE NextPair /\ WholeRead(s, files[at])
    <3>1. /\ at' \in Pairs /\ pc' \in {"manifest", "verify"} /\ ~Comparing'
          /\ Finished(p)' <=> Finished(p) \/ p = at
          /\ pc' = "manifest" /\ p >= at' => p > at
      BY <1>1, <2>5, NextPairMoves DEF Reading
    <3>2. Finished(p) <=> p < at
      BY DEF Finished, Reading
    <3>3. /\ Judged(p)' <=> Finished(p)'
          /\ p # at => (Judged(p) <=> Finished(p))
          /\ pc' = "manifest" /\ (p > at' \/ p = at') => p > at
      BY <1>1, <3>1 DEF Judged, Finished, Reading, Pairs
    <3>4. Progress(p)'
      <4>1. CASE p = at
        <5>1. /\ seen'[p] = s /\ files'[p] = files[p] /\ WholeRead(s, files[p])
              /\ hash'[p] \subseteq seen'[p].ledger
              /\ ~(pc' = "manifest" /\ (p > at' \/ p = at'))
          BY <1>1, <1>2, <2>5, <3>3, <4>1 DEF Pairs
        <5> QED
          BY <3>1, <5>1 DEF Progress, Reading
      <4>2. CASE p # at
        <5>1. seen'[p] = seen[p]
          BY <1>2, <4>2
        <5> QED
          BY <1>3, <2>1, <3>1, <3>3, <4>2, <5>1 DEF PairOK, Progress, Reading
      <4> QED
        BY <4>1, <4>2
    <3> QED
      BY <2>1, <2>2, <2>3, <3>1, <3>4 DEF PairOK, Verified
  <2> QED
    BY <2>4, <2>5
<1> QED
  BY <1>1, <1>5, <1>6, NextPairMoves DEF ReportInv, PairOK, Reading

LEMMA ReadSummaryKeepsReport ==
  ASSUME ReportInv, ReadSummary
  PROVE  ReportInv'
<1> DEFINE s == [seen[at] EXCEPT !.summary = files[at].summary]
<1>1. /\ pc = "summary" /\ pc' = "record1" /\ at' = at
      /\ UNCHANGED <<files, accounting, hash, snapshot, output>>
      /\ seen' = [seen EXCEPT ![at] = s]
  BY DEF ReadSummary, Goto
<1>2. /\ seen[at] \in Files /\ files[at] \in Files /\ Ordered(files[at])
      /\ ReadOf(seen[at], files[at])
  BY DEF ReportInv, TypeOK
<1>3. /\ s \in Files /\ s.job = seen[at].job /\ s.manifest = seen[at].manifest
      /\ s.ledger = seen[at].ledger /\ s.summary = files[at].summary /\ s.trace = seen[at].trace
  BY <1>2 DEF Files
<1> HIDE DEF s
<1>4. SummaryRead(s)
  BY <1>2, <1>3 DEF SummaryRead, ReadOf, Ordered, Has
<1> QED
  BY <1>1, <1>3, <1>4, ReadMore

LEMMA ReadRecordKeepsReport ==
  ASSUME ReportInv, NEW k \in Periods, ReadRecord(k)
  PROVE  ReportInv'
<1> DEFINE s == [seen[at] EXCEPT !.record[k] = files[at].record[k]]
<1>1. /\ pc = (IF k = 1 THEN "record1" ELSE "record2")
      /\ UNCHANGED <<files, accounting, hash, snapshot, output>>
      /\ seen' = [seen EXCEPT ![at] = s]
      /\ k = 1 => at' = at /\ pc' = "record2"
      /\ k # 1 => NextPair
  BY DEF ReadRecord, Goto
<1>2. /\ at \in Pairs /\ seen[at] \in Files /\ files[at] \in Files /\ Ordered(files[at])
      /\ ReadOf(seen[at], files[at]) /\ Progress(at)
  BY DEF ReportInv, TypeOK
<1>3. /\ s \in Files /\ s.job = seen[at].job /\ s.manifest = seen[at].manifest
      /\ s.ledger = seen[at].ledger /\ s.summary = seen[at].summary /\ s.trace = seen[at].trace
      /\ s.record[k] = files[at].record[k]
      /\ \A i \in Periods : i # k => s.record[i] = seen[at].record[i]
  <2>1. /\ seen[at].record \in [Periods -> Verdicts \cup {"none", "not_started"}]
        /\ files[at].record[k] \in Verdicts \cup {"none", "not_started"}
    BY <1>2 DEF Files
  <2> QED
    BY <1>2, <2>1 DEF Files
<1> HIDE DEF s
<1>4. SummaryRead(s)
  BY <1>1, <1>2, <1>3 DEF SummaryRead, Progress, Has, Periods
<1>5. RecordRead(s, files[at], k)
  BY <1>2, <1>3 DEF RecordRead, ReadOf, Ordered, Has
<1>6. k # 1 => RecordRead(s, files[at], 1)
  BY <1>1, <1>2, <1>3 DEF RecordRead, Progress, Has, Periods
<1>7. k # 1 => WholeRead(s, files[at])
  BY <1>4, <1>5, <1>6 DEF WholeRead, Periods
<1>8. pc \in {"summary", "record1", "record2"}
  BY <1>1
<1> QED
  BY <1>1, <1>3, <1>4, <1>5, <1>7, <1>8, ReadMore

LEMMA VerifyKeepsReport ==
  ASSUME ReportInv, Verify
  PROVE  ReportInv'
<1>1. /\ pc = "verify" /\ at \in Pairs /\ Unchanged(at)
      /\ UNCHANGED <<files, accounting, hash, seen, output>>
      /\ pc' = IF at = NPairs THEN "write" ELSE "verify"
      /\ at' = IF at = NPairs THEN at ELSE at + 1
      /\ snapshot' = IF at > 1 THEN snapshot
                     ELSE [p \in Pairs |-> IF Hashed(p) THEN files[p] ELSE Blank]
  BY DEF Verify, ReportInv, TypeOK
<1>2. at' \in Pairs /\ (pc' \in {"verify", "write"})
  BY <1>1, StudyAssumption DEF Pairs
<1>3. TypeOK'
  BY <1>1, <1>2, BlankTyped DEF ReportInv, TypeOK
<1>4. ASSUME NEW p \in Pairs PROVE PairOK(p)'
  <2>1. PairOK(p)
    BY DEF ReportInv, PairOK
  <2>2. Progress(p)'
    BY <1>1, <1>2, <2>1 DEF PairOK, Progress, Judged, Finished, Reading
  <2>3. Compared(p)' => p = at \/ (at > 1 /\ p < at)
    BY <1>1, StudyAssumption DEF Compared, Pairs
  <2>4. Hashed(p)' <=> Hashed(p)
    BY <1>1 DEF Hashed
  <2>5. hash[p] \subseteq seen[p].ledger
    BY <1>1, <2>1 DEF PairOK, Progress, Judged
  <2>6. CASE at > 1
    <3>1. /\ ReadOf(seen[p], snapshot[p]) /\ Ordered(snapshot[p])
          /\ Hashed(p) => Became(snapshot[p], files[p])
          /\ ~Hashed(p) => snapshot[p] = Blank
          /\ p < at /\ Hashed(p) => hash[p] = snapshot[p].ledger
          /\ p < at /\ TraceRead(seen[p]) => seen[p].trace = snapshot[p].trace
      BY <1>1, <2>1, <2>6 DEF PairOK, Verified, Comparing, Compared
    <3>2. p = at /\ Hashed(p) => hash[p] = snapshot[p].ledger
      BY <1>1, <2>5, <3>1 DEF Unchanged, Became, ReadOf
    <3>3. p = at /\ TraceRead(seen[p]) => seen[p].trace = snapshot[p].trace
      BY <1>1, <3>1 DEF Unchanged, Became, ReadOf, Later, TraceRead, LedgerValid, Hashed
    <3> QED
      BY <1>1, <2>1, <2>2, <2>3, <2>4, <2>6, <3>1, <3>2, <3>3 DEF PairOK, Verified
  <2>7. CASE ~(at > 1)
    <3>1. snapshot'[p] = IF Hashed(p) THEN files[p] ELSE Blank
      BY <1>1, <2>7
    <3>2. ReadOf(seen[p], snapshot'[p]) /\ Ordered(snapshot'[p])
      BY <2>1, <3>1, BlankTyped DEF PairOK, ReadOf, Later, Hashed
    <3>3. Hashed(p) => Became(snapshot'[p], files[p])
      BY <3>1, BecameItself
    <3>4. Compared(p)' /\ Hashed(p) => hash[p] = snapshot'[p].ledger
      BY <1>1, <2>3, <2>7, <3>1 DEF Unchanged
    <3>5. Compared(p)' /\ TraceRead(seen[p]) => seen[p].trace = snapshot'[p].trace
      BY <1>1, <2>3, <2>7, <3>1 DEF Unchanged, TraceRead, LedgerValid, Hashed
    <3> QED
      BY <1>1, <2>1, <2>2, <2>4, <3>1, <3>2, <3>3, <3>4, <3>5 DEF PairOK, Verified
  <2> QED
    BY <2>6, <2>7
<1> QED
  BY <1>1, <1>3, <1>4 DEF ReportInv, PairOK

LEMMA AbortKeepsReport ==
  ASSUME ReportInv, Abort
  PROVE  ReportInv'
<1>1. /\ pc = "verify" /\ pc' = "aborted" /\ at' = 1 /\ UNCHANGED <<files, accounting, output>>
      /\ hash' = [p \in Pairs |-> {}] /\ seen' = [p \in Pairs |-> Blank]
      /\ snapshot' = [p \in Pairs |-> Blank]
  BY DEF Abort
<1>2. TypeOK'
  BY <1>1, BlankTyped, StudyAssumption DEF ReportInv, TypeOK, Pairs
<1>3. ASSUME NEW p \in Pairs PROVE PairOK(p)'
  <2>1. PairOK(p)
    BY DEF ReportInv, PairOK
  <2> QED
    BY <1>1, <2>1, BlankTyped DEF PairOK, ReadOf, Later, Progress, Judged, Finished, Reading, Verified, Comparing
<1> QED
  BY <1>1, <1>2, <1>3 DEF ReportInv, PairOK

LEMMA ReportStep ==
  ASSUME ReportInv, [Next]_vars
  PROVE  ReportInv'
<1>1. CASE UNCHANGED vars
  <2>1. UNCHANGED <<files, accounting, pc, at, hash, seen, snapshot, output>>
    BY <1>1 DEF vars, collector
  <2>2. TypeOK'
    BY <2>1 DEF ReportInv, TypeOK
  <2>3. ASSUME NEW p \in Pairs PROVE PairOK(p)'
    <3>1. PairOK(p)
      BY DEF ReportInv, PairOK
    <3> QED
      BY <2>1, <3>1 DEF PairOK, Progress, Judged, Finished, Verified, Comparing, Compared, Hashed
  <2> QED
    BY <2>1, <2>2, <2>3 DEF ReportInv, PairOK
<1>2. ASSUME NEW p \in Pairs, Runner(p) PROVE ReportInv'
  BY <1>2, RunnerKeepsReport
<1>3. CASE Capture
  BY <1>3, StartKeepsReport
<1>4. CASE Collector
  BY <1>4, StartKeepsReport, ReadManifestKeepsReport, HashLedgerKeepsReport, ReadLedgerKeepsReport,
     ReadTraceKeepsReport, ReadSummaryKeepsReport, ReadRecordKeepsReport, VerifyKeepsReport, AbortKeepsReport DEF Collector
<1> QED
  BY <1>1, <1>2, <1>3, <1>4 DEF Next

(* The study's steps, whatever the control does.                           *)
LEMMA ReportAlways == MCSpec => []ReportInv
<1>1. MCInit => ReportInv
  BY InitReport DEF MCInit
<1>2. ReportInv /\ [MCNext]_<<part, vars, controlVars>> => ReportInv'
  BY ReportStep DEF MCNext
<1> QED
  BY <1>1, <1>2, PTL DEF MCSpec

-----------------------------------------------------------------------------
(* What a published report says.                                           *)

(* Of the files that a report looks at, the collector read what the        *)
(* snapshot held and what they still hold.                                 *)
LEMMA PublishedRead ==
  ASSUME ReportInv, Published, NEW p \in Pairs
  PROVE  /\ seen[p].manifest = snapshot[p].manifest /\ seen[p].job = snapshot[p].job
         /\ seen[p].ledger = snapshot[p].ledger /\ seen[p].ledger \subseteq files[p].ledger
         /\ TraceRead(seen[p]) => seen[p].trace = snapshot[p].trace
         /\ Accepted(seen, p) =>
              /\ \A k \in Periods : Has(seen[p], "terminal", k) =>
                   seen[p].record[k] # "none"
                   /\ seen[p].record[k] = snapshot[p].record[k] /\ seen[p].record[k] = files[p].record[k]
              /\ seen[p].manifest = "started" /\ Has(seen[p], "closed", 0) =>
                   seen[p].summary /\ snapshot[p].summary
<1>1. /\ pc = "done" /\ ReadOf(seen[p], files[p]) /\ Progress(p) /\ Verified(p)
  BY DEF ReportInv, Published
<1>2. /\ ReadOf(seen[p], snapshot[p]) /\ Ordered(snapshot[p])
      /\ Hashed(p) => Became(snapshot[p], files[p]) /\ hash[p] = snapshot[p].ledger
      /\ ~Hashed(p) => snapshot[p] = Blank
      /\ TraceRead(seen[p]) => seen[p].trace = snapshot[p].trace
  BY <1>1 DEF Verified, Comparing, Compared
<1>3. hash[p] \subseteq seen[p].ledger /\ (Accepted(seen, p) => WholeRead(seen[p], files[p]))
  BY <1>1 DEF Progress, Judged, Finished
<1>4. /\ seen[p].manifest = snapshot[p].manifest /\ seen[p].job = snapshot[p].job
      /\ seen[p].ledger = snapshot[p].ledger /\ seen[p].ledger \subseteq files[p].ledger
  <2>1. CASE Hashed(p)
    BY <1>1, <1>2, <1>3, <2>1 DEF ReadOf, Hashed
  <2>2. CASE ~Hashed(p)
    BY <1>1, <1>2, <2>2 DEF ReadOf, Hashed
  <2> QED
    BY <2>1, <2>2
<1>5. ASSUME Accepted(seen, p)
      PROVE  /\ \A k \in Periods : Has(seen[p], "terminal", k) =>
                  seen[p].record[k] # "none"
                  /\ seen[p].record[k] = snapshot[p].record[k] /\ seen[p].record[k] = files[p].record[k]
             /\ seen[p].manifest = "started" /\ Has(seen[p], "closed", 0) =>
                  seen[p].summary /\ snapshot[p].summary
  <2>1. Hashed(p) /\ WholeRead(seen[p], files[p])
    BY <1>3, <1>5 DEF Accepted, Valid, LedgerValid, Hashed
  <2> QED
    BY <1>2, <1>4, <2>1 DEF WholeRead, RecordRead, SummaryRead, Ordered, Became, Has
<1> QED
  BY <1>2, <1>4, <1>5

(* What every slot says is all that a configuration and a comparison say.  *)
LEMMA SlotsDecide ==
  ASSUME NEW s, NEW t, \A p \in Pairs, k \in Periods : Slot(s, p, k) = Slot(t, p, k)
  PROVE  \A g \in Configs : /\ State(s, g) = State(t, g)
                            /\ \A l : Known(s, g, l) <=> Known(t, g, l)
                            /\ \A p \in Pairs : Completed(s, p, g) <=> Completed(t, p, g)
<1>1. \A p \in Pairs, g \in Configs : SlotOf(s, p, g) = SlotOf(t, p, g)
  BY DEF SlotOf, PeriodOf, Periods
<1> QED
  BY <1>1 DEF State, Known, Completed, Resolved, Worst

LEMMA PublishedIsSnapshot == ReportInv => ReportIsSnapshot
<1> SUFFICES ASSUME ReportInv, Published
             PROVE  Report(seen, accounting) = Report(snapshot, accounting)
  BY DEF ReportIsSnapshot
<1>1. \A p \in Pairs : Accepted(seen, p) <=> Accepted(snapshot, p)
  BY PublishedRead, AcceptedSame
<1>2. ASSUME NEW p \in Pairs, NEW k \in Periods
      PROVE  /\ Recorded(seen, p, k) <=> Recorded(snapshot, p, k)
             /\ Eligible(seen, p, k) <=> Eligible(snapshot, p, k)
             /\ Recorded(seen, p, k) => seen[p].record[k] = snapshot[p].record[k]
  BY <1>1, PublishedRead DEF Recorded, Eligible, Has
<1>3. \A p \in Pairs, k \in Periods : Slot(seen, p, k) = Slot(snapshot, p, k)
  <2> SUFFICES ASSUME NEW p \in Pairs, NEW k \in Periods PROVE Slot(seen, p, k) = Slot(snapshot, p, k)
    OBVIOUS
  <2>1. Recorded(seen, p, k) = Recorded(snapshot, p, k)
    <3>1. Recorded(seen, p, k) \in BOOLEAN /\ Recorded(snapshot, p, k) \in BOOLEAN
      BY DEF Recorded
    <3> QED
      BY <1>2, <3>1
  <2>2. (IF Eligible(seen, p, k) THEN seen[p].record[k] ELSE "unresolved")
          = IF Eligible(snapshot, p, k) THEN snapshot[p].record[k] ELSE "unresolved"
    BY <1>2 DEF Eligible
  <2> QED
    BY <2>1, <2>2, Zenon DEF Slot
<1>4. \A g \in Configs : /\ State(seen, g) = State(snapshot, g)
                         /\ \A l : Known(seen, g, l) <=> Known(snapshot, g, l)
                         /\ \A p \in Pairs : Completed(seen, p, g) <=> Completed(snapshot, p, g)
  BY <1>3, SlotsDecide
<1>5. \A p \in Pairs : /\ WholeKnown(seen, accounting, p) <=> WholeKnown(snapshot, accounting, p)
                       /\ ObservedKnown(seen, p) <=> ObservedKnown(snapshot, p)
  BY <1>1, PublishedRead DEF WholeKnown, ObservedKnown, Has
<1>6. [p \in Pairs |-> [k \in Periods |-> Slot(seen, p, k)]]
        = [p \in Pairs |-> [k \in Periods |-> Slot(snapshot, p, k)]]
  BY <1>3
<1>7. [g \in Configs |-> [state |-> State(seen, g), failureKnown |-> Known(seen, g, "memory_failure"),
                          exceedanceKnown |-> Known(seen, g, "above_margin")]]
        = [g \in Configs |-> [state |-> State(snapshot, g), failureKnown |-> Known(snapshot, g, "memory_failure"),
                              exceedanceKnown |-> Known(snapshot, g, "above_margin")]]
  <2>1. \A g \in Configs : /\ State(seen, g) = State(snapshot, g)
                           /\ Known(seen, g, "memory_failure") = Known(snapshot, g, "memory_failure")
                           /\ Known(seen, g, "above_margin") = Known(snapshot, g, "above_margin")
    <3>1. \A g \in Configs : \A l : Known(seen, g, l) \in BOOLEAN /\ Known(snapshot, g, l) \in BOOLEAN
      BY DEF Known
    <3> QED
      BY <1>4, <3>1
  <2> QED
    BY <2>1, Zenon
<1>8. /\ {p \in Pairs : \A g \in Configs : Completed(seen, p, g)}
           = {p \in Pairs : \A g \in Configs : Completed(snapshot, p, g)}
      /\ {g \in Configs : State(seen, g) # "unresolved"} = {g \in Configs : State(snapshot, g) # "unresolved"}
  BY <1>4
<1>9. /\ {p \in Pairs : WholeKnown(seen, accounting, p)} = {p \in Pairs : WholeKnown(snapshot, accounting, p)}
      /\ {p \in Pairs : ObservedKnown(seen, p)} = {p \in Pairs : ObservedKnown(snapshot, p)}
      /\ (\A p \in Pairs : WholeKnown(seen, accounting, p)) = (\A p \in Pairs : WholeKnown(snapshot, accounting, p))
  BY <1>5
<1> QED
  BY <1>6, <1>7, <1>8, <1>9, Zenon DEF Report

(* A configuration's label, by its pairs' slots.                           *)
LEMMA LabelBySlots ==
  ASSUME NEW s, NEW g \in Configs, State(s, g) # "unresolved"
  PROVE  /\ \A p \in Pairs : Eligible(s, p, PeriodOf(p, g))
         /\ State(s, g) = "memory_failure" <=> \E p \in Pairs : s[p].record[PeriodOf(p, g)] = "memory_failure"
         /\ State(s, g) = "within_margin" <=> \A p \in Pairs : s[p].record[PeriodOf(p, g)] = "within_margin"
<1>1. Resolved(s, g) /\ State(s, g) = Worst(s, g)
  BY DEF State
<1>2. \A p \in Pairs : /\ Eligible(s, p, PeriodOf(p, g))
                       /\ SlotOf(s, p, g).state = s[p].record[PeriodOf(p, g)]
                       /\ s[p].record[PeriodOf(p, g)] \in Labels
  BY <1>1 DEF Resolved, SlotOf, Slot, Eligible
<1>3. \A l \in Labels : Known(s, g, l) <=> \E p \in Pairs : s[p].record[PeriodOf(p, g)] = l
  BY <1>2 DEF Known
<1>4. /\ Worst(s, g) = "memory_failure" <=> Known(s, g, "memory_failure")
      /\ Worst(s, g) = "within_margin" <=> ~Known(s, g, "memory_failure") /\ ~Known(s, g, "above_margin")
  <2>1. CASE Known(s, g, "memory_failure")
    BY <2>1 DEF Worst
  <2>2. CASE ~Known(s, g, "memory_failure") /\ Known(s, g, "above_margin")
    BY <2>2 DEF Worst
  <2>3. CASE ~Known(s, g, "memory_failure") /\ ~Known(s, g, "above_margin")
    BY <2>3 DEF Worst
  <2> QED
    BY <2>1, <2>2, <2>3
<1>5. \A p \in Pairs : s[p].record[PeriodOf(p, g)] = "within_margin" <=>
        s[p].record[PeriodOf(p, g)] # "memory_failure" /\ s[p].record[PeriodOf(p, g)] # "above_margin"
  BY <1>2 DEF Labels
<1>6. "memory_failure" \in Labels /\ "above_margin" \in Labels
  BY DEF Labels
<1> QED
  BY <1>1, <1>2, <1>3, <1>4, <1>5, <1>6, Zenon

LEMMA PublishedIsTrue == ReportInv => LabelIsTruth
<1> SUFFICES ASSUME ReportInv, Published, NEW g \in Configs,
                    Report(seen, accounting).configurations[g].state # "unresolved"
             PROVE  LET outcome(p) == files[p].record[PeriodOf(p, g)]
                        label == Report(seen, accounting).configurations[g].state
                    IN  /\ \A p \in Pairs : /\ outcome(p) \in Labels
                                            /\ Has(files[p], "terminal", PeriodOf(p, g))
                        /\ label = "memory_failure" <=> \E p \in Pairs : outcome(p) = "memory_failure"
                        /\ label = "within_margin" <=> \A p \in Pairs : outcome(p) = "within_margin"
  BY DEF LabelIsTruth
<1>1. Report(seen, accounting).configurations[g].state = State(seen, g)
  BY DEF Report
<1>2. State(seen, g) # "unresolved"
  BY <1>1
<1>3. \A p \in Pairs : PeriodOf(p, g) \in Periods
  BY DEF PeriodOf, Periods
<1>4. \A p \in Pairs : /\ files[p].record[PeriodOf(p, g)] = seen[p].record[PeriodOf(p, g)]
                       /\ files[p].record[PeriodOf(p, g)] \in Labels
                       /\ Has(files[p], "terminal", PeriodOf(p, g))
  BY <1>2, <1>3, LabelBySlots, PublishedRead DEF Eligible, Recorded, Has
<1> QED
  BY <1>1, <1>2, <1>4, LabelBySlots

LEMMA PublishedNests == ReportInv => CostsNest
<1> SUFFICES ASSUME ReportInv, Published, NEW p \in Report(seen, accounting).observed, NEW k \in Periods
             PROVE  Report(seen, accounting).slots[p][k].costKnown
  BY DEF CostsNest
<1>1. p \in Pairs /\ ObservedKnown(seen, p)
  BY DEF Report
<1>2. Recorded(seen, p, k)
  BY <1>1, PublishedRead DEF ObservedKnown, Recorded
<1>3. Report(seen, accounting).slots[p][k] = Slot(seen, p, k)
  BY <1>1 DEF Report
<1> QED
  BY <1>2, <1>3 DEF Slot

(* What was concluded of files stands when more has been written.          *)
LEMMA RunnersRefine ==
  ASSUME FilesOK, FilesOK', \A q \in Pairs : Became(files[q], files'[q])
  PROVE  Refines
<1> SUFFICES ASSUME \A p, q \in Pairs : files'[p].job = files'[q].job => p = q \/ files'[p].job = NoJob,
                    \A p \in Pairs : ~Torn(files'[p])
             PROVE  \A g \in Configs :
                      /\ State(files, g) # "unresolved" => State(files', g) = State(files, g)
                      /\ \A l \in Labels : Known(files, g, l) => Known(files', g, l)
  BY DEF Refines
<1>1. ASSUME NEW p \in Pairs, Valid(files[p]) PROVE Accepted(files', p)
  <2>1. Valid(files'[p])
    BY <1>1 DEF Valid, LedgerValid, Torn, Became, Later, Has
  <2>2. files'[p].job # NoJob
    BY <2>1, BlankTyped DEF FilesOK, Ordered, Valid, LedgerValid
  <2>3. \A q \in 1..(p - 1) : q \in Pairs /\ q # p
    BY StudyAssumption DEF Pairs
  <2> QED
    BY <2>1, <2>2, <2>3 DEF Accepted, Reused
<1>2. ASSUME NEW p \in Pairs, NEW k \in Periods, Eligible(files, p, k)
      PROVE  Slot(files', p, k) = Slot(files, p, k)
  <2>1. Accepted(files', p) /\ files[p].record[k] # "none" /\ Became(files[p], files'[p])
    BY <1>1, <1>2 DEF Eligible, Recorded, Accepted
  <2>2. Eligible(files', p, k) /\ Recorded(files', p, k) /\ files'[p].record[k] = files[p].record[k]
    BY <1>2, <2>1 DEF Eligible, Recorded, Became, Has
  <2> QED
    BY <1>2, <2>2 DEF Slot, Eligible
<1>3. ASSUME NEW g \in Configs, NEW p \in Pairs, SlotOf(files, p, g).state # "unresolved"
      PROVE  SlotOf(files', p, g) = SlotOf(files, p, g)
  <2>1. PeriodOf(p, g) \in Periods /\ Eligible(files, p, PeriodOf(p, g))
    BY <1>3 DEF SlotOf, Slot, PeriodOf, Periods
  <2> QED
    BY <1>2, <2>1 DEF SlotOf
<1>4. ASSUME NEW g \in Configs, NEW l \in Labels, Known(files, g, l) PROVE Known(files', g, l)
  BY <1>3, <1>4 DEF Known, Labels
<1>5. ASSUME NEW g \in Configs, State(files, g) # "unresolved" PROVE State(files', g) = State(files, g)
  <2>1. \A p \in Pairs : SlotOf(files', p, g) = SlotOf(files, p, g)
    BY <1>3, <1>5 DEF State, Resolved
  <2> QED
    BY <2>1 DEF State, Resolved, Worst, Known
<1> QED
  BY <1>4, <1>5

-----------------------------------------------------------------------------
(* A published report is the report of one moment: what a collector would  *)
(* have concluded that saw every pair it found as it was when verification *)
(* began (collect_estimation_study.py: Evidence, verify, collect).         *)
THEOREM ReportOfOneMoment == MCSpec => []ReportIsSnapshot
BY ReportAlways, PublishedIsSnapshot, PTL

(* A published label is the truth of the whole configuration, as the files *)
(* of every seed have it (collect_estimation_study.py: configurations).    *)
THEOREM LabelsTrue == MCSpec => []LabelIsTruth
BY ReportAlways, PublishedIsTrue, PTL

(* Where an allocation's observed cost is reported, both its invocations'  *)
(* are (collect_estimation_study.py: process_slot, allocation_cost).       *)
THEOREM CostsAreNested == MCSpec => []CostsNest
BY ReportAlways, PublishedNests, PTL

(* While runners write, the labels of a study's configurations, and what   *)
(* is known of the open ones, only refine, as long as no job is used for   *)
(* two pairs and no kill tears a ledger or a trace (configurations,        *)
(* validate_pair).                                                         *)
THEOREM StudyLearns == MCSpec => LabelsOnlyRefine
<1>1. ReportInv /\ [MCNext]_<<part, vars, controlVars>> => [Refines]_files
  <2> SUFFICES ASSUME ReportInv, MCNext, files' # files PROVE Refines
    BY DEF vars
  <2>1. PICK p \in Pairs : Runner(p)
    BY DEF MCNext, Next, vars, Capture, collector, Collector, Start, ReadManifest, HashLedger, ReadLedger,
           ReadTrace, ReadSummary, ReadRecord, Verify, Abort, WriteResults
  <2>2. FilesOK
    BY DEF ReportInv, TypeOK, FilesOK
  <2> QED
    BY <2>1, <2>2, RunnerWrites, RunnersRefine
<1> QED
  BY <1>1, ReportAlways, PTL DEF LabelsOnlyRefine, MCSpec

-----------------------------------------------------------------------------
(* The replication control's cost.                                         *)

Moment == Nat \cup {NotYet}
JobRecords == [start : Moment, end : Moment, state : {"PENDING", "RUNNING", "COMPLETED", "CANCELLED"},
         batchEnd : Moment]

(* The scheduler's records, and the ledger that a manifest follows.        *)
Records ==
  /\ now \in Nat
  /\ job \in [Blocks -> JobRecords]
  /\ \A b \in Blocks : /\ job[b].end # NotYet => job[b].start # NotYet /\ job[b].state # "RUNNING"
                       /\ job[b].state = "RUNNING" => job[b].start # NotYet
                       /\ job[b].start # NotYet => job[b].start <= now
                       /\ job[b].end # NotYet => job[b].start <= job[b].end
Ledgers ==
  /\ block \in [Blocks -> [directory : BOOLEAN, ledger : Seq(Nat), manifest : BOOLEAN]]
  /\ \A b \in Blocks : block[b].manifest => block[b].ledger # << >>

(* What was saved of a job stays true of it: it had started, and if it had *)
(* ended, then when.                                                       *)
Saved(b, row) ==
  /\ row.job \in JobRecords
  /\ row.job.start # NotYet /\ row.job.start = job[b].start
  /\ row.job.end # NotYet => row.job.end = job[b].end
ResponseTrue ==
  response # NotYet => DOMAIN response \subseteq Blocks /\ \A b \in DOMAIN response : Saved(b, response[b])
AccountingTrue ==
  charged # NotYet => DOMAIN charged \subseteq Blocks /\ \A b \in DOMAIN charged : Saved(b, charged[b].row)

ControlInv == Records /\ Ledgers /\ ResponseTrue /\ AccountingTrue

-----------------------------------------------------------------------------
LEMMA InitControl == Control!Init => ControlInv
BY ControlAssumed DEF Control!ControlAssumption, Control!Init, ControlInv, Records, Ledgers,
    ResponseTrue, AccountingTrue, Control!Unstarted, Control!Unclaimed,
       JobRecords, Moment

(* A job starts once and ends once.                                        *)
LEMMA JobsKept ==
  ASSUME Records, Control!Next
  PROVE  /\ Records'
         /\ \A b \in Blocks : /\ job[b].start # NotYet => job'[b].start = job[b].start
                              /\ job[b].end # NotYet => job'[b].end = job[b].end
<1> DEFINE Kept == \A b \in Blocks : /\ job[b].start # NotYet => job'[b].start = job[b].start
                                     /\ job[b].end # NotYet => job'[b].end = job[b].end
<1>1. CASE Control!Tick
  BY <1>1 DEF Control!Tick, Records, JobRecords, Moment
<1>2. ASSUME NEW b \in Blocks, Control!StartJob(b) PROVE Records' /\ Kept
  <2> DEFINE new == [job[b] EXCEPT !.start = now, !.state = "RUNNING"]
  <2>1. job' = [job EXCEPT ![b] = new] /\ job[b].start = NotYet /\ now' = now
    BY <1>2 DEF Control!StartJob
  <2>2. job[b] \in JobRecords /\ now \in Nat
    BY DEF Records
  <2>3. new \in JobRecords /\ new.end = job[b].end /\ new.start # NotYet /\ job[b].end = NotYet
        /\ new.start = now
    BY <2>1, <2>2, ControlAssumed DEF Control!ControlAssumption, Records, JobRecords, Moment
  <2> HIDE DEF new
  <2> QED BY <2>1, <2>2, <2>3 DEF Records
<1>3. ASSUME NEW b \in Blocks, Control!EndJob(b) PROVE Records' /\ Kept
  <2>1. PICK state \in {"COMPLETED", "CANCELLED"}, batchEnd \in {now, NotYet} :
          job' = [job EXCEPT ![b] = [@ EXCEPT !.end = now, !.state = state, !.batchEnd = batchEnd]]
    BY <1>3 DEF Control!EndJob
  <2>2. job[b] \in JobRecords /\ job[b].state = "RUNNING" /\ now' = now
    BY <1>3 DEF Control!EndJob, Records
  <2> DEFINE new == [job[b] EXCEPT !.end = now, !.state = state, !.batchEnd = batchEnd]
  <2>3. job' = [job EXCEPT ![b] = new]
    BY <2>1
  <2>4. /\ new \in JobRecords /\ new.start = job[b].start /\ new.end # NotYet /\ new.state # "RUNNING"
        /\ job[b].end = NotYet /\ new.end = now
    BY <2>2, ControlAssumed DEF Control!ControlAssumption, Records, JobRecords, Moment
  <2> HIDE DEF new
  <2>5. job[b].start # NotYet /\ job[b].start <= now
    BY <2>2 DEF Records
  <2>6. job' \in [Blocks -> JobRecords] /\ now' \in Nat
    BY <2>2, <2>3, <2>4 DEF Records
  <2>7. ASSUME NEW c \in Blocks
        PROVE  job'[c] = IF c = b THEN new ELSE job[c]
    BY <2>3 DEF Records
  <2>8. Kept
    BY <2>4, <2>7
  <2>9. ASSUME NEW c \in Blocks
        PROVE  /\ job'[c].end # NotYet => job'[c].start # NotYet /\ job'[c].state # "RUNNING"
               /\ job'[c].state = "RUNNING" => job'[c].start # NotYet
               /\ job'[c].start # NotYet => job'[c].start <= now'
               /\ job'[c].end # NotYet => job'[c].start <= job'[c].end
    <3>1. CASE c = b
      BY <2>2, <2>4, <2>5, <2>7, <3>1
    <3>2. CASE c # b
      BY <2>2, <2>7, <3>2 DEF Records
    <3> QED BY <3>1, <3>2
  <2> QED BY <2>6, <2>8, <2>9 DEF Records
<1>4. ASSUME NEW b \in Blocks, Control!EndBatch(b) PROVE Records' /\ Kept
  BY <1>4 DEF Control!EndBatch, Records, JobRecords, Moment
<1>5. CASE UNCHANGED <<now, job>>
  BY <1>5 DEF Records
<1> QED BY <1>1, <1>2, <1>3, <1>4, <1>5 DEF Control!Next, Control!SaveResponse, Control!Capture,
    Control!Publish, Control!MakeDirectory, Control!AddEvent,
           Control!WriteManifest, Control!Wrote

(* A manifest is written only over a ledger, which is never cut.           *)
LEMMA LedgersKept == ASSUME Records, Ledgers, Control!Next PROVE Ledgers'
<1> DEFINE BlockSet == [directory : BOOLEAN, ledger : Seq(Nat), manifest : BOOLEAN]
<1>t. block \in [Blocks -> BlockSet] /\ now \in Nat
  BY DEF Records, Ledgers
<1>w. ASSUME NEW b \in Blocks, NEW value \in BlockSet, Control!Wrote(b, value), value.manifest => value.ledger # << >>
      PROVE  Ledgers'
  BY <1>t, <1>w DEF Ledgers, Control!Wrote
<1>1. ASSUME NEW b \in Blocks, Control!MakeDirectory(b) PROVE Ledgers'
  <2>1. [block[b] EXCEPT !.directory = TRUE] \in BlockSet
    BY <1>t
  <2>2. Control!Wrote(b, [block[b] EXCEPT !.directory = TRUE])
    BY <1>1 DEF Control!MakeDirectory
  <2>3. /\ [block[b] EXCEPT !.directory = TRUE].manifest = block[b].manifest
        /\ [block[b] EXCEPT !.directory = TRUE].ledger = block[b].ledger
    BY <1>t
  <2> QED BY <1>w, <2>1, <2>2, <2>3 DEF Ledgers
<1>2. ASSUME NEW b \in Blocks, Control!AddEvent(b) PROVE Ledgers'
  <2> DEFINE value == [block[b] EXCEPT !.ledger = Append(block[b].ledger, now)]
  <2>1. block[b].ledger \in Seq(Nat)
    BY <1>t
  <2>2. Append(block[b].ledger, now) \in Seq(Nat) /\ Append(block[b].ledger, now) # << >>
    BY <1>t, <2>1
  <2>3. value \in BlockSet /\ value.ledger # << >>
    BY <1>t, <2>2
  <2>4. Control!Wrote(b, value)
    BY <1>2 DEF Control!AddEvent
  <2> QED BY <1>w, <2>3, <2>4
<1>3. ASSUME NEW b \in Blocks, Control!WriteManifest(b) PROVE Ledgers'
  <2> DEFINE value == [block[b] EXCEPT !.manifest = TRUE]
  <2>1. value \in BlockSet /\ value.ledger = block[b].ledger
    BY <1>t
  <2>2. Control!Wrote(b, value) /\ block[b].ledger # << >>
    BY <1>3 DEF Control!WriteManifest
  <2> QED BY <1>w, <2>1, <2>2
<1>4. CASE block' = block
  BY <1>4 DEF Ledgers
<1> QED BY <1>1, <1>2, <1>3, <1>4, Zenon DEF Control!Next, Control!Tick, Control!StartJob,
    Control!EndJob, Control!EndBatch, Control!SaveResponse, Control!Capture, Control!Publish

(* What was saved is true when it is saved, and stays so.                  *)
LEMMA SavedKept ==
  ASSUME Records, ResponseTrue, AccountingTrue, Control!Next
  PROVE  ResponseTrue' /\ AccountingTrue'
<1>k. ASSUME NEW b \in Blocks, NEW row, Saved(b, row)
      PROVE  row.job.start = job'[b].start /\ (row.job.end # NotYet => row.job.end = job'[b].end)
  BY <1>k, JobsKept DEF Saved
<1>s. ASSUME NEW b \in Blocks, NEW row, Saved(b, row) PROVE Saved(b, row)'
  BY <1>k, <1>s DEF Saved
<1>1. ResponseTrue'
  <2>1. CASE Control!SaveResponse
    <3>1. PICK jobs \in SUBSET {b \in Blocks : job[b].start # NotYet} : \E steps \in SUBSET jobs :
            response' = [b \in jobs |-> [job |-> job[b], batch |-> b \in steps]]
      BY <2>1 DEF Control!SaveResponse
    <3>2. PICK steps \in SUBSET jobs : response' = [b \in jobs |-> [job |-> job[b], batch |-> b \in steps]]
      BY <3>1
    <3>3. DOMAIN response' = jobs /\ job' = job
      BY <2>1, <3>2 DEF Control!SaveResponse
    <3>4. ASSUME NEW b \in jobs PROVE Saved(b, response[b])'
      <4>0. response'[b] = [job |-> job[b], batch |-> b \in steps]
        BY <3>2, Zenon
      <4>1. response'[b].job = job[b]
        BY <4>0
      <4> QED BY <3>3, <4>1 DEF Saved, Records
    <3> QED BY <3>3, <3>4 DEF ResponseTrue
  <2>2. CASE response' = response
    BY <1>s, <2>2 DEF ResponseTrue
  <2> QED BY <2>1, <2>2, Zenon DEF Control!Next, Control!Tick, Control!StartJob, Control!EndJob,
      Control!EndBatch, Control!MakeDirectory, Control!AddEvent, Control!WriteManifest,
             Control!Wrote, Control!Capture, Control!Publish, Control!collected
<1>2. AccountingTrue'
  <2>1. CASE Control!Capture
    <3>1. /\ charged' = [b \in DOMAIN response |-> [row |-> response[b], ledger |-> block[b].ledger]]
          /\ response # NotYet
      BY <2>1 DEF Control!Capture, Control!Captured
    <3>2. ASSUME NEW b \in DOMAIN response PROVE Saved(b, charged[b].row)'
      <4>1. charged'[b].row = response[b] /\ Saved(b, response[b]) /\ b \in Blocks
        BY <3>1 DEF ResponseTrue
      <4> QED BY <1>k, <4>1 DEF Saved
    <3> QED BY <3>1, <3>2 DEF AccountingTrue, ResponseTrue
  <2>2. CASE charged' = charged
    BY <1>s, <2>2 DEF AccountingTrue
  <2> QED BY <2>1, <2>2, Zenon DEF Control!Next, Control!Tick, Control!StartJob, Control!EndJob,
      Control!EndBatch, Control!MakeDirectory, Control!AddEvent, Control!WriteManifest,
             Control!Wrote, Control!SaveResponse, Control!Publish, Control!collected
<1> QED BY <1>1, <1>2

-----------------------------------------------------------------------------
(* A published cost charges every claimed block, for the whole time its    *)
(* allocation was held and all the work its ledger shows                   *)
(* (replication_control_accounting.py: block_claims, reconstruct).         *)
THEOREM Charged == MCSpec => CostCovers
<1> DEFINE Kept == part = "control" => ControlInv
<1>1. Kept /\ [MCNext]_<<part, vars, controlVars>> => Kept'
  <2>1. ControlInv /\ Control!Next => ControlInv'
    BY JobsKept, LedgersKept, SavedKept DEF ControlInv
  <2>2. ControlInv /\ UNCHANGED controlVars => ControlInv'
    BY DEF ControlInv, Records, Ledgers, ResponseTrue, AccountingTrue, Saved, controlVars
  <2> QED BY <2>1, <2>2 DEF MCNext
<1>2. Kept /\ [MCNext]_<<part, vars, controlVars>> => [part = "control" => Control!Covers]_cost
  <2> SUFFICES ASSUME ControlInv, Control!Next, cost' # cost PROVE Control!Covers
    BY DEF MCNext, controlVars
  <2>1. Control!Publish
    BY Zenon DEF Control!vars, Control!Next, Control!Tick, Control!StartJob, Control!EndJob,
        Control!EndBatch, Control!MakeDirectory, Control!AddEvent, Control!WriteManifest,
        Control!Wrote,
                 Control!SaveResponse, Control!Capture, Control!collected
  <2>2. /\ charged # NotYet /\ Control!Sound(charged)
        /\ cost' = [b \in DOMAIN charged |->
             [whole |-> Control!GpuSeconds(charged[b].row.job.start, charged[b].row.job.end),
              batch |-> IF charged[b].row.batch
                        THEN Control!GpuSeconds(charged[b].row.job.start, charged[b].row.job.batchEnd) ELSE NotYet]]
    BY <2>1 DEF Control!Publish
  <2>3. DOMAIN cost' = {b \in Blocks : block[b].directory} /\ DOMAIN charged = Control!Claims /\ DOMAIN cost' = Control!Claims
    BY <2>2 DEF Control!Sound, Control!Claims
  <2>4. ASSUME NEW b \in DOMAIN charged
        PROVE  /\ job[b].end # NotYet /\ cost'[b].whole = Control!GpuSeconds(job[b].start, job[b].end)
               /\ LET last == block[b].ledger[Len(block[b].ledger)]
                  IN last > job[b].end => cost'[b].batch # NotYet
                                          /\ Control!GpuSeconds(job[b].start, last) <= cost'[b].batch
    <3> DEFINE row == charged[b].row
               last == block[b].ledger[Len(block[b].ledger)]
    <3>1. b \in Blocks /\ block[b].manifest /\ Control!Terminal(row) /\ Control!Within(row, block[b].ledger)
      BY <2>2, <2>3 DEF Control!Sound, Control!ClaimsWhole, Control!Claims
    <3>2. row.job \in JobRecords /\ row.job.start = job[b].start /\ row.job.end = job[b].end /\ row.job.end # NotYet
          /\ row.job.start # NotYet
      BY <2>2, <3>1 DEF ControlInv, AccountingTrue, Saved, Control!Terminal
    <3>3. row.job.start \in Nat /\ row.job.end \in Nat
      BY <3>2 DEF JobRecords, Moment
    <3>4. last \in Nat
      <4>1. block[b].ledger \in Seq(Nat) /\ block[b].ledger # << >>
        BY <3>1 DEF ControlInv, Ledgers
      <4> QED BY <4>1
    <3>5. cost'[b].whole = Control!GpuSeconds(row.job.start, row.job.end)
      BY <2>2
    <3>6. ASSUME last > row.job.end
          PROVE  cost'[b].batch # NotYet /\ Control!GpuSeconds(row.job.start, last) <= cost'[b].batch
      <4>1. row.batch
        BY <3>1, <3>3, <3>4, <3>6 DEF Control!Within, Control!Bound
      <4>2. cost'[b].batch = Control!GpuSeconds(row.job.start, row.job.batchEnd)
        BY <2>2, <4>1
      <4>3. row.job.batchEnd \in Nat /\ last <= row.job.batchEnd
        BY <3>1, <3>2, <4>1 DEF Control!Terminal, Control!Within, JobRecords, Moment
      <4>4. row.job.start <= row.job.end
        BY <3>1, <3>2 DEF ControlInv, Records
      <4>5. /\ Control!GpuSeconds(row.job.start, row.job.batchEnd) \in Nat
            /\ Control!GpuSeconds(row.job.start, last) <= Control!GpuSeconds(row.job.start, row.job.batchEnd)
        <5> HIDE DEF row, last
        <5> QED BY <3>3, <3>4, <3>6, <4>3, <4>4 DEF Control!GpuSeconds
      <4>6. NotYet \notin Nat
        BY ControlAssumed DEF Control!ControlAssumption
      <4> HIDE DEF row, last
      <4> QED BY <4>2, <4>5, <4>6
    <3>7. cost'[b].whole = Control!GpuSeconds(job[b].start, job[b].end)
      BY <3>2, <3>5, Zenon
    <3>8. last > job[b].end => cost'[b].batch # NotYet /\ Control!GpuSeconds(job[b].start, last) <= cost'[b].batch
      BY <3>2, <3>6, Zenon
    <3> QED BY <3>2, <3>7, <3>8
  <2> QED BY <2>3, <2>4 DEF Control!Covers
<1>3. MCInit => Kept
  BY InitControl DEF MCInit
<1> QED BY <1>1, <1>2, <1>3, PTL DEF MCSpec, CostCovers
=============================================================================
