-------------------------- MODULE Evidence_proofs --------------------------
(***************************************************************************)
(* Proofs about Evidence: types, then custody (KeptInv), needs (LateInv)    *)
(* and replays (ListInv); and about three of the systems beside it: what    *)
(* the audit rebuilds (Forensics, AuditInv), what is recovered from the     *)
(* venue (PrintRecovery, RecoveryInv), and the venues that are followed     *)
(* (MarketDesk, DeskInv).  Each invariant has one lemma per part or per     *)
(* action that disturbs it.                                                 *)
(***************************************************************************)
EXTENDS EvidenceParts, Sequences, FiniteSetTheorems, TLAPS

LEMMA Numbers ==
  /\ 0 \in 0..Zips /\ Zip \subseteq 0..Zips /\ 0 \notin Zip
  /\ Reader \in Holders /\ Maintainers \subseteq Holders /\ Reader \notin Maintainers
BY EvidenceAssumption DEF Zip, Holders

\* What the type invariant says of one maintainer.
OwnTypes(m) ==
  /\ work[m] \subseteq Segs /\ todo[m] \subseteq Segs /\ keep[m] \subseteq Segs
  /\ lease[m] \subseteq Segs /\ new[m] \in 0..Zips
  /\ at[m] \in {"write", "map", "beat", "copy", "verify"} => new[m] \in Zip
  /\ \A q \in packs[m] : q.zip \in Zip /\ q.members \subseteq Segs

LEMMA JobTypes == ASSUME TypeOK, NEW m \in Maintainers PROVE OwnTypes(m)
BY Numbers DEF TypeOK, JobsOK, OwnersOK, PlansOK, OwnTypes

LEMMA PacksFoundTypes == TypeOK => PacksFound \subseteq [zip : Zip, members : SUBSET Segs]
<1> SUFFICES ASSUME TypeOK, NEW z \in disk PROVE [zip |-> z, members |-> Members(z)] \in [zip : Zip, members : SUBSET Segs]
  BY DEF PacksFound
<1>1. z \in Zip BY DEF TypeOK, FilesOK
<1>2. Members(z) \in SUBSET Segs BY DEF Members
<1> QED BY <1>1, <1>2

LEMMA Leaving == ASSUME JobsOK, NEW m \in Maintainers, Leave(m) PROVE JobsOK'
BY Numbers DEF JobsOK, MaintainerAt, Leave, Go, DropJob, TakeJob

LEMMA InitTypes == Init => TypeOK
<1> SUFFICES ASSUME Init PROVE TypeOK OBVIOUS
<1> USE Numbers DEF Init
<1>1. FilesOK BY DEF FilesOK
<1>2. OwnersOK BY DEF OwnersOK
<1>3. JobsOK BY DEF JobsOK, MaintainerAt
<1>4. PlansOK BY DEF PlansOK
<1> QED BY <1>1, <1>2, <1>3, <1>4 DEF TypeOK

LEMMA NextTypes == TypeOK /\ [Next]_vars => TypeOK'
<1> SUFFICES ASSUME TypeOK, [Next]_vars PROVE TypeOK' OBVIOUS
<1> USE Numbers DEF vars, files, leases, owner, tasks, job, plan, reader, consumers, Elsewhere,
  ReaderElsewhere, Fault, OwnTypes, Go, Hold, Release, Leave, EndUnit, TakeJob, DropJob, DropPlan
<1>Same. CASE UNCHANGED vars BY <1>Same DEF TypeOK, FilesOK, OwnersOK, JobsOK, PlansOK
<1>Select. ASSUME NEW m \in Maintainers, Select(m) PROVE TypeOK'
  <2> USE <1>Select DEF TypeOK, Select
  <2>2. {s \in Originals : archive[s] = 0 /\ s \notin Covered} \subseteq Segs BY DEF FilesOK, Originals
  <2>1. OwnTypes(m) BY JobTypes DEF TypeOK
  <2>3. FilesOK' BY <2>1 DEF FilesOK
  <2>4. OwnersOK' BY <2>1 DEF OwnersOK
  <2>5. JobsOK' BY <2>1, <2>2 DEF JobsOK, MaintainerAt, Compacting, Cleaning
  <2>6. PlansOK' BY <2>1 DEF PlansOK
  <2>8. rTodo' \subseteq Segs /\ need' \subseteq Segs OBVIOUS
  <2> QED BY <2>3, <2>4, <2>5, <2>6, <2>8
<1>ClaimNext. ASSUME NEW m \in Maintainers, ClaimNext(m) PROVE TypeOK'
  <2> USE <1>ClaimNext DEF TypeOK, ClaimNext
  <2>1. OwnTypes(m) BY JobTypes DEF TypeOK
  <2>3. FilesOK' BY <2>1 DEF FilesOK
  <2>4. OwnersOK' BY <2>1 DEF OwnersOK
  <2>5. JobsOK' BY <2>1 DEF JobsOK, MaintainerAt, Compacting, Cleaning
  <2>6. PlansOK' BY <2>1 DEF PlansOK
  <2>8. rTodo' \subseteq Segs /\ need' \subseteq Segs OBVIOUS
  <2> QED BY <2>3, <2>4, <2>5, <2>6, <2>8
<1>TooFew. ASSUME NEW m \in Maintainers, TooFew(m) PROVE TypeOK'
  <2> USE <1>TooFew DEF TypeOK, TooFew
  <2>1. OwnTypes(m) BY JobTypes DEF TypeOK
  <2>3. FilesOK' BY <2>1 DEF FilesOK
  <2>4. OwnersOK' BY <2>1 DEF OwnersOK
  <2>5. Leave(m) /\ JobsOK BY DEF TypeOK
  <2>5a. JobsOK' BY <2>5, Leaving
  <2>6. PlansOK' BY <2>1 DEF PlansOK
  <2>8. rTodo' \subseteq Segs /\ need' \subseteq Segs OBVIOUS
  <2> QED BY <2>3, <2>4, <2>5a, <2>6, <2>8
<1>PackMark. ASSUME NEW m \in Maintainers, NEW z \in Zip, PackMark(m, z) PROVE TypeOK'
  <2> USE <1>PackMark DEF TypeOK, PackMark, Fresh, Unused, InUse
  <2>1. OwnTypes(m) BY JobTypes DEF TypeOK
  <2>3. FilesOK' BY <2>1 DEF FilesOK
  <2>4. OwnersOK' BY <2>1 DEF OwnersOK
  <2>5. JobsOK' BY <2>1 DEF JobsOK, MaintainerAt, Compacting, Cleaning
  <2>6. PlansOK' BY <2>1 DEF PlansOK
  <2>8. rTodo' \subseteq Segs /\ need' \subseteq Segs OBVIOUS
  <2> QED BY <2>3, <2>4, <2>5, <2>6, <2>8
<1>PackWrite. ASSUME NEW m \in Maintainers, PackWrite(m) PROVE TypeOK'
  <2> USE <1>PackWrite DEF TypeOK, PackWrite, Originals
  <2>1. OwnTypes(m) BY JobTypes DEF TypeOK
  <2>3. FilesOK' BY <2>1 DEF FilesOK
  <2>4. OwnersOK' BY <2>1 DEF OwnersOK
  <2>5. JobsOK' BY <2>1 DEF JobsOK, MaintainerAt, Compacting, Cleaning
  <2>6. PlansOK' BY <2>1 DEF PlansOK
  <2>8. rTodo' \subseteq Segs /\ need' \subseteq Segs OBVIOUS
  <2> QED BY <2>3, <2>4, <2>5, <2>6, <2>8
<1>PackMap. ASSUME NEW m \in Maintainers, PackMap(m) PROVE TypeOK'
  <2> USE <1>PackMap DEF TypeOK, PackMap, Originals
  <2>1. OwnTypes(m) BY JobTypes DEF TypeOK
  <2>3. FilesOK' BY <2>1 DEF FilesOK
  <2>4. OwnersOK' BY <2>1 DEF OwnersOK
  <2>5. JobsOK' BY <2>1 DEF JobsOK, MaintainerAt, Compacting, Cleaning
  <2>6. PlansOK' BY <2>1 DEF PlansOK
  <2>8. rTodo' \subseteq Segs /\ need' \subseteq Segs OBVIOUS
  <2> QED BY <2>3, <2>4, <2>5, <2>6, <2>8
<1>PackBeat. ASSUME NEW m \in Maintainers, PackBeat(m) PROVE TypeOK'
  <2> USE <1>PackBeat DEF TypeOK, PackBeat
  <2>1. OwnTypes(m) BY JobTypes DEF TypeOK
  <2>3. FilesOK' BY <2>1 DEF FilesOK
  <2>4. OwnersOK' BY <2>1 DEF OwnersOK
  <2>5. JobsOK' BY <2>1 DEF JobsOK, MaintainerAt, Compacting, Cleaning
  <2>6. PlansOK' BY <2>1 DEF PlansOK
  <2>8. rTodo' \subseteq Segs /\ need' \subseteq Segs OBVIOUS
  <2> QED BY <2>3, <2>4, <2>5, <2>6, <2>8
<1>PackDone. ASSUME NEW m \in Maintainers, PackDone(m) PROVE TypeOK'
  <2> USE <1>PackDone DEF TypeOK, PackDone
  <2>1. OwnTypes(m) BY JobTypes DEF TypeOK
  <2>3. FilesOK' BY <2>1 DEF FilesOK
  <2>4. OwnersOK' BY <2>1 DEF OwnersOK
  <2>5. Leave(m) /\ JobsOK BY DEF TypeOK
  <2>5a. JobsOK' BY <2>5, Leaving
  <2>6. PlansOK' BY <2>1 DEF PlansOK
  <2>8. rTodo' \subseteq Segs /\ need' \subseteq Segs OBVIOUS
  <2> QED BY <2>3, <2>4, <2>5a, <2>6, <2>8
<1>PackRaised. ASSUME NEW m \in Maintainers, PackRaised(m) PROVE TypeOK'
  <2> USE <1>PackRaised DEF TypeOK, PackRaised, Partial
  <2>1. OwnTypes(m) BY JobTypes DEF TypeOK
  <2>3. FilesOK' BY <2>1 DEF FilesOK
  <2>4. OwnersOK' BY <2>1 DEF OwnersOK
  <2>5. Leave(m) /\ JobsOK BY DEF TypeOK
  <2>5a. JobsOK' BY <2>5, Leaving
  <2>6. PlansOK' BY <2>1 DEF PlansOK
  <2>8. rTodo' \subseteq Segs /\ need' \subseteq Segs OBVIOUS
  <2> QED BY <2>3, <2>4, <2>5a, <2>6, <2>8
<1>UnlinkRaw. ASSUME NEW m \in Maintainers, NEW s \in Segs, UnlinkRaw(m, s) PROVE TypeOK'
  <2> USE <1>UnlinkRaw DEF TypeOK, UnlinkRaw
  <2>1. OwnTypes(m) BY JobTypes DEF TypeOK
  <2>3. FilesOK' BY <2>1 DEF FilesOK
  <2>4. OwnersOK' BY <2>1 DEF OwnersOK
  <2>5. JobsOK' BY <2>1 DEF JobsOK, MaintainerAt, Compacting, Cleaning
  <2>6. PlansOK' BY <2>1 DEF PlansOK
  <2>8. rTodo' \subseteq Segs /\ need' \subseteq Segs OBVIOUS
  <2> QED BY <2>3, <2>4, <2>5, <2>6, <2>8
<1>UnlinkRest. ASSUME NEW m \in Maintainers, NEW s \in Segs, UnlinkRest(m, s) PROVE TypeOK'
  <2> USE <1>UnlinkRest DEF TypeOK, UnlinkRest
  <2>1. OwnTypes(m) BY JobTypes DEF TypeOK
  <2>3. FilesOK' BY <2>1 DEF FilesOK
  <2>4. OwnersOK' BY <2>1 DEF OwnersOK
  <2>5. JobsOK' BY <2>1 DEF JobsOK, MaintainerAt, Compacting, Cleaning
  <2>6. PlansOK' BY <2>1 DEF PlansOK
  <2>8. rTodo' \subseteq Segs /\ need' \subseteq Segs OBVIOUS
  <2> QED BY <2>3, <2>4, <2>5, <2>6, <2>8
<1>Plan. ASSUME NEW m \in Maintainers, Plan(m) PROVE TypeOK'
  <2> USE <1>Plan DEF TypeOK, Plan, Free
  <2>1. OwnTypes(m) BY JobTypes DEF TypeOK
  <2>2. PacksFound \subseteq [zip : Zip, members : SUBSET Segs] BY PacksFoundTypes
  <2>3. FilesOK' BY <2>1 DEF FilesOK
  <2>4. OwnersOK' BY <2>1 DEF OwnersOK
  <2>5. JobsOK' BY <2>1 DEF JobsOK, MaintainerAt, Compacting, Cleaning
  <2>6. PlansOK'
    <3>1. items' \in [Maintainers -> SUBSET Segs] BY DEF PlansOK, FilesOK
    <3>2. orphans' \in [Maintainers -> SUBSET Zip] BY DEF PlansOK, FilesOK
    <3>3. packs' = [packs EXCEPT ![m] = PacksFound] OBVIOUS
    <3>4. packs \in [Maintainers -> SUBSET [zip : Zip, members : SUBSET Segs]] BY DEF PlansOK
    <3>5. packs' \in [Maintainers -> SUBSET [zip : Zip, members : SUBSET Segs]]
      <4> HIDE <1>Plan DEF TypeOK
      <4> QED BY <2>2, <3>3, <3>4
    <3> QED BY <3>1, <3>2, <3>5 DEF PlansOK
  <2>8. rTodo' \subseteq Segs /\ need' \subseteq Segs OBVIOUS
  <2> QED BY <2>3, <2>4, <2>5, <2>6, <2>8
<1>Begin. ASSUME NEW m \in Maintainers, Begin(m) PROVE TypeOK'
  <2> USE <1>Begin DEF TypeOK, Begin
  <2>1. OwnTypes(m) BY JobTypes DEF TypeOK
  <2>3. FilesOK' BY <2>1 DEF FilesOK
  <2>4. OwnersOK' BY <2>1 DEF OwnersOK
  <2>5. JobsOK' BY <2>1 DEF JobsOK, MaintainerAt, Compacting, Cleaning
  <2>6. PlansOK' BY <2>1 DEF PlansOK
  <2>8. rTodo' \subseteq Segs /\ need' \subseteq Segs OBVIOUS
  <2> QED BY <2>3, <2>4, <2>5, <2>6, <2>8
<1>Refused. ASSUME NEW m \in Maintainers, Refused(m) PROVE TypeOK'
  <2> USE <1>Refused DEF TypeOK, Refused
  <2>1. OwnTypes(m) BY JobTypes DEF TypeOK
  <2>3. FilesOK' BY <2>1 DEF FilesOK
  <2>4. OwnersOK' BY <2>1 DEF OwnersOK
  <2>5. Leave(m) /\ JobsOK BY DEF TypeOK
  <2>5a. JobsOK' BY <2>5, Leaving
  <2>6. PlansOK' BY <2>1 DEF PlansOK
  <2>8. rTodo' \subseteq Segs /\ need' \subseteq Segs OBVIOUS
  <2> QED BY <2>3, <2>4, <2>5a, <2>6, <2>8
<1>Overrun. ASSUME NEW m \in Maintainers, Overrun(m) PROVE TypeOK'
  <2> USE <1>Overrun DEF TypeOK, Overrun
  <2>1. OwnTypes(m) BY JobTypes DEF TypeOK
  <2>3. FilesOK' BY <2>1 DEF FilesOK
  <2>4. OwnersOK' BY <2>1 DEF OwnersOK
  <2>5. Leave(m) /\ JobsOK BY DEF TypeOK
  <2>5a. JobsOK' BY <2>5, Leaving
  <2>6. PlansOK' BY <2>1 DEF PlansOK
  <2>8. rTodo' \subseteq Segs /\ need' \subseteq Segs OBVIOUS
  <2> QED BY <2>3, <2>4, <2>5a, <2>6, <2>8
<1>SweepLock. ASSUME NEW m \in Maintainers, SweepLock(m) PROVE TypeOK'
  <2> USE <1>SweepLock DEF TypeOK, SweepLock
  <2>1. OwnTypes(m) BY JobTypes DEF TypeOK
  <2>3. FilesOK' BY <2>1 DEF FilesOK
  <2>4. OwnersOK' BY <2>1 DEF OwnersOK
  <2>5. JobsOK' BY <2>1 DEF JobsOK, MaintainerAt, Compacting, Cleaning
  <2>6. PlansOK' BY <2>1 DEF PlansOK
  <2>8. rTodo' \subseteq Segs /\ need' \subseteq Segs OBVIOUS
  <2> QED BY <2>3, <2>4, <2>5, <2>6, <2>8
<1>Sweep. ASSUME NEW m \in Maintainers, NEW z \in Zip, Sweep(m, z) PROVE TypeOK'
  <2> USE <1>Sweep DEF TypeOK, Sweep, Sweepable
  <2>1. OwnTypes(m) BY JobTypes DEF TypeOK
  <2>3. FilesOK' BY <2>1 DEF FilesOK
  <2>4. OwnersOK' BY <2>1 DEF OwnersOK
  <2>5. JobsOK' BY <2>1 DEF JobsOK, MaintainerAt, Compacting, Cleaning
  <2>6. PlansOK' BY <2>1 DEF PlansOK
  <2>8. rTodo' \subseteq Segs /\ need' \subseteq Segs OBVIOUS
  <2> QED BY <2>3, <2>4, <2>5, <2>6, <2>8
<1>SweepDone. ASSUME NEW m \in Maintainers, SweepDone(m) PROVE TypeOK'
  <2> USE <1>SweepDone DEF TypeOK, SweepDone
  <2>1. OwnTypes(m) BY JobTypes DEF TypeOK
  <2>3. FilesOK' BY <2>1 DEF FilesOK
  <2>4. OwnersOK' BY <2>1 DEF OwnersOK
  <2>5. JobsOK' BY <2>1 DEF JobsOK, MaintainerAt, Compacting, Cleaning
  <2>6. PlansOK' BY <2>1 DEF PlansOK
  <2>8. rTodo' \subseteq Segs /\ need' \subseteq Segs OBVIOUS
  <2> QED BY <2>3, <2>4, <2>5, <2>6, <2>8
<1>LockPack. ASSUME NEW m \in Maintainers, NEW p \in packs[m], LockPack(m, p) PROVE TypeOK'
  <2> USE <1>LockPack DEF TypeOK, LockPack, Lock, Ready
  <2>1. OwnTypes(m) BY JobTypes DEF TypeOK
  <2>3. FilesOK' BY <2>1 DEF FilesOK
  <2>4. OwnersOK' BY <2>1 DEF OwnersOK
  <2>5. JobsOK'
    <3>1. CASE Blocked(m, p.members) BY <3>1, <2>1 DEF JobsOK
    <3>2. CASE ~Blocked(m, p.members)
      <4>1. /\ work' = [work EXCEPT ![m] = p.members] /\ old' = [old EXCEPT ![m] = p.zip]
            /\ todo' = [todo EXCEPT ![m] = {}] /\ keep' = [keep EXCEPT ![m] = {}]
            /\ new' = [new EXCEPT ![m] = 0] /\ at' = [at EXCEPT ![m] = "locked"]
        BY <3>2
      <4>2. p.zip \in Zip /\ p.zip \in 0..Zips /\ p.members \subseteq Segs BY <2>1
      <4> HIDE <1>LockPack
      <4> QED BY <4>1, <4>2 DEF JobsOK, MaintainerAt, Cleaning
    <3> QED BY <3>1, <3>2
  <2>6. PlansOK' BY <2>1 DEF PlansOK
  <2>8. rTodo' \subseteq Segs /\ need' \subseteq Segs OBVIOUS
  <2> QED BY <2>3, <2>4, <2>5, <2>6, <2>8
<1>Recheck. ASSUME NEW m \in Maintainers, Recheck(m) PROVE TypeOK'
  <2> USE <1>Recheck DEF TypeOK, Recheck, Keep, Unneeded
  <2>1. OwnTypes(m) BY JobTypes DEF TypeOK
  <2>3. FilesOK' BY <2>1 DEF FilesOK
  <2>4. OwnersOK' BY <2>1 DEF OwnersOK
  <2>5. JobsOK' BY <2>1 DEF JobsOK, MaintainerAt, Compacting, Cleaning
  <2>6. PlansOK' BY <2>1 DEF PlansOK
  <2>8. rTodo' \subseteq Segs /\ need' \subseteq Segs OBVIOUS
  <2> QED BY <2>3, <2>4, <2>5, <2>6, <2>8
<1>NoReplacement. ASSUME NEW m \in Maintainers, NoReplacement(m) PROVE TypeOK'
  <2> USE <1>NoReplacement DEF TypeOK, NoReplacement
  <2>1. OwnTypes(m) BY JobTypes DEF TypeOK
  <2>3. FilesOK' BY <2>1 DEF FilesOK
  <2>4. OwnersOK' BY <2>1 DEF OwnersOK
  <2>5. JobsOK' BY <2>1 DEF JobsOK, MaintainerAt, Compacting, Cleaning
  <2>6. PlansOK' BY <2>1 DEF PlansOK
  <2>8. rTodo' \subseteq Segs /\ need' \subseteq Segs OBVIOUS
  <2> QED BY <2>3, <2>4, <2>5, <2>6, <2>8
<1>ReplaceMark. ASSUME NEW m \in Maintainers, NEW z \in Zip, ReplaceMark(m, z) PROVE TypeOK'
  <2> USE <1>ReplaceMark DEF TypeOK, ReplaceMark, Fresh, Unused, InUse
  <2>1. OwnTypes(m) BY JobTypes DEF TypeOK
  <2>3. FilesOK' BY <2>1 DEF FilesOK
  <2>4. OwnersOK' BY <2>1 DEF OwnersOK
  <2>5. JobsOK' BY <2>1 DEF JobsOK, MaintainerAt, Compacting, Cleaning
  <2>6. PlansOK' BY <2>1 DEF PlansOK
  <2>8. rTodo' \subseteq Segs /\ need' \subseteq Segs OBVIOUS
  <2> QED BY <2>3, <2>4, <2>5, <2>6, <2>8
<1>ReplaceWrite. ASSUME NEW m \in Maintainers, ReplaceWrite(m) PROVE TypeOK'
  <2> USE <1>ReplaceWrite DEF TypeOK, ReplaceWrite
  <2>1. OwnTypes(m) BY JobTypes DEF TypeOK
  <2>3. FilesOK' BY <2>1 DEF FilesOK
  <2>4. OwnersOK' BY <2>1 DEF OwnersOK
  <2>5. JobsOK' BY <2>1 DEF JobsOK, MaintainerAt, Compacting, Cleaning
  <2>6. PlansOK' BY <2>1 DEF PlansOK
  <2>8. rTodo' \subseteq Segs /\ need' \subseteq Segs OBVIOUS
  <2> QED BY <2>3, <2>4, <2>5, <2>6, <2>8
<1>ReplaceBeat. ASSUME NEW m \in Maintainers, ReplaceBeat(m) PROVE TypeOK'
  <2> USE <1>ReplaceBeat DEF TypeOK, ReplaceBeat
  <2>1. OwnTypes(m) BY JobTypes DEF TypeOK
  <2>3. FilesOK' BY <2>1 DEF FilesOK
  <2>4. OwnersOK' BY <2>1 DEF OwnersOK
  <2>5. JobsOK' BY <2>1 DEF JobsOK, MaintainerAt, Compacting, Cleaning
  <2>6. PlansOK' BY <2>1 DEF PlansOK
  <2>8. rTodo' \subseteq Segs /\ need' \subseteq Segs OBVIOUS
  <2> QED BY <2>3, <2>4, <2>5, <2>6, <2>8
<1>Retire. ASSUME NEW m \in Maintainers, Retire(m) PROVE TypeOK'
  <2> USE <1>Retire DEF TypeOK, Retire, MapAfter
  <2>1. OwnTypes(m) BY JobTypes DEF TypeOK
  <2>3. FilesOK' BY <2>1 DEF FilesOK
  <2>4. OwnersOK' BY <2>1 DEF OwnersOK
  <2>5. JobsOK' BY <2>1 DEF JobsOK, MaintainerAt, Compacting, Cleaning
  <2>6. PlansOK' BY <2>1 DEF PlansOK
  <2>8. rTodo' \subseteq Segs /\ need' \subseteq Segs OBVIOUS
  <2> QED BY <2>3, <2>4, <2>5, <2>6, <2>8
<1>DropZip. ASSUME NEW m \in Maintainers, DropZip(m) PROVE TypeOK'
  <2> USE <1>DropZip DEF TypeOK, DropZip
  <2>1. OwnTypes(m) BY JobTypes DEF TypeOK
  <2>3. FilesOK' BY <2>1 DEF FilesOK
  <2>4. OwnersOK' BY <2>1 DEF OwnersOK
  <2>5. JobsOK' BY <2>1 DEF JobsOK, MaintainerAt, Compacting, Cleaning
  <2>6. PlansOK' BY <2>1 DEF PlansOK
  <2>8. rTodo' \subseteq Segs /\ need' \subseteq Segs OBVIOUS
  <2> QED BY <2>3, <2>4, <2>5, <2>6, <2>8
<1>LockItem. ASSUME NEW m \in Maintainers, NEW s \in Segs, LockItem(m, s) PROVE TypeOK'
  <2> USE <1>LockItem DEF TypeOK, LockItem, Lock, Ready
  <2>1. OwnTypes(m) BY JobTypes DEF TypeOK
  <2>3. FilesOK' BY <2>1 DEF FilesOK
  <2>4. OwnersOK' BY <2>1 DEF OwnersOK
  <2>5. JobsOK' BY <2>1 DEF JobsOK, MaintainerAt, Compacting, Cleaning
  <2>6. PlansOK' BY <2>1 DEF PlansOK
  <2>8. rTodo' \subseteq Segs /\ need' \subseteq Segs OBVIOUS
  <2> QED BY <2>3, <2>4, <2>5, <2>6, <2>8
<1>CheckItem. ASSUME NEW m \in Maintainers, NEW s \in Segs, CheckItem(m, s) PROVE TypeOK'
  <2> USE <1>CheckItem DEF TypeOK, CheckItem, Unneeded
  <2>1. OwnTypes(m) BY JobTypes DEF TypeOK
  <2>3. FilesOK' BY <2>1 DEF FilesOK
  <2>4. OwnersOK' BY <2>1 DEF OwnersOK
  <2>5. JobsOK' BY <2>1 DEF JobsOK, MaintainerAt, Compacting, Cleaning
  <2>6. PlansOK' BY <2>1 DEF PlansOK
  <2>8. rTodo' \subseteq Segs /\ need' \subseteq Segs OBVIOUS
  <2> QED BY <2>3, <2>4, <2>5, <2>6, <2>8
<1>Tombstone. ASSUME NEW m \in Maintainers, Tombstone(m) PROVE TypeOK'
  <2> USE <1>Tombstone DEF TypeOK, Tombstone
  <2>1. OwnTypes(m) BY JobTypes DEF TypeOK
  <2>3. FilesOK' BY <2>1 DEF FilesOK
  <2>4. OwnersOK' BY <2>1 DEF OwnersOK
  <2>5. JobsOK' BY <2>1 DEF JobsOK, MaintainerAt, Compacting, Cleaning
  <2>6. PlansOK' BY <2>1 DEF PlansOK
  <2>8. rTodo' \subseteq Segs /\ need' \subseteq Segs OBVIOUS
  <2> QED BY <2>3, <2>4, <2>5, <2>6, <2>8
<1>ItemBeat. ASSUME NEW m \in Maintainers, ItemBeat(m) PROVE TypeOK'
  <2> USE <1>ItemBeat DEF TypeOK, ItemBeat
  <2>1. OwnTypes(m) BY JobTypes DEF TypeOK
  <2>3. FilesOK' BY <2>1 DEF FilesOK
  <2>4. OwnersOK' BY <2>1 DEF OwnersOK
  <2>5. JobsOK' BY <2>1 DEF JobsOK, MaintainerAt, Compacting, Cleaning
  <2>6. PlansOK' BY <2>1 DEF PlansOK
  <2>8. rTodo' \subseteq Segs /\ need' \subseteq Segs OBVIOUS
  <2> QED BY <2>3, <2>4, <2>5, <2>6, <2>8
<1>ItemDone. ASSUME NEW m \in Maintainers, ItemDone(m) PROVE TypeOK'
  <2> USE <1>ItemDone DEF TypeOK, ItemDone
  <2>1. OwnTypes(m) BY JobTypes DEF TypeOK
  <2>3. FilesOK' BY <2>1 DEF FilesOK
  <2>4. OwnersOK' BY <2>1 DEF OwnersOK
  <2>5. JobsOK' BY <2>1 DEF JobsOK, MaintainerAt, Compacting, Cleaning
  <2>6. PlansOK' BY <2>1 DEF PlansOK
  <2>8. rTodo' \subseteq Segs /\ need' \subseteq Segs OBVIOUS
  <2> QED BY <2>3, <2>4, <2>5, <2>6, <2>8
<1>UnitRaised. ASSUME NEW m \in Maintainers, UnitRaised(m) PROVE TypeOK'
  <2> USE <1>UnitRaised DEF TypeOK, UnitRaised, Partial
  <2>1. OwnTypes(m) BY JobTypes DEF TypeOK
  <2>3. FilesOK' BY <2>1 DEF FilesOK
  <2>4. OwnersOK' BY <2>1 DEF OwnersOK
  <2>5. JobsOK' BY <2>1 DEF JobsOK, MaintainerAt, Compacting, Cleaning
  <2>6. PlansOK' BY <2>1 DEF PlansOK
  <2>8. rTodo' \subseteq Segs /\ need' \subseteq Segs OBVIOUS
  <2> QED BY <2>3, <2>4, <2>5, <2>6, <2>8
<1>Finish. ASSUME NEW m \in Maintainers, Finish(m) PROVE TypeOK'
  <2> USE <1>Finish DEF TypeOK, Finish, Owns
  <2>1. OwnTypes(m) BY JobTypes DEF TypeOK
  <2>3. FilesOK' BY <2>1 DEF FilesOK
  <2>4. OwnersOK' BY <2>1 DEF OwnersOK
  <2>5. Leave(m) /\ JobsOK BY DEF TypeOK
  <2>5a. JobsOK' BY <2>5, Leaving
  <2>6. PlansOK' BY <2>1 DEF PlansOK
  <2>8. rTodo' \subseteq Segs /\ need' \subseteq Segs OBVIOUS
  <2> QED BY <2>3, <2>4, <2>5a, <2>6, <2>8
<1>Crash. ASSUME NEW m \in Maintainers, Crash(m) PROVE TypeOK'
  <2> USE <1>Crash DEF TypeOK, Crash, Partial, Owns
  <2>1. OwnTypes(m) BY JobTypes DEF TypeOK
  <2>3. FilesOK' BY <2>1 DEF FilesOK
  <2>4. OwnersOK' BY <2>1 DEF OwnersOK
  <2>5. JobsOK' BY <2>1 DEF JobsOK, MaintainerAt, Compacting, Cleaning
  <2>6. PlansOK' BY <2>1 DEF PlansOK
  <2>8. rTodo' \subseteq Segs /\ need' \subseteq Segs OBVIOUS
  <2> QED BY <2>3, <2>4, <2>5, <2>6, <2>8
<1>Expire. ASSUME NEW h \in Holders, Expire(h) PROVE TypeOK'
  <2> USE <1>Expire DEF TypeOK, Expire
  <2>1. lease[Reader] \subseteq Segs BY DEF OwnersOK
  <2>3. FilesOK' BY <2>1 DEF FilesOK
  <2>4. OwnersOK' BY <2>1 DEF OwnersOK
  <2>5. JobsOK' BY <2>1 DEF JobsOK, MaintainerAt, Compacting, Cleaning
  <2>6. PlansOK' BY <2>1 DEF PlansOK
  <2>8. rTodo' \subseteq Segs /\ need' \subseteq Segs OBVIOUS
  <2> QED BY <2>3, <2>4, <2>5, <2>6, <2>8
<1>GhostExpires. ASSUME NEW h \in Holders, GhostExpires(h) PROVE TypeOK'
  <2> USE <1>GhostExpires DEF TypeOK, GhostExpires
  <2>1. lease[Reader] \subseteq Segs BY DEF OwnersOK
  <2>3. FilesOK' BY <2>1 DEF FilesOK
  <2>4. OwnersOK' BY <2>1 DEF OwnersOK
  <2>5. JobsOK' BY <2>1 DEF JobsOK, MaintainerAt, Compacting, Cleaning
  <2>6. PlansOK' BY <2>1 DEF PlansOK
  <2>8. rTodo' \subseteq Segs /\ need' \subseteq Segs OBVIOUS
  <2> QED BY <2>3, <2>4, <2>5, <2>6, <2>8
<1>ClaimExpires. ASSUME ClaimExpires PROVE TypeOK'
  <2> USE <1>ClaimExpires DEF TypeOK, ClaimExpires
  <2>1. lease[Reader] \subseteq Segs BY DEF OwnersOK
  <2>3. FilesOK' BY <2>1 DEF FilesOK
  <2>4. OwnersOK' BY <2>1 DEF OwnersOK
  <2>5. JobsOK' BY <2>1 DEF JobsOK, MaintainerAt, Compacting, Cleaning
  <2>6. PlansOK' BY <2>1 DEF PlansOK
  <2>8. rTodo' \subseteq Segs /\ need' \subseteq Segs OBVIOUS
  <2> QED BY <2>3, <2>4, <2>5, <2>6, <2>8
<1>NeedEnds. ASSUME NEW s \in Segs, NeedEnds(s) PROVE TypeOK'
  <2> USE <1>NeedEnds DEF TypeOK, NeedEnds
  <2>1. lease[Reader] \subseteq Segs BY DEF OwnersOK
  <2>3. FilesOK' BY <2>1 DEF FilesOK
  <2>4. OwnersOK' BY <2>1 DEF OwnersOK
  <2>5. JobsOK' BY <2>1 DEF JobsOK, MaintainerAt, Compacting, Cleaning
  <2>6. PlansOK' BY <2>1 DEF PlansOK
  <2>8. rTodo' \subseteq Segs /\ need' \subseteq Segs OBVIOUS
  <2> QED BY <2>3, <2>4, <2>5, <2>6, <2>8
<1>NeedArises. ASSUME NEW s \in Segs, NeedArises(s) PROVE TypeOK'
  <2> USE <1>NeedArises DEF TypeOK, NeedArises
  <2>1. lease[Reader] \subseteq Segs BY DEF OwnersOK
  <2>3. FilesOK' BY <2>1 DEF FilesOK
  <2>4. OwnersOK' BY <2>1 DEF OwnersOK
  <2>5. JobsOK' BY <2>1 DEF JobsOK, MaintainerAt, Compacting, Cleaning
  <2>6. PlansOK' BY <2>1 DEF PlansOK
  <2>8. rTodo' \subseteq Segs /\ need' \subseteq Segs OBVIOUS
  <2> QED BY <2>3, <2>4, <2>5, <2>6, <2>8
<1>Damage. ASSUME NEW s \in Segs, NEW z \in Zip, Damage(z, s) PROVE TypeOK'
  <2> USE <1>Damage DEF TypeOK, Damage
  <2>1. lease[Reader] \subseteq Segs BY DEF OwnersOK
  <2>3. FilesOK' BY <2>1 DEF FilesOK
  <2>4. OwnersOK' BY <2>1 DEF OwnersOK
  <2>5. JobsOK' BY <2>1 DEF JobsOK, MaintainerAt, Compacting, Cleaning
  <2>6. PlansOK' BY <2>1 DEF PlansOK
  <2>8. rTodo' \subseteq Segs /\ need' \subseteq Segs OBVIOUS
  <2> QED BY <2>3, <2>4, <2>5, <2>6, <2>8
<1>ReadList. ASSUME ReadList PROVE TypeOK'
  <2> USE <1>ReadList DEF TypeOK, ReadList
  <2>1. lease[Reader] \subseteq Segs BY DEF OwnersOK
  <2>3. FilesOK' BY <2>1 DEF FilesOK
  <2>4. OwnersOK' BY <2>1 DEF OwnersOK
  <2>5. JobsOK' BY <2>1 DEF JobsOK, MaintainerAt, Compacting, Cleaning
  <2>6. PlansOK' BY <2>1 DEF PlansOK
  <2>8. rTodo' \subseteq Segs /\ need' \subseteq Segs OBVIOUS
  <2> QED BY <2>3, <2>4, <2>5, <2>6, <2>8
<1>ReadEnd. ASSUME ReadEnd PROVE TypeOK'
  <2> USE <1>ReadEnd DEF TypeOK, ReadEnd, ReaderLeaves
  <2>1. lease[Reader] \subseteq Segs BY DEF OwnersOK
  <2>3. FilesOK' BY <2>1 DEF FilesOK
  <2>4. OwnersOK' BY <2>1 DEF OwnersOK
  <2>5. JobsOK' BY <2>1 DEF JobsOK, MaintainerAt, Compacting, Cleaning
  <2>6. PlansOK' BY <2>1 DEF PlansOK
  <2>8. rTodo' \subseteq Segs /\ need' \subseteq Segs OBVIOUS
  <2> QED BY <2>3, <2>4, <2>5, <2>6, <2>8
<1>ReadOpen. ASSUME NEW s \in Segs, ReadOpen(s) PROVE TypeOK'
  <2> USE <1>ReadOpen DEF TypeOK, ReadOpen, From, Segs
  <2>1. lease[Reader] \subseteq Segs BY DEF OwnersOK
  <2>3. FilesOK' BY <2>1 DEF FilesOK
  <2>4. OwnersOK' BY <2>1 DEF OwnersOK
  <2>5. JobsOK' BY <2>1 DEF JobsOK, MaintainerAt, Compacting, Cleaning
  <2>6. PlansOK' BY <2>1 DEF PlansOK
  <2>8. rTodo' \subseteq Segs /\ need' \subseteq Segs OBVIOUS
  <2> QED BY <2>3, <2>4, <2>5, <2>6, <2>8
<1>ReadCheck. ASSUME NEW s \in Segs, ReadCheck(s) PROVE TypeOK'
  <2> USE <1>ReadCheck DEF TypeOK, ReadCheck
  <2>1. lease[Reader] \subseteq Segs BY DEF OwnersOK
  <2>3. FilesOK' BY <2>1 DEF FilesOK
  <2>4. OwnersOK' BY <2>1 DEF OwnersOK
  <2>5. JobsOK' BY <2>1 DEF JobsOK, MaintainerAt, Compacting, Cleaning
  <2>6. PlansOK' BY <2>1 DEF PlansOK
  <2>8. rTodo' \subseteq Segs /\ need' \subseteq Segs OBVIOUS
  <2> QED BY <2>3, <2>4, <2>5, <2>6, <2>8
<1>ReadNext. ASSUME NEW s \in Segs, ReadNext(s) PROVE TypeOK'
  <2> USE <1>ReadNext DEF TypeOK, ReadNext, From, Segs
  <2>1. lease[Reader] \subseteq Segs BY DEF OwnersOK
  <2>3. FilesOK' BY <2>1 DEF FilesOK
  <2>4. OwnersOK' BY <2>1 DEF OwnersOK
  <2>5. JobsOK' BY <2>1 DEF JobsOK, MaintainerAt, Compacting, Cleaning
  <2>6. PlansOK' BY <2>1 DEF PlansOK
  <2>8. rTodo' \subseteq Segs /\ need' \subseteq Segs OBVIOUS
  <2> QED BY <2>3, <2>4, <2>5, <2>6, <2>8
<1>ReaderCrash. ASSUME ReaderCrash PROVE TypeOK'
  <2> USE <1>ReaderCrash DEF TypeOK, ReaderCrash, ReaderLeaves
  <2>1. lease[Reader] \subseteq Segs BY DEF OwnersOK
  <2>3. FilesOK' BY <2>1 DEF FilesOK
  <2>4. OwnersOK' BY <2>1 DEF OwnersOK
  <2>5. JobsOK' BY <2>1 DEF JobsOK, MaintainerAt, Compacting, Cleaning
  <2>6. PlansOK' BY <2>1 DEF PlansOK
  <2>8. rTodo' \subseteq Segs /\ need' \subseteq Segs OBVIOUS
  <2> QED BY <2>3, <2>4, <2>5, <2>6, <2>8
<1> QED BY <1>Same, <1>Select, <1>ClaimNext, <1>TooFew, <1>PackMark, <1>PackWrite, <1>PackMap, <1>PackBeat, <1>PackDone, <1>PackRaised, <1>UnlinkRaw, <1>UnlinkRest, <1>Plan, <1>Begin, <1>Refused, <1>Overrun, <1>SweepLock, <1>Sweep, <1>SweepDone, <1>LockPack, <1>Recheck, <1>NoReplacement, <1>ReplaceMark, <1>ReplaceWrite, <1>ReplaceBeat, <1>Retire, <1>DropZip, <1>LockItem, <1>CheckItem, <1>Tombstone, <1>ItemBeat, <1>ItemDone, <1>UnitRaised, <1>Finish, <1>Crash, <1>Expire, <1>GhostExpires, <1>ClaimExpires, <1>NeedEnds, <1>NeedArises, <1>Damage, <1>ReadList, <1>ReadEnd, <1>ReadOpen, <1>ReadCheck, <1>ReadNext, <1>ReaderCrash
  DEF Next, Compact, Unlink, Clean, CleanUnit, Read, Environment

\* Every state of the evidence store is well typed (leases.py, packing.py, recording_maintenance.py).
THEOREM TypeCorrect == Spec => []TypeOK
<1>1. Init => TypeOK BY InitTypes
<1>2. TypeOK /\ [Next]_vars => TypeOK' BY NextTypes
<1> QED BY <1>1, <1>2, PTL DEF Spec

-----------------------------------------------------------------------------
(* Custody.  KeptReadable is not inductive: what a row points to must be    *)
(* there, a new archive must belong to one task alone and be complete when  *)
(* it is mapped, and originals are removed only when rows or tombstones     *)
(* stand for them.                                                          *)

\* A row points to an archive that has the segment.
RowsHold ==
  \A s \in Segs : archive[s] # 0 =>
    archive[s] \in disk /\ (s \in good[archive[s]] \/ s \in rotten)

\* What is not released has an original or a row.
Accounted == \A s \in Segs : s \in tomb \/ s \in rotten \/ s \in raw \/ archive[s] # 0

\* An archive that is being written has no rows, and no other task knows it.
NewPrivate(m) ==
  at[m] \in {"write", "map", "copy", "verify", "commit"} /\ new[m] # 0 =>
    /\ \A s \in Segs : archive[s] # new[m]
    /\ \A n \in Maintainers :
         /\ new[m] # old[n] /\ new[m] \notin orphans[n]
         /\ \A p \in packs[n] : p.zip # new[m]
         /\ n # m => new[m] # new[n]

\* Before rows point to it, it has everything they will promise.
NewWritten(m) ==
  /\ at[m] = "map" =>
       new[m] \in disk /\ \A s \in work[m] : s \in good[new[m]] \/ s \in rotten
  /\ at[m] \in {"verify", "commit"} /\ keep[m] # {} =>
       new[m] \in disk /\ \A s \in keep[m] : s \in good[new[m]] \/ s \in rotten

\* Rows are only ever removed from an archive that has been seen by planning.
OldKnown(m) ==
  /\ \A p \in packs[m] : \A s \in Segs : archive[s] = p.zip => s \in p.members
  /\ at[m] \in {"locked", "checked", "copy", "verify", "commit"} =>
       \A s \in Segs : archive[s] = old[m] => s \in work[m]
  /\ at[m] = "retired" => \A s \in Segs : archive[s] # old[m]

\* Originals are removed under the protection of rows or of tombstones.
Unlinkable(m) ==
  /\ at[m] \in {"unlink", "rest"} => todo[m] \subseteq work[m]
  /\ at[m] \in {"beat", "unlink", "rest"} /\ new[m] # 0 =>
       \A s \in work[m] : s \in tomb \/ archive[s] # 0
  /\ at[m] \in {"locked", "checked", "item", "release", "tombed"} => new[m] = 0
  /\ at[m] \in {"unlink", "rest", "tombed"} /\ new[m] = 0 => work[m] \subseteq tomb

KeptInv ==
  /\ RowsHold /\ Accounted
  /\ \A m \in Maintainers : NewPrivate(m) /\ NewWritten(m) /\ OldKnown(m) /\ Unlinkable(m)

LEMMA RowsHoldStep == TypeOK /\ KeptInv /\ [Next]_vars => RowsHold'
<1> SUFFICES ASSUME TypeOK, KeptInv, [Next]_vars PROVE RowsHold' OBVIOUS
<1>0. archive \in [Segs -> 0..Zips] /\ good \in [Zip -> SUBSET Segs] /\ disk \subseteq Zip
       /\ new \in [Maintainers -> 0..Zips] /\ old \in [Maintainers -> 0..Zips]
  BY DEF TypeOK, FilesOK, JobsOK, PlansOK, OwnersOK
<1>1. KeptInv BY DEF KeptInv
<1> USE <1>0, Numbers DEF vars, files, leases, owner, tasks, job, plan, reader, consumers, Elsewhere, ReaderElsewhere, Fault
<1>Frame. CASE UNCHANGED <<archive, disk, good, rotten>> BY <1>Frame, <1>1 DEF KeptInv, RowsHold
<1>Rest. ASSUME UNCHANGED vars \/
    (\E m \in Maintainers : Select(m)) \/ (\E m \in Maintainers : ClaimNext(m))
      \/ (\E m \in Maintainers : TooFew(m))
      \/ (\E m \in Maintainers : \E z \in Zip : PackMark(m, z))
      \/ (\E m \in Maintainers : PackBeat(m)) \/ (\E m \in Maintainers : PackDone(m))
      \/ (\E m \in Maintainers : \E s \in Segs : UnlinkRaw(m, s))
      \/ (\E m \in Maintainers : \E s \in Segs : UnlinkRest(m, s))
      \/ (\E m \in Maintainers : Plan(m)) \/ (\E m \in Maintainers : Begin(m))
      \/ (\E m \in Maintainers : Refused(m)) \/ (\E m \in Maintainers : Overrun(m))
      \/ (\E m \in Maintainers : SweepLock(m)) \/ (\E m \in Maintainers : SweepDone(m))
      \/ (\E m \in Maintainers : \E p \in packs[m] : LockPack(m, p))
      \/ (\E m \in Maintainers : Recheck(m)) \/ (\E m \in Maintainers : NoReplacement(m))
      \/ (\E m \in Maintainers : \E z \in Zip : ReplaceMark(m, z))
      \/ (\E m \in Maintainers : ReplaceBeat(m))
      \/ (\E m \in Maintainers : \E s \in Segs : LockItem(m, s))
      \/ (\E m \in Maintainers : \E s \in Segs : CheckItem(m, s))
      \/ (\E m \in Maintainers : Tombstone(m)) \/ (\E m \in Maintainers : ItemBeat(m))
      \/ (\E m \in Maintainers : ItemDone(m)) \/ (\E m \in Maintainers : Finish(m))
      \/ (\E h \in Holders : Expire(h)) \/ (\E h \in Holders : GhostExpires(h))
      \/ (ClaimExpires) \/ (\E s \in Segs : NeedEnds(s)) \/ (\E s \in Segs : NeedArises(s))
      \/ (ReadList) \/ (ReadEnd) \/ (\E s \in Segs : ReadOpen(s))
      \/ (\E s \in Segs : ReadCheck(s)) \/ (\E s \in Segs : ReadNext(s)) \/ (ReaderCrash)
  PROVE RowsHold'
  <2>1. UNCHANGED <<archive, disk, good, rotten>> BY <1>Rest DEF Go, Hold, Release, Leave, EndUnit, TakeJob, DropJob, DropPlan, Select, ClaimNext, TooFew, PackMark, PackBeat, PackDone, UnlinkRaw, UnlinkRest, Plan, Begin, Refused, Overrun, SweepLock, SweepDone, LockPack, Lock, Recheck, NoReplacement, ReplaceMark, ReplaceBeat, LockItem, CheckItem, Tombstone, ItemBeat, ItemDone, Finish, Expire, GhostExpires, ClaimExpires, NeedEnds, NeedArises, ReadList, ReadEnd, ReaderLeaves, ReadOpen, ReadCheck, ReadNext, ReaderCrash
  <2> QED BY <2>1, <1>Frame
<1>PackWrite. ASSUME NEW m \in Maintainers, PackWrite(m) PROVE RowsHold'
  <2>1. /\ new[m] \in Zip /\ good' = [good EXCEPT ![new[m]] = work[m]]
        /\ disk' = disk \cup {new[m]} /\ UNCHANGED <<archive, rotten>>
    BY <1>PackWrite DEF PackWrite, TypeOK, JobsOK
  <2>2. \A s \in Segs : archive[s] # new[m]
    BY <2>1, <1>PackWrite, <1>1 DEF PackWrite, KeptInv, NewPrivate
  <2> QED BY <2>1, <2>2, <1>1 DEF KeptInv, RowsHold
<1>PackMap. ASSUME NEW m \in Maintainers, PackMap(m) PROVE RowsHold'
  <2>1. /\ new[m] \in disk /\ \A s \in work[m] : s \in good[new[m]] \/ s \in rotten
    BY <1>PackMap, <1>1 DEF PackMap, KeptInv, NewWritten
  <2>2. /\ archive' = [s \in Segs |-> IF s \in work[m] THEN new[m] ELSE archive[s]]
        /\ UNCHANGED <<disk, good, rotten>>
    BY <1>PackMap DEF PackMap
  <2> QED BY <2>1, <2>2, <1>1 DEF KeptInv, RowsHold
<1>PackRaised. ASSUME NEW m \in Maintainers, PackRaised(m) PROVE RowsHold'
  BY <1>PackRaised, <1>1 DEF KeptInv, RowsHold, PackRaised, Compacting, Originals, Blocked, Exclusive, Partial, Go, Hold, Release, Leave, EndUnit, TakeJob, DropJob, DropPlan
<1>Sweep. ASSUME NEW m \in Maintainers, NEW z \in Zip, Sweep(m, z) PROVE RowsHold'
  BY <1>Sweep, <1>1 DEF KeptInv, RowsHold, Sweep, Owns, Sweepable, Members, Go, Hold, Release, Leave, EndUnit, TakeJob, DropJob, DropPlan
<1>ReplaceWrite. ASSUME NEW m \in Maintainers, ReplaceWrite(m) PROVE RowsHold'
  <2>1. /\ new[m] \in Zip /\ good' = [good EXCEPT ![new[m]] = keep[m]]
        /\ disk' = disk \cup {new[m]} /\ UNCHANGED <<archive, rotten>>
    BY <1>ReplaceWrite DEF ReplaceWrite, TypeOK, JobsOK
  <2>2. \A s \in Segs : archive[s] # new[m]
    BY <2>1, <1>ReplaceWrite, <1>1 DEF ReplaceWrite, KeptInv, NewPrivate
  <2> QED BY <2>1, <2>2, <1>1 DEF KeptInv, RowsHold
<1>Retire. ASSUME NEW m \in Maintainers, Retire(m) PROVE RowsHold'
  <2>1. keep[m] # {} => new[m] \in disk /\ \A s \in keep[m] : s \in good[new[m]] \/ s \in rotten
    BY <1>Retire, <1>1 DEF Retire, KeptInv, NewWritten
  <2>2. /\ archive' = MapAfter(m) /\ UNCHANGED <<disk, good, rotten>>
    BY <1>Retire DEF Retire
  <2>3. ASSUME NEW s \in Segs
        PROVE  archive'[s] = archive[s] \/ archive'[s] = 0 \/ (s \in keep[m] /\ archive'[s] = new[m])
    BY <2>2 DEF MapAfter
  <2> QED BY <2>1, <2>2, <2>3, <1>1 DEF KeptInv, RowsHold
<1>DropZip. ASSUME NEW m \in Maintainers, DropZip(m) PROVE RowsHold'
  <2>1. \A s \in Segs : archive[s] # old[m]
    BY <1>DropZip, <1>1 DEF DropZip, KeptInv, OldKnown
  <2>2. /\ good' = [good EXCEPT ![old[m]] = {}] /\ disk' = disk \ {old[m]}
        /\ UNCHANGED <<archive, rotten>>
    BY <1>DropZip DEF DropZip
  <2> QED BY <2>1, <2>2, <1>1 DEF KeptInv, RowsHold
<1>UnitRaised. ASSUME NEW m \in Maintainers, UnitRaised(m) PROVE RowsHold'
  BY <1>UnitRaised, <1>1 DEF KeptInv, RowsHold, UnitRaised, Copyable, Originals, Blocked, Exclusive, Partial, Go, Hold, Release, Leave, EndUnit, TakeJob, DropJob, DropPlan
<1>Crash. ASSUME NEW m \in Maintainers, Crash(m) PROVE RowsHold'
  BY <1>Crash, <1>1 DEF KeptInv, RowsHold, Crash, Partial, Owns, Go, Hold, Release, Leave, EndUnit, TakeJob, DropJob, DropPlan
<1>Damage. ASSUME NEW s \in Segs, NEW z \in Zip, Damage(z, s) PROVE RowsHold'
  BY <1>Damage, <1>1 DEF KeptInv, RowsHold, Damage, Go, Hold, Release, Leave, EndUnit, TakeJob, DropJob, DropPlan
<1> QED BY <1>Rest, <1>PackWrite, <1>PackMap, <1>PackRaised, <1>Sweep, <1>ReplaceWrite, <1>Retire, <1>DropZip, <1>UnitRaised, <1>Crash, <1>Damage
  DEF Next, Compact, Unlink, Clean, CleanUnit, Read, Environment

LEMMA AccountedStep == TypeOK /\ KeptInv /\ [Next]_vars => Accounted'
<1> SUFFICES ASSUME TypeOK, KeptInv, [Next]_vars PROVE Accounted' OBVIOUS
<1>0. archive \in [Segs -> 0..Zips] /\ raw \subseteq Segs /\ tomb \subseteq Segs
  BY DEF TypeOK, FilesOK, JobsOK, PlansOK, OwnersOK
<1>1. KeptInv BY DEF KeptInv
<1> USE <1>0, Numbers DEF vars, files, leases, owner, tasks, job, plan, reader, consumers, Elsewhere, ReaderElsewhere, Fault
<1>Frame. CASE UNCHANGED <<raw, archive, tomb, rotten>> BY <1>Frame, <1>1 DEF KeptInv, Accounted
<1>Rest. ASSUME UNCHANGED vars \/
    (\E m \in Maintainers : Select(m)) \/ (\E m \in Maintainers : ClaimNext(m))
      \/ (\E m \in Maintainers : TooFew(m))
      \/ (\E m \in Maintainers : \E z \in Zip : PackMark(m, z))
      \/ (\E m \in Maintainers : PackWrite(m)) \/ (\E m \in Maintainers : PackBeat(m))
      \/ (\E m \in Maintainers : PackDone(m)) \/ (\E m \in Maintainers : PackRaised(m))
      \/ (\E m \in Maintainers : \E s \in Segs : UnlinkRest(m, s))
      \/ (\E m \in Maintainers : Plan(m)) \/ (\E m \in Maintainers : Begin(m))
      \/ (\E m \in Maintainers : Refused(m)) \/ (\E m \in Maintainers : Overrun(m))
      \/ (\E m \in Maintainers : SweepLock(m))
      \/ (\E m \in Maintainers : \E z \in Zip : Sweep(m, z))
      \/ (\E m \in Maintainers : SweepDone(m))
      \/ (\E m \in Maintainers : \E p \in packs[m] : LockPack(m, p))
      \/ (\E m \in Maintainers : Recheck(m)) \/ (\E m \in Maintainers : NoReplacement(m))
      \/ (\E m \in Maintainers : \E z \in Zip : ReplaceMark(m, z))
      \/ (\E m \in Maintainers : ReplaceWrite(m)) \/ (\E m \in Maintainers : ReplaceBeat(m))
      \/ (\E m \in Maintainers : DropZip(m))
      \/ (\E m \in Maintainers : \E s \in Segs : LockItem(m, s))
      \/ (\E m \in Maintainers : \E s \in Segs : CheckItem(m, s))
      \/ (\E m \in Maintainers : ItemBeat(m)) \/ (\E m \in Maintainers : ItemDone(m))
      \/ (\E m \in Maintainers : UnitRaised(m)) \/ (\E m \in Maintainers : Finish(m))
      \/ (\E m \in Maintainers : Crash(m)) \/ (\E h \in Holders : Expire(h))
      \/ (\E h \in Holders : GhostExpires(h)) \/ (ClaimExpires)
      \/ (\E s \in Segs : NeedEnds(s)) \/ (\E s \in Segs : NeedArises(s)) \/ (ReadList)
      \/ (ReadEnd) \/ (\E s \in Segs : ReadOpen(s)) \/ (\E s \in Segs : ReadCheck(s))
      \/ (\E s \in Segs : ReadNext(s)) \/ (ReaderCrash)
  PROVE Accounted'
  <2>1. UNCHANGED <<raw, archive, tomb, rotten>> BY <1>Rest DEF Go, Hold, Release, Leave, EndUnit, TakeJob, DropJob, DropPlan, Select, ClaimNext, TooFew, PackMark, PackWrite, PackBeat, PackDone, PackRaised, Partial, UnlinkRest, Plan, Begin, Refused, Overrun, SweepLock, Sweep, SweepDone, LockPack, Lock, Recheck, NoReplacement, ReplaceMark, ReplaceWrite, ReplaceBeat, DropZip, LockItem, CheckItem, ItemBeat, ItemDone, UnitRaised, Finish, Crash, Expire, GhostExpires, ClaimExpires, NeedEnds, NeedArises, ReadList, ReadEnd, ReaderLeaves, ReadOpen, ReadCheck, ReadNext, ReaderCrash
  <2> QED BY <2>1, <1>Frame
<1>PackMap. ASSUME NEW m \in Maintainers, PackMap(m) PROVE Accounted'
  BY <1>PackMap, <1>1 DEF KeptInv, Accounted, PackMap, Originals, Go, Hold, Release, Leave, EndUnit, TakeJob, DropJob, DropPlan
<1>UnlinkRaw. ASSUME NEW m \in Maintainers, NEW s \in Segs, UnlinkRaw(m, s) PROVE Accounted'
  <2>1. s \in tomb \/ archive[s] # 0
    BY <1>UnlinkRaw, <1>1 DEF UnlinkRaw, KeptInv, Unlinkable
  <2>2. raw' = raw \ {s} /\ UNCHANGED <<archive, tomb, rotten>>
    BY <1>UnlinkRaw DEF UnlinkRaw
  <2> QED BY <2>1, <2>2, <1>1 DEF KeptInv, Accounted
<1>Retire. ASSUME NEW m \in Maintainers, Retire(m) PROVE Accounted'
  <2>1. keep[m] # {} => new[m] # 0
    BY <1>Retire, <1>1 DEF Retire, KeptInv, NewWritten, TypeOK, FilesOK
  <2>2. /\ archive' = MapAfter(m) /\ tomb' = tomb \cup (work[m] \ keep[m])
        /\ UNCHANGED <<raw, rotten>>
    BY <1>Retire DEF Retire
  <2>3. ASSUME NEW s \in Segs
        PROVE  \/ archive'[s] = archive[s]
               \/ s \in work[m] \ keep[m]
               \/ s \in keep[m] /\ archive'[s] = new[m]
    BY <2>2 DEF MapAfter
  <2> QED BY <2>1, <2>2, <2>3, <1>1 DEF KeptInv, Accounted
<1>Tombstone. ASSUME NEW m \in Maintainers, Tombstone(m) PROVE Accounted'
  BY <1>Tombstone, <1>1 DEF KeptInv, Accounted, Tombstone, Owns, WithoutLease, Go, Hold, Release, Leave, EndUnit, TakeJob, DropJob, DropPlan
<1>Damage. ASSUME NEW s \in Segs, NEW z \in Zip, Damage(z, s) PROVE Accounted'
  BY <1>Damage, <1>1 DEF KeptInv, Accounted, Damage, Go, Hold, Release, Leave, EndUnit, TakeJob, DropJob, DropPlan
<1> QED BY <1>Rest, <1>PackMap, <1>UnlinkRaw, <1>Retire, <1>Tombstone, <1>Damage
  DEF Next, Compact, Unlink, Clean, CleanUnit, Read, Environment

LEMMA NewPrivateStep == TypeOK /\ KeptInv /\ [Next]_vars => \A k \in Maintainers : NewPrivate(k)'
<1> SUFFICES ASSUME TypeOK, KeptInv, [Next]_vars, NEW k \in Maintainers PROVE NewPrivate(k)' OBVIOUS
<1>0. archive \in [Segs -> 0..Zips] /\ good \in [Zip -> SUBSET Segs] /\ disk \subseteq Zip
       /\ at \in [Maintainers -> MaintainerAt] /\ work \in [Maintainers -> SUBSET Segs]
       /\ todo \in [Maintainers -> SUBSET Segs] /\ keep \in [Maintainers -> SUBSET Segs]
       /\ new \in [Maintainers -> 0..Zips] /\ old \in [Maintainers -> 0..Zips]
       /\ packs \in [Maintainers -> SUBSET [zip : Zip, members : SUBSET Segs]]
       /\ orphans \in [Maintainers -> SUBSET Zip]
  BY DEF TypeOK, FilesOK, JobsOK, PlansOK, OwnersOK
<1>1. KeptInv BY DEF KeptInv
<1> USE <1>0, Numbers DEF vars, files, leases, owner, tasks, job, plan, reader, consumers, Elsewhere, ReaderElsewhere, Fault
<1>Frame. CASE UNCHANGED <<archive, at, old, new, packs, orphans>> BY <1>Frame, <1>1 DEF KeptInv, NewPrivate
<1>Rest. ASSUME UNCHANGED vars \/
    (\E m \in Maintainers : ClaimNext(m)) \/ (\E h \in Holders : Expire(h))
      \/ (\E h \in Holders : GhostExpires(h)) \/ (ClaimExpires)
      \/ (\E s \in Segs : NeedEnds(s)) \/ (\E s \in Segs : NeedArises(s))
      \/ (\E s \in Segs : \E z \in Zip : Damage(z, s)) \/ (ReadList) \/ (ReadEnd)
      \/ (\E s \in Segs : ReadOpen(s)) \/ (\E s \in Segs : ReadCheck(s))
      \/ (\E s \in Segs : ReadNext(s)) \/ (ReaderCrash)
  PROVE NewPrivate(k)'
  <2>1. UNCHANGED <<archive, at, old, new, packs, orphans>> BY <1>Rest DEF Go, Hold, Release, Leave, EndUnit, TakeJob, DropJob, DropPlan, ClaimNext, Expire, GhostExpires, ClaimExpires, NeedEnds, NeedArises, Damage, ReadList, ReadEnd, ReaderLeaves, ReadOpen, ReadCheck, ReadNext, ReaderCrash
  <2> QED BY <2>1, <1>Frame
<1>Select. ASSUME NEW m \in Maintainers, Select(m) PROVE NewPrivate(k)'
  BY <1>Select, <1>1 DEF KeptInv, NewPrivate, Select, Originals, Covered, Go, Hold, Release, Leave, EndUnit, TakeJob, DropJob, DropPlan
<1>TooFew. ASSUME NEW m \in Maintainers, TooFew(m) PROVE NewPrivate(k)'
  BY <1>TooFew, <1>1 DEF KeptInv, NewPrivate, TooFew, Go, Hold, Release, Leave, EndUnit, TakeJob, DropJob, DropPlan
<1>PackMark. ASSUME NEW m \in Maintainers, NEW z \in Zip, PackMark(m, z) PROVE NewPrivate(k)'
  BY <1>PackMark, <1>1 DEF KeptInv, NewPrivate, PackMark, Fresh, Unused, Members, InUse, Go, Hold, Release, Leave, EndUnit, TakeJob, DropJob, DropPlan
<1>PackWrite. ASSUME NEW m \in Maintainers, PackWrite(m) PROVE NewPrivate(k)'
  BY <1>PackWrite, <1>1 DEF KeptInv, NewPrivate, PackWrite, Originals, Go, Hold, Release, Leave, EndUnit, TakeJob, DropJob, DropPlan
<1>PackMap. ASSUME NEW m \in Maintainers, PackMap(m) PROVE NewPrivate(k)'
  BY <1>PackMap, <1>1 DEF KeptInv, NewPrivate, PackMap, Originals, Go, Hold, Release, Leave, EndUnit, TakeJob, DropJob, DropPlan
<1>PackBeat. ASSUME NEW m \in Maintainers, PackBeat(m) PROVE NewPrivate(k)'
  BY <1>PackBeat, <1>1 DEF KeptInv, NewPrivate, PackBeat, Blocked, Exclusive, Go, Hold, Release, Leave, EndUnit, TakeJob, DropJob, DropPlan
<1>PackDone. ASSUME NEW m \in Maintainers, PackDone(m) PROVE NewPrivate(k)'
  BY <1>PackDone, <1>1 DEF KeptInv, NewPrivate, PackDone, Go, Hold, Release, Leave, EndUnit, TakeJob, DropJob, DropPlan
<1>PackRaised. ASSUME NEW m \in Maintainers, PackRaised(m) PROVE NewPrivate(k)'
  BY <1>PackRaised, <1>1 DEF KeptInv, NewPrivate, PackRaised, Compacting, Originals, Blocked, Exclusive, Partial, Go, Hold, Release, Leave, EndUnit, TakeJob, DropJob, DropPlan
<1>UnlinkRaw. ASSUME NEW m \in Maintainers, NEW s \in Segs, UnlinkRaw(m, s) PROVE NewPrivate(k)'
  BY <1>UnlinkRaw, <1>1 DEF KeptInv, NewPrivate, UnlinkRaw, Go, Hold, Release, Leave, EndUnit, TakeJob, DropJob, DropPlan
<1>UnlinkRest. ASSUME NEW m \in Maintainers, NEW s \in Segs, UnlinkRest(m, s) PROVE NewPrivate(k)'
  BY <1>UnlinkRest, <1>1 DEF KeptInv, NewPrivate, UnlinkRest, Go, Hold, Release, Leave, EndUnit, TakeJob, DropJob, DropPlan
<1>Plan. ASSUME NEW m \in Maintainers, Plan(m) PROVE NewPrivate(k)'
  BY <1>Plan, <1>1 DEF KeptInv, NewPrivate, Plan, Free, Unneeded, Covered, PacksFound, Members, Repairable, Sound, Originals, Go, Hold, Release, Leave, EndUnit, TakeJob, DropJob, DropPlan
<1>Begin. ASSUME NEW m \in Maintainers, Begin(m) PROVE NewPrivate(k)'
  BY <1>Begin, <1>1 DEF KeptInv, NewPrivate, Begin, Go, Hold, Release, Leave, EndUnit, TakeJob, DropJob, DropPlan
<1>Refused. ASSUME NEW m \in Maintainers, Refused(m) PROVE NewPrivate(k)'
  BY <1>Refused, <1>1 DEF KeptInv, NewPrivate, Refused, Go, Hold, Release, Leave, EndUnit, TakeJob, DropJob, DropPlan
<1>Overrun. ASSUME NEW m \in Maintainers, Overrun(m) PROVE NewPrivate(k)'
  BY <1>Overrun, <1>1 DEF KeptInv, NewPrivate, Overrun, Owns, Go, Hold, Release, Leave, EndUnit, TakeJob, DropJob, DropPlan
<1>SweepLock. ASSUME NEW m \in Maintainers, SweepLock(m) PROVE NewPrivate(k)'
  BY <1>SweepLock, <1>1 DEF KeptInv, NewPrivate, SweepLock, Blocked, Exclusive, Go, Hold, Release, Leave, EndUnit, TakeJob, DropJob, DropPlan
<1>Sweep. ASSUME NEW m \in Maintainers, NEW z \in Zip, Sweep(m, z) PROVE NewPrivate(k)'
  BY <1>Sweep, <1>1 DEF KeptInv, NewPrivate, Sweep, Owns, Sweepable, Members, Go, Hold, Release, Leave, EndUnit, TakeJob, DropJob, DropPlan
<1>SweepDone. ASSUME NEW m \in Maintainers, SweepDone(m) PROVE NewPrivate(k)'
  BY <1>SweepDone, <1>1 DEF KeptInv, NewPrivate, SweepDone, Go, Hold, Release, Leave, EndUnit, TakeJob, DropJob, DropPlan
<1>LockPack. ASSUME NEW m \in Maintainers, NEW p \in packs[m], LockPack(m, p) PROVE NewPrivate(k)'
  BY <1>LockPack, <1>1 DEF KeptInv, NewPrivate, LockPack, Ready, Owns, Lock, Blocked, Exclusive, Go, Hold, Release, Leave, EndUnit, TakeJob, DropJob, DropPlan
<1>Recheck. ASSUME NEW m \in Maintainers, Recheck(m) PROVE NewPrivate(k)'
  BY <1>Recheck, <1>1 DEF KeptInv, NewPrivate, Recheck, Keep, Unneeded, Repairable, Members, Sound, Originals, Go, Hold, Release, Leave, EndUnit, TakeJob, DropJob, DropPlan
<1>NoReplacement. ASSUME NEW m \in Maintainers, NoReplacement(m) PROVE NewPrivate(k)'
  <2>1. /\ at' = [at EXCEPT ![m] = "commit"] /\ at[m] = "checked" /\ new[m] = 0
        /\ UNCHANGED <<new, archive, old, orphans, packs>>
    BY <1>NoReplacement, <1>1 DEF NoReplacement, Go, KeptInv, Unlinkable
  <2>2. NewPrivate(k) BY <1>1 DEF KeptInv
  <2> QED BY <2>1, <2>2 DEF NewPrivate
<1>ReplaceMark. ASSUME NEW m \in Maintainers, NEW z \in Zip, ReplaceMark(m, z) PROVE NewPrivate(k)'
  BY <1>ReplaceMark, <1>1 DEF KeptInv, NewPrivate, ReplaceMark, Owns, Fresh, Unused, Members, InUse, Go, Hold, Release, Leave, EndUnit, TakeJob, DropJob, DropPlan
<1>ReplaceWrite. ASSUME NEW m \in Maintainers, ReplaceWrite(m) PROVE NewPrivate(k)'
  BY <1>ReplaceWrite, <1>1 DEF KeptInv, NewPrivate, ReplaceWrite, Copyable, Originals, Go, Hold, Release, Leave, EndUnit, TakeJob, DropJob, DropPlan
<1>ReplaceBeat. ASSUME NEW m \in Maintainers, ReplaceBeat(m) PROVE NewPrivate(k)'
  BY <1>ReplaceBeat, <1>1 DEF KeptInv, NewPrivate, ReplaceBeat, Blocked, Exclusive, Go, Hold, Release, Leave, EndUnit, TakeJob, DropJob, DropPlan
<1>Retire. ASSUME NEW m \in Maintainers, Retire(m) PROVE NewPrivate(k)'
  BY <1>Retire, <1>1 DEF KeptInv, NewPrivate, Retire, MapAfter, WithoutLease, Go, Hold, Release, Leave, EndUnit, TakeJob, DropJob, DropPlan
<1>DropZip. ASSUME NEW m \in Maintainers, DropZip(m) PROVE NewPrivate(k)'
  BY <1>DropZip, <1>1 DEF KeptInv, NewPrivate, DropZip, Go, Hold, Release, Leave, EndUnit, TakeJob, DropJob, DropPlan
<1>LockItem. ASSUME NEW m \in Maintainers, NEW s \in Segs, LockItem(m, s) PROVE NewPrivate(k)'
  BY <1>LockItem, <1>1 DEF KeptInv, NewPrivate, LockItem, Ready, Owns, Lock, Blocked, Exclusive, Go, Hold, Release, Leave, EndUnit, TakeJob, DropJob, DropPlan
<1>CheckItem. ASSUME NEW m \in Maintainers, NEW s \in Segs, CheckItem(m, s) PROVE NewPrivate(k)'
  BY <1>CheckItem, <1>1 DEF KeptInv, NewPrivate, CheckItem, Unneeded, Originals, Go, Hold, Release, Leave, EndUnit, TakeJob, DropJob, DropPlan
<1>Tombstone. ASSUME NEW m \in Maintainers, Tombstone(m) PROVE NewPrivate(k)'
  BY <1>Tombstone, <1>1 DEF KeptInv, NewPrivate, Tombstone, Owns, WithoutLease, Go, Hold, Release, Leave, EndUnit, TakeJob, DropJob, DropPlan
<1>ItemBeat. ASSUME NEW m \in Maintainers, ItemBeat(m) PROVE NewPrivate(k)'
  BY <1>ItemBeat, <1>1 DEF KeptInv, NewPrivate, ItemBeat, Blocked, Exclusive, Go, Hold, Release, Leave, EndUnit, TakeJob, DropJob, DropPlan
<1>ItemDone. ASSUME NEW m \in Maintainers, ItemDone(m) PROVE NewPrivate(k)'
  BY <1>ItemDone, <1>1 DEF KeptInv, NewPrivate, ItemDone, Go, Hold, Release, Leave, EndUnit, TakeJob, DropJob, DropPlan
<1>UnitRaised. ASSUME NEW m \in Maintainers, UnitRaised(m) PROVE NewPrivate(k)'
  BY <1>UnitRaised, <1>1 DEF KeptInv, NewPrivate, UnitRaised, Copyable, Originals, Blocked, Exclusive, Partial, Go, Hold, Release, Leave, EndUnit, TakeJob, DropJob, DropPlan
<1>Finish. ASSUME NEW m \in Maintainers, Finish(m) PROVE NewPrivate(k)'
  BY <1>Finish, <1>1 DEF KeptInv, NewPrivate, Finish, Owns, Go, Hold, Release, Leave, EndUnit, TakeJob, DropJob, DropPlan
<1>Crash. ASSUME NEW m \in Maintainers, Crash(m) PROVE NewPrivate(k)'
  BY <1>Crash, <1>1 DEF KeptInv, NewPrivate, Crash, Partial, Owns, Go, Hold, Release, Leave, EndUnit, TakeJob, DropJob, DropPlan
<1> QED BY <1>Rest, <1>Select, <1>TooFew, <1>PackMark, <1>PackWrite, <1>PackMap, <1>PackBeat, <1>PackDone, <1>PackRaised, <1>UnlinkRaw, <1>UnlinkRest, <1>Plan, <1>Begin, <1>Refused, <1>Overrun, <1>SweepLock, <1>Sweep, <1>SweepDone, <1>LockPack, <1>Recheck, <1>NoReplacement, <1>ReplaceMark, <1>ReplaceWrite, <1>ReplaceBeat, <1>Retire, <1>DropZip, <1>LockItem, <1>CheckItem, <1>Tombstone, <1>ItemBeat, <1>ItemDone, <1>UnitRaised, <1>Finish, <1>Crash
  DEF Next, Compact, Unlink, Clean, CleanUnit, Read, Environment

LEMMA NewWrittenStep == TypeOK /\ KeptInv /\ [Next]_vars => \A k \in Maintainers : NewWritten(k)'
<1> SUFFICES ASSUME TypeOK, KeptInv, [Next]_vars, NEW k \in Maintainers PROVE NewWritten(k)' OBVIOUS
<1>0. archive \in [Segs -> 0..Zips] /\ good \in [Zip -> SUBSET Segs] /\ disk \subseteq Zip
       /\ at \in [Maintainers -> MaintainerAt] /\ work \in [Maintainers -> SUBSET Segs]
       /\ todo \in [Maintainers -> SUBSET Segs] /\ keep \in [Maintainers -> SUBSET Segs]
       /\ new \in [Maintainers -> 0..Zips] /\ old \in [Maintainers -> 0..Zips]
       /\ packs \in [Maintainers -> SUBSET [zip : Zip, members : SUBSET Segs]]
       /\ orphans \in [Maintainers -> SUBSET Zip]
  BY DEF TypeOK, FilesOK, JobsOK, PlansOK, OwnersOK
<1>1. KeptInv BY DEF KeptInv
<1> USE <1>0, Numbers DEF vars, files, leases, owner, tasks, job, plan, reader, consumers, Elsewhere, ReaderElsewhere, Fault
<1>Frame. CASE UNCHANGED <<disk, good, at, work, keep, new, rotten>> BY <1>Frame, <1>1 DEF KeptInv, NewWritten
<1>Rest. ASSUME UNCHANGED vars \/
    (\E h \in Holders : Expire(h)) \/ (\E h \in Holders : GhostExpires(h)) \/ (ClaimExpires)
      \/ (\E s \in Segs : NeedEnds(s)) \/ (\E s \in Segs : NeedArises(s)) \/ (ReadList)
      \/ (ReadEnd) \/ (\E s \in Segs : ReadOpen(s)) \/ (\E s \in Segs : ReadCheck(s))
      \/ (\E s \in Segs : ReadNext(s)) \/ (ReaderCrash)
  PROVE NewWritten(k)'
  <2>1. UNCHANGED <<disk, good, at, work, keep, new, rotten>> BY <1>Rest DEF Go, Hold, Release, Leave, EndUnit, TakeJob, DropJob, DropPlan, Expire, GhostExpires, ClaimExpires, NeedEnds, NeedArises, ReadList, ReadEnd, ReaderLeaves, ReadOpen, ReadCheck, ReadNext, ReaderCrash
  <2> QED BY <2>1, <1>Frame
<1>Select. ASSUME NEW m \in Maintainers, Select(m) PROVE NewWritten(k)'
  BY <1>Select, <1>1 DEF KeptInv, NewWritten, Select, Originals, Covered, Go, Hold, Release, Leave, EndUnit, TakeJob, DropJob, DropPlan
<1>ClaimNext. ASSUME NEW m \in Maintainers, ClaimNext(m) PROVE NewWritten(k)'
  BY <1>ClaimNext, <1>1 DEF KeptInv, NewWritten, ClaimNext, Blocked, Exclusive, Go, Hold, Release, Leave, EndUnit, TakeJob, DropJob, DropPlan
<1>TooFew. ASSUME NEW m \in Maintainers, TooFew(m) PROVE NewWritten(k)'
  BY <1>TooFew, <1>1 DEF KeptInv, NewWritten, TooFew, Go, Hold, Release, Leave, EndUnit, TakeJob, DropJob, DropPlan
<1>PackMark. ASSUME NEW m \in Maintainers, NEW z \in Zip, PackMark(m, z) PROVE NewWritten(k)'
  BY <1>PackMark, <1>1 DEF KeptInv, NewWritten, PackMark, Fresh, Unused, Members, InUse, Go, Hold, Release, Leave, EndUnit, TakeJob, DropJob, DropPlan
<1>PackWrite. ASSUME NEW m \in Maintainers, PackWrite(m) PROVE NewWritten(k)'
  <2>1. /\ new[m] \in Zip /\ good' = [good EXCEPT ![new[m]] = work[m]]
        /\ disk' = disk \cup {new[m]} /\ at' = [at EXCEPT ![m] = "map"]
        /\ UNCHANGED <<new, work, keep, rotten>>
    BY <1>PackWrite DEF PackWrite, Go, TypeOK, JobsOK
  <2>2. CASE k = m BY <2>1, <2>2 DEF NewWritten
  <2>3. CASE k # m
    <3>1. /\ at'[k] = at[k] /\ new'[k] = new[k] /\ work'[k] = work[k] /\ keep'[k] = keep[k]
          /\ NewWritten(k) /\ NewPrivate(k)
      BY <2>1, <2>3, <1>1 DEF KeptInv
    <3>2. ASSUME at[k] \in {"map", "verify", "commit"}, new[k] \in Zip
          PROVE  new[k] # new[m]
      BY <3>1, <3>2, <2>3 DEF NewPrivate
    <3> QED BY <2>1, <3>1, <3>2 DEF NewWritten
  <2> QED BY <2>2, <2>3
<1>PackMap. ASSUME NEW m \in Maintainers, PackMap(m) PROVE NewWritten(k)'
  BY <1>PackMap, <1>1 DEF KeptInv, NewWritten, PackMap, Originals, Go, Hold, Release, Leave, EndUnit, TakeJob, DropJob, DropPlan
<1>PackBeat. ASSUME NEW m \in Maintainers, PackBeat(m) PROVE NewWritten(k)'
  BY <1>PackBeat, <1>1 DEF KeptInv, NewWritten, PackBeat, Blocked, Exclusive, Go, Hold, Release, Leave, EndUnit, TakeJob, DropJob, DropPlan
<1>PackDone. ASSUME NEW m \in Maintainers, PackDone(m) PROVE NewWritten(k)'
  BY <1>PackDone, <1>1 DEF KeptInv, NewWritten, PackDone, Go, Hold, Release, Leave, EndUnit, TakeJob, DropJob, DropPlan
<1>PackRaised. ASSUME NEW m \in Maintainers, PackRaised(m) PROVE NewWritten(k)'
  BY <1>PackRaised, <1>1 DEF KeptInv, NewWritten, PackRaised, Compacting, Originals, Blocked, Exclusive, Partial, Go, Hold, Release, Leave, EndUnit, TakeJob, DropJob, DropPlan
<1>UnlinkRaw. ASSUME NEW m \in Maintainers, NEW s \in Segs, UnlinkRaw(m, s) PROVE NewWritten(k)'
  BY <1>UnlinkRaw, <1>1 DEF KeptInv, NewWritten, UnlinkRaw, Go, Hold, Release, Leave, EndUnit, TakeJob, DropJob, DropPlan
<1>UnlinkRest. ASSUME NEW m \in Maintainers, NEW s \in Segs, UnlinkRest(m, s) PROVE NewWritten(k)'
  BY <1>UnlinkRest, <1>1 DEF KeptInv, NewWritten, UnlinkRest, Go, Hold, Release, Leave, EndUnit, TakeJob, DropJob, DropPlan
<1>Plan. ASSUME NEW m \in Maintainers, Plan(m) PROVE NewWritten(k)'
  BY <1>Plan, <1>1 DEF KeptInv, NewWritten, Plan, Free, Unneeded, Covered, PacksFound, Members, Repairable, Sound, Originals, Go, Hold, Release, Leave, EndUnit, TakeJob, DropJob, DropPlan
<1>Begin. ASSUME NEW m \in Maintainers, Begin(m) PROVE NewWritten(k)'
  BY <1>Begin, <1>1 DEF KeptInv, NewWritten, Begin, Go, Hold, Release, Leave, EndUnit, TakeJob, DropJob, DropPlan
<1>Refused. ASSUME NEW m \in Maintainers, Refused(m) PROVE NewWritten(k)'
  BY <1>Refused, <1>1 DEF KeptInv, NewWritten, Refused, Go, Hold, Release, Leave, EndUnit, TakeJob, DropJob, DropPlan
<1>Overrun. ASSUME NEW m \in Maintainers, Overrun(m) PROVE NewWritten(k)'
  BY <1>Overrun, <1>1 DEF KeptInv, NewWritten, Overrun, Owns, Go, Hold, Release, Leave, EndUnit, TakeJob, DropJob, DropPlan
<1>SweepLock. ASSUME NEW m \in Maintainers, SweepLock(m) PROVE NewWritten(k)'
  BY <1>SweepLock, <1>1 DEF KeptInv, NewWritten, SweepLock, Blocked, Exclusive, Go, Hold, Release, Leave, EndUnit, TakeJob, DropJob, DropPlan
<1>Sweep. ASSUME NEW m \in Maintainers, NEW z \in Zip, Sweep(m, z) PROVE NewWritten(k)'
  <2>1. /\ z \in orphans[m] /\ disk \ {z} \subseteq disk' /\ UNCHANGED <<at, new, work, keep, rotten>>
        /\ \A y \in Zip \ {z} : good'[y] = good[y]
    BY <1>Sweep DEF Sweep
  <2>2. NewWritten(k) /\ NewPrivate(k) BY <1>1 DEF KeptInv
  <2>3. ASSUME at[k] \in {"map", "verify", "commit"}, new[k] \in Zip
        PROVE  new[k] # z
    BY <2>1, <2>2, <2>3 DEF NewPrivate
  <2> QED BY <2>1, <2>2, <2>3 DEF NewWritten
<1>SweepDone. ASSUME NEW m \in Maintainers, SweepDone(m) PROVE NewWritten(k)'
  BY <1>SweepDone, <1>1 DEF KeptInv, NewWritten, SweepDone, Go, Hold, Release, Leave, EndUnit, TakeJob, DropJob, DropPlan
<1>LockPack. ASSUME NEW m \in Maintainers, NEW p \in packs[m], LockPack(m, p) PROVE NewWritten(k)'
  BY <1>LockPack, <1>1 DEF KeptInv, NewWritten, LockPack, Ready, Owns, Lock, Blocked, Exclusive, Go, Hold, Release, Leave, EndUnit, TakeJob, DropJob, DropPlan
<1>Recheck. ASSUME NEW m \in Maintainers, Recheck(m) PROVE NewWritten(k)'
  BY <1>Recheck, <1>1 DEF KeptInv, NewWritten, Recheck, Keep, Unneeded, Repairable, Members, Sound, Originals, Go, Hold, Release, Leave, EndUnit, TakeJob, DropJob, DropPlan
<1>NoReplacement. ASSUME NEW m \in Maintainers, NoReplacement(m) PROVE NewWritten(k)'
  BY <1>NoReplacement, <1>1 DEF KeptInv, NewWritten, NoReplacement, Owns, Go, Hold, Release, Leave, EndUnit, TakeJob, DropJob, DropPlan
<1>ReplaceMark. ASSUME NEW m \in Maintainers, NEW z \in Zip, ReplaceMark(m, z) PROVE NewWritten(k)'
  BY <1>ReplaceMark, <1>1 DEF KeptInv, NewWritten, ReplaceMark, Owns, Fresh, Unused, Members, InUse, Go, Hold, Release, Leave, EndUnit, TakeJob, DropJob, DropPlan
<1>ReplaceWrite. ASSUME NEW m \in Maintainers, ReplaceWrite(m) PROVE NewWritten(k)'
  <2>1. /\ new[m] \in Zip /\ good' = [good EXCEPT ![new[m]] = keep[m]]
        /\ disk' = disk \cup {new[m]} /\ at' = [at EXCEPT ![m] = "verify"]
        /\ UNCHANGED <<new, work, keep, rotten>>
    BY <1>ReplaceWrite DEF ReplaceWrite, Go, TypeOK, JobsOK
  <2>2. CASE k = m BY <2>1, <2>2 DEF NewWritten
  <2>3. CASE k # m
    <3>1. /\ at'[k] = at[k] /\ new'[k] = new[k] /\ work'[k] = work[k] /\ keep'[k] = keep[k]
          /\ NewWritten(k) /\ NewPrivate(k)
      BY <2>1, <2>3, <1>1 DEF KeptInv
    <3>2. ASSUME at[k] \in {"map", "verify", "commit"}, new[k] \in Zip
          PROVE  new[k] # new[m]
      BY <3>1, <3>2, <2>3 DEF NewPrivate
    <3> QED BY <2>1, <3>1, <3>2 DEF NewWritten
  <2> QED BY <2>2, <2>3
<1>ReplaceBeat. ASSUME NEW m \in Maintainers, ReplaceBeat(m) PROVE NewWritten(k)'
  BY <1>ReplaceBeat, <1>1 DEF KeptInv, NewWritten, ReplaceBeat, Blocked, Exclusive, Go, Hold, Release, Leave, EndUnit, TakeJob, DropJob, DropPlan
<1>Retire. ASSUME NEW m \in Maintainers, Retire(m) PROVE NewWritten(k)'
  BY <1>Retire, <1>1 DEF KeptInv, NewWritten, Retire, MapAfter, WithoutLease, Go, Hold, Release, Leave, EndUnit, TakeJob, DropJob, DropPlan
<1>DropZip. ASSUME NEW m \in Maintainers, DropZip(m) PROVE NewWritten(k)'
  <2>1. /\ disk' = disk \ {old[m]} /\ at' = [at EXCEPT ![m] = "clean"]
        /\ \A y \in Zip \ {old[m]} : good'[y] = good[y]
        /\ \A n \in Maintainers \ {m} : /\ new'[n] = new[n] /\ work'[n] = work[n]
                                        /\ keep'[n] = keep[n] /\ at'[n] = at[n]
        /\ rotten' = rotten
    BY <1>DropZip DEF DropZip, EndUnit, Go, DropJob, TakeJob
  <2>2. CASE k = m BY <2>1, <2>2 DEF NewWritten
  <2>3. CASE k # m
    <3>1. NewWritten(k) /\ NewPrivate(k) BY <1>1 DEF KeptInv
    <3>2. ASSUME at[k] \in {"map", "verify", "commit"}, new[k] \in Zip
          PROVE  new[k] # old[m]
      BY <3>1, <3>2 DEF NewPrivate
    <3> QED BY <2>1, <2>3, <3>1, <3>2 DEF NewWritten
  <2> QED BY <2>2, <2>3
<1>LockItem. ASSUME NEW m \in Maintainers, NEW s \in Segs, LockItem(m, s) PROVE NewWritten(k)'
  BY <1>LockItem, <1>1 DEF KeptInv, NewWritten, LockItem, Ready, Owns, Lock, Blocked, Exclusive, Go, Hold, Release, Leave, EndUnit, TakeJob, DropJob, DropPlan
<1>CheckItem. ASSUME NEW m \in Maintainers, NEW s \in Segs, CheckItem(m, s) PROVE NewWritten(k)'
  BY <1>CheckItem, <1>1 DEF KeptInv, NewWritten, CheckItem, Unneeded, Originals, Go, Hold, Release, Leave, EndUnit, TakeJob, DropJob, DropPlan
<1>Tombstone. ASSUME NEW m \in Maintainers, Tombstone(m) PROVE NewWritten(k)'
  BY <1>Tombstone, <1>1 DEF KeptInv, NewWritten, Tombstone, Owns, WithoutLease, Go, Hold, Release, Leave, EndUnit, TakeJob, DropJob, DropPlan
<1>ItemBeat. ASSUME NEW m \in Maintainers, ItemBeat(m) PROVE NewWritten(k)'
  BY <1>ItemBeat, <1>1 DEF KeptInv, NewWritten, ItemBeat, Blocked, Exclusive, Go, Hold, Release, Leave, EndUnit, TakeJob, DropJob, DropPlan
<1>ItemDone. ASSUME NEW m \in Maintainers, ItemDone(m) PROVE NewWritten(k)'
  BY <1>ItemDone, <1>1 DEF KeptInv, NewWritten, ItemDone, Go, Hold, Release, Leave, EndUnit, TakeJob, DropJob, DropPlan
<1>UnitRaised. ASSUME NEW m \in Maintainers, UnitRaised(m) PROVE NewWritten(k)'
  BY <1>UnitRaised, <1>1 DEF KeptInv, NewWritten, UnitRaised, Copyable, Originals, Blocked, Exclusive, Partial, Go, Hold, Release, Leave, EndUnit, TakeJob, DropJob, DropPlan
<1>Finish. ASSUME NEW m \in Maintainers, Finish(m) PROVE NewWritten(k)'
  BY <1>Finish, <1>1 DEF KeptInv, NewWritten, Finish, Owns, Go, Hold, Release, Leave, EndUnit, TakeJob, DropJob, DropPlan
<1>Crash. ASSUME NEW m \in Maintainers, Crash(m) PROVE NewWritten(k)'
  BY <1>Crash, <1>1 DEF KeptInv, NewWritten, Crash, Partial, Owns, Go, Hold, Release, Leave, EndUnit, TakeJob, DropJob, DropPlan
<1>Damage. ASSUME NEW s \in Segs, NEW z \in Zip, Damage(z, s) PROVE NewWritten(k)'
  BY <1>Damage, <1>1 DEF KeptInv, NewWritten, Damage, Go, Hold, Release, Leave, EndUnit, TakeJob, DropJob, DropPlan
<1> QED BY <1>Rest, <1>Select, <1>ClaimNext, <1>TooFew, <1>PackMark, <1>PackWrite, <1>PackMap, <1>PackBeat, <1>PackDone, <1>PackRaised, <1>UnlinkRaw, <1>UnlinkRest, <1>Plan, <1>Begin, <1>Refused, <1>Overrun, <1>SweepLock, <1>Sweep, <1>SweepDone, <1>LockPack, <1>Recheck, <1>NoReplacement, <1>ReplaceMark, <1>ReplaceWrite, <1>ReplaceBeat, <1>Retire, <1>DropZip, <1>LockItem, <1>CheckItem, <1>Tombstone, <1>ItemBeat, <1>ItemDone, <1>UnitRaised, <1>Finish, <1>Crash, <1>Damage
  DEF Next, Compact, Unlink, Clean, CleanUnit, Read, Environment

LEMMA OldKnownStep == TypeOK /\ KeptInv /\ [Next]_vars => \A k \in Maintainers : OldKnown(k)'
<1> SUFFICES ASSUME TypeOK, KeptInv, [Next]_vars, NEW k \in Maintainers PROVE OldKnown(k)' OBVIOUS
<1>0. archive \in [Segs -> 0..Zips] /\ good \in [Zip -> SUBSET Segs] /\ disk \subseteq Zip
       /\ at \in [Maintainers -> MaintainerAt] /\ work \in [Maintainers -> SUBSET Segs]
       /\ todo \in [Maintainers -> SUBSET Segs] /\ keep \in [Maintainers -> SUBSET Segs]
       /\ new \in [Maintainers -> 0..Zips] /\ old \in [Maintainers -> 0..Zips]
       /\ packs \in [Maintainers -> SUBSET [zip : Zip, members : SUBSET Segs]]
       /\ orphans \in [Maintainers -> SUBSET Zip]
  BY DEF TypeOK, FilesOK, JobsOK, PlansOK, OwnersOK
<1>1. KeptInv BY DEF KeptInv
<1> USE <1>0, Numbers DEF vars, files, leases, owner, tasks, job, plan, reader, consumers, Elsewhere, ReaderElsewhere, Fault
<1>Frame. CASE UNCHANGED <<archive, at, work, old, packs>> BY <1>Frame, <1>1 DEF KeptInv, OldKnown
<1>Rest. ASSUME UNCHANGED vars \/
    (\E m \in Maintainers : \E z \in Zip : Sweep(m, z)) \/ (\E h \in Holders : Expire(h))
      \/ (\E h \in Holders : GhostExpires(h)) \/ (ClaimExpires)
      \/ (\E s \in Segs : NeedEnds(s)) \/ (\E s \in Segs : NeedArises(s))
      \/ (\E s \in Segs : \E z \in Zip : Damage(z, s)) \/ (ReadList) \/ (ReadEnd)
      \/ (\E s \in Segs : ReadOpen(s)) \/ (\E s \in Segs : ReadCheck(s))
      \/ (\E s \in Segs : ReadNext(s)) \/ (ReaderCrash)
  PROVE OldKnown(k)'
  <2>1. UNCHANGED <<archive, at, work, old, packs>> BY <1>Rest DEF Go, Hold, Release, Leave, EndUnit, TakeJob, DropJob, DropPlan, Sweep, Expire, GhostExpires, ClaimExpires, NeedEnds, NeedArises, Damage, ReadList, ReadEnd, ReaderLeaves, ReadOpen, ReadCheck, ReadNext, ReaderCrash
  <2> QED BY <2>1, <1>Frame
<1>Select. ASSUME NEW m \in Maintainers, Select(m) PROVE OldKnown(k)'
  BY <1>Select, <1>1 DEF KeptInv, OldKnown, Select, Originals, Covered, Go, Hold, Release, Leave, EndUnit, TakeJob, DropJob, DropPlan
<1>ClaimNext. ASSUME NEW m \in Maintainers, ClaimNext(m) PROVE OldKnown(k)'
  BY <1>ClaimNext, <1>1 DEF KeptInv, OldKnown, ClaimNext, Blocked, Exclusive, Go, Hold, Release, Leave, EndUnit, TakeJob, DropJob, DropPlan
<1>TooFew. ASSUME NEW m \in Maintainers, TooFew(m) PROVE OldKnown(k)'
  BY <1>TooFew, <1>1 DEF KeptInv, OldKnown, TooFew, Go, Hold, Release, Leave, EndUnit, TakeJob, DropJob, DropPlan
<1>PackMark. ASSUME NEW m \in Maintainers, NEW z \in Zip, PackMark(m, z) PROVE OldKnown(k)'
  BY <1>PackMark, <1>1 DEF KeptInv, OldKnown, PackMark, Fresh, Unused, Members, InUse, Go, Hold, Release, Leave, EndUnit, TakeJob, DropJob, DropPlan
<1>PackWrite. ASSUME NEW m \in Maintainers, PackWrite(m) PROVE OldKnown(k)'
  BY <1>PackWrite, <1>1 DEF KeptInv, OldKnown, PackWrite, Originals, Go, Hold, Release, Leave, EndUnit, TakeJob, DropJob, DropPlan
<1>PackMap. ASSUME NEW m \in Maintainers, PackMap(m) PROVE OldKnown(k)'
  <2>1. /\ archive' = [s \in Segs |-> IF s \in work[m] THEN new[m] ELSE archive[s]]
        /\ at' = [at EXCEPT ![m] = "beat"] /\ UNCHANGED <<packs, old, work>>
    BY <1>PackMap DEF PackMap, Go
  <2>2. new[m] \in Zip /\ new[m] # old[k] /\ \A p \in packs[k] : p.zip # new[m]
    BY <1>PackMap, <1>1 DEF PackMap, KeptInv, NewPrivate, TypeOK, JobsOK
  <2>3. OldKnown(k) /\ (k # m => at'[k] = at[k]) /\ at'[m] = "beat" BY <2>1, <1>1 DEF KeptInv
  <2> QED BY <2>1, <2>2, <2>3 DEF OldKnown
<1>PackBeat. ASSUME NEW m \in Maintainers, PackBeat(m) PROVE OldKnown(k)'
  BY <1>PackBeat, <1>1 DEF KeptInv, OldKnown, PackBeat, Blocked, Exclusive, Go, Hold, Release, Leave, EndUnit, TakeJob, DropJob, DropPlan
<1>PackDone. ASSUME NEW m \in Maintainers, PackDone(m) PROVE OldKnown(k)'
  BY <1>PackDone, <1>1 DEF KeptInv, OldKnown, PackDone, Go, Hold, Release, Leave, EndUnit, TakeJob, DropJob, DropPlan
<1>PackRaised. ASSUME NEW m \in Maintainers, PackRaised(m) PROVE OldKnown(k)'
  BY <1>PackRaised, <1>1 DEF KeptInv, OldKnown, PackRaised, Compacting, Originals, Blocked, Exclusive, Partial, Go, Hold, Release, Leave, EndUnit, TakeJob, DropJob, DropPlan
<1>UnlinkRaw. ASSUME NEW m \in Maintainers, NEW s \in Segs, UnlinkRaw(m, s) PROVE OldKnown(k)'
  BY <1>UnlinkRaw, <1>1 DEF KeptInv, OldKnown, UnlinkRaw, Go, Hold, Release, Leave, EndUnit, TakeJob, DropJob, DropPlan
<1>UnlinkRest. ASSUME NEW m \in Maintainers, NEW s \in Segs, UnlinkRest(m, s) PROVE OldKnown(k)'
  BY <1>UnlinkRest, <1>1 DEF KeptInv, OldKnown, UnlinkRest, Go, Hold, Release, Leave, EndUnit, TakeJob, DropJob, DropPlan
<1>Plan. ASSUME NEW m \in Maintainers, Plan(m) PROVE OldKnown(k)'
  BY <1>Plan, <1>1 DEF KeptInv, OldKnown, Plan, Free, Unneeded, Covered, PacksFound, Members, Repairable, Sound, Originals, Go, Hold, Release, Leave, EndUnit, TakeJob, DropJob, DropPlan
<1>Begin. ASSUME NEW m \in Maintainers, Begin(m) PROVE OldKnown(k)'
  BY <1>Begin, <1>1 DEF KeptInv, OldKnown, Begin, Go, Hold, Release, Leave, EndUnit, TakeJob, DropJob, DropPlan
<1>Refused. ASSUME NEW m \in Maintainers, Refused(m) PROVE OldKnown(k)'
  BY <1>Refused, <1>1 DEF KeptInv, OldKnown, Refused, Go, Hold, Release, Leave, EndUnit, TakeJob, DropJob, DropPlan
<1>Overrun. ASSUME NEW m \in Maintainers, Overrun(m) PROVE OldKnown(k)'
  BY <1>Overrun, <1>1 DEF KeptInv, OldKnown, Overrun, Owns, Go, Hold, Release, Leave, EndUnit, TakeJob, DropJob, DropPlan
<1>SweepLock. ASSUME NEW m \in Maintainers, SweepLock(m) PROVE OldKnown(k)'
  BY <1>SweepLock, <1>1 DEF KeptInv, OldKnown, SweepLock, Blocked, Exclusive, Go, Hold, Release, Leave, EndUnit, TakeJob, DropJob, DropPlan
<1>SweepDone. ASSUME NEW m \in Maintainers, SweepDone(m) PROVE OldKnown(k)'
  BY <1>SweepDone, <1>1 DEF KeptInv, OldKnown, SweepDone, Go, Hold, Release, Leave, EndUnit, TakeJob, DropJob, DropPlan
<1>LockPack. ASSUME NEW m \in Maintainers, NEW p \in packs[m], LockPack(m, p) PROVE OldKnown(k)'
  BY <1>LockPack, <1>1 DEF KeptInv, OldKnown, LockPack, Ready, Owns, Lock, Blocked, Exclusive, Go, Hold, Release, Leave, EndUnit, TakeJob, DropJob, DropPlan
<1>Recheck. ASSUME NEW m \in Maintainers, Recheck(m) PROVE OldKnown(k)'
  BY <1>Recheck, <1>1 DEF KeptInv, OldKnown, Recheck, Keep, Unneeded, Repairable, Members, Sound, Originals, Go, Hold, Release, Leave, EndUnit, TakeJob, DropJob, DropPlan
<1>NoReplacement. ASSUME NEW m \in Maintainers, NoReplacement(m) PROVE OldKnown(k)'
  BY <1>NoReplacement, <1>1 DEF KeptInv, OldKnown, NoReplacement, Owns, Go, Hold, Release, Leave, EndUnit, TakeJob, DropJob, DropPlan
<1>ReplaceMark. ASSUME NEW m \in Maintainers, NEW z \in Zip, ReplaceMark(m, z) PROVE OldKnown(k)'
  BY <1>ReplaceMark, <1>1 DEF KeptInv, OldKnown, ReplaceMark, Owns, Fresh, Unused, Members, InUse, Go, Hold, Release, Leave, EndUnit, TakeJob, DropJob, DropPlan
<1>ReplaceWrite. ASSUME NEW m \in Maintainers, ReplaceWrite(m) PROVE OldKnown(k)'
  BY <1>ReplaceWrite, <1>1 DEF KeptInv, OldKnown, ReplaceWrite, Copyable, Originals, Go, Hold, Release, Leave, EndUnit, TakeJob, DropJob, DropPlan
<1>ReplaceBeat. ASSUME NEW m \in Maintainers, ReplaceBeat(m) PROVE OldKnown(k)'
  BY <1>ReplaceBeat, <1>1 DEF KeptInv, OldKnown, ReplaceBeat, Blocked, Exclusive, Go, Hold, Release, Leave, EndUnit, TakeJob, DropJob, DropPlan
<1>Retire. ASSUME NEW m \in Maintainers, Retire(m) PROVE OldKnown(k)'
  <2>1. keep[m] # {} => new[m] # 0
    BY <1>Retire, <1>1 DEF Retire, KeptInv, NewWritten, TypeOK, FilesOK
  <2>2. /\ archive' = MapAfter(m) /\ tomb' = tomb \cup (work[m] \ keep[m])
        /\ at' = [at EXCEPT ![m] = "retired"] /\ at[m] = "commit"
        /\ UNCHANGED <<packs, old, new, work, todo>>
    BY <1>Retire DEF Retire, Go
  <2>3. ASSUME NEW s \in Segs
        PROVE  \/ archive'[s] = archive[s] /\ (archive[s] # old[m] \/ s \notin work[m])
               \/ archive'[s] = 0
               \/ keep[m] # {} /\ archive'[s] = new[m]
    BY <2>2 DEF MapAfter
  <2>4. new[m] # 0 => new[m] # old[k] /\ \A p \in packs[k] : p.zip # new[m]
    BY <2>2, <1>1 DEF KeptInv, NewPrivate
  <2>5. old[m] \in Zip /\ \A p \in packs[k] : p.zip \in Zip
    BY <2>2 DEF TypeOK, JobsOK
  <2>6. OldKnown(k) /\ OldKnown(m) /\ old[k] \in 0..Zips BY <1>1 DEF KeptInv
  <2>7. at[k] \in {"locked", "checked", "copy", "verify", "commit"} => old[k] # 0
    BY DEF TypeOK, JobsOK
  <2>8. at[k] = "retired" => old[k] # 0 BY DEF TypeOK, JobsOK
  <2>9. CASE k = m
    <3>1. \A p \in packs[k] : \A s \in Segs : archive'[s] = p.zip => s \in p.members
      BY <2>1, <2>3, <2>4, <2>5, <2>6 DEF OldKnown
    <3>2. \A s \in Segs : archive'[s] # old[m]
      BY <2>1, <2>2, <2>3, <2>4, <2>5, <2>6, <2>9 DEF OldKnown
    <3> QED BY <2>2, <2>9, <3>1, <3>2 DEF OldKnown
  <2>10. CASE k # m
    BY <2>1, <2>2, <2>3, <2>4, <2>5, <2>6, <2>7, <2>8, <2>10 DEF OldKnown
  <2> QED BY <2>9, <2>10
<1>DropZip. ASSUME NEW m \in Maintainers, DropZip(m) PROVE OldKnown(k)'
  BY <1>DropZip, <1>1 DEF KeptInv, OldKnown, DropZip, Go, Hold, Release, Leave, EndUnit, TakeJob, DropJob, DropPlan
<1>LockItem. ASSUME NEW m \in Maintainers, NEW s \in Segs, LockItem(m, s) PROVE OldKnown(k)'
  BY <1>LockItem, <1>1 DEF KeptInv, OldKnown, LockItem, Ready, Owns, Lock, Blocked, Exclusive, Go, Hold, Release, Leave, EndUnit, TakeJob, DropJob, DropPlan
<1>CheckItem. ASSUME NEW m \in Maintainers, NEW s \in Segs, CheckItem(m, s) PROVE OldKnown(k)'
  BY <1>CheckItem, <1>1 DEF KeptInv, OldKnown, CheckItem, Unneeded, Originals, Go, Hold, Release, Leave, EndUnit, TakeJob, DropJob, DropPlan
<1>Tombstone. ASSUME NEW m \in Maintainers, Tombstone(m) PROVE OldKnown(k)'
  BY <1>Tombstone, <1>1 DEF KeptInv, OldKnown, Tombstone, Owns, WithoutLease, Go, Hold, Release, Leave, EndUnit, TakeJob, DropJob, DropPlan
<1>ItemBeat. ASSUME NEW m \in Maintainers, ItemBeat(m) PROVE OldKnown(k)'
  BY <1>ItemBeat, <1>1 DEF KeptInv, OldKnown, ItemBeat, Blocked, Exclusive, Go, Hold, Release, Leave, EndUnit, TakeJob, DropJob, DropPlan
<1>ItemDone. ASSUME NEW m \in Maintainers, ItemDone(m) PROVE OldKnown(k)'
  BY <1>ItemDone, <1>1 DEF KeptInv, OldKnown, ItemDone, Go, Hold, Release, Leave, EndUnit, TakeJob, DropJob, DropPlan
<1>UnitRaised. ASSUME NEW m \in Maintainers, UnitRaised(m) PROVE OldKnown(k)'
  BY <1>UnitRaised, <1>1 DEF KeptInv, OldKnown, UnitRaised, Copyable, Originals, Blocked, Exclusive, Partial, Go, Hold, Release, Leave, EndUnit, TakeJob, DropJob, DropPlan
<1>Finish. ASSUME NEW m \in Maintainers, Finish(m) PROVE OldKnown(k)'
  BY <1>Finish, <1>1 DEF KeptInv, OldKnown, Finish, Owns, Go, Hold, Release, Leave, EndUnit, TakeJob, DropJob, DropPlan
<1>Crash. ASSUME NEW m \in Maintainers, Crash(m) PROVE OldKnown(k)'
  BY <1>Crash, <1>1 DEF KeptInv, OldKnown, Crash, Partial, Owns, Go, Hold, Release, Leave, EndUnit, TakeJob, DropJob, DropPlan
<1> QED BY <1>Rest, <1>Select, <1>ClaimNext, <1>TooFew, <1>PackMark, <1>PackWrite, <1>PackMap, <1>PackBeat, <1>PackDone, <1>PackRaised, <1>UnlinkRaw, <1>UnlinkRest, <1>Plan, <1>Begin, <1>Refused, <1>Overrun, <1>SweepLock, <1>SweepDone, <1>LockPack, <1>Recheck, <1>NoReplacement, <1>ReplaceMark, <1>ReplaceWrite, <1>ReplaceBeat, <1>Retire, <1>DropZip, <1>LockItem, <1>CheckItem, <1>Tombstone, <1>ItemBeat, <1>ItemDone, <1>UnitRaised, <1>Finish, <1>Crash
  DEF Next, Compact, Unlink, Clean, CleanUnit, Read, Environment

LEMMA UnlinkableStep == TypeOK /\ KeptInv /\ [Next]_vars => \A k \in Maintainers : Unlinkable(k)'
<1> SUFFICES ASSUME TypeOK, KeptInv, [Next]_vars, NEW k \in Maintainers PROVE Unlinkable(k)' OBVIOUS
<1>0. archive \in [Segs -> 0..Zips] /\ good \in [Zip -> SUBSET Segs] /\ disk \subseteq Zip
       /\ at \in [Maintainers -> MaintainerAt] /\ work \in [Maintainers -> SUBSET Segs]
       /\ todo \in [Maintainers -> SUBSET Segs] /\ keep \in [Maintainers -> SUBSET Segs]
       /\ new \in [Maintainers -> 0..Zips] /\ old \in [Maintainers -> 0..Zips]
       /\ packs \in [Maintainers -> SUBSET [zip : Zip, members : SUBSET Segs]]
       /\ orphans \in [Maintainers -> SUBSET Zip]
  BY DEF TypeOK, FilesOK, JobsOK, PlansOK, OwnersOK
<1>1. KeptInv BY DEF KeptInv
<1> USE <1>0, Numbers DEF vars, files, leases, owner, tasks, job, plan, reader, consumers, Elsewhere, ReaderElsewhere, Fault
<1>Frame. CASE UNCHANGED <<archive, tomb, at, work, todo, new>> BY <1>Frame, <1>1 DEF KeptInv, Unlinkable
<1>Rest. ASSUME UNCHANGED vars \/
    (\E m \in Maintainers : \E z \in Zip : Sweep(m, z)) \/ (\E h \in Holders : Expire(h))
      \/ (\E h \in Holders : GhostExpires(h)) \/ (ClaimExpires)
      \/ (\E s \in Segs : NeedEnds(s)) \/ (\E s \in Segs : NeedArises(s))
      \/ (\E s \in Segs : \E z \in Zip : Damage(z, s)) \/ (ReadList) \/ (ReadEnd)
      \/ (\E s \in Segs : ReadOpen(s)) \/ (\E s \in Segs : ReadCheck(s))
      \/ (\E s \in Segs : ReadNext(s)) \/ (ReaderCrash)
  PROVE Unlinkable(k)'
  <2>1. UNCHANGED <<archive, tomb, at, work, todo, new>> BY <1>Rest DEF Go, Hold, Release, Leave, EndUnit, TakeJob, DropJob, DropPlan, Sweep, Expire, GhostExpires, ClaimExpires, NeedEnds, NeedArises, Damage, ReadList, ReadEnd, ReaderLeaves, ReadOpen, ReadCheck, ReadNext, ReaderCrash
  <2> QED BY <2>1, <1>Frame
<1>Select. ASSUME NEW m \in Maintainers, Select(m) PROVE Unlinkable(k)'
  BY <1>Select, <1>1 DEF KeptInv, Unlinkable, Select, Originals, Covered, Go, Hold, Release, Leave, EndUnit, TakeJob, DropJob, DropPlan
<1>ClaimNext. ASSUME NEW m \in Maintainers, ClaimNext(m) PROVE Unlinkable(k)'
  BY <1>ClaimNext, <1>1 DEF KeptInv, Unlinkable, ClaimNext, Blocked, Exclusive, Go, Hold, Release, Leave, EndUnit, TakeJob, DropJob, DropPlan
<1>TooFew. ASSUME NEW m \in Maintainers, TooFew(m) PROVE Unlinkable(k)'
  BY <1>TooFew, <1>1 DEF KeptInv, Unlinkable, TooFew, Go, Hold, Release, Leave, EndUnit, TakeJob, DropJob, DropPlan
<1>PackMark. ASSUME NEW m \in Maintainers, NEW z \in Zip, PackMark(m, z) PROVE Unlinkable(k)'
  BY <1>PackMark, <1>1 DEF KeptInv, Unlinkable, PackMark, Fresh, Unused, Members, InUse, Go, Hold, Release, Leave, EndUnit, TakeJob, DropJob, DropPlan
<1>PackWrite. ASSUME NEW m \in Maintainers, PackWrite(m) PROVE Unlinkable(k)'
  BY <1>PackWrite, <1>1 DEF KeptInv, Unlinkable, PackWrite, Originals, Go, Hold, Release, Leave, EndUnit, TakeJob, DropJob, DropPlan
<1>PackMap. ASSUME NEW m \in Maintainers, PackMap(m) PROVE Unlinkable(k)'
  BY <1>PackMap, <1>1 DEF KeptInv, Unlinkable, PackMap, Originals, Go, Hold, Release, Leave, EndUnit, TakeJob, DropJob, DropPlan
<1>PackBeat. ASSUME NEW m \in Maintainers, PackBeat(m) PROVE Unlinkable(k)'
  <2>1. /\ at' = [at EXCEPT ![m] = "unlink"] /\ todo' = [todo EXCEPT ![m] = work[m]]
        /\ at[m] = "beat" /\ new[m] \in Zip /\ UNCHANGED <<work, new, tomb, archive>>
    BY <1>PackBeat DEF PackBeat, Go, TypeOK, JobsOK
  <2>2. Unlinkable(k) /\ Unlinkable(m) BY <1>1 DEF KeptInv
  <2> QED BY <2>1, <2>2 DEF Unlinkable
<1>PackDone. ASSUME NEW m \in Maintainers, PackDone(m) PROVE Unlinkable(k)'
  BY <1>PackDone, <1>1 DEF KeptInv, Unlinkable, PackDone, Go, Hold, Release, Leave, EndUnit, TakeJob, DropJob, DropPlan
<1>PackRaised. ASSUME NEW m \in Maintainers, PackRaised(m) PROVE Unlinkable(k)'
  BY <1>PackRaised, <1>1 DEF KeptInv, Unlinkable, PackRaised, Compacting, Originals, Blocked, Exclusive, Partial, Go, Hold, Release, Leave, EndUnit, TakeJob, DropJob, DropPlan
<1>UnlinkRaw. ASSUME NEW m \in Maintainers, NEW s \in Segs, UnlinkRaw(m, s) PROVE Unlinkable(k)'
  BY <1>UnlinkRaw, <1>1 DEF KeptInv, Unlinkable, UnlinkRaw, Go, Hold, Release, Leave, EndUnit, TakeJob, DropJob, DropPlan
<1>UnlinkRest. ASSUME NEW m \in Maintainers, NEW s \in Segs, UnlinkRest(m, s) PROVE Unlinkable(k)'
  BY <1>UnlinkRest, <1>1 DEF KeptInv, Unlinkable, UnlinkRest, Go, Hold, Release, Leave, EndUnit, TakeJob, DropJob, DropPlan
<1>Plan. ASSUME NEW m \in Maintainers, Plan(m) PROVE Unlinkable(k)'
  BY <1>Plan, <1>1 DEF KeptInv, Unlinkable, Plan, Free, Unneeded, Covered, PacksFound, Members, Repairable, Sound, Originals, Go, Hold, Release, Leave, EndUnit, TakeJob, DropJob, DropPlan
<1>Begin. ASSUME NEW m \in Maintainers, Begin(m) PROVE Unlinkable(k)'
  BY <1>Begin, <1>1 DEF KeptInv, Unlinkable, Begin, Go, Hold, Release, Leave, EndUnit, TakeJob, DropJob, DropPlan
<1>Refused. ASSUME NEW m \in Maintainers, Refused(m) PROVE Unlinkable(k)'
  BY <1>Refused, <1>1 DEF KeptInv, Unlinkable, Refused, Go, Hold, Release, Leave, EndUnit, TakeJob, DropJob, DropPlan
<1>Overrun. ASSUME NEW m \in Maintainers, Overrun(m) PROVE Unlinkable(k)'
  BY <1>Overrun, <1>1 DEF KeptInv, Unlinkable, Overrun, Owns, Go, Hold, Release, Leave, EndUnit, TakeJob, DropJob, DropPlan
<1>SweepLock. ASSUME NEW m \in Maintainers, SweepLock(m) PROVE Unlinkable(k)'
  BY <1>SweepLock, <1>1 DEF KeptInv, Unlinkable, SweepLock, Blocked, Exclusive, Go, Hold, Release, Leave, EndUnit, TakeJob, DropJob, DropPlan
<1>SweepDone. ASSUME NEW m \in Maintainers, SweepDone(m) PROVE Unlinkable(k)'
  BY <1>SweepDone, <1>1 DEF KeptInv, Unlinkable, SweepDone, Go, Hold, Release, Leave, EndUnit, TakeJob, DropJob, DropPlan
<1>LockPack. ASSUME NEW m \in Maintainers, NEW p \in packs[m], LockPack(m, p) PROVE Unlinkable(k)'
  BY <1>LockPack, <1>1 DEF KeptInv, Unlinkable, LockPack, Ready, Owns, Lock, Blocked, Exclusive, Go, Hold, Release, Leave, EndUnit, TakeJob, DropJob, DropPlan
<1>Recheck. ASSUME NEW m \in Maintainers, Recheck(m) PROVE Unlinkable(k)'
  BY <1>Recheck, <1>1 DEF KeptInv, Unlinkable, Recheck, Keep, Unneeded, Repairable, Members, Sound, Originals, Go, Hold, Release, Leave, EndUnit, TakeJob, DropJob, DropPlan
<1>NoReplacement. ASSUME NEW m \in Maintainers, NoReplacement(m) PROVE Unlinkable(k)'
  BY <1>NoReplacement, <1>1 DEF KeptInv, Unlinkable, NoReplacement, Owns, Go, Hold, Release, Leave, EndUnit, TakeJob, DropJob, DropPlan
<1>ReplaceMark. ASSUME NEW m \in Maintainers, NEW z \in Zip, ReplaceMark(m, z) PROVE Unlinkable(k)'
  BY <1>ReplaceMark, <1>1 DEF KeptInv, Unlinkable, ReplaceMark, Owns, Fresh, Unused, Members, InUse, Go, Hold, Release, Leave, EndUnit, TakeJob, DropJob, DropPlan
<1>ReplaceWrite. ASSUME NEW m \in Maintainers, ReplaceWrite(m) PROVE Unlinkable(k)'
  BY <1>ReplaceWrite, <1>1 DEF KeptInv, Unlinkable, ReplaceWrite, Copyable, Originals, Go, Hold, Release, Leave, EndUnit, TakeJob, DropJob, DropPlan
<1>ReplaceBeat. ASSUME NEW m \in Maintainers, ReplaceBeat(m) PROVE Unlinkable(k)'
  BY <1>ReplaceBeat, <1>1 DEF KeptInv, Unlinkable, ReplaceBeat, Blocked, Exclusive, Go, Hold, Release, Leave, EndUnit, TakeJob, DropJob, DropPlan
<1>Retire. ASSUME NEW m \in Maintainers, Retire(m) PROVE Unlinkable(k)'
  <2>1. keep[m] # {} => new[m] # 0
    BY <1>Retire, <1>1 DEF Retire, KeptInv, NewWritten, TypeOK, FilesOK
  <2>2. /\ archive' = MapAfter(m) /\ tomb' = tomb \cup (work[m] \ keep[m])
        /\ at' = [at EXCEPT ![m] = "retired"] /\ at[m] = "commit"
        /\ UNCHANGED <<packs, old, new, work, todo>>
    BY <1>Retire DEF Retire, Go
  <2>3. ASSUME NEW s \in Segs
        PROVE  \/ archive'[s] = archive[s]
               \/ s \in work[m] \ keep[m]
               \/ s \in keep[m] /\ archive'[s] = new[m]
    BY <2>2 DEF MapAfter
  <2>4. Unlinkable(k) /\ work[k] \subseteq Segs BY <1>1 DEF KeptInv
  <2> QED BY <2>1, <2>2, <2>3, <2>4 DEF Unlinkable
<1>DropZip. ASSUME NEW m \in Maintainers, DropZip(m) PROVE Unlinkable(k)'
  BY <1>DropZip, <1>1 DEF KeptInv, Unlinkable, DropZip, Go, Hold, Release, Leave, EndUnit, TakeJob, DropJob, DropPlan
<1>LockItem. ASSUME NEW m \in Maintainers, NEW s \in Segs, LockItem(m, s) PROVE Unlinkable(k)'
  BY <1>LockItem, <1>1 DEF KeptInv, Unlinkable, LockItem, Ready, Owns, Lock, Blocked, Exclusive, Go, Hold, Release, Leave, EndUnit, TakeJob, DropJob, DropPlan
<1>CheckItem. ASSUME NEW m \in Maintainers, NEW s \in Segs, CheckItem(m, s) PROVE Unlinkable(k)'
  BY <1>CheckItem, <1>1 DEF KeptInv, Unlinkable, CheckItem, Unneeded, Originals, Go, Hold, Release, Leave, EndUnit, TakeJob, DropJob, DropPlan
<1>Tombstone. ASSUME NEW m \in Maintainers, Tombstone(m) PROVE Unlinkable(k)'
  BY <1>Tombstone, <1>1 DEF KeptInv, Unlinkable, Tombstone, Owns, WithoutLease, Go, Hold, Release, Leave, EndUnit, TakeJob, DropJob, DropPlan
<1>ItemBeat. ASSUME NEW m \in Maintainers, ItemBeat(m) PROVE Unlinkable(k)'
  BY <1>ItemBeat, <1>1 DEF KeptInv, Unlinkable, ItemBeat, Blocked, Exclusive, Go, Hold, Release, Leave, EndUnit, TakeJob, DropJob, DropPlan
<1>ItemDone. ASSUME NEW m \in Maintainers, ItemDone(m) PROVE Unlinkable(k)'
  BY <1>ItemDone, <1>1 DEF KeptInv, Unlinkable, ItemDone, Go, Hold, Release, Leave, EndUnit, TakeJob, DropJob, DropPlan
<1>UnitRaised. ASSUME NEW m \in Maintainers, UnitRaised(m) PROVE Unlinkable(k)'
  BY <1>UnitRaised, <1>1 DEF KeptInv, Unlinkable, UnitRaised, Copyable, Originals, Blocked, Exclusive, Partial, Go, Hold, Release, Leave, EndUnit, TakeJob, DropJob, DropPlan
<1>Finish. ASSUME NEW m \in Maintainers, Finish(m) PROVE Unlinkable(k)'
  BY <1>Finish, <1>1 DEF KeptInv, Unlinkable, Finish, Owns, Go, Hold, Release, Leave, EndUnit, TakeJob, DropJob, DropPlan
<1>Crash. ASSUME NEW m \in Maintainers, Crash(m) PROVE Unlinkable(k)'
  BY <1>Crash, <1>1 DEF KeptInv, Unlinkable, Crash, Partial, Owns, Go, Hold, Release, Leave, EndUnit, TakeJob, DropJob, DropPlan
<1> QED BY <1>Rest, <1>Select, <1>ClaimNext, <1>TooFew, <1>PackMark, <1>PackWrite, <1>PackMap, <1>PackBeat, <1>PackDone, <1>PackRaised, <1>UnlinkRaw, <1>UnlinkRest, <1>Plan, <1>Begin, <1>Refused, <1>Overrun, <1>SweepLock, <1>SweepDone, <1>LockPack, <1>Recheck, <1>NoReplacement, <1>ReplaceMark, <1>ReplaceWrite, <1>ReplaceBeat, <1>Retire, <1>DropZip, <1>LockItem, <1>CheckItem, <1>Tombstone, <1>ItemBeat, <1>ItemDone, <1>UnitRaised, <1>Finish, <1>Crash
  DEF Next, Compact, Unlink, Clean, CleanUnit, Read, Environment

LEMMA KeptInit == Init => KeptInv
BY Numbers DEF Init, KeptInv, RowsHold, Accounted, NewPrivate, NewWritten, OldKnown, Unlinkable

LEMMA KeptStep == TypeOK /\ KeptInv /\ [Next]_vars => KeptInv'
BY RowsHoldStep, AccountedStep, NewPrivateStep, NewWrittenStep, OldKnownStep, UnlinkableStep
   DEF KeptInv

\* What has not been released can be read in every state, or its archived copy was
\* damaged (compact, replacement, _execute).
THEOREM SegmentsKept == Spec => []KeptReadable
<1>1. TypeOK /\ KeptInv => KeptReadable
  BY DEF TypeOK, FilesOK, KeptInv, RowsHold, Accounted, KeptReadable, Readable
<1>2. Init => TypeOK /\ KeptInv BY InitTypes, KeptInit
<1>3. TypeOK /\ KeptInv /\ [Next]_vars => (TypeOK /\ KeptInv)' BY NextTypes, KeptStep
<1> QED BY <1>1, <1>2, <1>3, PTL DEF Spec

-----------------------------------------------------------------------------
(* Needs.  From the decision to the release, what is to go is not needed,   *)
(* or it was asked for too late.                                            *)
Deciding(m) ==
  at[m] \in {"checked", "copy", "verify", "commit", "release"} =>
    \A s \in work[m] \ keep[m] : s \in need => s \in late

ItemWhole(m) == at[m] \in {"item", "release"} => keep[m] = {}

LateInv == NeededKept /\ \A m \in Maintainers : Deciding(m) /\ ItemWhole(m)

LEMMA NeededKeptStep == TypeOK /\ LateInv /\ [Next]_vars => NeededKept'
<1> SUFFICES ASSUME TypeOK, LateInv, [Next]_vars PROVE NeededKept' OBVIOUS
<1>0. work \in [Maintainers -> SUBSET Segs] /\ keep \in [Maintainers -> SUBSET Segs]
  BY DEF TypeOK, FilesOK, JobsOK, PlansOK, OwnersOK
<1>1. LateInv BY DEF LateInv
<1> USE <1>0, Numbers DEF vars, files, leases, owner, tasks, job, plan, reader, consumers, Elsewhere, ReaderElsewhere, Fault
<1>Frame. CASE UNCHANGED <<tomb, need, late>> BY <1>Frame, <1>1 DEF LateInv, NeededKept
<1>Rest. ASSUME UNCHANGED vars \/
    (\E m \in Maintainers : Select(m)) \/ (\E m \in Maintainers : ClaimNext(m))
      \/ (\E m \in Maintainers : TooFew(m))
      \/ (\E m \in Maintainers : \E z \in Zip : PackMark(m, z))
      \/ (\E m \in Maintainers : PackWrite(m)) \/ (\E m \in Maintainers : PackMap(m))
      \/ (\E m \in Maintainers : PackBeat(m)) \/ (\E m \in Maintainers : PackDone(m))
      \/ (\E m \in Maintainers : PackRaised(m))
      \/ (\E m \in Maintainers : \E s \in Segs : UnlinkRaw(m, s))
      \/ (\E m \in Maintainers : \E s \in Segs : UnlinkRest(m, s))
      \/ (\E m \in Maintainers : Plan(m)) \/ (\E m \in Maintainers : Begin(m))
      \/ (\E m \in Maintainers : Refused(m)) \/ (\E m \in Maintainers : Overrun(m))
      \/ (\E m \in Maintainers : SweepLock(m))
      \/ (\E m \in Maintainers : \E z \in Zip : Sweep(m, z))
      \/ (\E m \in Maintainers : SweepDone(m))
      \/ (\E m \in Maintainers : \E p \in packs[m] : LockPack(m, p))
      \/ (\E m \in Maintainers : Recheck(m)) \/ (\E m \in Maintainers : NoReplacement(m))
      \/ (\E m \in Maintainers : \E z \in Zip : ReplaceMark(m, z))
      \/ (\E m \in Maintainers : ReplaceWrite(m)) \/ (\E m \in Maintainers : ReplaceBeat(m))
      \/ (\E m \in Maintainers : DropZip(m))
      \/ (\E m \in Maintainers : \E s \in Segs : LockItem(m, s))
      \/ (\E m \in Maintainers : \E s \in Segs : CheckItem(m, s))
      \/ (\E m \in Maintainers : ItemBeat(m)) \/ (\E m \in Maintainers : ItemDone(m))
      \/ (\E m \in Maintainers : UnitRaised(m)) \/ (\E m \in Maintainers : Finish(m))
      \/ (\E m \in Maintainers : Crash(m)) \/ (\E h \in Holders : Expire(h))
      \/ (\E h \in Holders : GhostExpires(h)) \/ (ClaimExpires)
      \/ (\E s \in Segs : \E z \in Zip : Damage(z, s)) \/ (ReadList) \/ (ReadEnd)
      \/ (\E s \in Segs : ReadOpen(s)) \/ (\E s \in Segs : ReadCheck(s))
      \/ (\E s \in Segs : ReadNext(s)) \/ (ReaderCrash)
  PROVE NeededKept'
  <2>1. UNCHANGED <<tomb, need, late>> BY <1>Rest DEF Go, Hold, Release, Leave, EndUnit, TakeJob, DropJob, DropPlan, Select, ClaimNext, TooFew, PackMark, PackWrite, PackMap, PackBeat, PackDone, PackRaised, Partial, UnlinkRaw, UnlinkRest, Plan, Begin, Refused, Overrun, SweepLock, Sweep, SweepDone, LockPack, Lock, Recheck, NoReplacement, ReplaceMark, ReplaceWrite, ReplaceBeat, DropZip, LockItem, CheckItem, ItemBeat, ItemDone, UnitRaised, Finish, Crash, Expire, GhostExpires, ClaimExpires, Damage, ReadList, ReadEnd, ReaderLeaves, ReadOpen, ReadCheck, ReadNext, ReaderCrash
  <2> QED BY <2>1, <1>Frame
<1>Retire. ASSUME NEW m \in Maintainers, Retire(m) PROVE NeededKept'
  <2>1. at[m] = "commit" /\ tomb' = tomb \cup (work[m] \ keep[m]) /\ UNCHANGED <<need, late>>
    BY <1>Retire DEF Retire
  <2>2. NeededKept /\ Deciding(m) BY <1>1 DEF LateInv
  <2> QED BY <2>1, <2>2 DEF NeededKept, Deciding
<1>Tombstone. ASSUME NEW m \in Maintainers, Tombstone(m) PROVE NeededKept'
  <2>1. at[m] = "release" /\ tomb' = tomb \cup work[m] /\ UNCHANGED <<need, late>>
    BY <1>Tombstone DEF Tombstone
  <2>2. NeededKept /\ Deciding(m) /\ ItemWhole(m) BY <1>1 DEF LateInv
  <2> QED BY <2>1, <2>2 DEF NeededKept, Deciding, ItemWhole
<1>NeedEnds. ASSUME NEW s \in Segs, NeedEnds(s) PROVE NeededKept'
  BY <1>NeedEnds, <1>1 DEF LateInv, NeededKept, NeedEnds, Go, Hold, Release, Leave, EndUnit, TakeJob, DropJob, DropPlan
<1>NeedArises. ASSUME NEW s \in Segs, NeedArises(s) PROVE NeededKept'
  BY <1>NeedArises, <1>1 DEF LateInv, NeededKept, NeedArises, Decided, Go, Hold, Release, Leave, EndUnit, TakeJob, DropJob, DropPlan
<1> QED BY <1>Rest, <1>Retire, <1>Tombstone, <1>NeedEnds, <1>NeedArises
  DEF Next, Compact, Unlink, Clean, CleanUnit, Read, Environment

LEMMA DecidingStep == TypeOK /\ LateInv /\ [Next]_vars => \A k \in Maintainers : Deciding(k)'
<1> SUFFICES ASSUME TypeOK, LateInv, [Next]_vars, NEW k \in Maintainers PROVE Deciding(k)' OBVIOUS
<1>0. at \in [Maintainers -> MaintainerAt] /\ work \in [Maintainers -> SUBSET Segs]
       /\ keep \in [Maintainers -> SUBSET Segs]
  BY DEF TypeOK, FilesOK, JobsOK, PlansOK, OwnersOK
<1>1. LateInv BY DEF LateInv
<1> USE <1>0, Numbers DEF vars, files, leases, owner, tasks, job, plan, reader, consumers, Elsewhere, ReaderElsewhere, Fault
<1>Frame. CASE UNCHANGED <<at, work, keep, need, late>> BY <1>Frame, <1>1 DEF LateInv, Deciding
<1>Rest. ASSUME UNCHANGED vars \/
    (\E m \in Maintainers : \E z \in Zip : Sweep(m, z)) \/ (\E h \in Holders : Expire(h))
      \/ (\E h \in Holders : GhostExpires(h)) \/ (ClaimExpires)
      \/ (\E s \in Segs : \E z \in Zip : Damage(z, s)) \/ (ReadList) \/ (ReadEnd)
      \/ (\E s \in Segs : ReadOpen(s)) \/ (\E s \in Segs : ReadCheck(s))
      \/ (\E s \in Segs : ReadNext(s)) \/ (ReaderCrash)
  PROVE Deciding(k)'
  <2>1. UNCHANGED <<at, work, keep, need, late>> BY <1>Rest DEF Go, Hold, Release, Leave, EndUnit, TakeJob, DropJob, DropPlan, Sweep, Expire, GhostExpires, ClaimExpires, Damage, ReadList, ReadEnd, ReaderLeaves, ReadOpen, ReadCheck, ReadNext, ReaderCrash
  <2> QED BY <2>1, <1>Frame
<1>Select. ASSUME NEW m \in Maintainers, Select(m) PROVE Deciding(k)'
  BY <1>Select, <1>1 DEF LateInv, Deciding, Select, Originals, Covered, Go, Hold, Release, Leave, EndUnit, TakeJob, DropJob, DropPlan
<1>ClaimNext. ASSUME NEW m \in Maintainers, ClaimNext(m) PROVE Deciding(k)'
  BY <1>ClaimNext, <1>1 DEF LateInv, Deciding, ClaimNext, Blocked, Exclusive, Go, Hold, Release, Leave, EndUnit, TakeJob, DropJob, DropPlan
<1>TooFew. ASSUME NEW m \in Maintainers, TooFew(m) PROVE Deciding(k)'
  BY <1>TooFew, <1>1 DEF LateInv, Deciding, TooFew, Go, Hold, Release, Leave, EndUnit, TakeJob, DropJob, DropPlan
<1>PackMark. ASSUME NEW m \in Maintainers, NEW z \in Zip, PackMark(m, z) PROVE Deciding(k)'
  BY <1>PackMark, <1>1 DEF LateInv, Deciding, PackMark, Fresh, Unused, Members, InUse, Go, Hold, Release, Leave, EndUnit, TakeJob, DropJob, DropPlan
<1>PackWrite. ASSUME NEW m \in Maintainers, PackWrite(m) PROVE Deciding(k)'
  BY <1>PackWrite, <1>1 DEF LateInv, Deciding, PackWrite, Originals, Go, Hold, Release, Leave, EndUnit, TakeJob, DropJob, DropPlan
<1>PackMap. ASSUME NEW m \in Maintainers, PackMap(m) PROVE Deciding(k)'
  BY <1>PackMap, <1>1 DEF LateInv, Deciding, PackMap, Originals, Go, Hold, Release, Leave, EndUnit, TakeJob, DropJob, DropPlan
<1>PackBeat. ASSUME NEW m \in Maintainers, PackBeat(m) PROVE Deciding(k)'
  BY <1>PackBeat, <1>1 DEF LateInv, Deciding, PackBeat, Blocked, Exclusive, Go, Hold, Release, Leave, EndUnit, TakeJob, DropJob, DropPlan
<1>PackDone. ASSUME NEW m \in Maintainers, PackDone(m) PROVE Deciding(k)'
  BY <1>PackDone, <1>1 DEF LateInv, Deciding, PackDone, Go, Hold, Release, Leave, EndUnit, TakeJob, DropJob, DropPlan
<1>PackRaised. ASSUME NEW m \in Maintainers, PackRaised(m) PROVE Deciding(k)'
  BY <1>PackRaised, <1>1 DEF LateInv, Deciding, PackRaised, Compacting, Originals, Blocked, Exclusive, Partial, Go, Hold, Release, Leave, EndUnit, TakeJob, DropJob, DropPlan
<1>UnlinkRaw. ASSUME NEW m \in Maintainers, NEW s \in Segs, UnlinkRaw(m, s) PROVE Deciding(k)'
  BY <1>UnlinkRaw, <1>1 DEF LateInv, Deciding, UnlinkRaw, Go, Hold, Release, Leave, EndUnit, TakeJob, DropJob, DropPlan
<1>UnlinkRest. ASSUME NEW m \in Maintainers, NEW s \in Segs, UnlinkRest(m, s) PROVE Deciding(k)'
  BY <1>UnlinkRest, <1>1 DEF LateInv, Deciding, UnlinkRest, Go, Hold, Release, Leave, EndUnit, TakeJob, DropJob, DropPlan
<1>Plan. ASSUME NEW m \in Maintainers, Plan(m) PROVE Deciding(k)'
  BY <1>Plan, <1>1 DEF LateInv, Deciding, Plan, Free, Unneeded, Covered, PacksFound, Members, Repairable, Sound, Originals, Go, Hold, Release, Leave, EndUnit, TakeJob, DropJob, DropPlan
<1>Begin. ASSUME NEW m \in Maintainers, Begin(m) PROVE Deciding(k)'
  BY <1>Begin, <1>1 DEF LateInv, Deciding, Begin, Go, Hold, Release, Leave, EndUnit, TakeJob, DropJob, DropPlan
<1>Refused. ASSUME NEW m \in Maintainers, Refused(m) PROVE Deciding(k)'
  BY <1>Refused, <1>1 DEF LateInv, Deciding, Refused, Go, Hold, Release, Leave, EndUnit, TakeJob, DropJob, DropPlan
<1>Overrun. ASSUME NEW m \in Maintainers, Overrun(m) PROVE Deciding(k)'
  BY <1>Overrun, <1>1 DEF LateInv, Deciding, Overrun, Owns, Go, Hold, Release, Leave, EndUnit, TakeJob, DropJob, DropPlan
<1>SweepLock. ASSUME NEW m \in Maintainers, SweepLock(m) PROVE Deciding(k)'
  BY <1>SweepLock, <1>1 DEF LateInv, Deciding, SweepLock, Blocked, Exclusive, Go, Hold, Release, Leave, EndUnit, TakeJob, DropJob, DropPlan
<1>SweepDone. ASSUME NEW m \in Maintainers, SweepDone(m) PROVE Deciding(k)'
  BY <1>SweepDone, <1>1 DEF LateInv, Deciding, SweepDone, Go, Hold, Release, Leave, EndUnit, TakeJob, DropJob, DropPlan
<1>LockPack. ASSUME NEW m \in Maintainers, NEW p \in packs[m], LockPack(m, p) PROVE Deciding(k)'
  BY <1>LockPack, <1>1 DEF LateInv, Deciding, LockPack, Ready, Owns, Lock, Blocked, Exclusive, Go, Hold, Release, Leave, EndUnit, TakeJob, DropJob, DropPlan
<1>Recheck. ASSUME NEW m \in Maintainers, Recheck(m) PROVE Deciding(k)'
  BY <1>Recheck, <1>1 DEF LateInv, Deciding, Recheck, Keep, Unneeded, Repairable, Members, Sound, Originals, Go, Hold, Release, Leave, EndUnit, TakeJob, DropJob, DropPlan
<1>NoReplacement. ASSUME NEW m \in Maintainers, NoReplacement(m) PROVE Deciding(k)'
  BY <1>NoReplacement, <1>1 DEF LateInv, Deciding, NoReplacement, Owns, Go, Hold, Release, Leave, EndUnit, TakeJob, DropJob, DropPlan
<1>ReplaceMark. ASSUME NEW m \in Maintainers, NEW z \in Zip, ReplaceMark(m, z) PROVE Deciding(k)'
  BY <1>ReplaceMark, <1>1 DEF LateInv, Deciding, ReplaceMark, Owns, Fresh, Unused, Members, InUse, Go, Hold, Release, Leave, EndUnit, TakeJob, DropJob, DropPlan
<1>ReplaceWrite. ASSUME NEW m \in Maintainers, ReplaceWrite(m) PROVE Deciding(k)'
  BY <1>ReplaceWrite, <1>1 DEF LateInv, Deciding, ReplaceWrite, Copyable, Originals, Go, Hold, Release, Leave, EndUnit, TakeJob, DropJob, DropPlan
<1>ReplaceBeat. ASSUME NEW m \in Maintainers, ReplaceBeat(m) PROVE Deciding(k)'
  BY <1>ReplaceBeat, <1>1 DEF LateInv, Deciding, ReplaceBeat, Blocked, Exclusive, Go, Hold, Release, Leave, EndUnit, TakeJob, DropJob, DropPlan
<1>Retire. ASSUME NEW m \in Maintainers, Retire(m) PROVE Deciding(k)'
  BY <1>Retire, <1>1 DEF LateInv, Deciding, Retire, MapAfter, WithoutLease, Go, Hold, Release, Leave, EndUnit, TakeJob, DropJob, DropPlan
<1>DropZip. ASSUME NEW m \in Maintainers, DropZip(m) PROVE Deciding(k)'
  BY <1>DropZip, <1>1 DEF LateInv, Deciding, DropZip, Go, Hold, Release, Leave, EndUnit, TakeJob, DropJob, DropPlan
<1>LockItem. ASSUME NEW m \in Maintainers, NEW s \in Segs, LockItem(m, s) PROVE Deciding(k)'
  BY <1>LockItem, <1>1 DEF LateInv, Deciding, LockItem, Ready, Owns, Lock, Blocked, Exclusive, Go, Hold, Release, Leave, EndUnit, TakeJob, DropJob, DropPlan
<1>CheckItem. ASSUME NEW m \in Maintainers, NEW s \in Segs, CheckItem(m, s) PROVE Deciding(k)'
  BY <1>CheckItem, <1>1 DEF LateInv, Deciding, CheckItem, Unneeded, Originals, Go, Hold, Release, Leave, EndUnit, TakeJob, DropJob, DropPlan
<1>Tombstone. ASSUME NEW m \in Maintainers, Tombstone(m) PROVE Deciding(k)'
  BY <1>Tombstone, <1>1 DEF LateInv, Deciding, Tombstone, Owns, WithoutLease, Go, Hold, Release, Leave, EndUnit, TakeJob, DropJob, DropPlan
<1>ItemBeat. ASSUME NEW m \in Maintainers, ItemBeat(m) PROVE Deciding(k)'
  BY <1>ItemBeat, <1>1 DEF LateInv, Deciding, ItemBeat, Blocked, Exclusive, Go, Hold, Release, Leave, EndUnit, TakeJob, DropJob, DropPlan
<1>ItemDone. ASSUME NEW m \in Maintainers, ItemDone(m) PROVE Deciding(k)'
  BY <1>ItemDone, <1>1 DEF LateInv, Deciding, ItemDone, Go, Hold, Release, Leave, EndUnit, TakeJob, DropJob, DropPlan
<1>UnitRaised. ASSUME NEW m \in Maintainers, UnitRaised(m) PROVE Deciding(k)'
  BY <1>UnitRaised, <1>1 DEF LateInv, Deciding, UnitRaised, Copyable, Originals, Blocked, Exclusive, Partial, Go, Hold, Release, Leave, EndUnit, TakeJob, DropJob, DropPlan
<1>Finish. ASSUME NEW m \in Maintainers, Finish(m) PROVE Deciding(k)'
  BY <1>Finish, <1>1 DEF LateInv, Deciding, Finish, Owns, Go, Hold, Release, Leave, EndUnit, TakeJob, DropJob, DropPlan
<1>Crash. ASSUME NEW m \in Maintainers, Crash(m) PROVE Deciding(k)'
  BY <1>Crash, <1>1 DEF LateInv, Deciding, Crash, Partial, Owns, Go, Hold, Release, Leave, EndUnit, TakeJob, DropJob, DropPlan
<1>NeedEnds. ASSUME NEW s \in Segs, NeedEnds(s) PROVE Deciding(k)'
  BY <1>NeedEnds, <1>1 DEF LateInv, Deciding, NeedEnds, Go, Hold, Release, Leave, EndUnit, TakeJob, DropJob, DropPlan
<1>NeedArises. ASSUME NEW s \in Segs, NeedArises(s) PROVE Deciding(k)'
  BY <1>NeedArises, <1>1 DEF LateInv, Deciding, NeedArises, Decided, Go, Hold, Release, Leave, EndUnit, TakeJob, DropJob, DropPlan
<1> QED BY <1>Rest, <1>Select, <1>ClaimNext, <1>TooFew, <1>PackMark, <1>PackWrite, <1>PackMap, <1>PackBeat, <1>PackDone, <1>PackRaised, <1>UnlinkRaw, <1>UnlinkRest, <1>Plan, <1>Begin, <1>Refused, <1>Overrun, <1>SweepLock, <1>SweepDone, <1>LockPack, <1>Recheck, <1>NoReplacement, <1>ReplaceMark, <1>ReplaceWrite, <1>ReplaceBeat, <1>Retire, <1>DropZip, <1>LockItem, <1>CheckItem, <1>Tombstone, <1>ItemBeat, <1>ItemDone, <1>UnitRaised, <1>Finish, <1>Crash, <1>NeedEnds, <1>NeedArises
  DEF Next, Compact, Unlink, Clean, CleanUnit, Read, Environment

LEMMA ItemWholeStep == TypeOK /\ LateInv /\ [Next]_vars => \A k \in Maintainers : ItemWhole(k)'
<1> SUFFICES ASSUME TypeOK, LateInv, [Next]_vars, NEW k \in Maintainers PROVE ItemWhole(k)' OBVIOUS
<1>0. at \in [Maintainers -> MaintainerAt] /\ keep \in [Maintainers -> SUBSET Segs]
  BY DEF TypeOK, FilesOK, JobsOK, PlansOK, OwnersOK
<1>1. LateInv BY DEF LateInv
<1> USE <1>0, Numbers DEF vars, files, leases, owner, tasks, job, plan, reader, consumers, Elsewhere, ReaderElsewhere, Fault
<1>Frame. CASE UNCHANGED <<at, keep>> BY <1>Frame, <1>1 DEF LateInv, ItemWhole
<1>Rest. ASSUME UNCHANGED vars \/
    (\E m \in Maintainers : ClaimNext(m))
      \/ (\E m \in Maintainers : \E z \in Zip : Sweep(m, z)) \/ (\E h \in Holders : Expire(h))
      \/ (\E h \in Holders : GhostExpires(h)) \/ (ClaimExpires)
      \/ (\E s \in Segs : NeedEnds(s)) \/ (\E s \in Segs : NeedArises(s))
      \/ (\E s \in Segs : \E z \in Zip : Damage(z, s)) \/ (ReadList) \/ (ReadEnd)
      \/ (\E s \in Segs : ReadOpen(s)) \/ (\E s \in Segs : ReadCheck(s))
      \/ (\E s \in Segs : ReadNext(s)) \/ (ReaderCrash)
  PROVE ItemWhole(k)'
  <2>1. UNCHANGED <<at, keep>> BY <1>Rest DEF Go, Hold, Release, Leave, EndUnit, TakeJob, DropJob, DropPlan, ClaimNext, Sweep, Expire, GhostExpires, ClaimExpires, NeedEnds, NeedArises, Damage, ReadList, ReadEnd, ReaderLeaves, ReadOpen, ReadCheck, ReadNext, ReaderCrash
  <2> QED BY <2>1, <1>Frame
<1>Select. ASSUME NEW m \in Maintainers, Select(m) PROVE ItemWhole(k)'
  BY <1>Select, <1>1 DEF LateInv, ItemWhole, Select, Originals, Covered, Go, Hold, Release, Leave, EndUnit, TakeJob, DropJob, DropPlan
<1>TooFew. ASSUME NEW m \in Maintainers, TooFew(m) PROVE ItemWhole(k)'
  BY <1>TooFew, <1>1 DEF LateInv, ItemWhole, TooFew, Go, Hold, Release, Leave, EndUnit, TakeJob, DropJob, DropPlan
<1>PackMark. ASSUME NEW m \in Maintainers, NEW z \in Zip, PackMark(m, z) PROVE ItemWhole(k)'
  BY <1>PackMark, <1>1 DEF LateInv, ItemWhole, PackMark, Fresh, Unused, Members, InUse, Go, Hold, Release, Leave, EndUnit, TakeJob, DropJob, DropPlan
<1>PackWrite. ASSUME NEW m \in Maintainers, PackWrite(m) PROVE ItemWhole(k)'
  BY <1>PackWrite, <1>1 DEF LateInv, ItemWhole, PackWrite, Originals, Go, Hold, Release, Leave, EndUnit, TakeJob, DropJob, DropPlan
<1>PackMap. ASSUME NEW m \in Maintainers, PackMap(m) PROVE ItemWhole(k)'
  BY <1>PackMap, <1>1 DEF LateInv, ItemWhole, PackMap, Originals, Go, Hold, Release, Leave, EndUnit, TakeJob, DropJob, DropPlan
<1>PackBeat. ASSUME NEW m \in Maintainers, PackBeat(m) PROVE ItemWhole(k)'
  BY <1>PackBeat, <1>1 DEF LateInv, ItemWhole, PackBeat, Blocked, Exclusive, Go, Hold, Release, Leave, EndUnit, TakeJob, DropJob, DropPlan
<1>PackDone. ASSUME NEW m \in Maintainers, PackDone(m) PROVE ItemWhole(k)'
  BY <1>PackDone, <1>1 DEF LateInv, ItemWhole, PackDone, Go, Hold, Release, Leave, EndUnit, TakeJob, DropJob, DropPlan
<1>PackRaised. ASSUME NEW m \in Maintainers, PackRaised(m) PROVE ItemWhole(k)'
  BY <1>PackRaised, <1>1 DEF LateInv, ItemWhole, PackRaised, Compacting, Originals, Blocked, Exclusive, Partial, Go, Hold, Release, Leave, EndUnit, TakeJob, DropJob, DropPlan
<1>UnlinkRaw. ASSUME NEW m \in Maintainers, NEW s \in Segs, UnlinkRaw(m, s) PROVE ItemWhole(k)'
  BY <1>UnlinkRaw, <1>1 DEF LateInv, ItemWhole, UnlinkRaw, Go, Hold, Release, Leave, EndUnit, TakeJob, DropJob, DropPlan
<1>UnlinkRest. ASSUME NEW m \in Maintainers, NEW s \in Segs, UnlinkRest(m, s) PROVE ItemWhole(k)'
  BY <1>UnlinkRest, <1>1 DEF LateInv, ItemWhole, UnlinkRest, Go, Hold, Release, Leave, EndUnit, TakeJob, DropJob, DropPlan
<1>Plan. ASSUME NEW m \in Maintainers, Plan(m) PROVE ItemWhole(k)'
  BY <1>Plan, <1>1 DEF LateInv, ItemWhole, Plan, Free, Unneeded, Covered, PacksFound, Members, Repairable, Sound, Originals, Go, Hold, Release, Leave, EndUnit, TakeJob, DropJob, DropPlan
<1>Begin. ASSUME NEW m \in Maintainers, Begin(m) PROVE ItemWhole(k)'
  BY <1>Begin, <1>1 DEF LateInv, ItemWhole, Begin, Go, Hold, Release, Leave, EndUnit, TakeJob, DropJob, DropPlan
<1>Refused. ASSUME NEW m \in Maintainers, Refused(m) PROVE ItemWhole(k)'
  BY <1>Refused, <1>1 DEF LateInv, ItemWhole, Refused, Go, Hold, Release, Leave, EndUnit, TakeJob, DropJob, DropPlan
<1>Overrun. ASSUME NEW m \in Maintainers, Overrun(m) PROVE ItemWhole(k)'
  BY <1>Overrun, <1>1 DEF LateInv, ItemWhole, Overrun, Owns, Go, Hold, Release, Leave, EndUnit, TakeJob, DropJob, DropPlan
<1>SweepLock. ASSUME NEW m \in Maintainers, SweepLock(m) PROVE ItemWhole(k)'
  BY <1>SweepLock, <1>1 DEF LateInv, ItemWhole, SweepLock, Blocked, Exclusive, Go, Hold, Release, Leave, EndUnit, TakeJob, DropJob, DropPlan
<1>SweepDone. ASSUME NEW m \in Maintainers, SweepDone(m) PROVE ItemWhole(k)'
  BY <1>SweepDone, <1>1 DEF LateInv, ItemWhole, SweepDone, Go, Hold, Release, Leave, EndUnit, TakeJob, DropJob, DropPlan
<1>LockPack. ASSUME NEW m \in Maintainers, NEW p \in packs[m], LockPack(m, p) PROVE ItemWhole(k)'
  BY <1>LockPack, <1>1 DEF LateInv, ItemWhole, LockPack, Ready, Owns, Lock, Blocked, Exclusive, Go, Hold, Release, Leave, EndUnit, TakeJob, DropJob, DropPlan
<1>Recheck. ASSUME NEW m \in Maintainers, Recheck(m) PROVE ItemWhole(k)'
  BY <1>Recheck, <1>1 DEF LateInv, ItemWhole, Recheck, Keep, Unneeded, Repairable, Members, Sound, Originals, Go, Hold, Release, Leave, EndUnit, TakeJob, DropJob, DropPlan
<1>NoReplacement. ASSUME NEW m \in Maintainers, NoReplacement(m) PROVE ItemWhole(k)'
  BY <1>NoReplacement, <1>1 DEF LateInv, ItemWhole, NoReplacement, Owns, Go, Hold, Release, Leave, EndUnit, TakeJob, DropJob, DropPlan
<1>ReplaceMark. ASSUME NEW m \in Maintainers, NEW z \in Zip, ReplaceMark(m, z) PROVE ItemWhole(k)'
  BY <1>ReplaceMark, <1>1 DEF LateInv, ItemWhole, ReplaceMark, Owns, Fresh, Unused, Members, InUse, Go, Hold, Release, Leave, EndUnit, TakeJob, DropJob, DropPlan
<1>ReplaceWrite. ASSUME NEW m \in Maintainers, ReplaceWrite(m) PROVE ItemWhole(k)'
  BY <1>ReplaceWrite, <1>1 DEF LateInv, ItemWhole, ReplaceWrite, Copyable, Originals, Go, Hold, Release, Leave, EndUnit, TakeJob, DropJob, DropPlan
<1>ReplaceBeat. ASSUME NEW m \in Maintainers, ReplaceBeat(m) PROVE ItemWhole(k)'
  BY <1>ReplaceBeat, <1>1 DEF LateInv, ItemWhole, ReplaceBeat, Blocked, Exclusive, Go, Hold, Release, Leave, EndUnit, TakeJob, DropJob, DropPlan
<1>Retire. ASSUME NEW m \in Maintainers, Retire(m) PROVE ItemWhole(k)'
  BY <1>Retire, <1>1 DEF LateInv, ItemWhole, Retire, MapAfter, WithoutLease, Go, Hold, Release, Leave, EndUnit, TakeJob, DropJob, DropPlan
<1>DropZip. ASSUME NEW m \in Maintainers, DropZip(m) PROVE ItemWhole(k)'
  BY <1>DropZip, <1>1 DEF LateInv, ItemWhole, DropZip, Go, Hold, Release, Leave, EndUnit, TakeJob, DropJob, DropPlan
<1>LockItem. ASSUME NEW m \in Maintainers, NEW s \in Segs, LockItem(m, s) PROVE ItemWhole(k)'
  BY <1>LockItem, <1>1 DEF LateInv, ItemWhole, LockItem, Ready, Owns, Lock, Blocked, Exclusive, Go, Hold, Release, Leave, EndUnit, TakeJob, DropJob, DropPlan
<1>CheckItem. ASSUME NEW m \in Maintainers, NEW s \in Segs, CheckItem(m, s) PROVE ItemWhole(k)'
  BY <1>CheckItem, <1>1 DEF LateInv, ItemWhole, CheckItem, Unneeded, Originals, Go, Hold, Release, Leave, EndUnit, TakeJob, DropJob, DropPlan
<1>Tombstone. ASSUME NEW m \in Maintainers, Tombstone(m) PROVE ItemWhole(k)'
  BY <1>Tombstone, <1>1 DEF LateInv, ItemWhole, Tombstone, Owns, WithoutLease, Go, Hold, Release, Leave, EndUnit, TakeJob, DropJob, DropPlan
<1>ItemBeat. ASSUME NEW m \in Maintainers, ItemBeat(m) PROVE ItemWhole(k)'
  BY <1>ItemBeat, <1>1 DEF LateInv, ItemWhole, ItemBeat, Blocked, Exclusive, Go, Hold, Release, Leave, EndUnit, TakeJob, DropJob, DropPlan
<1>ItemDone. ASSUME NEW m \in Maintainers, ItemDone(m) PROVE ItemWhole(k)'
  BY <1>ItemDone, <1>1 DEF LateInv, ItemWhole, ItemDone, Go, Hold, Release, Leave, EndUnit, TakeJob, DropJob, DropPlan
<1>UnitRaised. ASSUME NEW m \in Maintainers, UnitRaised(m) PROVE ItemWhole(k)'
  BY <1>UnitRaised, <1>1 DEF LateInv, ItemWhole, UnitRaised, Copyable, Originals, Blocked, Exclusive, Partial, Go, Hold, Release, Leave, EndUnit, TakeJob, DropJob, DropPlan
<1>Finish. ASSUME NEW m \in Maintainers, Finish(m) PROVE ItemWhole(k)'
  BY <1>Finish, <1>1 DEF LateInv, ItemWhole, Finish, Owns, Go, Hold, Release, Leave, EndUnit, TakeJob, DropJob, DropPlan
<1>Crash. ASSUME NEW m \in Maintainers, Crash(m) PROVE ItemWhole(k)'
  BY <1>Crash, <1>1 DEF LateInv, ItemWhole, Crash, Partial, Owns, Go, Hold, Release, Leave, EndUnit, TakeJob, DropJob, DropPlan
<1> QED BY <1>Rest, <1>Select, <1>TooFew, <1>PackMark, <1>PackWrite, <1>PackMap, <1>PackBeat, <1>PackDone, <1>PackRaised, <1>UnlinkRaw, <1>UnlinkRest, <1>Plan, <1>Begin, <1>Refused, <1>Overrun, <1>SweepLock, <1>SweepDone, <1>LockPack, <1>Recheck, <1>NoReplacement, <1>ReplaceMark, <1>ReplaceWrite, <1>ReplaceBeat, <1>Retire, <1>DropZip, <1>LockItem, <1>CheckItem, <1>Tombstone, <1>ItemBeat, <1>ItemDone, <1>UnitRaised, <1>Finish, <1>Crash
  DEF Next, Compact, Unlink, Clean, CleanUnit, Read, Environment

\* No release of what a setup or an outcome needed when it was decided (classify,
\* _execute).
THEOREM NeedsKept == Spec => []NeededKept
<1>1. Init => LateInv
  BY DEF Init, LateInv, NeededKept, Deciding, ItemWhole
<1>2. TypeOK /\ LateInv /\ [Next]_vars => LateInv'
  BY NeededKeptStep, DecidingStep, ItemWholeStep DEF LateInv
<1>3. LateInv => NeededKept BY DEF LateInv
<1> QED BY <1>1, <1>2, <1>3, TypeCorrect, PTL DEF Spec

\* What is kept can be read, and what is needed is kept.
THEOREM CustodyHolds == Spec => []EvidenceKept
<1>1. KeptReadable /\ NeededKept => EvidenceKept BY DEF EvidenceKept
<1> QED BY <1>1, SegmentsKept, NeedsKept, PTL

-----------------------------------------------------------------------------
(* Replays.  A lease keeps the reader's range apart from those of the       *)
(* maintainers, and a release with a live lease stays out of it.            *)
LeasesApart == \A m \in Maintainers : lease[m] \cap lease[Reader] = {}
ListHeld == ~broken /\ rAt # "idle" => rTodo \subseteq lease[Reader]
ListWhole == rAt = "check" /\ ~broken /\ ~overran => rTodo \cap tomb = {}

ListInv == LeasesApart /\ ListHeld /\ ListWhole

LEMMA LeasesApartStep == TypeOK /\ ListInv /\ [Next]_vars => LeasesApart'
<1> SUFFICES ASSUME TypeOK, ListInv, [Next]_vars PROVE LeasesApart' OBVIOUS
<1>0. lease \in [Holders -> SUBSET Segs] /\ work \in [Maintainers -> SUBSET Segs]
       /\ todo \in [Maintainers -> SUBSET Segs]
  BY DEF TypeOK, FilesOK, JobsOK, PlansOK, OwnersOK
<1>1. ListInv BY DEF ListInv
<1> USE <1>0, Numbers DEF vars, files, leases, owner, tasks, job, plan, reader, consumers, Elsewhere, ReaderElsewhere, Fault
<1>Frame. CASE UNCHANGED <<lease>> BY <1>Frame, <1>1 DEF ListInv, LeasesApart
<1>Rest. ASSUME UNCHANGED vars \/
    (\E m \in Maintainers : Select(m))
      \/ (\E m \in Maintainers : \E z \in Zip : PackMark(m, z))
      \/ (\E m \in Maintainers : PackWrite(m)) \/ (\E m \in Maintainers : PackMap(m))
      \/ (\E m \in Maintainers : \E s \in Segs : UnlinkRaw(m, s))
      \/ (\E m \in Maintainers : \E s \in Segs : UnlinkRest(m, s))
      \/ (\E m \in Maintainers : Plan(m)) \/ (\E m \in Maintainers : Begin(m))
      \/ (\E m \in Maintainers : \E z \in Zip : Sweep(m, z))
      \/ (\E m \in Maintainers : NoReplacement(m))
      \/ (\E m \in Maintainers : \E z \in Zip : ReplaceMark(m, z))
      \/ (\E m \in Maintainers : ReplaceWrite(m)) \/ (\E m \in Maintainers : Retire(m))
      \/ (\E m \in Maintainers : Tombstone(m)) \/ (\E h \in Holders : GhostExpires(h))
      \/ (ClaimExpires) \/ (\E s \in Segs : NeedEnds(s)) \/ (\E s \in Segs : NeedArises(s))
      \/ (\E s \in Segs : \E z \in Zip : Damage(z, s)) \/ (ReadList)
      \/ (\E s \in Segs : ReadCheck(s))
  PROVE LeasesApart'
  <2>1. UNCHANGED <<lease>> BY <1>Rest DEF Go, Hold, Release, Leave, EndUnit, TakeJob, DropJob, DropPlan, Select, PackMark, PackWrite, PackMap, UnlinkRaw, UnlinkRest, Plan, Begin, Sweep, NoReplacement, ReplaceMark, ReplaceWrite, Retire, Tombstone, GhostExpires, ClaimExpires, NeedEnds, NeedArises, Damage, ReadList, ReadCheck
  <2> QED BY <2>1, <1>Frame
<1>ClaimNext. ASSUME NEW m \in Maintainers, ClaimNext(m) PROVE LeasesApart'
  BY <1>ClaimNext, <1>1 DEF ListInv, LeasesApart, ClaimNext, Blocked, Exclusive, Go, Hold, Release, Leave, EndUnit, TakeJob, DropJob, DropPlan
<1>TooFew. ASSUME NEW m \in Maintainers, TooFew(m) PROVE LeasesApart'
  BY <1>TooFew, <1>1 DEF ListInv, LeasesApart, TooFew, Go, Hold, Release, Leave, EndUnit, TakeJob, DropJob, DropPlan
<1>PackBeat. ASSUME NEW m \in Maintainers, PackBeat(m) PROVE LeasesApart'
  BY <1>PackBeat, <1>1 DEF ListInv, LeasesApart, PackBeat, Blocked, Exclusive, Go, Hold, Release, Leave, EndUnit, TakeJob, DropJob, DropPlan
<1>PackDone. ASSUME NEW m \in Maintainers, PackDone(m) PROVE LeasesApart'
  BY <1>PackDone, <1>1 DEF ListInv, LeasesApart, PackDone, Go, Hold, Release, Leave, EndUnit, TakeJob, DropJob, DropPlan
<1>PackRaised. ASSUME NEW m \in Maintainers, PackRaised(m) PROVE LeasesApart'
  BY <1>PackRaised, <1>1 DEF ListInv, LeasesApart, PackRaised, Compacting, Originals, Blocked, Exclusive, Partial, Go, Hold, Release, Leave, EndUnit, TakeJob, DropJob, DropPlan
<1>Refused. ASSUME NEW m \in Maintainers, Refused(m) PROVE LeasesApart'
  BY <1>Refused, <1>1 DEF ListInv, LeasesApart, Refused, Go, Hold, Release, Leave, EndUnit, TakeJob, DropJob, DropPlan
<1>Overrun. ASSUME NEW m \in Maintainers, Overrun(m) PROVE LeasesApart'
  BY <1>Overrun, <1>1 DEF ListInv, LeasesApart, Overrun, Owns, Go, Hold, Release, Leave, EndUnit, TakeJob, DropJob, DropPlan
<1>SweepLock. ASSUME NEW m \in Maintainers, SweepLock(m) PROVE LeasesApart'
  BY <1>SweepLock, <1>1 DEF ListInv, LeasesApart, SweepLock, Blocked, Exclusive, Go, Hold, Release, Leave, EndUnit, TakeJob, DropJob, DropPlan
<1>SweepDone. ASSUME NEW m \in Maintainers, SweepDone(m) PROVE LeasesApart'
  BY <1>SweepDone, <1>1 DEF ListInv, LeasesApart, SweepDone, Go, Hold, Release, Leave, EndUnit, TakeJob, DropJob, DropPlan
<1>LockPack. ASSUME NEW m \in Maintainers, NEW p \in packs[m], LockPack(m, p) PROVE LeasesApart'
  BY <1>LockPack, <1>1 DEF ListInv, LeasesApart, LockPack, Ready, Owns, Lock, Blocked, Exclusive, Go, Hold, Release, Leave, EndUnit, TakeJob, DropJob, DropPlan
<1>Recheck. ASSUME NEW m \in Maintainers, Recheck(m) PROVE LeasesApart'
  BY <1>Recheck, <1>1 DEF ListInv, LeasesApart, Recheck, Keep, Unneeded, Repairable, Members, Sound, Originals, Go, Hold, Release, Leave, EndUnit, TakeJob, DropJob, DropPlan
<1>ReplaceBeat. ASSUME NEW m \in Maintainers, ReplaceBeat(m) PROVE LeasesApart'
  BY <1>ReplaceBeat, <1>1 DEF ListInv, LeasesApart, ReplaceBeat, Blocked, Exclusive, Go, Hold, Release, Leave, EndUnit, TakeJob, DropJob, DropPlan
<1>DropZip. ASSUME NEW m \in Maintainers, DropZip(m) PROVE LeasesApart'
  BY <1>DropZip, <1>1 DEF ListInv, LeasesApart, DropZip, Go, Hold, Release, Leave, EndUnit, TakeJob, DropJob, DropPlan
<1>LockItem. ASSUME NEW m \in Maintainers, NEW s \in Segs, LockItem(m, s) PROVE LeasesApart'
  BY <1>LockItem, <1>1 DEF ListInv, LeasesApart, LockItem, Ready, Owns, Lock, Blocked, Exclusive, Go, Hold, Release, Leave, EndUnit, TakeJob, DropJob, DropPlan
<1>CheckItem. ASSUME NEW m \in Maintainers, NEW s \in Segs, CheckItem(m, s) PROVE LeasesApart'
  BY <1>CheckItem, <1>1 DEF ListInv, LeasesApart, CheckItem, Unneeded, Originals, Go, Hold, Release, Leave, EndUnit, TakeJob, DropJob, DropPlan
<1>ItemBeat. ASSUME NEW m \in Maintainers, ItemBeat(m) PROVE LeasesApart'
  BY <1>ItemBeat, <1>1 DEF ListInv, LeasesApart, ItemBeat, Blocked, Exclusive, Go, Hold, Release, Leave, EndUnit, TakeJob, DropJob, DropPlan
<1>ItemDone. ASSUME NEW m \in Maintainers, ItemDone(m) PROVE LeasesApart'
  BY <1>ItemDone, <1>1 DEF ListInv, LeasesApart, ItemDone, Go, Hold, Release, Leave, EndUnit, TakeJob, DropJob, DropPlan
<1>UnitRaised. ASSUME NEW m \in Maintainers, UnitRaised(m) PROVE LeasesApart'
  BY <1>UnitRaised, <1>1 DEF ListInv, LeasesApart, UnitRaised, Copyable, Originals, Blocked, Exclusive, Partial, Go, Hold, Release, Leave, EndUnit, TakeJob, DropJob, DropPlan
<1>Finish. ASSUME NEW m \in Maintainers, Finish(m) PROVE LeasesApart'
  BY <1>Finish, <1>1 DEF ListInv, LeasesApart, Finish, Owns, Go, Hold, Release, Leave, EndUnit, TakeJob, DropJob, DropPlan
<1>Crash. ASSUME NEW m \in Maintainers, Crash(m) PROVE LeasesApart'
  BY <1>Crash, <1>1 DEF ListInv, LeasesApart, Crash, Partial, Owns, Go, Hold, Release, Leave, EndUnit, TakeJob, DropJob, DropPlan
<1>Expire. ASSUME NEW h \in Holders, Expire(h) PROVE LeasesApart'
  BY <1>Expire, <1>1 DEF ListInv, LeasesApart, Expire, Go, Hold, Release, Leave, EndUnit, TakeJob, DropJob, DropPlan
<1>ReadEnd. ASSUME ReadEnd PROVE LeasesApart'
  BY <1>ReadEnd, <1>1 DEF ListInv, LeasesApart, ReadEnd, Blocked, Exclusive, From, Readable, ReaderLeaves, Go, Hold, Release, Leave, EndUnit, TakeJob, DropJob, DropPlan
<1>ReadOpen. ASSUME NEW s \in Segs, ReadOpen(s) PROVE LeasesApart'
  BY <1>ReadOpen, <1>1 DEF ListInv, LeasesApart, ReadOpen, Blocked, Exclusive, From, Go, Hold, Release, Leave, EndUnit, TakeJob, DropJob, DropPlan
<1>ReadNext. ASSUME NEW s \in Segs, ReadNext(s) PROVE LeasesApart'
  BY <1>ReadNext, <1>1 DEF ListInv, LeasesApart, ReadNext, Blocked, Exclusive, From, Readable, Go, Hold, Release, Leave, EndUnit, TakeJob, DropJob, DropPlan
<1>ReaderCrash. ASSUME ReaderCrash PROVE LeasesApart'
  BY <1>ReaderCrash, <1>1 DEF ListInv, LeasesApart, ReaderCrash, ReaderLeaves, Go, Hold, Release, Leave, EndUnit, TakeJob, DropJob, DropPlan
<1> QED BY <1>Rest, <1>ClaimNext, <1>TooFew, <1>PackBeat, <1>PackDone, <1>PackRaised, <1>Refused, <1>Overrun, <1>SweepLock, <1>SweepDone, <1>LockPack, <1>Recheck, <1>ReplaceBeat, <1>DropZip, <1>LockItem, <1>CheckItem, <1>ItemBeat, <1>ItemDone, <1>UnitRaised, <1>Finish, <1>Crash, <1>Expire, <1>ReadEnd, <1>ReadOpen, <1>ReadNext, <1>ReaderCrash
  DEF Next, Compact, Unlink, Clean, CleanUnit, Read, Environment

LEMMA ListHeldStep == TypeOK /\ ListInv /\ [Next]_vars => ListHeld'
<1> SUFFICES ASSUME TypeOK, ListInv, [Next]_vars PROVE ListHeld' OBVIOUS
<1>0. lease \in [Holders -> SUBSET Segs] /\ rTodo \subseteq Segs
  BY DEF TypeOK, FilesOK, JobsOK, PlansOK, OwnersOK
<1>1. ListInv BY DEF ListInv
<1> USE <1>0, Numbers DEF vars, files, leases, owner, tasks, job, plan, reader, consumers, Elsewhere, ReaderElsewhere, Fault
<1>Frame. CASE UNCHANGED <<lease, rAt, rTodo, broken>> BY <1>Frame, <1>1 DEF ListInv, ListHeld
<1>Rest. ASSUME UNCHANGED vars \/
    (\E m \in Maintainers : Select(m))
      \/ (\E m \in Maintainers : \E z \in Zip : PackMark(m, z))
      \/ (\E m \in Maintainers : PackWrite(m)) \/ (\E m \in Maintainers : PackMap(m))
      \/ (\E m \in Maintainers : \E s \in Segs : UnlinkRaw(m, s))
      \/ (\E m \in Maintainers : \E s \in Segs : UnlinkRest(m, s))
      \/ (\E m \in Maintainers : Plan(m)) \/ (\E m \in Maintainers : Begin(m))
      \/ (\E m \in Maintainers : \E z \in Zip : Sweep(m, z))
      \/ (\E m \in Maintainers : NoReplacement(m))
      \/ (\E m \in Maintainers : \E z \in Zip : ReplaceMark(m, z))
      \/ (\E m \in Maintainers : ReplaceWrite(m)) \/ (\E m \in Maintainers : Retire(m))
      \/ (\E m \in Maintainers : Tombstone(m)) \/ (\E h \in Holders : GhostExpires(h))
      \/ (ClaimExpires) \/ (\E s \in Segs : NeedEnds(s)) \/ (\E s \in Segs : NeedArises(s))
      \/ (\E s \in Segs : \E z \in Zip : Damage(z, s))
  PROVE ListHeld'
  <2>1. UNCHANGED <<lease, rAt, rTodo, broken>> BY <1>Rest DEF Go, Hold, Release, Leave, EndUnit, TakeJob, DropJob, DropPlan, Select, PackMark, PackWrite, PackMap, UnlinkRaw, UnlinkRest, Plan, Begin, Sweep, NoReplacement, ReplaceMark, ReplaceWrite, Retire, Tombstone, GhostExpires, ClaimExpires, NeedEnds, NeedArises, Damage
  <2> QED BY <2>1, <1>Frame
<1>ClaimNext. ASSUME NEW m \in Maintainers, ClaimNext(m) PROVE ListHeld'
  BY <1>ClaimNext, <1>1 DEF ListInv, ListHeld, ClaimNext, Blocked, Exclusive, Go, Hold, Release, Leave, EndUnit, TakeJob, DropJob, DropPlan
<1>TooFew. ASSUME NEW m \in Maintainers, TooFew(m) PROVE ListHeld'
  BY <1>TooFew, <1>1 DEF ListInv, ListHeld, TooFew, Go, Hold, Release, Leave, EndUnit, TakeJob, DropJob, DropPlan
<1>PackBeat. ASSUME NEW m \in Maintainers, PackBeat(m) PROVE ListHeld'
  BY <1>PackBeat, <1>1 DEF ListInv, ListHeld, PackBeat, Blocked, Exclusive, Go, Hold, Release, Leave, EndUnit, TakeJob, DropJob, DropPlan
<1>PackDone. ASSUME NEW m \in Maintainers, PackDone(m) PROVE ListHeld'
  BY <1>PackDone, <1>1 DEF ListInv, ListHeld, PackDone, Go, Hold, Release, Leave, EndUnit, TakeJob, DropJob, DropPlan
<1>PackRaised. ASSUME NEW m \in Maintainers, PackRaised(m) PROVE ListHeld'
  BY <1>PackRaised, <1>1 DEF ListInv, ListHeld, PackRaised, Compacting, Originals, Blocked, Exclusive, Partial, Go, Hold, Release, Leave, EndUnit, TakeJob, DropJob, DropPlan
<1>Refused. ASSUME NEW m \in Maintainers, Refused(m) PROVE ListHeld'
  BY <1>Refused, <1>1 DEF ListInv, ListHeld, Refused, Go, Hold, Release, Leave, EndUnit, TakeJob, DropJob, DropPlan
<1>Overrun. ASSUME NEW m \in Maintainers, Overrun(m) PROVE ListHeld'
  BY <1>Overrun, <1>1 DEF ListInv, ListHeld, Overrun, Owns, Go, Hold, Release, Leave, EndUnit, TakeJob, DropJob, DropPlan
<1>SweepLock. ASSUME NEW m \in Maintainers, SweepLock(m) PROVE ListHeld'
  BY <1>SweepLock, <1>1 DEF ListInv, ListHeld, SweepLock, Blocked, Exclusive, Go, Hold, Release, Leave, EndUnit, TakeJob, DropJob, DropPlan
<1>SweepDone. ASSUME NEW m \in Maintainers, SweepDone(m) PROVE ListHeld'
  BY <1>SweepDone, <1>1 DEF ListInv, ListHeld, SweepDone, Go, Hold, Release, Leave, EndUnit, TakeJob, DropJob, DropPlan
<1>LockPack. ASSUME NEW m \in Maintainers, NEW p \in packs[m], LockPack(m, p) PROVE ListHeld'
  BY <1>LockPack, <1>1 DEF ListInv, ListHeld, LockPack, Ready, Owns, Lock, Blocked, Exclusive, Go, Hold, Release, Leave, EndUnit, TakeJob, DropJob, DropPlan
<1>Recheck. ASSUME NEW m \in Maintainers, Recheck(m) PROVE ListHeld'
  BY <1>Recheck, <1>1 DEF ListInv, ListHeld, Recheck, Keep, Unneeded, Repairable, Members, Sound, Originals, Go, Hold, Release, Leave, EndUnit, TakeJob, DropJob, DropPlan
<1>ReplaceBeat. ASSUME NEW m \in Maintainers, ReplaceBeat(m) PROVE ListHeld'
  BY <1>ReplaceBeat, <1>1 DEF ListInv, ListHeld, ReplaceBeat, Blocked, Exclusive, Go, Hold, Release, Leave, EndUnit, TakeJob, DropJob, DropPlan
<1>DropZip. ASSUME NEW m \in Maintainers, DropZip(m) PROVE ListHeld'
  BY <1>DropZip, <1>1 DEF ListInv, ListHeld, DropZip, Go, Hold, Release, Leave, EndUnit, TakeJob, DropJob, DropPlan
<1>LockItem. ASSUME NEW m \in Maintainers, NEW s \in Segs, LockItem(m, s) PROVE ListHeld'
  BY <1>LockItem, <1>1 DEF ListInv, ListHeld, LockItem, Ready, Owns, Lock, Blocked, Exclusive, Go, Hold, Release, Leave, EndUnit, TakeJob, DropJob, DropPlan
<1>CheckItem. ASSUME NEW m \in Maintainers, NEW s \in Segs, CheckItem(m, s) PROVE ListHeld'
  BY <1>CheckItem, <1>1 DEF ListInv, ListHeld, CheckItem, Unneeded, Originals, Go, Hold, Release, Leave, EndUnit, TakeJob, DropJob, DropPlan
<1>ItemBeat. ASSUME NEW m \in Maintainers, ItemBeat(m) PROVE ListHeld'
  BY <1>ItemBeat, <1>1 DEF ListInv, ListHeld, ItemBeat, Blocked, Exclusive, Go, Hold, Release, Leave, EndUnit, TakeJob, DropJob, DropPlan
<1>ItemDone. ASSUME NEW m \in Maintainers, ItemDone(m) PROVE ListHeld'
  BY <1>ItemDone, <1>1 DEF ListInv, ListHeld, ItemDone, Go, Hold, Release, Leave, EndUnit, TakeJob, DropJob, DropPlan
<1>UnitRaised. ASSUME NEW m \in Maintainers, UnitRaised(m) PROVE ListHeld'
  BY <1>UnitRaised, <1>1 DEF ListInv, ListHeld, UnitRaised, Copyable, Originals, Blocked, Exclusive, Partial, Go, Hold, Release, Leave, EndUnit, TakeJob, DropJob, DropPlan
<1>Finish. ASSUME NEW m \in Maintainers, Finish(m) PROVE ListHeld'
  BY <1>Finish, <1>1 DEF ListInv, ListHeld, Finish, Owns, Go, Hold, Release, Leave, EndUnit, TakeJob, DropJob, DropPlan
<1>Crash. ASSUME NEW m \in Maintainers, Crash(m) PROVE ListHeld'
  BY <1>Crash, <1>1 DEF ListInv, ListHeld, Crash, Partial, Owns, Go, Hold, Release, Leave, EndUnit, TakeJob, DropJob, DropPlan
<1>Expire. ASSUME NEW h \in Holders, Expire(h) PROVE ListHeld'
  BY <1>Expire, <1>1 DEF ListInv, ListHeld, Expire, Go, Hold, Release, Leave, EndUnit, TakeJob, DropJob, DropPlan
<1>ReadList. ASSUME ReadList PROVE ListHeld'
  BY <1>ReadList, <1>1 DEF ListInv, ListHeld, ReadList, Go, Hold, Release, Leave, EndUnit, TakeJob, DropJob, DropPlan
<1>ReadEnd. ASSUME ReadEnd PROVE ListHeld'
  BY <1>ReadEnd, <1>1 DEF ListInv, ListHeld, ReadEnd, Blocked, Exclusive, From, Readable, ReaderLeaves, Go, Hold, Release, Leave, EndUnit, TakeJob, DropJob, DropPlan
<1>ReadOpen. ASSUME NEW s \in Segs, ReadOpen(s) PROVE ListHeld'
  BY <1>ReadOpen, <1>1 DEF ListInv, ListHeld, ReadOpen, Blocked, Exclusive, From, Go, Hold, Release, Leave, EndUnit, TakeJob, DropJob, DropPlan
<1>ReadCheck. ASSUME NEW s \in Segs, ReadCheck(s) PROVE ListHeld'
  BY <1>ReadCheck, <1>1 DEF ListInv, ListHeld, ReadCheck, Readable, Go, Hold, Release, Leave, EndUnit, TakeJob, DropJob, DropPlan
<1>ReadNext. ASSUME NEW s \in Segs, ReadNext(s) PROVE ListHeld'
  <2>1. /\ lease' = [lease EXCEPT ![Reader] = From(s)] /\ rTodo' = rTodo \ {s}
        /\ \A t \in rTodo : s <= t
    BY <1>ReadNext DEF ReadNext, Hold
  <2>2. rTodo \subseteq From(s) BY <2>1, EvidenceAssumption DEF From, Segs
  <2> QED BY <2>1, <2>2 DEF ListHeld
<1>ReaderCrash. ASSUME ReaderCrash PROVE ListHeld'
  BY <1>ReaderCrash, <1>1 DEF ListInv, ListHeld, ReaderCrash, ReaderLeaves, Go, Hold, Release, Leave, EndUnit, TakeJob, DropJob, DropPlan
<1> QED BY <1>Rest, <1>ClaimNext, <1>TooFew, <1>PackBeat, <1>PackDone, <1>PackRaised, <1>Refused, <1>Overrun, <1>SweepLock, <1>SweepDone, <1>LockPack, <1>Recheck, <1>ReplaceBeat, <1>DropZip, <1>LockItem, <1>CheckItem, <1>ItemBeat, <1>ItemDone, <1>UnitRaised, <1>Finish, <1>Crash, <1>Expire, <1>ReadList, <1>ReadEnd, <1>ReadOpen, <1>ReadCheck, <1>ReadNext, <1>ReaderCrash
  DEF Next, Compact, Unlink, Clean, CleanUnit, Read, Environment

LEMMA ListWholeStep == TypeOK /\ ListInv /\ [Next]_vars => ListWhole'
<1> SUFFICES ASSUME TypeOK, ListInv, [Next]_vars PROVE ListWhole' OBVIOUS
<1>0. lease \in [Holders -> SUBSET Segs] /\ rTodo \subseteq Segs
  BY DEF TypeOK, FilesOK, JobsOK, PlansOK, OwnersOK
<1>1. ListInv BY DEF ListInv
<1> USE <1>0, Numbers DEF vars, files, leases, owner, tasks, job, plan, reader, consumers, Elsewhere, ReaderElsewhere, Fault
<1>Frame. CASE UNCHANGED <<tomb, rAt, rTodo, broken, overran>> BY <1>Frame, <1>1 DEF ListInv, ListWhole
<1>Rest. ASSUME UNCHANGED vars \/
    (\E m \in Maintainers : Select(m)) \/ (\E m \in Maintainers : ClaimNext(m))
      \/ (\E m \in Maintainers : TooFew(m))
      \/ (\E m \in Maintainers : \E z \in Zip : PackMark(m, z))
      \/ (\E m \in Maintainers : PackWrite(m)) \/ (\E m \in Maintainers : PackMap(m))
      \/ (\E m \in Maintainers : PackBeat(m)) \/ (\E m \in Maintainers : PackDone(m))
      \/ (\E m \in Maintainers : PackRaised(m))
      \/ (\E m \in Maintainers : \E s \in Segs : UnlinkRaw(m, s))
      \/ (\E m \in Maintainers : \E s \in Segs : UnlinkRest(m, s))
      \/ (\E m \in Maintainers : Plan(m)) \/ (\E m \in Maintainers : Begin(m))
      \/ (\E m \in Maintainers : Refused(m)) \/ (\E m \in Maintainers : Overrun(m))
      \/ (\E m \in Maintainers : SweepLock(m))
      \/ (\E m \in Maintainers : \E z \in Zip : Sweep(m, z))
      \/ (\E m \in Maintainers : SweepDone(m))
      \/ (\E m \in Maintainers : \E p \in packs[m] : LockPack(m, p))
      \/ (\E m \in Maintainers : Recheck(m)) \/ (\E m \in Maintainers : NoReplacement(m))
      \/ (\E m \in Maintainers : \E z \in Zip : ReplaceMark(m, z))
      \/ (\E m \in Maintainers : ReplaceWrite(m)) \/ (\E m \in Maintainers : ReplaceBeat(m))
      \/ (\E m \in Maintainers : DropZip(m))
      \/ (\E m \in Maintainers : \E s \in Segs : LockItem(m, s))
      \/ (\E m \in Maintainers : \E s \in Segs : CheckItem(m, s))
      \/ (\E m \in Maintainers : ItemBeat(m)) \/ (\E m \in Maintainers : ItemDone(m))
      \/ (\E m \in Maintainers : UnitRaised(m)) \/ (\E m \in Maintainers : Finish(m))
      \/ (\E m \in Maintainers : Crash(m)) \/ (\E h \in Holders : GhostExpires(h))
      \/ (ClaimExpires) \/ (\E s \in Segs : NeedEnds(s)) \/ (\E s \in Segs : NeedArises(s))
      \/ (\E s \in Segs : \E z \in Zip : Damage(z, s))
  PROVE ListWhole'
  <2>1. UNCHANGED <<tomb, rAt, rTodo, broken, overran>> BY <1>Rest DEF Go, Hold, Release, Leave, EndUnit, TakeJob, DropJob, DropPlan, Select, ClaimNext, TooFew, PackMark, PackWrite, PackMap, PackBeat, PackDone, PackRaised, Partial, UnlinkRaw, UnlinkRest, Plan, Begin, Refused, Overrun, SweepLock, Sweep, SweepDone, LockPack, Lock, Recheck, NoReplacement, ReplaceMark, ReplaceWrite, ReplaceBeat, DropZip, LockItem, CheckItem, ItemBeat, ItemDone, UnitRaised, Finish, Crash, GhostExpires, ClaimExpires, NeedEnds, NeedArises, Damage
  <2> QED BY <2>1, <1>Frame
<1>Retire. ASSUME NEW m \in Maintainers, Retire(m) PROVE ListWhole'
  <2>1. /\ overran' = (overran \/ WithoutLease(m)) /\ tomb' \subseteq tomb \cup work[m]
        /\ UNCHANGED <<rAt, rTodo, broken>>
    BY <1>Retire DEF Retire
  <2>2. lease[m] \cap lease[Reader] = {} /\ ListHeld /\ ListWhole
    BY <1>1 DEF ListInv, LeasesApart
  <2> QED BY <2>1, <2>2 DEF ListHeld, ListWhole, WithoutLease
<1>Tombstone. ASSUME NEW m \in Maintainers, Tombstone(m) PROVE ListWhole'
  <2>1. /\ overran' = (overran \/ WithoutLease(m)) /\ tomb' \subseteq tomb \cup work[m]
        /\ UNCHANGED <<rAt, rTodo, broken>>
    BY <1>Tombstone DEF Tombstone
  <2>2. lease[m] \cap lease[Reader] = {} /\ ListHeld /\ ListWhole
    BY <1>1 DEF ListInv, LeasesApart
  <2> QED BY <2>1, <2>2 DEF ListHeld, ListWhole, WithoutLease
<1>Expire. ASSUME NEW h \in Holders, Expire(h) PROVE ListWhole'
  BY <1>Expire, <1>1 DEF ListInv, ListWhole, Expire, Go, Hold, Release, Leave, EndUnit, TakeJob, DropJob, DropPlan
<1>ReadList. ASSUME ReadList PROVE ListWhole'
  BY <1>ReadList, <1>1 DEF ListInv, ListWhole, ReadList, Go, Hold, Release, Leave, EndUnit, TakeJob, DropJob, DropPlan
<1>ReadEnd. ASSUME ReadEnd PROVE ListWhole'
  BY <1>ReadEnd, <1>1 DEF ListInv, ListWhole, ReadEnd, Blocked, Exclusive, From, Readable, ReaderLeaves, Go, Hold, Release, Leave, EndUnit, TakeJob, DropJob, DropPlan
<1>ReadOpen. ASSUME NEW s \in Segs, ReadOpen(s) PROVE ListWhole'
  BY <1>ReadOpen, <1>1 DEF ListInv, ListWhole, ReadOpen, Blocked, Exclusive, From, Go, Hold, Release, Leave, EndUnit, TakeJob, DropJob, DropPlan
<1>ReadCheck. ASSUME NEW s \in Segs, ReadCheck(s) PROVE ListWhole'
  BY <1>ReadCheck, <1>1 DEF ListInv, ListWhole, ReadCheck, Readable, Go, Hold, Release, Leave, EndUnit, TakeJob, DropJob, DropPlan
<1>ReadNext. ASSUME NEW s \in Segs, ReadNext(s) PROVE ListWhole'
  BY <1>ReadNext, <1>1 DEF ListInv, ListWhole, ReadNext, Blocked, Exclusive, From, Readable, Go, Hold, Release, Leave, EndUnit, TakeJob, DropJob, DropPlan
<1>ReaderCrash. ASSUME ReaderCrash PROVE ListWhole'
  BY <1>ReaderCrash, <1>1 DEF ListInv, ListWhole, ReaderCrash, ReaderLeaves, Go, Hold, Release, Leave, EndUnit, TakeJob, DropJob, DropPlan
<1> QED BY <1>Rest, <1>Retire, <1>Tombstone, <1>Expire, <1>ReadList, <1>ReadEnd, <1>ReadOpen, <1>ReadCheck, <1>ReadNext, <1>ReaderCrash
  DEF Next, Compact, Unlink, Clean, CleanUnit, Read, Environment

\* A replay under a live lease finds all that it listed (RangeLease, worker_rows).
THEOREM ReplaysWhole == Spec => []ReaderKeepsList
<1>1. Init => ListInv
  BY Numbers DEF Init, ListInv, LeasesApart, ListHeld, ListWhole
<1>2. TypeOK /\ ListInv /\ [Next]_vars => ListInv'
  BY LeasesApartStep, ListHeldStep, ListWholeStep DEF ListInv
<1>3. TypeOK /\ KeptReadable /\ ListInv => ReaderKeepsList
  BY DEF TypeOK, KeptReadable, ListInv, ListWhole, ReaderKeepsList
<1> QED BY <1>1, <1>2, <1>3, TypeCorrect, SegmentsKept, PTL DEF Spec

-----------------------------------------------------------------------------
(* Induction: over the numbers up to a bound, and recursion up to it.      *)

\* A set of numbers has a least one.
LEMMA LeastNumber ==
  ASSUME NEW S, S \subseteq Nat, S # {}
  PROVE  \E n \in S : \A m \in S : n <= m
<1>1. PICK b \in S : TRUE OBVIOUS
<1> DEFINE T == {m \in S : m <= b}
           B == {{m \in T : m < n} : n \in T}
<1>2. IsFiniteSet(T)
  <2>1. T \in SUBSET Nat /\ b \in Nat /\ \A m \in T : m <= b BY <1>1
  <2> QED BY <2>1, FS_BoundedSetOfNaturals
<1>3. B \subseteq FiniteSubsetsOf(T)
  <2> SUFFICES ASSUME NEW n \in T PROVE {m \in T : m < n} \in FiniteSubsetsOf(T) OBVIOUS
  <2>1. {m \in T : m < n} \in SUBSET T OBVIOUS
  <2> QED BY <1>2, <2>1, FS_Subset DEF FiniteSubsetsOf
<1>4. B # {}
  <2>1. {m \in T : m < b} \in B BY <1>1
  <2> QED BY <2>1
<1>5. IsWellFoundedOn(StrictSubsetOrdering(T), FiniteSubsetsOf(T))
  BY <1>2, FS_StrictSubsetOrderingWellFounded
<1>6. PICK U \in B : \A V \in B : <<V, U>> \notin StrictSubsetOrdering(T)
  BY <1>3, <1>4, <1>5, WFMin
<1>7. PICK n \in T : U = {m \in T : m < n} OBVIOUS
<1>8. ASSUME NEW m \in T, m < n PROVE FALSE
  <2> DEFINE V == {k \in T : k < m}
  <2>1. V \in B OBVIOUS
  <2>2. n \in Nat /\ m \in Nat /\ \A k \in T : k \in Nat OBVIOUS
  <2>3. V \subseteq U
    <3> SUFFICES ASSUME NEW k \in T, k < m PROVE k < n BY <1>7
    <3> QED BY <1>8, <2>2
  <2>4. m \in U /\ m \notin V BY <1>7, <1>8, <2>2
  <2>5. <<V, U>> \in StrictSubsetOrdering(T) BY <1>7, <2>3, <2>4 DEF StrictSubsetOrdering
  <2> QED BY <1>6, <2>1, <2>5
<1>9. ASSUME NEW m \in S PROVE n <= m
  <2>1. n \in Nat /\ m \in Nat /\ b \in Nat /\ n <= b BY <1>1
  <2>2. CASE m <= b BY <1>8, <2>1, <2>2
  <2>3. CASE ~(m <= b) BY <2>1, <2>3
  <2> QED BY <2>2, <2>3
<1> QED BY <1>9

LEMMA Stepwise ==
  ASSUME NEW N \in Nat, NEW T, 0 \in T, \A n \in 1..N : n - 1 \in T => n \in T
  PROVE  \A n \in 0..N : n \in T
<1> SUFFICES ASSUME \E n \in 0..N : n \notin T PROVE FALSE OBVIOUS
<1> DEFINE S == {n \in 0..N : n \notin T}
<1>1. S \subseteq Nat /\ S # {} OBVIOUS
<1>2. PICK n \in S : \A m \in S : n <= m
  <2> HIDE DEF S
  <2> QED BY <1>1, LeastNumber
<1>3. n # 0 OBVIOUS
<1>4. n \in 1..N /\ n - 1 \in 0..N BY <1>3
<1>5. n - 1 \in T BY <1>2, <1>4
<1> QED BY <1>4, <1>5

\* A recursion of N steps over the values S, and a function that follows it.
IsStepping(N, S, base, step) == N \in Nat /\ base \in S /\ step \in [1..N -> [S -> S]]
Follow(f, N, S, base, step) ==
  f \in [0..N -> S] /\ f[0] = base /\ \A n \in 1..N : f[n] = step[n][f[n - 1]]
LEMMA Recursion ==
  ASSUME NEW N, NEW S, NEW base, NEW step, IsStepping(N, S, base, step)
  PROVE  \E f : Follow(f, N, S, base, step)
<1> USE DEF IsStepping
<1> DEFINE Upto(n) == {f \in [0..n -> S] : f[0] = base /\ \A k \in 1..n : f[k] = step[k][f[k - 1]]}
           T == {n \in 0..N : Upto(n) # {}}
<1>1. 0 \in T
  <2>1. [k \in 0..0 |-> base] \in Upto(0) OBVIOUS
  <2> QED BY <2>1
<1>2. ASSUME NEW n \in 1..N, n - 1 \in T PROVE n \in T
  <2>1. PICK f \in Upto(n - 1) : TRUE BY <1>2
  <2> DEFINE g == [k \in 0..n |-> IF k = n THEN step[n][f[n - 1]] ELSE f[k]]
  <2>2. n - 1 \in 0..(n - 1) /\ f[n - 1] \in S BY <2>1
  <2>3. step[n][f[n - 1]] \in S BY <2>2
  <2>4. \A k \in 0..n : k # n => k \in 0..(n - 1) OBVIOUS
  <2>5. g \in [0..n -> S] BY <2>1, <2>3, <2>4
  <2>6. g[0] = base BY <2>1
  <2>7. ASSUME NEW k \in 1..n PROVE g[k] = step[k][g[k - 1]]
    <3>1. k - 1 \in 0..n /\ k - 1 # n /\ k \in 0..n OBVIOUS
    <3>2. g[k - 1] = f[k - 1] BY <3>1
    <3>3. CASE k = n BY <3>1, <3>2, <3>3
    <3>4. CASE k # n
      <4>1. k \in 1..(n - 1) BY <3>4
      <4> QED BY <2>1, <3>1, <3>2, <3>4, <4>1
    <3> QED BY <3>3, <3>4
  <2>8. g \in Upto(n) BY <2>5, <2>6, <2>7
  <2>9. n \in 0..N OBVIOUS
  <2> HIDE DEF Upto, g
  <2> QED BY <2>8, <2>9
<1>3. N \in T
  <2>1. N \in 0..N OBVIOUS
  <2> HIDE DEF T
  <2> QED BY <1>1, <1>2, <2>1, Stepwise
<1> QED BY <1>3 DEF Follow

-----------------------------------------------------------------------------
(* The walk of the audit (Forensics), segment by segment.                  *)
Outcome == [in : BOOLEAN, exit : Nat, why : {"none", "missed_fill", "level", "time_stop"}]
View == [last : Nat, sub : Nat, prev : Nat, gaps : SUBSET {"chain", "feed", "retention"},
         unsure : BOOLEAN, valid : BOOLEAN, decided : BOOLEAN, ready : BOOLEAN, pos : Outcome]
SegmentRow == [at : Nat, kind : Audit!Kind, from : Nat, chained : BOOLEAN,
               fate : {"raw", "damaged", "pruned", "consumed"}]

LEMMA Numbered ==
  /\ Decision \in Nat \ {0} /\ Fill \in Nat /\ Horizon \in Nat /\ Warm \in Nat
  /\ Stale \in Nat /\ Grace \in Nat
BY PartsAssumption DEF Audit!AuditAssumption

LEMMA TradedFacts ==
  ASSUME NEW p \in Outcome, NEW t \in Nat, NEW price
  PROVE  /\ Audit!Traded(p, t, price) \in Outcome
         /\ t < Decision \/ p.exit # 0 => Audit!Traded(p, t, price) = p
         /\ p.exit = 0 /\ Audit!Traded(p, t, price).exit # 0
              => Audit!Traded(p, t, price).exit = t /\ t >= Decision
<1>1. /\ p.in \in BOOLEAN /\ p.exit \in Nat
      /\ \A q : q = [p EXCEPT !.in = TRUE] => q \in Outcome /\ q.exit = p.exit
      /\ \A w \in {"missed_fill", "level", "time_stop"} : \A q :
           q = [p EXCEPT !.exit = t, !.why = w] => q \in Outcome /\ q.exit = t
  BY DEF Outcome
<1>2. PICK r : r = Audit!Traded(p, t, price) OBVIOUS
<1>3. \/ r = p
      \/ ~(t < Decision \/ p.exit # 0) /\ r = [p EXCEPT !.in = TRUE]
      \/ ~(t < Decision \/ p.exit # 0) /\ \E w \in {"missed_fill", "level", "time_stop"} :
           r = [p EXCEPT !.exit = t, !.why = w]
  BY <1>2 DEF Audit!Traded
<1>4. t < Decision \/ p.exit # 0 => r = p BY <1>2 DEF Audit!Traded
<1>5. ~(t < Decision) => t >= Decision BY Numbered
<1> QED BY <1>1, <1>2, <1>3, <1>4, <1>5

\* What a step of the walk may not touch: nothing but what is listed.
LEMMA GapFacts ==
  ASSUME NEW v \in View, NEW kind \in {"chain", "feed", "retention"}, NEW a \in Nat, NEW b \in Nat
  PROVE  LET w == Audit!Gap(v, kind, a, b) IN
         /\ w \in View
         /\ w.last = v.last /\ w.sub = v.sub /\ w.prev = v.prev /\ w.unsure = v.unsure
         /\ w.valid = v.valid /\ w.decided = v.decided /\ w.ready = v.ready /\ w.pos = v.pos
         /\ v.gaps \subseteq w.gaps
         /\ b >= Decision /\ a <= Audit!Until => kind \in w.gaps
BY DEF Audit!Gap, View

LEMMA CheckedFacts ==
  ASSUME NEW v \in View
  PROVE  LET w == Audit!Checked(v) IN
         /\ w \in View
         /\ w.last = v.last /\ w.sub = v.sub /\ w.prev = v.prev /\ w.unsure = v.unsure
         /\ w.valid = v.valid /\ w.gaps = v.gaps /\ w.pos = v.pos /\ w.decided
         /\ v.decided => w = v
         /\ ~v.decided /\ v.sub = 0 => ~w.ready
<1>1. (v.sub # 0 /\ v.last # 0 /\ v.last <= Decision /\ Decision - v.last <= Stale) \in BOOLEAN OBVIOUS
<1> QED BY <1>1 DEF Audit!Checked, View

LEMMA LinkedFacts ==
  ASSUME NEW v \in View, NEW s \in SegmentRow
  PROVE  LET w == Audit!Linked(v, s) IN
         /\ w \in View
         /\ w.decided = v.decided /\ w.ready = v.ready /\ w.pos = v.pos
         /\ v.gaps \subseteq w.gaps /\ (w.valid => v.valid)
         /\ w.sub = 0 \/ w.sub = v.sub
<1> DEFINE x == [v EXCEPT !.prev = s.at]
           y == Audit!Gap(x, "chain", v.prev, s.at)
<1>1. x \in View /\ x.decided = v.decided /\ x.ready = v.ready /\ x.pos = v.pos /\ x.gaps = v.gaps
      /\ x.valid = v.valid /\ x.sub = v.sub /\ s.at \in Nat /\ v.prev \in Nat
  BY DEF View, SegmentRow
<1>2. y \in View /\ y.decided = v.decided /\ y.ready = v.ready /\ y.pos = v.pos /\ v.gaps \subseteq y.gaps
  <2> HIDE DEF x
  <2> QED BY ZenonT(30), <1>1, GapFacts
<1>3. CASE v.prev = 0 \/ s.chained
  <2>1. Audit!Linked(v, s) = x BY <1>3 DEF Audit!Linked
  <2> HIDE DEF x
  <2> QED BY <1>1, <2>1
<1>4. CASE ~(v.prev = 0 \/ s.chained)
  <2>1. Audit!Linked(v, s) = [y EXCEPT !.valid = FALSE, !.sub = 0] BY <1>4 DEF Audit!Linked
  <2> HIDE DEF x, y
  <2>2. PICK z : z = [y EXCEPT !.valid = FALSE, !.sub = 0] OBVIOUS
  <2>3. z \in View /\ z.decided = y.decided /\ z.ready = y.ready /\ z.pos = y.pos /\ z.gaps = y.gaps
        /\ z.valid = FALSE /\ z.sub = 0
    BY <1>2, <2>2 DEF View
  <2> QED BY <1>2, <2>1, <2>2, <2>3
<1> QED BY <1>3, <1>4

LEMMA UnreadFacts ==
  ASSUME NEW v \in View, NEW s \in SegmentRow
  PROVE  LET w == Audit!Unread(v, s) IN
         w \in View /\ ~w.valid /\ w.pos = v.pos /\ w.decided = v.decided /\ w.sub = v.sub
<1> DEFINE x == [v EXCEPT !.valid = FALSE]
<1>1. x \in View /\ ~x.valid /\ x.pos = v.pos /\ x.decided = v.decided /\ x.sub = v.sub /\ s.at \in Nat
  BY DEF View, SegmentRow
<1> HIDE DEF x
<1>2. Audit!Unread(v, s) = Audit!Gap(x, "retention", s.at, s.at) \/ Audit!Unread(v, s) = [x EXCEPT !.unsure = TRUE]
  BY DEF Audit!Unread, x
<1>3. CASE Audit!Unread(v, s) = Audit!Gap(x, "retention", s.at, s.at)
  <2>1. /\ Audit!Gap(x, "retention", s.at, s.at) \in View
        /\ Audit!Gap(x, "retention", s.at, s.at).valid = x.valid
        /\ Audit!Gap(x, "retention", s.at, s.at).pos = x.pos
        /\ Audit!Gap(x, "retention", s.at, s.at).decided = x.decided
        /\ Audit!Gap(x, "retention", s.at, s.at).sub = x.sub
    BY <1>1, GapFacts
  <2> QED BY <1>1, <1>3, <2>1
<1>4. CASE Audit!Unread(v, s) = [x EXCEPT !.unsure = TRUE] BY <1>1, <1>4 DEF View
<1> QED BY <1>2, <1>3, <1>4

Quote(s) == s.kind \in Audit!Price
LEMMA RowFacts ==
  ASSUME NEW v \in View, NEW s \in SegmentRow
  PROVE  LET w == Audit!Row(v, s) IN
         /\ w \in View /\ w.valid = v.valid /\ w.decided = v.decided /\ w.ready = v.ready
         /\ v.gaps \subseteq w.gaps
         /\ w.pos = IF Quote(s) THEN Audit!Traded(v.pos, s.at, s.kind) ELSE v.pos
         /\ s.kind # "subscribed" => w.sub = 0 \/ w.sub = v.sub
         /\ s.kind \in {"gap", "removed"} => w.sub = 0
         /\ s.kind \in {"gap", "removed"} /\ s.at >= Decision /\ s.from <= Audit!Until => w.gaps # {}
<1>0. /\ s.kind \in {"zone", "hit", "subscribed", "gap", "removed"} /\ s.at \in Nat /\ s.from \in Nat
      /\ v.last \in Nat /\ v.pos \in Outcome
  BY DEF SegmentRow, View, Audit!Kind, Audit!Price
<1>1. CASE s.kind = "subscribed"
  <2>1. Audit!Row(v, s) = [v EXCEPT !.sub = s.at, !.last = 0] BY <1>1 DEF Audit!Row
  <2>2. PICK z : z = [v EXCEPT !.sub = s.at, !.last = 0] OBVIOUS
  <2>3. /\ z \in View /\ z.valid = v.valid /\ z.decided = v.decided /\ z.ready = v.ready
        /\ z.gaps = v.gaps /\ z.pos = v.pos
    BY <1>0, <2>2 DEF View
  <2> QED BY <1>1, <2>1, <2>2, <2>3 DEF Quote, Audit!Price
<1>2. CASE s.kind \in {"gap", "removed"}
  <2> DEFINE g == Audit!Gap(v, "feed", s.from, s.at)
  <2>1. Audit!Row(v, s) = [g EXCEPT !.sub = 0] BY <1>2 DEF Audit!Row
  <2>2. /\ g \in View /\ g.valid = v.valid /\ g.decided = v.decided /\ g.ready = v.ready /\ g.pos = v.pos
        /\ v.gaps \subseteq g.gaps /\ (s.at >= Decision /\ s.from <= Audit!Until => "feed" \in g.gaps)
    BY ZenonT(30), <1>0, GapFacts
  <2> HIDE DEF g
  <2>3. PICK z : z = [g EXCEPT !.sub = 0] OBVIOUS
  <2>4. /\ z \in View /\ z.valid = g.valid /\ z.decided = g.decided /\ z.ready = g.ready
        /\ z.gaps = g.gaps /\ z.pos = g.pos /\ z.sub = 0
    BY <2>2, <2>3 DEF View
  <2>5. ~Quote(s) /\ s.kind # "subscribed" BY <1>2 DEF Quote, Audit!Price
  <2> QED BY <2>1, <2>2, <2>3, <2>4, <2>5
<1>3. CASE s.kind \in {"zone", "hit"}
  <2> DEFINE silent == v.last # 0 /\ s.at - v.last > Stale
             g == IF silent THEN Audit!Gap(v, "feed", v.last, s.at) ELSE v
             q == Audit!Traded(v.pos, s.at, s.kind)
  <2>1. Audit!Row(v, s) = [g EXCEPT !.last = s.at, !.pos = Audit!Traded(@, s.at, s.kind)]
    BY <1>3 DEF Audit!Row
  <2>2. /\ g \in View /\ g.valid = v.valid /\ g.decided = v.decided /\ g.ready = v.ready /\ g.pos = v.pos
        /\ v.gaps \subseteq g.gaps /\ g.sub = v.sub
    <3>1. CASE silent
      <4> DEFINE w == Audit!Gap(v, "feed", v.last, s.at)
      <4>1. /\ w \in View /\ w.valid = v.valid /\ w.decided = v.decided /\ w.ready = v.ready
            /\ w.pos = v.pos /\ v.gaps \subseteq w.gaps /\ w.sub = v.sub
        BY ZenonT(30), <1>0, GapFacts
      <4>2. g = w BY <3>1
      <4> HIDE DEF w, g
      <4> QED BY <4>1, <4>2
    <3>2. CASE ~silent BY <3>2
    <3> QED BY <3>1, <3>2
  <2>3. q \in Outcome BY <1>0, TradedFacts
  <2> HIDE DEF g, q
  <2>4. PICK z : z = [g EXCEPT !.last = s.at, !.pos = q] OBVIOUS
  <2>5. Audit!Row(v, s) = z BY <2>1, <2>2, <2>4 DEF q, View
  <2>6. /\ z \in View /\ z.valid = g.valid /\ z.decided = g.decided /\ z.ready = g.ready
        /\ z.gaps = g.gaps /\ z.pos = q /\ z.sub = g.sub
    BY <1>0, <2>2, <2>3, <2>4 DEF View
  <2>7. Quote(s) /\ s.kind \notin {"subscribed", "gap", "removed"} BY <1>3 DEF Quote, Audit!Price
  <2> QED BY <2>2, <2>5, <2>6, <2>7 DEF q
<1> QED BY <1>0, <1>1, <1>2, <1>3

\* What the audit has found so far does not speak against the outcome.
Spotless(v) == v.valid /\ v.gaps = {} /\ (v.decided => v.ready)
Inside(s) == ~(s.at < Audit!From \/ s.at > Audit!Until)

LEMMA WalkFacts ==
  ASSUME NEW v \in View, NEW s \in SegmentRow
  PROVE  LET w == Audit!Walk(v, s) IN
         /\ w \in View
         /\ Spotless(w) => Spotless(v)
         /\ ~Inside(s) => w = v
         /\ v.pos.exit # 0 => w.pos = v.pos
         /\ v.pos.exit = 0 /\ w.pos.exit # 0 => Inside(s) /\ w.pos.exit = s.at /\ s.at >= Decision
         /\ s.at < Decision => w.decided = v.decided
         /\ s.kind # "subscribed" /\ v.sub = 0 => w.sub = 0
         /\ Inside(s) /\ v.pos.exit = 0 /\ Spotless(w) =>
              /\ w.pos = IF Quote(s) THEN Audit!Traded(v.pos, s.at, s.kind) ELSE v.pos
              /\ s.kind \in {"gap", "removed"} => w.sub = 0 /\ ~(s.at >= Decision /\ s.from <= Audit!Until)
              /\ s.at >= Decision /\ ~v.decided => v.sub # 0
<1>0. Audit!From \in Nat /\ s.at \in Nat /\ v.pos \in Outcome
  BY Numbered DEF Audit!From, SegmentRow, View
<1>1. CASE ~Inside(s) \/ Audit!Closed(v)
  <2>1. Audit!Walk(v, s) = v BY <1>1 DEF Audit!Walk, Inside
  <2>2. Audit!Closed(v) => v.pos.exit # 0 BY DEF Audit!Closed
  <2> QED BY <1>1, <2>1, <2>2
<1>2. CASE Inside(s) /\ ~Audit!Closed(v)
  <2> DEFINE x == Audit!Linked(v, s)
             y == IF s.at >= Decision THEN Audit!Checked(x) ELSE x
  <2>1. /\ x \in View /\ x.decided = v.decided /\ x.ready = v.ready /\ x.pos = v.pos
        /\ v.gaps \subseteq x.gaps /\ (x.valid => v.valid) /\ (x.sub = 0 \/ x.sub = v.sub)
    BY LinkedFacts
  <2>2. Audit!Walk(v, s) = IF s.fate = "raw" THEN Audit!Row(y, s) ELSE Audit!Unread(x, s)
    BY <1>2 DEF Audit!Walk, Audit!Read, Inside
  <2> HIDE DEF x
  <2>3. /\ y \in View /\ y.pos = v.pos /\ y.sub = x.sub /\ y.valid = x.valid /\ y.gaps = x.gaps
        /\ (v.decided => y.decided /\ y.ready = v.ready) /\ (s.at < Decision => y.decided = v.decided)
        /\ (s.at >= Decision /\ ~v.decided /\ x.sub = 0 => y.decided /\ ~y.ready)
    <3>1. CASE s.at >= Decision BY <1>0, <2>1, <3>1, CheckedFacts, Numbered
    <3>2. CASE ~(s.at >= Decision) BY <2>1, <3>2
    <3> QED BY <3>1, <3>2
  <2> HIDE DEF y
  <2>4. CASE s.fate = "raw"
    <3>1. PICK w : w = Audit!Row(y, s) OBVIOUS
    <3>2. Audit!Walk(v, s) = w BY <2>2, <2>4, <3>1
    <3>3. /\ w \in View /\ w.valid = y.valid /\ w.decided = y.decided /\ w.ready = y.ready
          /\ y.gaps \subseteq w.gaps
          /\ w.pos = IF Quote(s) THEN Audit!Traded(y.pos, s.at, s.kind) ELSE y.pos
          /\ (s.kind # "subscribed" => w.sub = 0 \/ w.sub = y.sub)
          /\ (s.kind \in {"gap", "removed"} => w.sub = 0)
          /\ (s.kind \in {"gap", "removed"} /\ s.at >= Decision /\ s.from <= Audit!Until => w.gaps # {})
      BY <2>3, <3>1, RowFacts
    <3>4. Spotless(w) => Spotless(v) BY <2>1, <2>3, <3>3 DEF Spotless
    <3>5. Spotless(w) /\ s.at >= Decision /\ ~v.decided => v.sub # 0 BY <2>1, <2>3, <3>3 DEF Spotless
    <3>6. v.pos.exit # 0 => w.pos = v.pos BY <1>0, <2>3, <3>3, TradedFacts
    <3>7. v.pos.exit = 0 /\ w.pos.exit # 0 => w.pos.exit = s.at /\ s.at >= Decision
      BY <1>0, <2>3, <3>3, TradedFacts
    <3>8. s.at < Decision => w.decided = v.decided BY <2>3, <3>3
    <3>9. s.kind # "subscribed" /\ v.sub = 0 => w.sub = 0 BY <2>1, <2>3, <3>3
    <3>10. w.pos = IF Quote(s) THEN Audit!Traded(v.pos, s.at, s.kind) ELSE v.pos BY <2>3, <3>3
    <3>11. Spotless(w) => w.gaps = {} BY DEF Spotless
    <3> QED BY <1>2, <3>2, <3>3, <3>4, <3>5, <3>6, <3>7, <3>8, <3>9, <3>10, <3>11
  <2>5. CASE s.fate # "raw"
    <3>1. PICK w : w = Audit!Unread(x, s) OBVIOUS
    <3>2. Audit!Walk(v, s) = w BY <2>2, <2>5, <3>1
    <3>3. w \in View /\ ~w.valid /\ w.pos = x.pos /\ w.decided = x.decided /\ w.sub = x.sub
      BY <2>1, <3>1, UnreadFacts
    <3>4. ~Spotless(w) BY <3>3 DEF Spotless
    <3>5. w.pos = v.pos /\ w.decided = v.decided /\ (v.sub = 0 => w.sub = 0) BY <2>1, <3>3
    <3> QED BY <1>2, <3>2, <3>3, <3>4, <3>5
  <2> QED BY <2>4, <2>5
<1> QED BY <1>1, <1>2

-----------------------------------------------------------------------------
(* What the segments tell of the market.                                   *)
AuditTypes ==
  /\ now \in Nat /\ prints \in Seq(Audit!Price \cup {"none"}) /\ Len(prints) = now
  /\ missed \subseteq 1..now /\ follows \in BOOLEAN /\ owed \in 0..now
  /\ segs \in Seq(SegmentRow) /\ label \in [is : {"none", "complete", "incomplete"}, at : Nat]

\* Segments are in the order of their instants, and a gap ends where it is told.
InOrder ==
  /\ \A i \in 1..Len(segs) : segs[i].at \in 1..now /\ segs[i].from \in 1..segs[i].at
  /\ \A i, j \in 1..Len(segs) : i < j => segs[i].at < segs[j].at

\* A row with a price is a print of its instant; at another row's nothing is printed.
RowsTrue ==
  \A i \in 1..Len(segs) :
    prints[segs[i].at] = IF Quote(segs[i]) THEN segs[i].kind ELSE "none"

\* The desk gave the market up with segment i and did not come back before t.
GivenUp(i, t) ==
  /\ segs[i].kind = "removed"
  /\ \A j \in 1..Len(segs) : i < j /\ segs[j].at < t => segs[j].kind # "subscribed"
Away(t) == \E i \in 1..Len(segs) : segs[i].at < t /\ GivenUp(i, t)

\* A print is recorded, or it was lost, or the market was not followed.
PrintsTold ==
  \A t \in 1..now :
    prints[t] # "none" => t \in missed \/ Away(t) \/ \E i \in 1..Len(segs) : segs[i].at = t
AuditInv ==
  AuditTypes /\ InOrder /\ RowsTrue /\ PrintsTold /\ (~follows => Away(now + 1))

LEMMA WalkedSteps ==
  ASSUME AuditTypes
  PROVE  /\ Len(segs) \in Nat /\ \A n \in 1..Len(segs) : segs[n] \in SegmentRow
         /\ \A n \in 0..Len(segs) : Audit!Walked[n] \in View
         /\ Audit!Walked[0] = Audit!Fresh
         /\ \A n \in 1..Len(segs) : Audit!Walked[n] = Audit!Walk(Audit!Walked[n - 1], segs[n])
<1> DEFINE N == Len(segs)
           step == [n \in 1..N |-> [v \in View |-> Audit!Walk(v, segs[n])]]
<1>1. N \in Nat /\ \A n \in 1..N : segs[n] \in SegmentRow BY DEF AuditTypes
<1>2. Audit!Fresh \in View BY DEF Audit!Fresh, Audit!NoPosition, View, Outcome
<1>3. step \in [1..N -> [View -> View]]
  <2> SUFFICES ASSUME NEW n \in 1..N, NEW v \in View PROVE Audit!Walk(v, segs[n]) \in View OBVIOUS
  <2> QED BY <1>1, WalkFacts
<1>4. PICK f : Follow(f, N, View, Audit!Fresh, step)
  <2>1. IsStepping(N, View, Audit!Fresh, step) BY <1>1, <1>2, <1>3 DEF IsStepping
  <2> QED BY <2>1, Recursion
<1> USE DEF Follow
<1>5. ASSUME NEW n \in 1..N PROVE f[n] = Audit!Walk(f[n - 1], segs[n])
  <2>1. n - 1 \in 0..N /\ f[n - 1] \in View BY <1>1, <1>4
  <2> QED BY <1>4, <2>1
<1>6. f = [n \in 0..N |-> IF n = 0 THEN Audit!Fresh ELSE Audit!Walk(f[n - 1], segs[n])]
  <2>1. \A n \in 0..N : n # 0 => n \in 1..N BY <1>1
  <2>2. \A n \in 0..N : f[n] = IF n = 0 THEN Audit!Fresh ELSE Audit!Walk(f[n - 1], segs[n])
    BY <1>4, <1>5, <2>1
  <2> QED BY <1>4, <2>2
<1>7. Audit!Walked = [n \in 0..N |-> IF n = 0 THEN Audit!Fresh ELSE Audit!Walk(Audit!Walked[n - 1], segs[n])]
  BY <1>6 DEF Audit!Walked
<1>8. ASSUME NEW n \in 0..N PROVE Audit!Walked[n] = f[n]
  <2> DEFINE T == {k \in 0..N : Audit!Walked[k] = f[k]}
  <2>1. 0 \in T BY <1>1, <1>4, <1>7
  <2>2. ASSUME NEW k \in 1..N, k - 1 \in T PROVE k \in T
    <3>1. Audit!Walked[k] = Audit!Walk(Audit!Walked[k - 1], segs[k]) BY <1>1, <1>7
    <3>2. f[k] = Audit!Walk(f[k - 1], segs[k]) BY <1>5
    <3> QED BY <1>1, <2>2, <3>1, <3>2
  <2>3. n \in T
    <3> HIDE DEF T, N
    <3> QED BY <1>1, <2>1, <2>2, Stepwise
  <2> QED BY <2>3
<1>9. ASSUME NEW n \in 1..N PROVE Audit!Walked[n] = Audit!Walk(Audit!Walked[n - 1], segs[n])
  BY <1>1, <1>7
<1> QED BY <1>1, <1>4, <1>8, <1>9

LEMMA PlayedSteps ==
  ASSUME AuditTypes
  PROVE  /\ \A t \in 0..now : Audit!Played[t] \in Outcome
         /\ Audit!Played[0] = Audit!NoPosition
         /\ \A t \in 1..now :
              Audit!Played[t] = IF prints[t] = "none" THEN Audit!Played[t - 1]
                                ELSE Audit!Traded(Audit!Played[t - 1], t, prints[t])
<1> DEFINE P(p, t) == IF prints[t] = "none" THEN p ELSE Audit!Traded(p, t, prints[t])
           step == [t \in 1..now |-> [p \in Outcome |-> P(p, t)]]
<1>1. now \in Nat BY DEF AuditTypes
<1>2. Audit!NoPosition \in Outcome BY DEF Audit!NoPosition, Outcome
<1>3. step \in [1..now -> [Outcome -> Outcome]]
  <2> SUFFICES ASSUME NEW t \in 1..now, NEW p \in Outcome PROVE P(p, t) \in Outcome OBVIOUS
  <2> QED BY <1>1, TradedFacts
<1>4. PICK f : Follow(f, now, Outcome, Audit!NoPosition, step)
  <2>1. IsStepping(now, Outcome, Audit!NoPosition, step) BY <1>1, <1>2, <1>3 DEF IsStepping
  <2> QED BY <2>1, Recursion
<1> USE DEF Follow
<1>5. ASSUME NEW t \in 1..now PROVE f[t] = P(f[t - 1], t)
  <2>1. t - 1 \in 0..now /\ f[t - 1] \in Outcome BY <1>1, <1>4
  <2> QED BY <1>4, <2>1
<1>6. f = [t \in 0..now |-> IF t = 0 THEN Audit!NoPosition ELSE P(f[t - 1], t)]
  <2>1. \A t \in 0..now : t # 0 => t \in 1..now BY <1>1
  <2>2. \A t \in 0..now : f[t] = IF t = 0 THEN Audit!NoPosition ELSE P(f[t - 1], t)
    <3> HIDE DEF P
    <3> QED BY <1>4, <1>5, <2>1
  <2> QED BY <1>4, <2>2
<1>7. Audit!Played = [t \in 0..now |-> IF t = 0 THEN Audit!NoPosition ELSE P(Audit!Played[t - 1], t)]
  BY <1>6 DEF Audit!Played
<1> HIDE DEF P
<1>8. ASSUME NEW t \in 0..now PROVE Audit!Played[t] = f[t]
  <2> DEFINE T == {k \in 0..now : Audit!Played[k] = f[k]}
  <2>1. 0 \in T BY <1>1, <1>4, <1>7
  <2>2. ASSUME NEW k \in 1..now, k - 1 \in T PROVE k \in T
    <3>1. Audit!Played[k] = P(Audit!Played[k - 1], k) BY <1>1, <1>7
    <3>2. f[k] = P(f[k - 1], k) BY <1>5
    <3> QED BY <1>1, <2>2, <3>1, <3>2
  <2>3. t \in T
    <3> HIDE DEF T
    <3> QED BY <1>1, <2>1, <2>2, Stepwise
  <2> QED BY <2>3
<1>9. ASSUME NEW t \in 1..now PROVE Audit!Played[t] = P(Audit!Played[t - 1], t)
  BY <1>1, <1>7
<1> USE DEF P
<1> QED BY <1>1, <1>4, <1>8, <1>9

\* The audit reads an interval around the decision.
LEMMA ReadInterval ==
  ASSUME AuditTypes
  PROVE  /\ Audit!From \in Nat /\ Audit!Until \in Nat /\ Audit!From <= Decision
         /\ \A s \in SegmentRow : Inside(s) <=> Audit!From <= s.at /\ s.at <= Audit!Until
<1>1. /\ now \in Nat /\ label.at \in Nat /\ Decision + Horizon + Grace \in Nat
      /\ Decision \in Nat \ {0} /\ Warm \in Nat
  BY Numbered DEF AuditTypes
<1>2. Audit!From \in Nat /\ Audit!From <= Decision BY <1>1 DEF Audit!From
<1>3. Audit!Until \in Nat BY <1>1 DEF Audit!Until
<1>4. ASSUME NEW s \in SegmentRow PROVE Inside(s) <=> Audit!From <= s.at /\ s.at <= Audit!Until
  <2>1. s.at \in Nat BY DEF SegmentRow
  <2> QED BY <1>2, <1>3, <2>1 DEF Inside
<1> QED BY <1>2, <1>3, <1>4

\* The rows up to the one that closes the position, on evidence that speaks
\* for it throughout.
ExitAt(m) ==
  /\ m \in 1..Len(segs) /\ Inside(segs[m]) /\ segs[m].at >= Decision
  /\ \A n \in 0..(m - 1) : Audit!Walked[n].pos.exit = 0
  /\ Audit!Walked[m].pos.exit = segs[m].at
  /\ Audit!Walked[Len(segs)].pos = Audit!Walked[m].pos
  /\ \A n \in 0..Len(segs) : Spotless(Audit!Walked[n])

LEMMA ExitFound ==
  ASSUME AuditInv, Audit!Rebuilt(Audit!Evidence)
  PROVE  \E m : ExitAt(m) /\ Audit!Evidence.pos = Audit!Walked[m].pos
<1> DEFINE N == Len(segs)
           w(n) == Audit!Walked[n]
<1>1. /\ N \in Nat /\ \A n \in 1..N : segs[n] \in SegmentRow
      /\ \A n \in 0..N : w(n) \in View
      /\ w(0) = Audit!Fresh
      /\ \A n \in 1..N : w(n) = Audit!Walk(w(n - 1), segs[n])
  BY WalkedSteps DEF AuditInv
<1> HIDE DEF w, N
<1>2. PICK v : v = Audit!Checked(w(N)) OBVIOUS
<1>3. Audit!Evidence = v BY <1>2 DEF Audit!Evidence, w, N
<1>4. v.valid /\ v.ready /\ v.gaps = {} /\ v.pos.exit # 0
  BY <1>3 DEF Audit!Rebuilt, Audit!Settled
<1>5. w(N) \in View BY <1>1
<1>6. v.pos = w(N).pos /\ v.valid = w(N).valid /\ v.gaps = w(N).gaps /\ (w(N).decided => v = w(N))
  BY <1>2, <1>5, CheckedFacts
<1>7. Spotless(w(N)) BY <1>4, <1>6 DEF Spotless
<1>8. ASSUME NEW n \in 1..N
      PROVE  /\ Spotless(w(n)) => Spotless(w(n - 1))
             /\ w(n - 1).pos.exit # 0 => w(n).pos = w(n - 1).pos
             /\ w(n - 1).pos.exit = 0 /\ w(n).pos.exit # 0 =>
                  Inside(segs[n]) /\ w(n).pos.exit = segs[n].at /\ segs[n].at >= Decision
  <2>1. w(n - 1) \in View /\ segs[n] \in SegmentRow /\ w(n) = Audit!Walk(w(n - 1), segs[n])
    BY <1>1
  <2> QED BY <2>1, WalkFacts
<1>9. ASSUME NEW n \in 0..N PROVE Spotless(w(n))
  <2> DEFINE T == {k \in 0..N : Spotless(w(N - k))}
  <2>1. 0 \in T BY <1>1, <1>7
  <2>2. ASSUME NEW k \in 1..N, k - 1 \in T PROVE k \in T
    <3>1. N - (k - 1) \in 1..N /\ (N - (k - 1)) - 1 = N - k BY <1>1
    <3>2. Spotless(w(N - (k - 1))) BY <2>2
    <3>3. Spotless(w(N - k)) BY <1>8, <3>1, <3>2
    <3> QED BY <1>1, <3>3
  <2>3. N - n \in T
    <3>1. N - n \in 0..N BY <1>1
    <3> HIDE DEF T
    <3> QED BY <1>1, <2>1, <2>2, <3>1, Stepwise
  <2>4. N - (N - n) = n BY <1>1
  <2> QED BY <2>3, <2>4
<1>10. PICK m \in 0..N : w(m).pos.exit # 0 /\ \A n \in 0..N : w(n).pos.exit # 0 => m <= n
  <2> DEFINE S == {n \in 0..N : w(n).pos.exit # 0}
  <2>1. S \subseteq Nat OBVIOUS
  <2>2. N \in S BY <1>1, <1>4, <1>6
  <2>3. PICK m \in S : \A n \in S : m <= n
    <3> HIDE DEF S
    <3> QED BY <2>1, <2>2, LeastNumber
  <2> QED BY <2>3
<1>11. m \in 1..N
  <2>1. w(0).pos.exit = 0 BY <1>1 DEF Audit!Fresh, Audit!NoPosition
  <2> QED BY <1>1, <1>10, <2>1
<1>12. \A n \in 0..(m - 1) : w(n).pos.exit = 0
  <2> TAKE n \in 0..(m - 1)
  <2>1. n \in 0..N /\ ~(m <= n) BY <1>1, <1>11
  <2> QED BY <1>10, <2>1
<1>13. Inside(segs[m]) /\ w(m).pos.exit = segs[m].at /\ segs[m].at >= Decision
  <2>1. m - 1 \in 0..(m - 1) BY <1>11
  <2>2. w(m - 1).pos.exit = 0 BY <1>12, <2>1
  <2> QED BY <1>8, <1>10, <1>11, <2>2
<1>14. w(N).pos = w(m).pos
  <2> DEFINE T == {k \in 0..(N - m) : w(m + k).pos = w(m).pos}
  <2>1. 0 \in T
    <3>1. m + 0 = m /\ 0 \in 0..(N - m) BY <1>1, <1>11
    <3> QED BY <3>1
  <2>2. ASSUME NEW k \in 1..(N - m), k - 1 \in T PROVE k \in T
    <3>1. m + k \in 1..N /\ (m + k) - 1 = m + (k - 1) /\ k \in 0..(N - m) BY <1>1, <1>11
    <3>2. w(m + (k - 1)).pos = w(m).pos BY <2>2
    <3>3. w((m + k) - 1).pos.exit # 0 BY <1>10, <3>1, <3>2
    <3>4. w(m + k).pos = w((m + k) - 1).pos BY <1>8, <3>1, <3>3
    <3> QED BY <3>1, <3>2, <3>4
  <2>3. N - m \in T
    <3>1. N - m \in Nat /\ N - m \in 0..(N - m) BY <1>1, <1>11
    <3> HIDE DEF T
    <3> QED BY <2>1, <2>2, <3>1, Stepwise
  <2>4. m + (N - m) = N BY <1>1, <1>11
  <2> QED BY <2>3, <2>4
<1>15. ExitAt(m) BY <1>9, <1>11, <1>12, <1>13, <1>14 DEF ExitAt, w, N
<1>16. v.pos = w(m).pos BY <1>6, <1>14
<1> QED BY <1>3, <1>15, <1>16 DEF w

\* Up to the exit the walk reads every row from the decision on, and finds the
\* market followed at the first of them.
LEMMA CleanRows ==
  ASSUME AuditInv, NEW m, ExitAt(m)
  PROVE  /\ \A i \in 1..m : segs[i].at <= segs[m].at /\ segs[m].at <= Audit!Until
         /\ \A i \in 1..m : segs[i].at >= Decision => Inside(segs[i])
         /\ \A i \in 1..Len(segs) : segs[i].at <= segs[m].at => i <= m
         /\ \A i \in 1..m : segs[i].kind \in {"gap", "removed"} => segs[i].at < Decision
         /\ \A i \in 1..m :
              segs[i].kind = "removed" =>
                \E j \in 1..m : i < j /\ segs[j].at < Decision /\ segs[j].kind = "subscribed"
<1> DEFINE N == Len(segs)
           w(n) == Audit!Walked[n]
<1>1. /\ N \in Nat /\ \A n \in 1..N : segs[n] \in SegmentRow
      /\ \A n \in 0..N : w(n) \in View
      /\ w(0) = Audit!Fresh
      /\ \A n \in 1..N : w(n) = Audit!Walk(w(n - 1), segs[n])
  BY WalkedSteps DEF AuditInv
<1>2. /\ m \in 1..N /\ Inside(segs[m]) /\ segs[m].at >= Decision
      /\ \A n \in 0..(m - 1) : w(n).pos.exit = 0
      /\ \A n \in 0..N : Spotless(w(n))
  BY DEF ExitAt
<1> HIDE DEF w, N
<1>3. /\ Audit!From \in Nat /\ Audit!Until \in Nat /\ Audit!From <= Decision
      /\ \A s \in SegmentRow : Inside(s) <=> Audit!From <= s.at /\ s.at <= Audit!Until
  BY ReadInterval DEF AuditInv
<1>4. /\ \A i \in 1..N : segs[i].at \in 1..now /\ segs[i].from \in 1..segs[i].at
      /\ \A i, j \in 1..N : i < j => segs[i].at < segs[j].at
      /\ now \in Nat /\ Decision \in Nat \ {0}
  BY Numbered DEF AuditInv, InOrder, AuditTypes, N
<1>5. ASSUME NEW i \in 1..m PROVE i \in 1..N /\ segs[i].at <= segs[m].at
  <2>1. i \in 1..N /\ (i = m \/ i < m) BY <1>1, <1>2
  <2> QED BY <1>2, <1>4, <2>1
<1>6. segs[m].at <= Audit!Until BY <1>1, <1>2, <1>3
<1>7. ASSUME NEW i \in 1..m, segs[i].at >= Decision PROVE Inside(segs[i])
  <2>1. i \in 1..N /\ segs[i].at <= segs[m].at BY <1>5
  <2>2. segs[i].at \in Nat /\ segs[m].at \in Nat /\ segs[i] \in SegmentRow BY <1>1, <1>2, <1>4, <2>1
  <2>3. Audit!From <= segs[i].at /\ segs[i].at <= Audit!Until BY <1>3, <1>4, <1>6, <1>7, <2>1, <2>2
  <2> QED BY <1>3, <2>2, <2>3
<1>8. ASSUME NEW i \in 1..N, segs[i].at <= segs[m].at PROVE i <= m
  <2>1. ~(m < i) BY <1>2, <1>4, <1>8
  <2> QED BY <1>2, <2>1
\* What a step that ends on clean evidence says.
<1>9. ASSUME NEW i \in 1..m
      PROVE  /\ i \in 1..N /\ i - 1 \in 0..(m - 1) /\ i \in 0..N
             /\ segs[i].at < Decision => w(i).decided = w(i - 1).decided
             /\ segs[i].kind # "subscribed" /\ w(i - 1).sub = 0 => w(i).sub = 0
             /\ ~Inside(segs[i]) => w(i) = w(i - 1)
             /\ Inside(segs[i]) =>
                  /\ segs[i].kind \in {"gap", "removed"} =>
                       w(i).sub = 0 /\ ~(segs[i].at >= Decision /\ segs[i].from <= Audit!Until)
                  /\ segs[i].at >= Decision /\ ~w(i - 1).decided => w(i - 1).sub # 0
  <2>1. i \in 1..N /\ i - 1 \in 0..(m - 1) /\ i \in 0..N /\ i - 1 \in 0..N BY <1>1, <1>2
  <2>2. w(i - 1) \in View /\ segs[i] \in SegmentRow /\ w(i) = Audit!Walk(w(i - 1), segs[i])
    BY <1>1, <2>1
  <2>3. w(i - 1).pos.exit = 0 /\ Spotless(w(i)) BY <1>2, <2>1
  <2> QED BY <2>1, <2>2, <2>3, WalkFacts
<1>10. ASSUME NEW i \in 1..m, segs[i].kind \in {"gap", "removed"} PROVE segs[i].at < Decision
  <2>1. SUFFICES ASSUME segs[i].at >= Decision PROVE FALSE BY <1>4, <1>9
  <2>2. Inside(segs[i]) BY <1>7, <2>1
  <2>3. segs[i].from <= Audit!Until
    <3>1. segs[i].from \in Nat /\ segs[i].at \in Nat /\ segs[m].at \in Nat /\ segs[i].from <= segs[i].at
      BY <1>2, <1>4, <1>9
    <3>2. segs[i].at <= segs[m].at BY <1>5
    <3> QED BY <1>3, <1>6, <3>1, <3>2
  <2> QED BY <1>9, <1>10, <2>1, <2>2, <2>3
<1>11. ASSUME NEW i \in 1..m, segs[i].kind = "removed",
              \A j \in 1..m : i < j /\ segs[j].at < Decision => segs[j].kind # "subscribed"
       PROVE  FALSE
  \* The first row from the decision on, where it is asked what was known.
  <2>1. PICK f \in 1..m : segs[f].at >= Decision /\ \A j \in 1..m : segs[j].at >= Decision => f <= j
    <3> DEFINE S == {j \in 1..m : segs[j].at >= Decision}
    <3>1. S \subseteq Nat BY <1>2
    <3>2. m \in S BY <1>2
    <3>3. PICK f \in S : \A j \in S : f <= j
      <4> HIDE DEF S
      <4> QED BY <3>1, <3>2, LeastNumber
    <3> QED BY <3>3
  <2>2. segs[i].at < Decision BY <1>10, <1>11
  <2>3. i < f
    <3>1. i # f BY <1>4, <1>9, <2>1, <2>2
    <3>2. ~(f < i)
      <4>1. segs[i].at \in Nat /\ segs[f].at \in Nat BY <1>4, <1>9
      <4> QED BY <1>4, <1>9, <2>1, <2>2, <4>1
    <3> QED BY <1>2, <3>1, <3>2
  <2>4. \A j \in 1..(f - 1) : j \in 1..m /\ segs[j].at < Decision
    <3> TAKE j \in 1..(f - 1)
    <3>1. j \in 1..m /\ ~(f <= j) BY <1>2
    <3>2. ~(segs[j].at >= Decision) BY <2>1, <3>1
    <3>3. segs[j].at \in Nat BY <1>4, <1>9, <3>1
    <3> QED BY <1>4, <3>1, <3>2, <3>3
  <2>5. f - 1 \in Nat /\ i - 1 \in Nat /\ i \in 1..(f - 1) BY <1>2, <2>3
  <2>6. ~w(f - 1).decided
    <3> DEFINE T == {k \in 0..(f - 1) : ~w(k).decided}
    <3>1. 0 \in T BY <1>1, <2>5 DEF Audit!Fresh
    <3>2. ASSUME NEW k \in 1..(f - 1), k - 1 \in T PROVE k \in T
      <4>1. k \in 1..m /\ segs[k].at < Decision BY <2>4
      <4>2. w(k).decided = w(k - 1).decided BY <1>9, <4>1
      <4> QED BY <3>2, <4>2
    <3>3. f - 1 \in T
      <4>1. f - 1 \in 0..(f - 1) BY <2>5
      <4> HIDE DEF T
      <4> QED BY <2>5, <3>1, <3>2, <4>1, Stepwise
    <3> QED BY <3>3
  <2>7. w(i).sub = 0
    <3>1. CASE Inside(segs[i]) BY <1>9, <1>11, <3>1
    <3>2. CASE ~Inside(segs[i])
      <4> DEFINE T == {k \in 0..i : w(k).sub = 0}
      <4>1. 0 \in T BY <1>1, <2>5 DEF Audit!Fresh
      <4>2. ASSUME NEW k \in 1..i, k - 1 \in T PROVE k \in T
        <5>1. k \in 1..m /\ k \in 1..(f - 1) /\ (k = i \/ k < i) BY <1>2, <2>5
        <5>2. ~Inside(segs[k])
          <6>1. /\ segs[i] \in SegmentRow /\ segs[k] \in SegmentRow /\ segs[i].at \in Nat
                /\ segs[k].at \in Nat /\ segs[k].at <= segs[i].at
            BY <1>1, <1>4, <1>9, <5>1
          <6>2. ~(Audit!From <= segs[i].at /\ segs[i].at <= Audit!Until) BY <1>3, <3>2, <6>1
          <6>3. segs[i].at <= Audit!Until BY <1>2, <1>3, <1>4, <1>5, <1>6, <6>1
          <6>4. ~(Audit!From <= segs[k].at) BY <1>3, <6>1, <6>2, <6>3
          <6> QED BY <1>3, <6>1, <6>4
        <5>3. w(k) = w(k - 1) BY <1>9, <5>1, <5>2
        <5> QED BY <4>2, <5>3
      <4>3. i \in T
        <5>1. i \in Nat /\ i \in 0..i BY <2>5
        <5> HIDE DEF T
        <5> QED BY <4>1, <4>2, <5>1, Stepwise
      <4> QED BY <4>3
    <3> QED BY <3>1, <3>2
  <2>8. w(f - 1).sub = 0
    <3> DEFINE T == {k \in 0..((f - 1) - i) : w(i + k).sub = 0}
    <3>1. 0 \in T
      <4>1. i + 0 = i /\ 0 \in 0..((f - 1) - i) BY <2>5
      <4> QED BY <2>7, <4>1
    <3>2. ASSUME NEW k \in 1..((f - 1) - i), k - 1 \in T PROVE k \in T
      <4>1. /\ i + k \in 1..(f - 1) /\ i < i + k /\ (i + k) - 1 = i + (k - 1)
            /\ k \in 0..((f - 1) - i)
        BY <2>5
      <4>2. segs[i + k].kind # "subscribed" BY <1>11, <2>4, <4>1
      <4>3. w((i + k) - 1).sub = 0 BY <3>2, <4>1
      <4>4. w(i + k).sub = 0 BY <1>9, <2>4, <4>1, <4>2, <4>3
      <4> QED BY <4>1, <4>4
    <3>3. (f - 1) - i \in T
      <4>1. (f - 1) - i \in Nat /\ (f - 1) - i \in 0..((f - 1) - i) BY <2>5
      <4> HIDE DEF T
      <4> QED BY <3>1, <3>2, <4>1, Stepwise
    <3>4. i + ((f - 1) - i) = f - 1 BY <2>5
    <3> QED BY <3>3, <3>4
  <2> QED BY <1>7, <1>9, <2>1, <2>6, <2>8
<1>12. ASSUME NEW i \in 1..m, segs[i].kind = "removed"
       PROVE  \E j \in 1..m : i < j /\ segs[j].at < Decision /\ segs[j].kind = "subscribed"
  BY <1>11, <1>12
<1> QED BY <1>5, <1>6, <1>7, <1>8, <1>10, <1>12 DEF N

\* Every print from the decision to the exit is a row: a lost one would be told
\* before the exit, and a market that was given up was taken up again before.
LEMMA NothingHidden ==
  ASSUME AuditInv, NEW m, ExitAt(m),
         \A t \in missed : t \in Decision..segs[m].at => Audit!Told(t, segs[m].at)
  PROVE  \A t \in Decision..segs[m].at :
           prints[t] # "none" => \E i \in 1..m : segs[i].at = t
<1> SUFFICES ASSUME NEW t \in Decision..segs[m].at, prints[t] # "none"
             PROVE  \E i \in 1..m : segs[i].at = t
  OBVIOUS
<1>1. /\ \A i \in 1..m : segs[i].at <= segs[m].at /\ segs[m].at <= Audit!Until
      /\ \A i \in 1..Len(segs) : segs[i].at <= segs[m].at => i <= m
      /\ \A i \in 1..m : segs[i].kind \in {"gap", "removed"} => segs[i].at < Decision
      /\ \A i \in 1..m :
           segs[i].kind = "removed" =>
             \E j \in 1..m : i < j /\ segs[j].at < Decision /\ segs[j].kind = "subscribed"
  BY CleanRows
<1>2. /\ m \in 1..Len(segs) /\ Len(segs) \in Nat /\ Decision \in Nat \ {0} /\ now \in Nat
      /\ \A i \in 1..Len(segs) : segs[i].at \in 1..now /\ segs[i].from \in 1..segs[i].at
  BY Numbered DEF AuditInv, AuditTypes, InOrder, ExitAt
<1>3. t \in 1..now /\ t \in Nat BY <1>2
<1>4. CASE t \in missed
  <2>1. PICK i \in DOMAIN segs :
          segs[i].kind \in {"gap", "removed"} /\ t \in segs[i].from..segs[i].at /\ segs[i].at <= segs[m].at
    BY <1>4 DEF Audit!Told
  <2>2. i \in 1..Len(segs) BY DEF AuditInv, AuditTypes
  <2>3. i \in 1..m BY <1>1, <1>2, <2>1, <2>2
  <2>4. segs[i].at < Decision BY <1>1, <2>1, <2>3
  <2> QED BY <1>2, <1>3, <2>1, <2>2, <2>4
<1>5. CASE Away(t)
  <2>1. PICK i \in 1..Len(segs) : segs[i].at < t /\ GivenUp(i, t) BY <1>5 DEF Away
  <2>2. i \in 1..m
    <3>1. segs[i].at <= segs[m].at BY <1>2, <1>3, <2>1
    <3> QED BY <1>1, <1>2, <3>1
  <2>3. PICK j \in 1..m : i < j /\ segs[j].at < Decision /\ segs[j].kind = "subscribed"
    BY <1>1, <2>1, <2>2 DEF GivenUp
  <2>4. j \in 1..Len(segs) /\ segs[j].at < t BY <1>2, <1>3, <2>3
  <2> QED BY <2>1, <2>3, <2>4 DEF GivenUp
<1>6. CASE \E i \in 1..Len(segs) : segs[i].at = t
  <2>1. PICK i \in 1..Len(segs) : segs[i].at = t BY <1>6
  <2>2. i \in 1..m
    <3>1. segs[i].at <= segs[m].at BY <1>2, <1>3, <2>1
    <3> QED BY <1>1, <1>2, <2>1, <3>1
  <2> QED BY <2>1, <2>2
<1> QED BY <1>3, <1>4, <1>5, <1>6 DEF AuditInv, PrintsTold

\* Before the decision nothing is traded, after the exit nothing any more.
LEMMA PlayedFacts ==
  ASSUME AuditTypes
  PROVE  /\ \A t \in 0..now : t < Decision => Audit!Played[t] = Audit!NoPosition
         /\ \A t, u \in 0..now : t <= u /\ Audit!Played[t].exit # 0 => Audit!Played[u] = Audit!Played[t]
         /\ \A t, u \in 0..now :
              t <= u /\ (\A x \in (t + 1)..u : prints[x] # "none" => x < Decision)
                => Audit!Played[u] = Audit!Played[t]
<1> DEFINE P(t) == Audit!Played[t]
<1>1. /\ \A t \in 0..now : P(t) \in Outcome
      /\ P(0) = Audit!NoPosition
      /\ \A t \in 1..now : P(t) = IF prints[t] = "none" THEN P(t - 1) ELSE Audit!Traded(P(t - 1), t, prints[t])
  BY PlayedSteps
<1>2. now \in Nat /\ Decision \in Nat \ {0} BY Numbered DEF AuditTypes
<1> HIDE DEF P
<1>3. ASSUME NEW t \in 1..now
      PROVE  /\ t < Decision \/ prints[t] = "none" => P(t) = P(t - 1)
             /\ P(t - 1).exit # 0 => P(t) = P(t - 1)
  <2>1. t - 1 \in 0..now /\ t \in Nat BY <1>2
  <2>2. P(t - 1) \in Outcome BY <1>1, <2>1
  <2>3. t < Decision \/ P(t - 1).exit # 0 => Audit!Traded(P(t - 1), t, prints[t]) = P(t - 1)
    BY <2>1, <2>2, TradedFacts
  <2> QED BY <1>1, <2>3
<1>4. ASSUME NEW t \in 0..now, NEW u \in 0..now, t <= u,
             \A x \in (t + 1)..u : P(x - 1) = P(t) => P(x) = P(x - 1)
      PROVE  P(u) = P(t)
  <2> DEFINE T == {k \in 0..(u - t) : P(t + k) = P(t)}
  <2>1. 0 \in T
    <3>1. t + 0 = t /\ 0 \in 0..(u - t) BY <1>2, <1>4
    <3> QED BY <3>1
  <2>2. ASSUME NEW k \in 1..(u - t), k - 1 \in T PROVE k \in T
    <3>1. t + k \in (t + 1)..u /\ (t + k) - 1 = t + (k - 1) /\ k \in 0..(u - t) BY <1>2, <1>4
    <3>2. P(t + (k - 1)) = P(t) BY <2>2
    <3>3. P(t + k) = P((t + k) - 1) BY <1>4, <3>1, <3>2
    <3> QED BY <3>1, <3>2, <3>3
  <2>3. u - t \in T
    <3>1. u - t \in Nat /\ u - t \in 0..(u - t) BY <1>2, <1>4
    <3> HIDE DEF T
    <3> QED BY <2>1, <2>2, <3>1, Stepwise
  <2>4. t + (u - t) = u BY <1>2, <1>4
  <2> QED BY <2>3, <2>4
<1>5. ASSUME NEW t \in 0..now, t < Decision PROVE P(t) = Audit!NoPosition
  <2>1. 0 \in 0..now /\ 0 <= t BY <1>2
  <2>2. \A x \in (0 + 1)..t : P(x) = P(x - 1)
    <3> TAKE x \in (0 + 1)..t
    <3>1. x \in 1..now /\ x < Decision BY <1>2, <1>5
    <3> QED BY <1>3, <3>1
  <2>3. P(t) = P(0) BY <1>4, <2>1, <2>2
  <2> QED BY <1>1, <2>3
<1>6. ASSUME NEW t \in 0..now, NEW u \in 0..now, t <= u, P(t).exit # 0 PROVE P(u) = P(t)
  <2>1. \A x \in (t + 1)..u : P(x - 1) = P(t) => P(x) = P(x - 1)
    <3> TAKE x \in (t + 1)..u
    <3>1. x \in 1..now BY <1>2
    <3> QED BY <1>3, <1>6, <3>1
  <2> QED BY <1>4, <1>6, <2>1
<1>7. ASSUME NEW t \in 0..now, NEW u \in 0..now, t <= u,
             \A x \in (t + 1)..u : prints[x] # "none" => x < Decision
      PROVE  P(u) = P(t)
  <2>1. \A x \in (t + 1)..u : P(x - 1) = P(t) => P(x) = P(x - 1)
    <3> TAKE x \in (t + 1)..u
    <3>1. x \in 1..now BY <1>2
    <3> QED BY <1>3, <1>7, <3>1
  <2> QED BY <1>4, <1>7, <2>1
<1> QED BY <1>5, <1>6, <1>7 DEF P

\* Row by row the walk holds the position of the market at the row's instant.
LEMMA WalkFollows ==
  ASSUME AuditInv, NEW m, ExitAt(m),
         \A t \in Decision..segs[m].at :
           prints[t] # "none" => \E i \in 1..m : segs[i].at = t
  PROVE  Audit!Walked[m].pos = Audit!Played[segs[m].at]
<1> DEFINE w(n) == Audit!Walked[n]
           P(t) == Audit!Played[t]
           a(n) == IF n = 0 THEN 0 ELSE segs[n].at
           T == {n \in 0..m : w(n).pos = P(a(n))}
<1>1. /\ \A n \in 1..Len(segs) : segs[n] \in SegmentRow
      /\ \A n \in 0..Len(segs) : w(n) \in View
      /\ w(0) = Audit!Fresh
      /\ \A n \in 1..Len(segs) : w(n) = Audit!Walk(w(n - 1), segs[n])
  BY WalkedSteps DEF AuditInv
<1>2. /\ m \in 1..Len(segs) /\ Len(segs) \in Nat /\ Inside(segs[m]) /\ segs[m].at >= Decision
      /\ \A n \in 0..(m - 1) : w(n).pos.exit = 0
      /\ \A n \in 0..Len(segs) : Spotless(w(n))
  BY DEF ExitAt, AuditInv, AuditTypes
<1>3. /\ \A i \in 1..m : segs[i].at <= segs[m].at
      /\ \A i \in 1..m : segs[i].at >= Decision => Inside(segs[i])
  BY CleanRows
<1>4. /\ \A i \in 1..Len(segs) : segs[i].at \in 1..now /\ prints[segs[i].at] = IF Quote(segs[i]) THEN segs[i].kind ELSE "none"
      /\ \A i, j \in 1..Len(segs) : i < j => segs[i].at < segs[j].at
      /\ now \in Nat /\ Decision \in Nat \ {0}
  BY Numbered DEF AuditInv, AuditTypes, InOrder, RowsTrue
<1>5. /\ P(0) = Audit!NoPosition
      /\ \A t \in 1..now : P(t) = IF prints[t] = "none" THEN P(t - 1) ELSE Audit!Traded(P(t - 1), t, prints[t])
      /\ \A t \in 0..now : t < Decision => P(t) = Audit!NoPosition
      /\ \A t, u \in 0..now :
              t <= u /\ (\A x \in (t + 1)..u : prints[x] # "none" => x < Decision) => P(u) = P(t)
  BY PlayedSteps, PlayedFacts DEF AuditInv
<1>6. 0 \in T BY <1>1, <1>2, <1>5 DEF Audit!Fresh
<1>7. ASSUME NEW n \in 1..m, n - 1 \in T PROVE n \in T
  <2>1. /\ n \in 0..m /\ n \in 1..Len(segs) /\ n \in 0..Len(segs) /\ n - 1 \in 0..Len(segs)
        /\ n - 1 \in 0..(m - 1) /\ n # 0
    BY <1>2
  <2>2. /\ w(n - 1) \in View /\ segs[n] \in SegmentRow /\ w(n) = Audit!Walk(w(n - 1), segs[n])
        /\ w(n - 1).pos.exit = 0 /\ Spotless(w(n)) /\ w(n - 1).pos = P(a(n - 1))
    BY <1>1, <1>2, <1>7, <2>1
  <2>3. /\ ~Inside(segs[n]) => w(n) = w(n - 1)
        /\ Inside(segs[n]) =>
             w(n).pos = IF Quote(segs[n]) THEN Audit!Traded(w(n - 1).pos, segs[n].at, segs[n].kind)
                        ELSE w(n - 1).pos
    BY <2>2, WalkFacts
  <2>4. /\ a(n) = segs[n].at /\ a(n) \in 1..now /\ a(n) \in 0..now /\ a(n) - 1 \in 0..now
        /\ a(n - 1) \in 0..now /\ a(n - 1) < a(n) /\ a(n - 1) <= a(n) - 1 /\ a(n) <= segs[m].at
        /\ segs[m].at \in Nat
    <3>1. a(n) = segs[n].at /\ a(n) \in 1..now /\ a(n) <= segs[m].at /\ segs[m].at \in Nat
      BY <1>2, <1>3, <1>4, <2>1
    <3>2. CASE n = 1 BY <1>4, <3>1, <3>2
    <3>3. CASE n # 1
      <4>1. n - 1 \in 1..Len(segs) /\ n - 1 < n /\ n - 1 # 0 BY <1>2, <3>3
      <4>2. a(n - 1) = segs[n - 1].at /\ segs[n - 1].at < segs[n].at BY <1>4, <2>1, <4>1
      <4>3. segs[n - 1].at \in 1..now BY <1>4, <4>1
      <4> QED BY <1>4, <3>1, <4>2, <4>3
    <3> QED BY <3>2, <3>3
  <2>5. CASE a(n) < Decision
    <3>1. P(a(n)) = Audit!NoPosition /\ P(a(n - 1)) = Audit!NoPosition BY <1>4, <1>5, <2>4, <2>5
    <3>2. w(n - 1).pos \in Outcome /\ segs[n].at \in Nat BY <2>2 DEF View, SegmentRow
    <3>3. Audit!Traded(w(n - 1).pos, segs[n].at, segs[n].kind) = w(n - 1).pos
      BY <2>4, <2>5, <3>2, TradedFacts
    <3>4. w(n).pos = w(n - 1).pos BY <2>3, <3>3
    <3> QED BY <2>1, <2>2, <3>1, <3>4
  <2>6. CASE ~(a(n) < Decision)
    <3>1. Inside(segs[n]) BY <1>3, <1>4, <2>1, <2>4, <2>6
    <3>2. P(a(n) - 1) = P(a(n - 1))
      <4> HIDE DEF a
      <4>1. ASSUME NEW x \in (a(n - 1) + 1)..(a(n) - 1), prints[x] # "none", ~(x < Decision) PROVE FALSE
        <5>1. x \in Decision..segs[m].at /\ a(n - 1) < x /\ x < a(n) /\ x \in Nat BY <1>4, <2>4, <4>1
        <5>2. PICK i \in 1..m : segs[i].at = x BY <4>1, <5>1
        <5>3. i \in 1..Len(segs) BY <1>2
        <5>4. ~(n < i) /\ i # n
          <6>1. n < i => segs[n].at < segs[i].at BY <1>4, <2>1, <5>3
          <6>2. i = n => segs[i].at = segs[n].at OBVIOUS
          <6> QED BY <1>4, <2>4, <5>1, <5>2, <6>1, <6>2
        <5>5. i <= n - 1 /\ n - 1 # 0 /\ n - 1 \in 1..Len(segs) BY <1>2, <5>3, <5>4
        <5>6. i = n - 1 \/ i < n - 1 BY <5>3, <5>5
        <5>7. a(n - 1) = segs[n - 1].at BY <5>5 DEF a
        <5>8. segs[i].at \in Nat /\ segs[n - 1].at \in Nat BY <1>4, <5>3, <5>5
        <5>9. segs[i].at <= segs[n - 1].at BY <1>4, <5>3, <5>5, <5>6, <5>8
        <5> QED BY <5>1, <5>2, <5>7, <5>8, <5>9
      <4> QED BY <1>5, <2>4, <4>1
    <3>3. prints[a(n)] = IF Quote(segs[n]) THEN segs[n].kind ELSE "none" BY <1>4, <2>1, <2>4
    <3>4. Quote(segs[n]) => segs[n].kind # "none" BY DEF Quote, Audit!Price
    <3>5. P(a(n)) = IF Quote(segs[n]) THEN Audit!Traded(P(a(n) - 1), a(n), segs[n].kind) ELSE P(a(n) - 1)
      BY <1>5, <2>4, <3>3, <3>4
    <3> QED BY <2>1, <2>2, <2>3, <2>4, <3>1, <3>2, <3>5
  <2> QED BY <2>5, <2>6
<1>8. m \in T
  <2>1. m \in Nat /\ m \in 0..m BY <1>2
  <2> HIDE DEF T
  <2> QED BY <1>6, <1>7, <2>1, Stepwise
<1> QED BY <1>2, <1>8

LEMMA AuditIsTrue ==
  ASSUME AuditInv PROVE Audit!RebuiltIsTrue
<1> SUFFICES ASSUME Audit!Rebuilt(Audit!Evidence),
                    \A t \in missed : t \in Decision..Audit!Evidence.pos.exit =>
                      Audit!Told(t, Audit!Evidence.pos.exit)
             PROVE  Audit!Truth = Audit!Evidence.pos
  BY DEF Audit!RebuiltIsTrue
<1>1. PICK m : ExitAt(m) /\ Audit!Evidence.pos = Audit!Walked[m].pos BY ExitFound
<1>2. Audit!Evidence.pos.exit = segs[m].at BY <1>1 DEF ExitAt
<1>3. \A t \in Decision..segs[m].at : prints[t] # "none" => \E i \in 1..m : segs[i].at = t
  BY <1>1, <1>2, NothingHidden
<1>4. Audit!Walked[m].pos = Audit!Played[segs[m].at] BY <1>1, <1>3, WalkFollows
<1>5. segs[m].at \in 0..now /\ now \in 0..now /\ segs[m].at <= now /\ segs[m].at # 0
  BY <1>1 DEF AuditInv, AuditTypes, InOrder, ExitAt
<1>6. Audit!Played[segs[m].at].exit # 0 BY <1>1, <1>2, <1>4, <1>5
<1>7. Audit!Played[now] = Audit!Played[segs[m].at] BY <1>5, <1>6, PlayedFacts DEF AuditInv
<1> QED BY <1>1, <1>4, <1>7 DEF Audit!Truth

-----------------------------------------------------------------------------
(* What the segments tell stays true.                                      *)
LEMMA AuditInit ==
  ASSUME Audit!Init PROVE AuditInv
<1>1. /\ now = 1 /\ prints = <<"none">> /\ missed = {} /\ follows = TRUE /\ owed = 0
      /\ segs = <<[at |-> 1, kind |-> "subscribed", from |-> 1, chained |-> TRUE, fate |-> "raw"]>>
      /\ label = [is |-> "none", at |-> 0]
  BY DEF Audit!Init
<1>2. Len(segs) = 1 /\ segs[1].at = 1 /\ segs[1].from = 1 /\ segs[1].kind = "subscribed"
  BY <1>1
<1>3. [at |-> 1, kind |-> "subscribed", from |-> 1, chained |-> TRUE, fate |-> "raw"] \in SegmentRow
  BY DEF SegmentRow, Audit!Kind
<1>4. AuditTypes BY <1>1, <1>3 DEF AuditTypes
<1>5. InOrder BY <1>1, <1>2 DEF InOrder
<1>6. RowsTrue
  <2>1. ~Quote(segs[1]) BY <1>2 DEF Quote, Audit!Price
  <2>2. \A i \in 1..Len(segs) : segs[i] = segs[1] BY <1>2
  <2>3. prints[segs[1].at] = "none" BY <1>1, <1>2
  <2> QED BY <2>1, <2>2, <2>3 DEF RowsTrue
<1>7. PrintsTold BY <1>1 DEF PrintsTold
<1> QED BY <1>1, <1>4, <1>5, <1>6, <1>7 DEF AuditInv

\* An instant of the market, with the row of a segment or without.
Tick(p) == now' = now + 1 /\ prints' = Append(prints, p)
NewRow(row) ==
  /\ row \in SegmentRow /\ row.at = now + 1 /\ row.from \in 1..(now + 1)
  /\ segs' = Append(segs, row)

LEMMA TickFacts ==
  ASSUME AuditInv, NEW p \in Audit!Price \cup {"none"}, Tick(p)
  PROVE  /\ now \in Nat /\ now' \in Nat /\ now' = now + 1
         /\ prints' \in Seq(Audit!Price \cup {"none"}) /\ Len(prints') = now'
         /\ \A t \in 1..now : prints'[t] = prints[t]
         /\ prints'[now + 1] = p
BY DEF AuditInv, AuditTypes, Tick

LEMMA RowsGrow ==
  ASSUME AuditInv, NEW row, NewRow(row)
  PROVE  /\ Len(segs) \in Nat /\ segs' \in Seq(SegmentRow) /\ Len(segs') = Len(segs) + 1
         /\ \A i \in 1..Len(segs) : segs'[i] = segs[i]
         /\ segs'[Len(segs) + 1] = row
BY DEF AuditInv, AuditTypes, NewRow

\* A step of the clock after which everything is accounted for.
LEMMA TickKeeps ==
  ASSUME AuditInv, NEW p \in Audit!Price \cup {"none"}, Tick(p),
         \/ segs' = segs
         \/ \E row : NewRow(row) /\ p = IF Quote(row) THEN row.kind ELSE "none",
         missed \subseteq missed', missed' \subseteq 1..(now + 1),
         follows' \in BOOLEAN, owed' \in 0..(now + 1), label' = label,
         p # "none" => now + 1 \in missed' \/ ~follows \/ \E row : NewRow(row),
         ~follows' => \/ ~follows /\ segs' = segs
                      \/ \E row : NewRow(row) /\ (row.kind = "removed" \/ (~follows /\ row.kind # "subscribed"))
  PROVE  AuditInv'
<1>1. /\ now \in Nat /\ now' \in Nat /\ now' = now + 1
      /\ prints' \in Seq(Audit!Price \cup {"none"}) /\ Len(prints') = now'
      /\ \A t \in 1..now : prints'[t] = prints[t]
      /\ prints'[now + 1] = p
  BY TickFacts
<1>2. /\ Len(segs) \in Nat /\ segs \in Seq(SegmentRow)
      /\ \A i \in 1..Len(segs) : segs[i].at \in 1..now /\ segs[i].from \in 1..segs[i].at
      /\ \A i, j \in 1..Len(segs) : i < j => segs[i].at < segs[j].at
      /\ \A i \in 1..Len(segs) : prints[segs[i].at] = IF Quote(segs[i]) THEN segs[i].kind ELSE "none"
  BY DEF AuditInv, AuditTypes, InOrder, RowsTrue
<1>3. \/ segs' = segs
      \/ \E row : NewRow(row) /\ (p = IF Quote(row) THEN row.kind ELSE "none")
  OBVIOUS
<1>4. AuditTypes'
  <2>1. segs' \in Seq(SegmentRow) BY <1>2, <1>3, RowsGrow
  <2>2. label' \in [is : {"none", "complete", "incomplete"}, at : Nat] BY DEF AuditInv, AuditTypes
  <2> QED BY <1>1, <2>1, <2>2 DEF AuditTypes
<1>5. InOrder'
  <2>1. CASE segs' = segs BY <1>1, <1>2, <2>1 DEF InOrder
  <2>2. CASE segs' # segs
    <3>1. PICK row : NewRow(row) BY <1>3, <2>2
    <3>2. row.at = now + 1 /\ row.from \in 1..(now + 1) BY <3>1 DEF NewRow
    <3>3. /\ Len(segs') = Len(segs) + 1 /\ \A i \in 1..Len(segs) : segs'[i] = segs[i]
          /\ segs'[Len(segs) + 1] = row
      BY <3>1, RowsGrow
    <3>4. \A i \in 1..Len(segs') : segs'[i].at \in 1..now' /\ segs'[i].from \in 1..segs'[i].at
      <4> TAKE i \in 1..Len(segs')
      <4>1. CASE i \in 1..Len(segs)
        <5>1. segs'[i] = segs[i] /\ segs[i].at \in 1..now /\ segs[i].from \in 1..segs[i].at BY <1>2, <3>3, <4>1
        <5>2. segs[i].at \in 1..now' BY <1>1, <5>1
        <5> QED BY <5>1, <5>2
      <4>2. CASE i = Len(segs) + 1
        <5>1. segs'[i] = row BY <3>3, <4>2
        <5>2. row.at \in 1..now' /\ row.from \in 1..row.at BY <1>1, <3>2
        <5> QED BY <5>1, <5>2
      <4> QED BY <1>2, <3>3, <4>1, <4>2
    <3>5. \A i, j \in 1..Len(segs') : i < j => segs'[i].at < segs'[j].at
      <4> SUFFICES ASSUME NEW i \in 1..Len(segs'), NEW j \in 1..Len(segs'), i < j
                   PROVE  segs'[i].at < segs'[j].at
        OBVIOUS
      <4>1. i \in 1..Len(segs) BY <1>2, <3>3
      <4>2. segs'[i] = segs[i] /\ segs[i].at \in 1..now BY <1>2, <3>3, <4>1
      <4>3. CASE j \in 1..Len(segs)
        <5>1. segs'[j] = segs[j] BY <3>3, <4>3
        <5> QED BY <1>2, <4>1, <4>2, <4>3, <5>1
      <4>4. CASE j = Len(segs) + 1
        <5>1. segs'[j].at = now + 1 BY <3>2, <3>3, <4>4
        <5> QED BY <1>1, <4>2, <5>1
      <4> QED BY <1>2, <3>3, <4>3, <4>4
    <3> QED BY <3>4, <3>5 DEF InOrder
  <2> QED BY <2>1, <2>2
<1>6. RowsTrue'
  <2>1. \A i \in 1..Len(segs) : prints'[segs[i].at] = IF Quote(segs[i]) THEN segs[i].kind ELSE "none"
    BY <1>1, <1>2
  <2>2. CASE segs' = segs BY <2>1, <2>2 DEF RowsTrue, Quote
  <2>3. CASE segs' # segs
    <3>1. PICK row : NewRow(row) /\ p = IF Quote(row) THEN row.kind ELSE "none" BY <1>3, <2>3
    <3>2. row.at = now + 1 BY <3>1 DEF NewRow
    <3>3. /\ Len(segs') = Len(segs) + 1 /\ \A i \in 1..Len(segs) : segs'[i] = segs[i]
          /\ segs'[Len(segs) + 1] = row
      BY <3>1, RowsGrow
    <3>4. \A i \in 1..Len(segs') :
            prints'[segs'[i].at] = IF Quote(segs'[i]) THEN segs'[i].kind ELSE "none"
      <4> TAKE i \in 1..Len(segs')
      <4>1. CASE i \in 1..Len(segs) BY <2>1, <3>3, <4>1
      <4>2. CASE i = Len(segs) + 1 BY <1>1, <3>1, <3>2, <3>3, <4>2
      <4> QED BY <1>2, <3>3, <4>1, <4>2
    <3> QED BY <3>4 DEF RowsTrue, Quote
  <2> QED BY <2>2, <2>3
\* What the market was given up before stays so.
<1>7. ASSUME NEW t \in 1..(now + 1), Away(t) PROVE Away(t)'
  <2>1. PICK i \in 1..Len(segs) : segs[i].at < t /\ GivenUp(i, t) BY <1>7 DEF Away
  <2>2. CASE segs' = segs BY <1>7, <2>2 DEF Away, GivenUp
  <2>3. CASE segs' # segs
    <3>1. PICK row : NewRow(row) BY <1>3, <2>3
    <3>2. row.at = now + 1 BY <3>1 DEF NewRow
    <3>3. /\ Len(segs') = Len(segs) + 1 /\ \A j \in 1..Len(segs) : segs'[j] = segs[j]
          /\ segs'[Len(segs) + 1] = row
      BY <3>1, RowsGrow
    <3>4. i \in 1..Len(segs') /\ segs'[i].at < t /\ segs'[i].kind = "removed"
      BY <1>2, <2>1, <3>3 DEF GivenUp
    <3>5. \A j \in 1..Len(segs') : i < j /\ segs'[j].at < t => segs'[j].kind # "subscribed"
      <4> SUFFICES ASSUME NEW j \in 1..Len(segs'), i < j, segs'[j].at < t
                   PROVE  segs'[j].kind # "subscribed"
        OBVIOUS
      <4>1. j # Len(segs) + 1 BY <1>1, <3>2, <3>3
      <4>2. j \in 1..Len(segs)
        <5> PICK n \in Nat : n = Len(segs) BY <1>2
        <5>1. j \in 1..(n + 1) /\ j # n + 1 BY <3>3, <4>1
        <5> QED BY <5>1
      <4>3. segs'[j] = segs[j] BY <3>3, <4>2
      <4> QED BY <2>1, <4>2, <4>3 DEF GivenUp
    <3> QED BY <3>4, <3>5 DEF Away, GivenUp
  <2> QED BY <2>2, <2>3
<1>8. PrintsTold'
  <2> SUFFICES ASSUME NEW t \in 1..now', prints'[t] # "none"
               PROVE  t \in missed' \/ Away(t)' \/ \E i \in 1..Len(segs') : segs'[i].at = t
    BY DEF PrintsTold
  <2>1. CASE t \in 1..now
    <3>1. prints[t] # "none" /\ t \in 1..(now + 1) BY <1>1, <2>1
    <3>2. t \in missed \/ Away(t) \/ \E i \in 1..Len(segs) : segs[i].at = t
      BY <2>1, <3>1 DEF AuditInv, PrintsTold
    <3>3. (\E i \in 1..Len(segs) : segs[i].at = t) => \E i \in 1..Len(segs') : segs'[i].at = t
      <4>1. CASE segs' = segs BY <4>1
      <4>2. CASE segs' # segs
        <5>1. PICK row : NewRow(row) BY <1>3, <4>2
        <5>2. /\ Len(segs') = Len(segs) + 1 /\ \A j \in 1..Len(segs) : segs'[j] = segs[j]
          BY <5>1, RowsGrow
        <5>3. \A i \in 1..Len(segs) : i \in 1..Len(segs') BY <1>2, <5>2
        <5> QED BY <5>2, <5>3
      <4> QED BY <4>1, <4>2
    <3> QED BY <1>7, <3>1, <3>2, <3>3
  <2>2. CASE t = now + 1
    <3>1. p # "none" BY <1>1, <2>2
    <3>2. CASE now + 1 \in missed' BY <2>2, <3>2
    <3>3. CASE ~follows
      <4>1. Away(t) BY <2>2, <3>3 DEF AuditInv
      <4>2. t \in 1..(now + 1) BY <1>1, <2>2
      <4> QED BY <1>7, <4>1, <4>2
    <3>4. CASE \E row : NewRow(row)
      <4>1. PICK row : NewRow(row) BY <3>4
      <4>2. row.at = now + 1 BY <4>1 DEF NewRow
      <4>3. Len(segs') = Len(segs) + 1 /\ segs'[Len(segs) + 1] = row BY <4>1, RowsGrow
      <4>4. Len(segs) + 1 \in 1..Len(segs') BY <1>2, <4>3
      <4> QED BY <2>2, <4>2, <4>3, <4>4
    <3> QED BY <3>1, <3>2, <3>3, <3>4
  <2> QED BY <1>1, <2>1, <2>2
<1>9. (~follows => Away(now + 1))'
  <2> SUFFICES ASSUME ~follows' PROVE Away(now + 1)' OBVIOUS
  <2>1. \/ ~follows /\ segs' = segs
        \/ \E row : NewRow(row) /\ (row.kind = "removed" \/ (~follows /\ row.kind # "subscribed"))
    OBVIOUS
  <2>2. CASE segs' = segs
    <3>1. ~follows
      <4>1. \A row : ~NewRow(row) BY <1>2, <2>2, RowsGrow
      <4> QED BY <2>1, <4>1
    <3>2. PICK i \in 1..Len(segs) : segs[i].at < now + 1 /\ GivenUp(i, now + 1)
      BY <3>1 DEF AuditInv, Away
    <3>3. \A j \in 1..Len(segs) : segs[j].at < now + 1 BY <1>1, <1>2
    <3>4. segs[i].at < now' + 1 BY <1>1, <1>2, <3>2
    <3> QED BY <2>2, <3>2, <3>3, <3>4 DEF Away, GivenUp
  <2>3. CASE segs' # segs
    <3>1. PICK row : NewRow(row) /\ (row.kind = "removed" \/ (~follows /\ row.kind # "subscribed"))
      BY <2>1, <2>3
    <3>2. row.at = now + 1 BY <3>1 DEF NewRow
    <3>3. /\ Len(segs') = Len(segs) + 1 /\ \A j \in 1..Len(segs) : segs'[j] = segs[j]
          /\ segs'[Len(segs) + 1] = row
      BY <3>1, RowsGrow
    <3>4. CASE row.kind = "removed"
      <4>1. Len(segs) + 1 \in 1..Len(segs') /\ \A j \in 1..Len(segs') : ~(Len(segs) + 1 < j)
        BY <1>2, <3>3
      <4>2. segs'[Len(segs) + 1].at < now' + 1 BY <1>1, <3>2, <3>3
      <4> QED BY <3>3, <3>4, <4>1, <4>2 DEF Away, GivenUp
    <3>5. CASE ~follows /\ row.kind # "subscribed"
      <4>1. PICK i \in 1..Len(segs) : segs[i].at < now + 1 /\ GivenUp(i, now + 1)
        BY <3>5 DEF AuditInv, Away
      <4>2. i \in 1..Len(segs') /\ segs'[i].at < now' + 1 /\ segs'[i].kind = "removed"
        BY <1>1, <1>2, <3>3, <4>1 DEF GivenUp
      <4>3. \A j \in 1..Len(segs') : i < j => segs'[j].kind # "subscribed"
        <5> SUFFICES ASSUME NEW j \in 1..Len(segs'), i < j PROVE segs'[j].kind # "subscribed"
          OBVIOUS
        <5>1. CASE j \in 1..Len(segs)
          <6>1. segs[j].at < now + 1 BY <1>1, <1>2, <5>1
          <6> QED BY <3>3, <4>1, <5>1, <6>1 DEF GivenUp
        <5>2. CASE j = Len(segs) + 1 BY <3>3, <3>5, <5>2
        <5>3. j \in 1..Len(segs) \/ j = Len(segs) + 1
          <6> PICK n \in Nat : n = Len(segs) BY <1>2
          <6>1. j \in 1..(n + 1) BY <3>3
          <6> QED BY <6>1
        <5> QED BY <5>1, <5>2, <5>3
      <4> QED BY <4>2, <4>3 DEF Away, GivenUp
    <3> QED BY <3>1, <3>4, <3>5
  <2> QED BY <2>2, <2>3
<1> QED BY <1>4, <1>5, <1>6, <1>8, <1>9 DEF AuditInv

\* Rows keep their place, their instant and what they tell.
LEMMA SameRows ==
  ASSUME AuditInv, segs' \in Seq(SegmentRow), Len(segs') = Len(segs),
         \A i \in 1..Len(segs) :
           segs'[i].at = segs[i].at /\ segs'[i].from = segs[i].from /\ segs'[i].kind = segs[i].kind,
         label' \in [is : {"none", "complete", "incomplete"}, at : Nat],
         UNCHANGED <<now, prints, missed, follows, owed>>
  PROVE  AuditInv'
<1>1. AuditTypes' BY DEF AuditInv, AuditTypes
<1>2. InOrder' BY DEF AuditInv, InOrder
<1>3. RowsTrue' BY DEF AuditInv, RowsTrue, Quote
<1>4. \A t : Away(t)' <=> Away(t)
  <2> SUFFICES ASSUME NEW t PROVE Away(t)' <=> Away(t) OBVIOUS
  <2>1. \A i \in 1..Len(segs) : GivenUp(i, t)' <=> GivenUp(i, t) BY DEF GivenUp
  <2> QED BY <2>1 DEF Away
<1>5. PrintsTold'
  <2>1. \A t : (\E i \in 1..Len(segs') : segs'[i].at = t) <=> \E i \in 1..Len(segs) : segs[i].at = t
    OBVIOUS
  <2> QED BY <1>4, <2>1 DEF AuditInv, PrintsTold
<1>6. (~follows => Away(now + 1))' BY <1>4 DEF AuditInv
<1> QED BY <1>1, <1>2, <1>3, <1>5, <1>6 DEF AuditInv

LEMMA AuditNext ==
  ASSUME AuditInv, Audit!Next PROVE AuditInv'
<1> DEFINE Row(kind, from) ==
      [at |-> now + 1, kind |-> kind, from |-> from, chained |-> TRUE, fate |-> "raw"]
<1>1. now \in Nat /\ owed \in 0..now /\ missed \subseteq 1..now /\ follows \in BOOLEAN
  BY DEF AuditInv, AuditTypes
<1>2. ASSUME NEW kind \in Audit!Kind, NEW from \in 1..(now + 1), Audit!Commit(kind, from)
      PROVE  NewRow(Row(kind, from)) /\ Row(kind, from).kind = kind
  BY <1>1, <1>2 DEF NewRow, SegmentRow, Audit!Commit
<1>3. now + 1 \in 1..(now + 1) /\ owed \in 0..(now + 1) /\ (owed # 0 => owed \in 1..(now + 1))
      /\ missed \subseteq 1..(now + 1) /\ missed \cup {now + 1} \subseteq 1..(now + 1)
  BY <1>1
<1>4. /\ "none" \in Audit!Price \cup {"none"} /\ \A p \in Audit!Price : p \in Audit!Price \cup {"none"} /\ p \in Audit!Kind
      /\ "subscribed" \in Audit!Kind /\ "gap" \in Audit!Kind /\ "removed" \in Audit!Kind
      /\ "subscribed" \notin Audit!Price /\ "gap" \notin Audit!Price /\ "removed" \notin Audit!Price
  BY DEF Audit!Price, Audit!Kind
<1> HIDE DEF Row
<1>5. CASE Audit!Quiet
  <2>1. Tick("none") /\ UNCHANGED <<missed, follows, owed, segs, label>>
    BY <1>5 DEF Audit!Quiet, Audit!Instant, Tick
  <2> QED BY <1>1, <1>3, <1>4, <2>1, TickKeeps
<1>6. CASE Audit!Subscribe
  <2>1. /\ Tick("none") /\ follows' = TRUE /\ UNCHANGED <<missed, owed, label>>
        /\ Audit!Commit("subscribed", now + 1)
    BY <1>6 DEF Audit!Subscribe, Audit!Instant, Tick
  <2>2. NewRow(Row("subscribed", now + 1)) /\ Row("subscribed", now + 1).kind = "subscribed"
    BY <1>2, <1>3, <1>4, <2>1
  <2>3. ~Quote(Row("subscribed", now + 1)) BY <1>4, <2>2 DEF Quote
  <2> QED BY <1>1, <1>3, <1>4, <2>1, <2>2, <2>3, TickKeeps
<1>7. CASE Audit!Drop
  <2> DEFINE from == IF owed = 0 THEN now + 1 ELSE owed
  <2>1. /\ Tick("none") /\ follows' = FALSE /\ UNCHANGED <<missed, label>> /\ owed' = 0
        /\ Audit!Commit("removed", from)
    BY <1>7 DEF Audit!Drop, Audit!Instant, Tick
  <2>2. from \in 1..(now + 1) BY <1>3
  <2> HIDE DEF from
  <2>3. NewRow(Row("removed", from)) /\ Row("removed", from).kind = "removed"
    BY <1>2, <1>4, <2>1, <2>2
  <2>4. ~Quote(Row("removed", from)) BY <1>4, <2>3 DEF Quote
  <2>5. owed' \in 0..(now + 1) BY <1>1, <2>1
  <2> QED BY <1>1, <1>3, <1>4, <2>1, <2>3, <2>4, <2>5, TickKeeps
<1>8. CASE Audit!Declare
  <2>1. /\ Tick("none") /\ UNCHANGED <<missed, follows, label>> /\ owed # 0 /\ owed' = 0
        /\ Audit!Commit("gap", owed)
    BY <1>8 DEF Audit!Declare, Audit!Instant, Tick
  <2>2. NewRow(Row("gap", owed)) /\ Row("gap", owed).kind = "gap"
    BY <1>2, <1>3, <1>4, <2>1
  <2>3. ~Quote(Row("gap", owed)) BY <1>4, <2>2 DEF Quote
  <2>4. owed' \in 0..(now + 1) BY <1>1, <2>1
  <2>5. ~follows' => \E row : NewRow(row) /\ (row.kind = "removed" \/ (~follows /\ row.kind # "subscribed"))
    BY <2>1, <2>2
  <2> QED BY <1>1, <1>3, <1>4, <2>1, <2>2, <2>3, <2>4, <2>5, TickKeeps
<1>9. ASSUME NEW p \in Audit!Price, Audit!Unseen(p) PROVE AuditInv'
  <2>1. Tick(p) /\ ~follows /\ UNCHANGED <<missed, follows, owed, segs, label>>
    BY <1>9 DEF Audit!Unseen, Audit!Instant, Tick
  <2> QED BY <1>1, <1>3, <1>4, <2>1, TickKeeps
<1>10. ASSUME NEW p \in Audit!Price, Audit!Recorded(p) PROVE AuditInv'
  <2>1. Tick(p) /\ follows /\ UNCHANGED <<missed, follows, owed, label>> /\ Audit!Commit(p, now + 1)
    BY <1>10 DEF Audit!Recorded, Audit!Instant, Tick
  <2>2. NewRow(Row(p, now + 1)) /\ Row(p, now + 1).kind = p
    BY <1>2, <1>3, <1>4, <2>1
  <2>3. Quote(Row(p, now + 1)) BY <2>2 DEF Quote
  <2> QED BY <1>1, <1>3, <1>4, <2>1, <2>2, <2>3, TickKeeps
<1>11. ASSUME NEW p \in Audit!Price, Audit!Lost(p) PROVE AuditInv'
  <2>1. /\ Tick(p) /\ follows /\ UNCHANGED <<follows, segs, label>>
        /\ missed' = missed \cup {now + 1} /\ owed' = IF owed = 0 THEN now + 1 ELSE owed
    BY <1>11 DEF Audit!Lost, Audit!Instant, Tick
  <2>2. owed' \in 0..(now + 1) BY <1>1, <2>1
  <2> QED BY <1>1, <1>3, <1>4, <2>1, <2>2, TickKeeps
<1>12. ASSUME NEW i \in DOMAIN segs, Audit!Harm(i) PROVE AuditInv'
  <2>1. /\ UNCHANGED <<now, prints, missed, follows, owed, label>>
        /\ \/ \E f \in {"damaged", "pruned", "consumed"} : segs' = [segs EXCEPT ![i].fate = f]
           \/ segs' = [segs EXCEPT ![i].chained = FALSE]
    BY <1>12 DEF Audit!Harm
  <2>2. segs \in Seq(SegmentRow) /\ i \in 1..Len(segs) /\ Len(segs) \in Nat
        /\ label \in [is : {"none", "complete", "incomplete"}, at : Nat]
    BY DEF AuditInv, AuditTypes
  <2>3. PICK row \in SegmentRow :
          /\ segs' = [segs EXCEPT ![i] = row]
          /\ row.at = segs[i].at /\ row.from = segs[i].from /\ row.kind = segs[i].kind
    <3>1. segs[i] \in SegmentRow BY <2>2
    <3>2. CASE \E f \in {"damaged", "pruned", "consumed"} : segs' = [segs EXCEPT ![i].fate = f]
      <4>1. PICK f \in {"damaged", "pruned", "consumed"} : segs' = [segs EXCEPT ![i].fate = f] BY <3>2
      <4>2. PICK row : row = [segs[i] EXCEPT !.fate = f] OBVIOUS
      <4>3. row \in SegmentRow /\ row.at = segs[i].at /\ row.from = segs[i].from /\ row.kind = segs[i].kind
        BY <3>1, <4>2 DEF SegmentRow
      <4>4. segs' = [segs EXCEPT ![i] = row] BY <4>1, <4>2
      <4> QED BY <4>3, <4>4
    <3>3. CASE segs' = [segs EXCEPT ![i].chained = FALSE]
      <4>1. PICK row : row = [segs[i] EXCEPT !.chained = FALSE] OBVIOUS
      <4>2. row \in SegmentRow /\ row.at = segs[i].at /\ row.from = segs[i].from /\ row.kind = segs[i].kind
        BY <3>1, <4>1 DEF SegmentRow
      <4>3. segs' = [segs EXCEPT ![i] = row] BY <3>3, <4>1
      <4> QED BY <4>2, <4>3
    <3> QED BY <2>1, <3>2, <3>3
  <2>4. /\ segs' \in Seq(SegmentRow) /\ Len(segs') = Len(segs)
        /\ \A j \in 1..Len(segs) : segs'[j] = IF j = i THEN row ELSE segs[j]
    BY <2>2, <2>3
  <2>5. \A j \in 1..Len(segs) :
          segs'[j].at = segs[j].at /\ segs'[j].from = segs[j].from /\ segs'[j].kind = segs[j].kind
    BY <2>3, <2>4
  <2> QED BY <2>1, <2>2, <2>4, <2>5, SameRows
<1>13. ASSUME NEW is \in {"complete", "incomplete"}, Audit!Freeze(is) PROVE AuditInv'
  <2>1. UNCHANGED <<now, prints, missed, follows, owed, segs>> /\ label' = [is |-> is, at |-> now]
    BY <1>13 DEF Audit!Freeze
  <2>2. label' \in [is : {"none", "complete", "incomplete"}, at : Nat] BY <1>1, <2>1
  <2>3. segs' \in Seq(SegmentRow) BY <2>1 DEF AuditInv, AuditTypes
  <2> QED BY <2>1, <2>2, <2>3, SameRows
<1> QED BY <1>5, <1>6, <1>7, <1>8, <1>9, <1>10, <1>11, <1>12, <1>13 DEF Audit!Next

LEMMA AuditAlways == PartsSpec => []AuditInv
<1>1. PartsInit => AuditInv BY AuditInit DEF PartsInit
<1>2. AuditInv /\ [PartsNext]_partsVars => AuditInv'
  <2> SUFFICES ASSUME AuditInv, [PartsNext]_partsVars PROVE AuditInv' OBVIOUS
  <2>1. CASE UNCHANGED audit
    <3>1. UNCHANGED <<now, prints, missed, follows, owed, segs, label>> BY <2>1 DEF audit
    <3>2. segs' \in Seq(SegmentRow) /\ label' \in [is : {"none", "complete", "incomplete"}, at : Nat]
      BY <3>1 DEF AuditInv, AuditTypes
    <3> QED BY <3>1, <3>2, SameRows
  <2>2. CASE Audit!Next BY <2>2, AuditNext
  <2> QED BY <2>1, <2>2 DEF PartsNext, partsVars
<1> QED BY <1>1, <1>2, PTL DEF PartsSpec

\* Whatever is lost, pruned or damaged, an outcome that the audit rebuilds on
\* evidence it calls clean is the one the market made.
THEOREM RebuiltOutcomesTrue == PartsSpec => []RebuiltIsTrue
<1>1. AuditInv => RebuiltIsTrue BY AuditIsTrue DEF RebuiltIsTrue
<1> QED BY <1>1, AuditAlways, PTL

-----------------------------------------------------------------------------
(* The recovery of an outcome (PrintRecovery).                             *)
LEMMA GreatestNumber ==
  ASSUME NEW b \in Nat, NEW S, S \subseteq 0..b, S # {}
  PROVE  \E n \in S : \A m \in S : n >= m
<1> DEFINE T == {b - n : n \in S}
<1>1. T \subseteq Nat /\ T # {}
  <2>1. \A n \in S : b - n \in Nat OBVIOUS
  <2> QED BY <2>1
<1>2. PICK k \in T : \A l \in T : k <= l
  <2> HIDE DEF T
  <2> QED BY <1>1, LeastNumber
<1>3. PICK n \in S : k = b - n OBVIOUS
<1>4. ASSUME NEW m \in S PROVE n >= m
  <2>1. b - m \in T /\ m \in Int /\ n \in Int OBVIOUS
  <2>2. b - n <= b - m BY <1>2, <1>3, <2>1
  <2> QED BY <2>1, <2>2
<1> QED BY <1>4

\* The trades that are numbered, and the ends of a set of them.
LEMMA MinMax ==
  ASSUME NEW S, S \subseteq 1..Trades, S # {}
  PROVE  /\ Recovery!Min(S) \in S /\ Recovery!Max(S) \in S
         /\ \A n \in S : Recovery!Min(S) <= n /\ n <= Recovery!Max(S)
<1>1. Trades \in Nat \ {0} BY PartsAssumption DEF Recovery!RecoveryAssumption
<1>2. \E n \in S : \A m \in S : n <= m
  <2>1. S \subseteq Nat BY <1>1
  <2> QED BY <2>1, LeastNumber
<1>3. \E n \in S : \A m \in S : n >= m
  <2>1. S \subseteq 0..Trades BY <1>1
  <2> QED BY <1>1, <2>1, GreatestNumber
<1>4. Recovery!Min(S) \in S /\ \A m \in S : Recovery!Min(S) <= m BY <1>2 DEF Recovery!Min
<1>5. Recovery!Max(S) \in S /\ \A m \in S : Recovery!Max(S) >= m BY <1>3 DEF Recovery!Max
<1>6. \A n \in S : n \in Nat BY <1>1
<1> QED BY <1>4, <1>5, <1>6

Checkpoint ==
  [first : Nat, last : Nat, fed : [1..Trades -> Nat], status : {"PENDING", "NO_FILL", "VERIFIED"},
   day : Int, from : Nat]

\* A run of trades without a hole, from one before the decision on.
Run(s) ==
  /\ s.last = 0 => s.first = 0 /\ s.fed = Recovery!Once({})
  /\ s.last # 0 => /\ s.last \in 1..Trades /\ s.first \in 1..s.last
                   /\ s.fed = Recovery!Once(s.first..s.last) /\ pAt[s.first] <= Decides
MarketInv ==
  /\ pAt \in [1..Trades -> Nat]
  /\ \A i, j \in 1..Trades : i < j => pAt[i] <= pAt[j]
RecoveryInv ==
  /\ MarketInv
  /\ pNow \in Nat /\ pDisk \in Checkpoint /\ Run(pDisk)
  /\ pDisk.status = "PENDING" => pEnds \notin Recovery!Heard(pDisk)
  /\ pDisk.status = "NO_FILL" => pEnds \notin Recovery!Heard(pDisk) /\ pDisk.last # 0
  /\ pMem # None => pMem \in [s : Checkpoint, asof : Nat] /\ pMem.s \in Checkpoint /\ Run(pMem.s) /\ pMem.s.status = "PENDING" /\ pEnds \notin Recovery!Heard(pMem.s)
  /\ pLabel # None => pLabel \in Checkpoint /\ Run(pLabel) /\ pLabel.last # 0 /\ pLabel.last = pEnds

LEMMA HeardOfRun ==
  ASSUME NEW s, Run(s)
  PROVE  /\ s.last = 0 => Recovery!Heard(s) = {}
         /\ s.last # 0 => Recovery!Heard(s) = s.first..s.last
<1>1. Trades \in Nat \ {0} BY PartsAssumption DEF Recovery!RecoveryAssumption
<1>2. CASE s.last = 0 BY <1>2 DEF Run, Recovery!Heard, Recovery!Once
<1>3. CASE s.last # 0
  <2>1. s.last \in 1..Trades /\ s.first \in 1..s.last /\ s.fed = Recovery!Once(s.first..s.last)
    BY <1>3 DEF Run
  <2>2. s.first..s.last \subseteq 1..Trades BY <1>1, <2>1
  <2>3. \A i \in 1..Trades : s.fed[i] # 0 <=> i \in s.first..s.last
    BY <2>1 DEF Recovery!Once, Recovery!Id
  <2> QED BY <1>3, <2>2, <2>3 DEF Recovery!Heard, Recovery!Id
<1> QED BY <1>2, <1>3

LEMMA RunIsWhole ==
  ASSUME MarketInv, NEW s, Run(s), s.last # 0
  PROVE  Recovery!Whole(s)
<1>1. /\ s.last \in 1..Trades /\ s.first \in 1..s.last
      /\ s.fed = Recovery!Once(s.first..s.last) /\ pAt[s.first] <= Decides
  BY DEF Run
<1>2. Trades \in Nat \ {0} /\ Decides \in Nat BY PartsAssumption DEF Recovery!RecoveryAssumption
<1>3. s.first \in 1..Trades BY <1>1, <1>2
<1>4. ASSUME NEW i \in 1..Trades, pAt[i] \in (Decides + 1)..(pAt[s.last] - 1) PROVE s.fed[i] = 1
  <2>1. pAt[i] \in Nat /\ pAt[s.first] \in Nat /\ pAt[s.last] \in Nat BY <1>1, <1>3 DEF MarketInv
  <2>2. Decides < pAt[i] /\ pAt[i] < pAt[s.last] BY <1>2, <1>4, <2>1
  <2>3. ~(i < s.first) /\ i # s.first BY <1>1, <1>2, <1>3, <2>1, <2>2 DEF MarketInv
  <2>4. ~(s.last < i) /\ i # s.last BY <1>1, <1>2, <2>1, <2>2 DEF MarketInv
  <2>5. i \in s.first..s.last BY <1>1, <1>2, <2>3, <2>4
  <2> QED BY <1>1, <2>5 DEF Recovery!Once, Recovery!Id
<1> QED BY <1>1, <1>4 DEF Recovery!Whole, Recovery!Id

LEMMA RecoveryHolds ==
  ASSUME RecoveryInv PROVE Recovery!RecoveredWhole
BY RunIsWhole DEF RecoveryInv, Recovery!RecoveredWhole

\* The rows of a page that follow on what was fed make a longer run; only the
\* last of them may be the one that ends the position.
LEMMA FedRuns ==
  ASSUME MarketInv, NEW s \in Checkpoint, Run(s), s.status = "PENDING", pEnds \notin Recovery!Heard(s),
         NEW rows, rows \subseteq 1..Trades,
         ~Recovery!Broken(s, Recovery!Consumed(rows))
  PROVE  LET t == Recovery!Fed(s, Recovery!Consumed(rows)) IN
         /\ t \in Checkpoint /\ Run(t) /\ t.status = "PENDING"
         /\ pEnds \in Recovery!Heard(t) => t.last = pEnds /\ t.last # 0
<1> DEFINE took == Recovery!Consumed(rows)
           lo == Recovery!Min(took)
           hi == Recovery!Max(took)
<1>0. Trades \in Nat \ {0} BY PartsAssumption DEF Recovery!RecoveryAssumption
<1>1. /\ took \subseteq 1..Trades /\ took \subseteq rows
      /\ \A i \in took : \A j \in rows : j < i => ~Recovery!Stops(j)
  BY DEF Recovery!Consumed
<1>2. CASE took = {}
  <2>1. Recovery!Fed(s, took) = s BY <1>2 DEF Recovery!Fed
  <2> QED BY <2>1
<1>3. CASE took # {}
  <2> HIDE DEF took
  <2>1. lo \in took /\ hi \in took /\ \A n \in took : lo <= n /\ n <= hi BY <1>1, <1>3, MinMax
  <2>2. /\ took = lo..hi /\ ~(s.last = 0 /\ pAt[lo] > Decides)
        /\ s.last # 0 => lo = s.last + 1
    BY <1>3 DEF Recovery!Broken, Recovery!BrokenInside, took
  <2>3. PICK t : t = Recovery!Fed(s, took) OBVIOUS
  <2>4. t = [s EXCEPT !.first = IF @ = 0 THEN lo ELSE @, !.last = hi, 
                       !.fed = [i \in 1..Trades |-> IF i \in took THEN @[i] + 1 ELSE @[i]]]
    BY <1>3, <2>3 DEF Recovery!Fed, Recovery!Id
  <2> HIDE DEF lo, hi
  <2>5. lo \in 1..Trades /\ hi \in 1..Trades /\ lo <= hi BY <1>0, <1>1, <2>1
  <2>6. /\ t \in Checkpoint /\ t.status = "PENDING" /\ t.last = hi
        /\ t.fed = [i \in 1..Trades |-> IF i \in took THEN s.fed[i] + 1 ELSE s.fed[i]]
        /\ t.first = IF s.first = 0 THEN lo ELSE s.first
    <3>1. PICK x : x = IF s.first = 0 THEN lo ELSE s.first OBVIOUS
    <3>2. PICK u : u = [i \in 1..Trades |-> IF i \in took THEN s.fed[i] + 1 ELSE s.fed[i]] OBVIOUS
    <3>3. t = [s EXCEPT !.first = x, !.last = hi, !.fed = u] BY <2>4, <3>1, <3>2
    <3>4. x \in Nat /\ hi \in Nat /\ u \in [1..Trades -> Nat]
      <4>1. s.first \in Nat /\ s.fed \in [1..Trades -> Nat] BY DEF Checkpoint
      <4>2. x \in Nat /\ hi \in Nat BY <1>0, <2>5, <3>1, <4>1
      <4>3. u \in [1..Trades -> Nat]
        <5>1. ASSUME NEW i \in 1..Trades PROVE s.fed[i] \in Nat /\ s.fed[i] + 1 \in Nat
          <6>1. s.fed[i] \in Nat BY <4>1
          <6> QED BY <6>1
        <5> QED BY <3>2, <5>1
      <4> QED BY <4>2, <4>3
    <3>5. t \in Checkpoint /\ t.status = s.status /\ t.last = hi /\ t.fed = u /\ t.first = x
      BY <3>3, <3>4 DEF Checkpoint
    <3> QED BY <3>1, <3>2, <3>5
  <2>7. Run(t)
    <3>1. CASE s.last = 0
      <4>1. t.first = lo /\ s.fed = Recovery!Once({}) BY <2>6, <3>1 DEF Run
      <4>3. t.fed = Recovery!Once(lo..hi) BY <2>2, <2>6, <4>1 DEF Recovery!Once, Recovery!Id
      <4>2. pAt[lo] <= Decides
        <5>1. pAt[lo] \in Nat /\ Decides \in Nat
          BY <2>5, PartsAssumption DEF Recovery!RecoveryAssumption, MarketInv
        <5> QED BY <2>2, <3>1, <5>1
      <4> QED BY <1>0, <2>5, <2>6, <4>1, <4>2, <4>3 DEF Run
    <3>2. CASE s.last # 0
      <4>1. /\ s.last \in 1..Trades /\ s.first \in 1..s.last
            /\ s.fed = Recovery!Once(s.first..s.last) /\ pAt[s.first] <= Decides
        BY <3>2 DEF Run
      <4>2. t.first = s.first /\ lo = s.last + 1 BY <2>2, <2>6, <3>2, <4>1
      <4>3. ASSUME NEW i \in 1..Trades
            PROVE  t.fed[i] = IF i \in t.first..t.last THEN 1 ELSE 0
        <5>1. s.fed[i] = IF i \in s.first..s.last THEN 1 ELSE 0 BY <4>1 DEF Recovery!Once, Recovery!Id
        <5>2. t.fed[i] = IF i \in took THEN s.fed[i] + 1 ELSE s.fed[i] BY <2>6
        <5>3. i \in took <=> i \in (s.last + 1)..hi BY <2>2, <4>2
        <5> QED BY <1>0, <2>5, <2>6, <4>1, <4>2, <5>1, <5>2, <5>3
      <4>4. t.fed = Recovery!Once(t.first..t.last)
        BY <2>6, <4>3 DEF Recovery!Once, Recovery!Id
      <4> QED BY <1>0, <2>5, <2>6, <4>1, <4>2, <4>4 DEF Run
    <3> QED BY <3>1, <3>2
  <2>8. ASSUME pEnds \in Recovery!Heard(t) PROVE t.last = pEnds /\ t.last # 0
    <3>1. pEnds \in took BY <2>6, <2>8 DEF Recovery!Heard, Recovery!Id
    <3>2. ~(pEnds < hi) BY <1>1, <2>1, <3>1 DEF Recovery!Stops
    <3>3. pEnds <= hi /\ pEnds \in 1..Trades BY <1>1, <2>1, <3>1
    <3> QED BY <1>0, <2>5, <2>6, <3>2, <3>3
  <2> QED BY <2>3, <2>6, <2>7, <2>8 DEF took
<1> QED BY <1>2, <1>3

LEMMA RecoveryInit ==
  ASSUME Recovery!Init PROVE RecoveryInv
<1>1. Trades \in Nat \ {0} /\ Days \in Nat \ {0} /\ DayLen \in Nat \ {0}
  BY PartsAssumption DEF Recovery!RecoveryAssumption
<1>2. /\ pAt \in [1..Trades -> Recovery!Instant]
      /\ \A i \in 2..Trades : pAt[i - 1] <= pAt[i]
      /\ pNow = Decides + 1 /\ Decides \in Nat /\ pDisk = Recovery!Empty /\ pMem = None /\ pLabel = None
  BY PartsAssumption DEF Recovery!RecoveryAssumption, Recovery!Init, Recovery!Id
<1>3. pAt \in [1..Trades -> Nat] BY <1>2 DEF Recovery!Instant
<1>4. ASSUME NEW i \in 1..Trades, NEW j \in 1..Trades, i < j PROVE pAt[i] <= pAt[j]
  <2> DEFINE T == {k \in 0..(j - i) : pAt[i] <= pAt[i + k]}
  <2>1. 0 \in T
    <3>1. i + 0 = i /\ 0 \in 0..(j - i) /\ pAt[i] \in Nat BY <1>1, <1>3, <1>4
    <3> QED BY <3>1
  <2>2. ASSUME NEW k \in 1..(j - i), k - 1 \in T PROVE k \in T
    <3>1. i + k \in 2..Trades /\ (i + k) - 1 = i + (k - 1) /\ k \in 0..(j - i) /\ (i + k) - 1 \in 1..Trades
      BY <1>1, <1>4
    <3>2. pAt[i] <= pAt[(i + k) - 1] BY <2>2, <3>1
    <3>3. pAt[(i + k) - 1] <= pAt[i + k] BY <1>2, <3>1
    <3>4. pAt[i] \in Nat /\ pAt[(i + k) - 1] \in Nat /\ pAt[i + k] \in Nat BY <1>1, <1>3, <3>1
    <3>5. pAt[i] <= pAt[i + k] BY <3>2, <3>3, <3>4
    <3> QED BY <3>1, <3>5
  <2>3. j - i \in T
    <3>1. j - i \in Nat /\ j - i \in 0..(j - i) BY <1>1, <1>4
    <3> HIDE DEF T
    <3> QED BY <2>1, <2>2, <3>1, Stepwise
  <2>4. i + (j - i) = j BY <1>1
  <2> QED BY <2>3, <2>4
<1>5. pDisk \in Checkpoint /\ Run(pDisk) /\ pDisk.status = "PENDING" /\ Recovery!Heard(pDisk) = {}
  <2>1. /\ pDisk.last = 0 /\ pDisk.first = 0 /\ pDisk.fed = Recovery!Once({})
        /\ pDisk.status = "PENDING"
    BY <1>2 DEF Recovery!Empty
  <2>2. Recovery!Once({}) \in [1..Trades -> Nat] BY DEF Recovery!Once, Recovery!Id
  <2>3. pDisk \in Checkpoint BY <1>2, <2>2 DEF Recovery!Empty, Checkpoint
  <2>4. Run(pDisk) BY <2>1 DEF Run
  <2> QED BY <2>1, <2>3, <2>4, HeardOfRun
<1> QED BY <1>2, <1>3, <1>4, <1>5 DEF RecoveryInv, MarketInv

\* A checkpoint that may be gone on with.
Open(s) == s \in Checkpoint /\ Run(s) /\ s.status = "PENDING" /\ pEnds \notin Recovery!Heard(s)

LEMMA TakeKeeps ==
  ASSUME RecoveryInv, NEW s, Open(s), NEW rows, rows \subseteq 1..Trades, pMem # None,
         UNCHANGED <<pAt, pEnds, pHoles, pNow>>, Recovery!Take(rows, s)
  PROVE  RecoveryInv'
<1> DEFINE took == Recovery!Consumed(rows)
<1>1. PICK t : t = Recovery!Fed(s, took) OBVIOUS
<1>2. \/ Recovery!Broken(s, took) /\ Recovery!Defer
      \/ /\ ~Recovery!Broken(s, took) /\ ~Recovery!Finished(t)
         /\ pDisk' = t /\ UNCHANGED pLabel
         /\ pMem' = None \/ pMem' = [pMem EXCEPT !.s = t]
      \/ /\ ~Recovery!Broken(s, took) /\ Recovery!Finished(t) /\ t.last # pEnds
         /\ pDisk' = [t EXCEPT !.status = "NO_FILL"] /\ UNCHANGED pLabel /\ pMem' = None
      \/ /\ ~Recovery!Broken(s, took) /\ t.last = pEnds /\ t.last # 0
         /\ pLabel' = t /\ pMem' = None
         /\ pDisk' = [t EXCEPT !.status = "VERIFIED"] \/ UNCHANGED pDisk
  BY <1>1 DEF Recovery!Take, Recovery!Save, Recovery!Leave, Recovery!Finished
<1>3. CASE Recovery!Defer BY <1>3 DEF Recovery!Defer, Recovery!Leave, RecoveryInv, MarketInv, Run
<1> HIDE DEF took
<1>4. ASSUME ~Recovery!Broken(s, took)
      PROVE  /\ t \in Checkpoint /\ Run(t) /\ t.status = "PENDING"
             /\ pEnds \in Recovery!Heard(t) => t.last = pEnds /\ t.last # 0
  BY <1>1, <1>4, FedRuns DEF took, Open, RecoveryInv
<1>5. MarketInv' BY DEF RecoveryInv, MarketInv
<1>6. ASSUME NEW x PROVE Run(x)' <=> Run(x) BY DEF Run
<1>7. ASSUME ~Recovery!Broken(s, took), NEW why \in {"NO_FILL", "VERIFIED"}, NEW x,
             x = [t EXCEPT !.status = why]
      PROVE  x \in Checkpoint /\ Run(x) /\ x.status = why /\ x.last = t.last /\ x.fed = t.fed
  <2>1. t \in Checkpoint /\ Run(t) BY <1>4, <1>7
  <2>2. x \in Checkpoint /\ x.status = why /\ x.last = t.last /\ x.fed = t.fed /\ x.first = t.first
    BY <1>7, <2>1 DEF Checkpoint
  <2> QED BY <2>1, <2>2 DEF Run
<1>8. CASE /\ ~Recovery!Broken(s, took) /\ ~Recovery!Finished(t)
           /\ pDisk' = t /\ UNCHANGED pLabel
           /\ pMem' = None \/ pMem' = [pMem EXCEPT !.s = t]
  <2>1. t.last = pEnds /\ t.last # 0 => Recovery!Finished(t)
    BY DEF Recovery!Finished, Recovery!Stops
  <2>2. pEnds \notin Recovery!Heard(t) BY <1>4, <1>8, <2>1
  <2>3. Run(pDisk)' /\ (pLabel # None => Run(pLabel)') BY <1>4, <1>6, <1>8 DEF RecoveryInv, Run
  <2>4. pMem' # None => pMem' \in [s : Checkpoint, asof : Nat] /\ pMem'.s = t
    <3> SUFFICES ASSUME pMem' # None PROVE pMem' \in [s : Checkpoint, asof : Nat] /\ pMem'.s = t
      OBVIOUS
    <3>1. pMem' = [pMem EXCEPT !.s = t] /\ pMem \in [s : Checkpoint, asof : Nat] BY <1>8 DEF RecoveryInv
    <3>2. t \in Checkpoint BY <1>4, <1>8
    <3> QED BY <3>1, <3>2
  <2>5. pDisk' \in Checkpoint /\ pDisk'.status = "PENDING" /\ pEnds' \notin Recovery!Heard(pDisk') /\ pNow' \in Nat
    BY <1>4, <1>8, <2>2 DEF RecoveryInv
  <2>6. pMem' # None => Run(pMem.s)' BY <1>4, <1>6, <1>8, <2>4 DEF Run
  <2>7. (pLabel # None => pLabel \in Checkpoint /\ Run(pLabel) /\ pLabel.last # 0 /\ pLabel.last = pEnds)'
    BY <1>8, <2>3 DEF RecoveryInv
  <2> QED BY <1>4, <1>5, <1>8, <2>2, <2>3, <2>4, <2>5, <2>6, <2>7 DEF RecoveryInv
<1>9. CASE /\ ~Recovery!Broken(s, took) /\ Recovery!Finished(t) /\ t.last # pEnds
           /\ pDisk' = [t EXCEPT !.status = "NO_FILL"] /\ UNCHANGED pLabel /\ pMem' = None
  <2>1. pEnds \notin Recovery!Heard(t) /\ t.last # 0 BY <1>4, <1>9 DEF Recovery!Finished
  <2>2. /\ pDisk' \in Checkpoint /\ Run(pDisk') /\ pDisk'.status = "NO_FILL"
        /\ pDisk'.last = t.last /\ pDisk'.fed = t.fed
    BY <1>7, <1>9
  <2>3. Recovery!Heard(pDisk') = Recovery!Heard(t) BY <2>2 DEF Recovery!Heard
  <2> QED BY <1>5, <1>9, <2>1, <2>2, <2>3 DEF RecoveryInv, Run
<1>10. CASE /\ ~Recovery!Broken(s, took) /\ t.last = pEnds /\ t.last # 0
            /\ pLabel' = t /\ pMem' = None
            /\ pDisk' = [t EXCEPT !.status = "VERIFIED"] \/ UNCHANGED pDisk
  <2>1. CASE UNCHANGED pDisk BY <1>4, <1>5, <1>10, <2>1 DEF RecoveryInv, Run
  <2>2. CASE pDisk' = [t EXCEPT !.status = "VERIFIED"]
    <3>1. pDisk' \in Checkpoint /\ Run(pDisk') /\ pDisk'.status = "VERIFIED"
      BY <1>7, <1>10, <2>2
    <3> QED BY <1>4, <1>5, <1>10, <3>1 DEF RecoveryInv, Run
  <2> QED BY <1>10, <2>1, <2>2
<1> QED BY <1>2, <1>3, <1>8, <1>9, <1>10

LEMMA RecoveryNext ==
  ASSUME RecoveryInv, Recovery!Next PROVE RecoveryInv'
<1>1. ASSUME UNCHANGED <<pAt, pEnds, pDisk, pLabel>>, pNow' \in Nat,
             pMem' # None =>
               /\ pMem' \in [s : Checkpoint, asof : Nat]
               /\ pMem'.s \in Checkpoint /\ Run(pMem'.s) /\ pMem'.s.status = "PENDING" /\ pEnds \notin Recovery!Heard(pMem'.s)
      PROVE  RecoveryInv'
  BY <1>1 DEF RecoveryInv, MarketInv, Run
<1>2. pNow \in Nat /\ pDisk \in Checkpoint /\ Run(pDisk) BY DEF RecoveryInv
<1>3. CASE Recovery!Tick
  <2>1. UNCHANGED <<pAt, pEnds, pDisk, pMem, pLabel>> /\ pNow' = pNow + 1 BY <1>3 DEF Recovery!Tick
  <2> QED BY <1>1, <1>2, <2>1 DEF RecoveryInv
<1>4. CASE Recovery!Begin
  <2>1. /\ UNCHANGED <<pNow, pAt, pEnds, pDisk, pLabel>> /\ pDisk.status = "PENDING"
        /\ pMem' = [s |-> pDisk, asof |-> pNow]
    BY <1>4 DEF Recovery!Begin, Recovery!market
  <2>2. pMem' \in [s : Checkpoint, asof : Nat] /\ pMem'.s = pDisk BY <1>2, <2>1
  <2>3. pEnds \notin Recovery!Heard(pDisk) BY <2>1 DEF RecoveryInv
  <2> QED BY <1>1, <1>2, <2>1, <2>2, <2>3
<1>5. CASE Recovery!Rest
  <2>1. pMem # None /\ UNCHANGED <<pNow, pAt, pEnds, pHoles>>
    BY <1>5 DEF Recovery!Rest, Recovery!market
  <2>2. Recovery!Defer \/ Recovery!Take(Recovery!RestPage, pMem.s) BY <1>5 DEF Recovery!Rest
  <2>3. CASE Recovery!Defer
    <3>1. UNCHANGED <<pDisk, pLabel>> /\ pMem' = None BY <2>3 DEF Recovery!Defer, Recovery!Leave
    <3> QED BY <1>1, <1>2, <2>1, <3>1
  <2>4. CASE Recovery!Take(Recovery!RestPage, pMem.s)
    <3>1. Open(pMem.s) BY <2>1 DEF RecoveryInv, Open
    <3>2. Recovery!RestPage \subseteq 1..Trades
      BY DEF Recovery!RestPage, Recovery!FirstOf, Recovery!Id
    <3> QED BY <2>1, <2>4, <3>1, <3>2, TakeKeeps
  <2> QED BY <2>2, <2>3, <2>4
<1>6. ASSUME NEW n \in 0..Page, Recovery!Archive(n) PROVE RecoveryInv'
  <2> DEFINE s == pMem.s
             d == Recovery!ArchiveDay(s)
             listed == Recovery!Listed(s)
             rows == {i \in Recovery!FirstOf(listed) : Recovery!Cardinality({j \in listed : j < i}) < n}
             took == Recovery!Consumed(rows)
             step == [s EXCEPT !.day = IF listed = {} THEN d + 1 ELSE d,
                               !.from = IF s.day = d /\ listed # {} THEN @ ELSE 0]
             placed == IF took = {} THEN s ELSE [s EXCEPT !.day = d, !.from = Recovery!Max(took)]
  <2>1. pMem # None /\ UNCHANGED <<pNow, pAt, pEnds, pHoles>>
    BY <1>6 DEF Recovery!Archive, Recovery!market
  <2>2. \/ Recovery!Defer
        \/ pDisk' = step /\ pMem' = [pMem EXCEPT !.s = step] /\ UNCHANGED pLabel
        \/ rows # {} /\ Recovery!Take(rows, placed)
    BY <1>6 DEF Recovery!Archive, Recovery!Save
  <2>3. /\ Open(s) /\ s \in Checkpoint /\ Run(s) /\ s.status = "PENDING" /\ pEnds \notin Recovery!Heard(s)
        /\ pMem \in [s : Checkpoint, asof : Nat]
    BY <2>1 DEF RecoveryInv, Open
  <2>4. d \in Int
    <3>1. DayLen \in Nat \ {0} /\ Decides \in Nat BY PartsAssumption DEF Recovery!RecoveryAssumption
    <3>2. s.day \in Int BY <2>3 DEF Checkpoint
    <3>3. Recovery!Start(s) \in Int
      <4>1. s.last # 0 => pAt[s.last] \in Nat BY <2>3 DEF Run, RecoveryInv, MarketInv
      <4> QED BY <3>1, <4>1 DEF Recovery!Start
    <3>4. Recovery!Day(Recovery!Start(s)) \in Int BY <3>1, <3>3 DEF Recovery!Day
    <3> QED BY <3>2, <3>4 DEF Recovery!ArchiveDay
  <2>5. rows \subseteq 1..Trades
    BY DEF Recovery!FirstOf, Recovery!Listed, Recovery!Id
  <2>6. Trades \in Nat BY PartsAssumption DEF Recovery!RecoveryAssumption
  <2>7. took \subseteq 1..Trades BY <2>5 DEF Recovery!Consumed
  <2> HIDE DEF s, d, listed, rows, took
  \* The place in the archive is no part of the run.
  <2>8. ASSUME NEW x, NEW day \in Int, NEW from \in Nat, x = [s EXCEPT !.day = day, !.from = from]
        PROVE  Open(x)
    <3>1. /\ x \in Checkpoint /\ x.first = s.first /\ x.last = s.last /\ x.fed = s.fed
          /\ x.status = s.status
      BY <2>3, <2>8 DEF Checkpoint
    <3>2. Recovery!Heard(x) = Recovery!Heard(s) BY <3>1 DEF Recovery!Heard
    <3> QED BY <2>3, <3>1, <3>2 DEF Open, Run
  <2>9. CASE Recovery!Defer
    <3>1. UNCHANGED <<pDisk, pLabel>> /\ pMem' = None BY <2>9 DEF Recovery!Defer, Recovery!Leave
    <3> QED BY <1>1, <1>2, <2>1, <3>1
  <2>10. CASE pDisk' = step /\ pMem' = [pMem EXCEPT !.s = step] /\ UNCHANGED pLabel
    <3>1. PICK day : day = IF listed = {} THEN d + 1 ELSE d OBVIOUS
    <3>2. PICK from : from = IF s.day = d /\ listed # {} THEN s.from ELSE 0 OBVIOUS
    <3>3. day \in Int /\ from \in Nat
      <4>1. s.from \in Nat BY <2>3 DEF Checkpoint
      <4> QED BY <2>4, <3>1, <3>2, <4>1
    <3>4. PICK x : x = step OBVIOUS
    <3>5. x = [s EXCEPT !.day = day, !.from = from] BY <3>1, <3>2, <3>4
    <3>6. Open(x) BY <2>8, <3>3, <3>5
    <3>7. pDisk' = x /\ pMem' = [pMem EXCEPT !.s = x] BY <2>10, <3>4
    <3>8. pMem' \in [s : Checkpoint, asof : Nat] /\ pMem'.s = x BY <2>3, <3>6, <3>7 DEF Open
    <3>9. /\ x \in Checkpoint /\ Run(x) /\ x.status = "PENDING" /\ pEnds \notin Recovery!Heard(x)
      BY <3>6 DEF Open
    <3> QED BY <2>1, <2>10, <3>7, <3>8, <3>9 DEF RecoveryInv, MarketInv, Run
  <2>11. CASE rows # {} /\ Recovery!Take(rows, placed)
    <3>1. PICK x : x = placed OBVIOUS
    <3>2. Open(x)
      <4>1. CASE took = {} BY <2>3, <3>1, <4>1
      <4>2. CASE took # {}
        <5>1. Recovery!Max(took) \in took BY <2>7, <4>2, MinMax
        <5>2. Recovery!Max(took) \in Nat
          <6>1. Recovery!Max(took) \in 1..Trades BY <2>7, <5>1
          <6> QED BY <2>6, <6>1
        <5>3. x = [s EXCEPT !.day = d, !.from = Recovery!Max(took)] BY <3>1, <4>2
        <5> QED BY <2>4, <2>8, <5>2, <5>3
      <4> QED BY <4>1, <4>2
    <3>3. Recovery!Take(rows, x) BY <2>11, <3>1
    <3> QED BY <2>1, <2>5, <3>2, <3>3, TakeKeeps
  <2> QED BY <2>2, <2>9, <2>10, <2>11
<1>7. CASE Recovery!Ends
  <2>1. UNCHANGED <<pNow, pAt, pEnds, pDisk, pLabel>> /\ pMem' = None
    BY <1>7 DEF Recovery!Ends, Recovery!Defer, Recovery!Leave, Recovery!market
  <2> QED BY <1>1, <1>2, <2>1
<1> QED BY <1>3, <1>4, <1>5, <1>6, <1>7 DEF Recovery!Next

RecoveryRuns == part = "recovery" => RecoveryInv
LEMMA RecoveryAlways == PartsSpec => []RecoveryRuns
<1>1. PartsInit => RecoveryRuns BY RecoveryInit DEF PartsInit, RecoveryRuns
<1>2. RecoveryRuns /\ [PartsNext]_partsVars => RecoveryRuns'
  <2> SUFFICES ASSUME RecoveryInv, part = "recovery", [PartsNext]_partsVars PROVE RecoveryInv'
    BY DEF RecoveryRuns, PartsNext, partsVars
  <2>1. CASE UNCHANGED partsVars
    BY <2>1 DEF partsVars, recovery, RecoveryInv, MarketInv, Run
  <2>2. CASE Recovery!Next BY <2>2, RecoveryNext
  <2> QED BY <2>1, <2>2 DEF PartsNext
<1> QED BY <1>1, <1>2, PTL DEF PartsSpec

\* However the pages and archives were read, with whatever holes and wherever
\* the work was interrupted, a recovered outcome rests on every trade.
THEOREM RecoveredOutcomesWhole == PartsSpec => []RecoveredWhole
<1>1. RecoveryRuns => RecoveredWhole BY RecoveryHolds DEF RecoveryRuns, RecoveredWhole
<1> QED BY <1>1, RecoveryAlways, PTL

-----------------------------------------------------------------------------
(* The venues that are followed (MarketDesk).                              *)
LockType == [by : {None, "scan", "watch"}, at : {"idle", "probe", "stopping", "rows", "admit"},
             to : Venue \cup {None}, pinned : SUBSET Symbol, verified : SUBSET Symbol]
DeskTypes ==
  /\ primary \in Venue /\ peers \subseteq Venue
  /\ coll \in [Venue -> [sel : SUBSET Symbol, req : SUBSET Symbol]]
  /\ setups \subseteq Desk!Setup
  /\ context \in [Symbol -> Desk!Market \cup {None}]
  /\ cache \in [Symbol -> Venue \cup {None}]
  /\ refresh = None \/ refresh \in [symbol : Symbol, inst : Venue, asked : Venue]
  /\ lock \in LockType

\* Every followed setup's symbol is required of its venue and streamed by it.
Required == \A f \in seen : f[2] \in coll[f[1]].req /\ f[2] \in coll[f[1]].sel
\* A venue without a collector has no setup that is followed.
Collected == \A f \in seen : f[1] = primary \/ f[1] \in peers
\* A primary that is about to be stopped has none either.
StopsEmpty ==
  lock.at = "stopping" =>
    lock.to \in Venue /\ lock.to # primary /\ \A f \in seen : f[1] # primary
DeskInv == DeskTypes /\ seen \subseteq Desk!Followed /\ Required /\ Collected /\ StopsEmpty

LEMMA PendingFacts ==
  ASSUME DeskTypes
  PROVE  /\ \A v : Desk!Pending(v) \subseteq Symbol
         /\ \A f \in Desk!Followed : f[1] \in Venue /\ f[2] \in Symbol /\ f[2] \in Desk!Pending(f[1])
         /\ \A p \in setups : p.source \in Venue /\ p.symbol \in Symbol
<1>1. \A p \in setups : p.source \in Venue /\ p.symbol \in Symbol BY DEF DeskTypes, Desk!Setup
<1>2. \A v : Desk!Pending(v) \subseteq Symbol BY <1>1 DEF Desk!Pending
<1>3. ASSUME NEW f \in Desk!Followed PROVE f[1] \in Venue /\ f[2] \in Symbol /\ f[2] \in Desk!Pending(f[1])
  <2>1. PICK p \in setups : f = <<p.source, p.symbol>> BY DEF Desk!Followed
  <2>2. f[1] = p.source /\ f[2] = p.symbol BY <2>1
  <2> QED BY <1>1, <2>1, <2>2 DEF Desk!Pending
<1> QED BY <1>1, <1>2, <1>3

\* A selection has what is required, and nothing but what was asked for.
LEMMA ChosenFacts ==
  ASSUME NEW asked, NEW req, asked \subseteq Symbol, req \subseteq Symbol, NEW sel \in Desk!Chosen(asked, req)
  PROVE  sel \subseteq Symbol /\ req \subseteq sel
BY DEF Desk!Chosen

\* A subscription of one venue that requires its setups' symbols, or what it
\* required before.
LEMMA SubscribeKeeps ==
  ASSUME DeskInv, NEW v \in Venue, NEW sel, sel \subseteq Symbol, NEW req, req \subseteq sel,
         req = Desk!Pending(v) \/ req = coll[v].req,
         Desk!Subscribe(v, sel, req)
  PROVE  /\ coll' \in [Venue -> [sel : SUBSET Symbol, req : SUBSET Symbol]]
         /\ \A f \in seen : f[2] \in coll'[f[1]].req /\ f[2] \in coll'[f[1]].sel
<1>1. coll \in [Venue -> [sel : SUBSET Symbol, req : SUBSET Symbol]] BY DEF DeskInv, DeskTypes
<1>2. PICK row : row = [sel |-> sel, req |-> req] OBVIOUS
<1>3. row \in [sel : SUBSET Symbol, req : SUBSET Symbol] /\ row.sel = sel /\ row.req = req BY <1>2
<1>4. coll' = [coll EXCEPT ![v] = row] BY <1>2 DEF Desk!Subscribe
<1>5. coll' \in [Venue -> [sel : SUBSET Symbol, req : SUBSET Symbol]] BY <1>1, <1>3, <1>4
<1>6. ASSUME NEW f \in seen PROVE f[2] \in coll'[f[1]].req /\ f[2] \in coll'[f[1]].sel
  <2>1. f[1] \in Venue /\ f[2] \in Desk!Pending(f[1]) BY PendingFacts DEF DeskInv
  <2>2. f[2] \in coll[f[1]].req /\ f[2] \in coll[f[1]].sel BY DEF DeskInv, Required
  <2>3. CASE f[1] = v
    <3>1. coll'[f[1]] = row BY <1>1, <1>4, <2>3
    <3>2. f[2] \in req BY <2>1, <2>2, <2>3
    <3> QED BY <1>3, <3>1, <3>2
  <2>4. CASE f[1] # v
    <3>1. coll'[f[1]] = coll[f[1]] BY <1>1, <1>4, <2>1, <2>4
    <3> QED BY <2>2, <3>1
  <2> QED BY <2>3, <2>4
<1> QED BY <1>5, <1>6

\* A new plan is bound to a venue and takes none of the others away.
LEMMA GenerateFacts ==
  ASSUME DeskTypes, NEW s \in Symbol, NEW inst \in Venue, NEW bars \in Venue,
         Desk!Generate(s, inst, bars)
  PROVE  setups' \subseteq Desk!Setup /\ Desk!Followed \subseteq Desk!Followed'
<1>1. setups' \subseteq Desk!Setup /\ setups \subseteq setups'
  BY DEF Desk!Generate, Desk!SaveCandidates, Desk!DiscoverHorizons, DeskTypes, Desk!Setup
<1> QED BY <1>1 DEF Desk!Followed

LEMMA DeskInit ==
  ASSUME Desk!Init PROVE DeskInv
<1>1. FirstVenue \in Venue /\ None \notin Venue BY PartsAssumption DEF Desk!DeskAssumption
<1>2. /\ primary = FirstVenue /\ peers = {} /\ coll = [v \in Venue |-> Desk!Closed]
      /\ setups = {} /\ seen = {} /\ context = [s \in Symbol |-> None] /\ cache = [s \in Symbol |-> None]
      /\ refresh = None /\ lock = Desk!Free
  BY DEF Desk!Init
<1>3. Desk!Closed \in [sel : SUBSET Symbol, req : SUBSET Symbol] BY DEF Desk!Closed
<1>4. /\ lock \in [by : {None, "scan", "watch"}, at : {"idle", "probe", "stopping", "rows", "admit"},
               to : Venue \cup {None}, pinned : SUBSET Symbol, verified : SUBSET Symbol]
      /\ lock.at # "stopping"
  BY <1>2 DEF Desk!Free
<1>5. /\ primary \in Venue /\ peers \subseteq Venue /\ setups \subseteq Desk!Setup
      /\ coll \in [Venue -> [sel : SUBSET Symbol, req : SUBSET Symbol]]
  BY <1>1, <1>2, <1>3
<1>6. /\ context \in [Symbol -> Desk!Market \cup {None}] /\ cache \in [Symbol -> Venue \cup {None}]
      /\ (refresh = None \/ refresh \in [symbol : Symbol, inst : Venue, asked : Venue])
  BY <1>2
<1>7. lock \in LockType BY <1>4 DEF LockType
<1>8. DeskTypes BY <1>5, <1>6, <1>7 DEF DeskTypes
<1> QED BY <1>2, <1>4, <1>8 DEF DeskInv, Required, Collected, StopsEmpty

\* A step that leaves the primary and forgets no venue's collector.
LEMMA SteadyKeeps ==
  ASSUME DeskInv, primary' = primary, peers \subseteq peers', peers' \subseteq Venue,
         coll' \in [Venue -> [sel : SUBSET Symbol, req : SUBSET Symbol]],
         \A f \in seen : f[2] \in coll'[f[1]].req /\ f[2] \in coll'[f[1]].sel,
         setups' \subseteq Desk!Setup, seen' \subseteq seen, seen' \subseteq Desk!Followed',
         context' \in [Symbol -> Desk!Market \cup {None}], cache' \in [Symbol -> Venue \cup {None}],
         refresh' = None \/ refresh' \in [symbol : Symbol, inst : Venue, asked : Venue],
         lock' \in LockType, lock' = lock \/ lock'.at # "stopping"
  PROVE  DeskInv'
<1>1. DeskTypes' BY DEF DeskInv, DeskTypes, LockType
<1>2. (seen \subseteq Desk!Followed)' OBVIOUS
<1>3. Required' BY DEF Required
<1>4. Collected' BY DEF DeskInv, Collected
<1>5. StopsEmpty' BY DEF DeskInv, StopsEmpty
<1> QED BY <1>1, <1>2, <1>3, <1>4, <1>5 DEF DeskInv

LEMMA LockFacts ==
  ASSUME DeskTypes
  PROVE  /\ Desk!Free \in LockType /\ Desk!Free.at # "stopping"
         /\ Desk!Leave \in LockType /\ Desk!Leave.at # "stopping"
         /\ \A a \in {"idle", "probe", "rows", "admit"} : \A by \in {"scan", "watch"} :
              \A l : l = [Desk!Free EXCEPT !.by = by, !.at = a] => l \in LockType /\ l.at # "stopping"
         /\ \A x \in SUBSET Symbol : \A l : l = [lock EXCEPT !.at = "admit", !.pinned = x] =>
              l \in LockType /\ l.at # "stopping"
         /\ \A s \in Symbol : \A l : l = [lock EXCEPT !.verified = @ \cup {s}] => l \in LockType /\ l.at = lock.at
         /\ \A v \in Venue : \A l : l = [lock EXCEPT !.at = "stopping", !.to = v] => l \in LockType /\ l.to = v
         /\ lock \in LockType
<1>1. Desk!Free \in LockType /\ Desk!Free.at # "stopping" BY DEF Desk!Free, LockType
<1>2. lock \in LockType BY DEF DeskTypes, LockType
<1>3. Desk!Leave \in LockType /\ Desk!Leave.at # "stopping"
  <2>1. PICK l : l = [lock EXCEPT !.at = "rows"] OBVIOUS
  <2>2. l \in LockType /\ l.at = "rows" BY <1>2, <2>1 DEF LockType
  <2> QED BY <1>1, <2>1, <2>2 DEF Desk!Leave
<1>4. ASSUME NEW a \in {"idle", "probe", "rows", "admit"}, NEW by \in {"scan", "watch"},
             NEW l, l = [Desk!Free EXCEPT !.by = by, !.at = a]
      PROVE  l \in LockType /\ l.at # "stopping"
  BY <1>1, <1>4 DEF LockType
<1>5. ASSUME NEW x \in SUBSET Symbol, NEW l, l = [lock EXCEPT !.at = "admit", !.pinned = x]
      PROVE  l \in LockType /\ l.at # "stopping"
  BY <1>2, <1>5 DEF LockType
<1>6. ASSUME NEW s \in Symbol, NEW l, l = [lock EXCEPT !.verified = @ \cup {s}]
      PROVE  l \in LockType /\ l.at = lock.at
  <2>1. PICK x : x = lock.verified \cup {s} OBVIOUS
  <2>2. x \in SUBSET Symbol /\ l = [lock EXCEPT !.verified = x] BY <1>2, <1>6, <2>1 DEF LockType
  <2> QED BY <1>2, <2>2 DEF LockType
<1>7. ASSUME NEW v \in Venue, NEW l, l = [lock EXCEPT !.at = "stopping", !.to = v]
      PROVE  l \in LockType /\ l.to = v
  BY <1>2, <1>7 DEF LockType
<1> QED BY <1>1, <1>2, <1>3, <1>4, <1>5, <1>6, <1>7

\* The switch of the primary.
LEMMA PromoteKeeps ==
  ASSUME DeskInv, NEW v \in Venue, v # primary, NEW stays,
         \/ stays = {primary}
         \/ stays = {} /\ \A f \in seen : f[1] # primary,
         Desk!Promote(v, stays)
  PROVE  DeskInv'
<1>1. /\ primary' = v /\ peers' = (peers \cup stays) \ {v}
      /\ coll' = [c \in Venue |-> IF (c = primary /\ stays = {}) \/ (c = v /\ v \notin peers)
                                  THEN Desk!Closed ELSE coll[c]]
      /\ context' = [s \in Symbol |-> None] /\ cache' = [s \in Symbol |-> None]
      /\ lock' = Desk!Leave /\ UNCHANGED <<setups, seen>>
      /\ refresh' = None \/ refresh' = refresh
  BY DEF Desk!Promote, Desk!Cut
<1>2. DeskTypes BY DEF DeskInv
<1>3. coll' \in [Venue -> [sel : SUBSET Symbol, req : SUBSET Symbol]]
  <2>1. Desk!Closed \in [sel : SUBSET Symbol, req : SUBSET Symbol] BY DEF Desk!Closed
  <2> QED BY <1>1, <1>2, <2>1 DEF DeskTypes
<1>4. lock' \in LockType /\ lock'.at # "stopping" BY <1>1, <1>2, LockFacts
<1>5. DeskTypes' BY <1>1, <1>2, <1>3, <1>4 DEF DeskTypes, LockType
<1>6. (seen \subseteq Desk!Followed)' BY <1>1 DEF DeskInv, Desk!Followed
<1>7. ASSUME NEW f \in seen
      PROVE  /\ f[1] \in Venue /\ coll'[f[1]] = coll[f[1]]
             /\ f[1] = v \/ f[1] \in peers'
  <2>1. f[1] \in Venue BY PendingFacts DEF DeskInv
  <2>2. f[1] = primary \/ f[1] \in peers BY DEF DeskInv, Collected
  <2>3. ~(f[1] = primary /\ stays = {}) /\ ~(f[1] = v /\ v \notin peers) BY <2>2
  <2>4. coll'[f[1]] = coll[f[1]] BY <1>1, <2>1, <2>3
  <2> QED BY <1>1, <2>1, <2>2, <2>4
<1>8. Required' BY <1>1, <1>7 DEF DeskInv, Required
<1>9. Collected' BY <1>1, <1>7 DEF Collected
<1>10. StopsEmpty' BY <1>4 DEF StopsEmpty
<1> QED BY <1>5, <1>6, <1>8, <1>9, <1>10 DEF DeskInv

\* The end of some collectors: what they followed is to be followed anew.
LEMMA ShutKeeps ==
  ASSUME DeskInv, NEW gone, Desk!Shut(gone), UNCHANGED <<primary, ready, setups, context, cache, lock>>
  PROVE  DeskInv'
<1>1. /\ peers' = peers \ gone
      /\ coll' = [v \in Venue |-> IF v \in gone \cap peers THEN Desk!Closed ELSE coll[v]]
      /\ refresh' = None \/ refresh' = refresh
      /\ seen' = {f \in seen : f[1] \notin gone}
  BY DEF Desk!Shut, Desk!Cut
<1>2. DeskTypes'
  <2>1. Desk!Closed \in [sel : SUBSET Symbol, req : SUBSET Symbol] BY DEF Desk!Closed
  <2>2. coll' \in [Venue -> [sel : SUBSET Symbol, req : SUBSET Symbol]]
    BY <1>1, <2>1 DEF DeskInv, DeskTypes
  <2> QED BY <1>1, <2>2 DEF DeskInv, DeskTypes
<1>3. (seen \subseteq Desk!Followed)' BY <1>1 DEF DeskInv, Desk!Followed
<1>4. ASSUME NEW f \in seen' PROVE f \in seen /\ f[1] \notin gone /\ coll'[f[1]] = coll[f[1]]
  <2>1. f \in seen /\ f[1] \notin gone BY <1>1
  <2>2. f[1] \in Venue BY <2>1, PendingFacts DEF DeskInv
  <2> QED BY <1>1, <2>1, <2>2
<1>5. Required' BY <1>4 DEF DeskInv, Required
<1>6. Collected' BY <1>1, <1>4 DEF DeskInv, Collected
<1>7. StopsEmpty' BY <1>4 DEF DeskInv, StopsEmpty
<1> QED BY <1>2, <1>3, <1>5, <1>6, <1>7 DEF DeskInv

LEMMA TickKeepsDesk ==
  ASSUME DeskInv, Desk!Tick PROVE DeskInv'
<1>1. PICK sel \in [Venue -> SUBSET Symbol] :
        /\ \A v \in Venue :
            v = primary \/ Desk!Restored(v) => sel[v] \in Desk!Retained(v, Desk!Pending(v), Desk!Pending(v))
        /\ coll' = [v \in Venue |-> [sel |-> sel[v],
             req |-> IF v = primary \/ Desk!Restored(v) THEN Desk!Pending(v) ELSE coll[v].req]]
  BY DEF Desk!Tick
<1>2. /\ peers' = peers \cup {v \in Venue \ {primary} : Desk!Restored(v)}
      /\ seen' = IF lock.at = "stopping" THEN seen ELSE Desk!Followed
      /\ UNCHANGED <<primary, setups, context, cache, refresh, lock>>
  BY DEF Desk!Tick
<1>3. DeskTypes /\ seen \subseteq Desk!Followed BY DEF DeskInv
<1>4. coll' \in [Venue -> [sel : SUBSET Symbol, req : SUBSET Symbol]]
  <2> SUFFICES ASSUME NEW v \in Venue
               PROVE  [sel |-> sel[v],
                        req |-> IF v = primary \/ Desk!Restored(v) THEN Desk!Pending(v) ELSE coll[v].req]
                      \in [sel : SUBSET Symbol, req : SUBSET Symbol]
    BY <1>1
  <2>1. coll[v].req \subseteq Symbol /\ Desk!Pending(v) \subseteq Symbol BY <1>3, PendingFacts DEF DeskTypes
  <2> QED BY <2>1
<1>5. ASSUME NEW f \in Desk!Followed
      PROVE  /\ f[2] \in coll'[f[1]].req /\ f[2] \in coll'[f[1]].sel
             /\ f[1] = primary \/ f[1] \in peers'
  <2>1. f[1] \in Venue /\ f[2] \in Desk!Pending(f[1]) BY <1>3, PendingFacts
  <2>2. PICK v \in Venue : v = f[1] BY <2>1
  <2>3. Desk!Restored(v) BY <2>1, <2>2 DEF Desk!Restored
  <2>4. coll'[v] = [sel |-> sel[v], req |-> Desk!Pending(v)] BY <1>1, <2>3
  <2>5. sel[v] \in Desk!Retained(v, Desk!Pending(v), Desk!Pending(v)) BY <1>1, <2>3
  <2>6. Desk!Pending(v) \subseteq sel[v]
    <3>1. Desk!Pending(v) \subseteq Symbol /\ coll[v].sel \cup Desk!Pending(v) \subseteq Symbol
      BY <1>3, PendingFacts DEF DeskTypes
    <3> QED BY <2>5, <3>1, ChosenFacts DEF Desk!Retained
  <2>7. v = primary \/ v \in peers' BY <1>2, <2>3
  <2> QED BY <2>1, <2>2, <2>4, <2>6, <2>7
<1>6. DeskTypes' BY <1>2, <1>3, <1>4 DEF DeskTypes
<1>7. seen' \subseteq Desk!Followed BY <1>2, <1>3
<1>8. (seen \subseteq Desk!Followed)' BY <1>2, <1>7 DEF Desk!Followed
<1>9. Required' BY <1>5, <1>7 DEF Required
<1>10. Collected' BY <1>2, <1>5, <1>7 DEF Collected
<1>11. StopsEmpty' BY <1>2 DEF DeskInv, StopsEmpty
<1> QED BY <1>6, <1>8, <1>9, <1>10, <1>11 DEF DeskInv

LEMMA RestartKeeps ==
  ASSUME DeskInv, Desk!Restart PROVE DeskInv'
<1>1. DeskTypes /\ seen \subseteq Desk!Followed BY DEF DeskInv
<1>2. PICK v \in Venue : \E known : Desk!Boot(v, known)
  <2>1. FirstVenue \in Venue BY PartsAssumption DEF Desk!DeskAssumption
  <2> QED BY <1>1, <2>1, PendingFacts DEF Desk!Restart
<1>3. /\ primary' = v /\ peers' = {u \in Venue \ {v} : Desk!Pending(u) # {}}
      /\ coll' = [u \in Venue |-> [sel |-> Desk!Pending(u), req |-> Desk!Pending(u)]]
      /\ context' = [s \in Symbol |-> None] /\ cache' = [s \in Symbol |-> None]
      /\ refresh' = None /\ lock' = Desk!Free
  BY <1>2 DEF Desk!Boot
<1>4. UNCHANGED <<setups, seen>> BY DEF Desk!Restart
<1>5. coll' \in [Venue -> [sel : SUBSET Symbol, req : SUBSET Symbol]] BY <1>1, <1>3, PendingFacts
<1>6. lock' \in LockType /\ lock'.at # "stopping" BY <1>1, <1>3, LockFacts
<1>7. DeskTypes' BY <1>1, <1>3, <1>4, <1>5, <1>6 DEF DeskTypes, LockType
<1>8. (seen \subseteq Desk!Followed)' BY <1>1, <1>4 DEF Desk!Followed
<1>9. ASSUME NEW f \in seen
      PROVE  /\ f[2] \in coll'[f[1]].req /\ f[2] \in coll'[f[1]].sel
             /\ f[1] = v \/ f[1] \in peers'
  <2>1. f[1] \in Venue /\ f[2] \in Desk!Pending(f[1]) BY <1>1, PendingFacts
  <2> QED BY <1>3, <2>1
<1>10. Required' BY <1>4, <1>9 DEF Required
<1>11. Collected' BY <1>3, <1>4, <1>9 DEF Collected
<1>12. StopsEmpty' BY <1>6 DEF StopsEmpty
<1> QED BY <1>7, <1>8, <1>10, <1>11, <1>12 DEF DeskInv

LEMMA DeskNext ==
  ASSUME DeskInv, Desk!Next PROVE DeskInv'
<1>1. DeskTypes /\ seen \subseteq Desk!Followed /\ primary \in Venue /\ peers \subseteq Venue
  BY DEF DeskInv, DeskTypes
<1>2. \A v \in Venue : \A asked, req : \A sel \in Desk!Retained(v, asked, req) :
        asked \subseteq Symbol /\ req \subseteq Symbol => sel \subseteq Symbol /\ req \subseteq sel
  <2> SUFFICES ASSUME NEW v \in Venue, NEW asked, NEW req, NEW sel \in Desk!Retained(v, asked, req),
                      asked \subseteq Symbol, req \subseteq Symbol
               PROVE  sel \subseteq Symbol /\ req \subseteq sel
    OBVIOUS
  <2>1. coll[v].sel \cup asked \subseteq Symbol BY <1>1 DEF DeskTypes
  <2> QED BY <2>1, ChosenFacts DEF Desk!Retained
<1>3. \A v : Desk!Pending(v) \subseteq Symbol BY <1>1, PendingFacts
<1>4. \A v \in Venue : coll[v].req \subseteq Symbol /\ coll[v].sel \subseteq Symbol BY <1>1 DEF DeskTypes
\* What a step leaves alone.
<1>5. /\ coll \in [Venue -> [sel : SUBSET Symbol, req : SUBSET Symbol]]
      /\ \A f \in seen : f[2] \in coll[f[1]].req /\ f[2] \in coll[f[1]].sel
      /\ setups \subseteq Desk!Setup
      /\ context \in [Symbol -> Desk!Market \cup {None}] /\ cache \in [Symbol -> Venue \cup {None}]
      /\ refresh = None \/ refresh \in [symbol : Symbol, inst : Venue, asked : Venue]
      /\ lock \in LockType
  BY <1>1 DEF DeskInv, DeskTypes, Required, LockType
<1>6. UNCHANGED setups => Desk!Followed' = Desk!Followed BY DEF Desk!Followed
<1>7. CASE Desk!Tick BY <1>7, TickKeepsDesk
<1>8. CASE Desk!ScanBegin
  <2>1. /\ UNCHANGED <<primary, peers, coll, setups, context, cache, refresh, seen>>
        /\ \E a \in {"idle", "probe", "rows", "admit"} : lock' = [Desk!Free EXCEPT !.by = "scan", !.at = a]
    BY <1>8 DEF Desk!ScanBegin, Desk!desk, Desk!others
  <2>2. lock' \in LockType /\ lock'.at # "stopping" BY <1>1, <2>1, LockFacts
  <2> QED BY <1>1, <1>5, <1>6, <2>1, <2>2, SteadyKeeps
<1>9. CASE Desk!WatchBegin
  <2>1. PICK sel \in Desk!Retained(primary, Desk!Pending(primary), Desk!Pending(primary)) :
          Desk!Subscribe(primary, sel, Desk!Pending(primary))
    BY <1>9 DEF Desk!WatchBegin
  <2>2. /\ UNCHANGED <<primary, peers, setups, context, cache, refresh, seen>>
        /\ lock' = [Desk!Free EXCEPT !.by = "watch", !.at = "probe"]
    BY <1>9 DEF Desk!WatchBegin, Desk!others
  <2>3. sel \subseteq Symbol /\ Desk!Pending(primary) \subseteq sel BY <1>1, <1>2, <1>3, <2>1
  <2>4. /\ coll' \in [Venue -> [sel : SUBSET Symbol, req : SUBSET Symbol]]
        /\ \A f \in seen : f[2] \in coll'[f[1]].req /\ f[2] \in coll'[f[1]].sel
    BY <1>1, <2>1, <2>3, SubscribeKeeps
  <2>5. lock' \in LockType /\ lock'.at # "stopping" BY <1>1, <2>2, LockFacts
  <2> QED BY <1>1, <1>5, <1>6, <2>2, <2>4, <2>5, SteadyKeeps
<1>10. CASE Desk!ProbeNone \/ Desk!ProbeSame
  <2>1. /\ UNCHANGED <<primary, peers, coll, setups, context, cache, refresh, seen>>
        /\ lock' = Desk!Free \/ lock' = Desk!Leave
    BY <1>10 DEF Desk!ProbeNone, Desk!ProbeSame, Desk!others
  <2>2. lock' \in LockType /\ lock'.at # "stopping" BY <1>1, <2>1, LockFacts
  <2> QED BY <1>1, <1>5, <1>6, <2>1, <2>2, SteadyKeeps
<1>11. CASE Desk!Stopped
  <2>1. lock.at = "stopping" /\ Desk!Promote(lock.to, {}) BY <1>11 DEF Desk!Stopped
  <2>2. lock.to \in Venue /\ lock.to # primary /\ \A f \in seen : f[1] # primary
    BY <2>1 DEF DeskInv, StopsEmpty
  <2> QED BY <2>1, <2>2, PromoteKeeps
<1>12. ASSUME NEW v \in Venue, Desk!ProbeOther(v) PROVE DeskInv'
  <2>1. CASE Desk!Kept # {}
    <3>1. Desk!Kept = {primary} /\ v # primary /\ Desk!Promote(v, Desk!Kept)
      BY <1>12, <2>1 DEF Desk!ProbeOther, Desk!Kept
    <3> QED BY <3>1, PromoteKeeps
  <2>2. CASE Desk!Kept = {}
    <3>1. /\ v # primary /\ lock' = [lock EXCEPT !.at = "stopping", !.to = v]
          /\ UNCHANGED <<primary, peers, coll, setups, context, cache, refresh, seen>>
      BY <1>12, <2>2 DEF Desk!ProbeOther, Desk!desk, Desk!others
    <3>2. Desk!Pending(primary) = {} BY <2>2 DEF Desk!Kept
    <3>3. lock' \in LockType /\ lock'.to = v BY <1>1, <3>1, LockFacts
    <3>4. \A f \in seen : f[1] # primary
      <4>1. \A f \in seen : f[2] \in Desk!Pending(f[1]) BY <1>1, PendingFacts
      <4> QED BY <3>2, <4>1
    <3>5. DeskTypes' BY <1>1, <3>1, <3>3 DEF DeskTypes, LockType
    <3>6. (seen \subseteq Desk!Followed)' /\ Required' /\ Collected'
      BY <1>6, <3>1 DEF DeskInv, Required, Collected
    <3>7. StopsEmpty' BY <3>1, <3>3, <3>4 DEF StopsEmpty
    <3> QED BY <3>5, <3>6, <3>7 DEF DeskInv
  <2> QED BY <2>1, <2>2
<1>13. CASE Desk!ScanRows
  <2>1. /\ UNCHANGED <<primary, peers, coll, setups, context, cache, refresh, seen>>
        /\ lock' = [lock EXCEPT !.at = "admit", !.pinned = Desk!Pending(primary)]
    BY <1>13 DEF Desk!ScanRows, Desk!desk, Desk!others
  <2>2. lock' \in LockType /\ lock'.at # "stopping" BY <1>1, <1>3, <2>1, LockFacts
  <2> QED BY <1>1, <1>5, <1>6, <2>1, <2>2, SteadyKeeps
<1>14. ASSUME NEW s \in Symbol, Desk!Admit(s) PROVE DeskInv'
  <2>1. /\ lock.at = "admit" /\ UNCHANGED <<primary, peers, refresh, seen>>
        /\ cache' = [cache EXCEPT ![s] = Desk!Bars(s)]
        /\ context' = [context EXCEPT ![s] = [inst |-> primary, bars |-> Desk!Bars(s)]]
        /\ Desk!Generate(s, primary, Desk!Bars(s))
        /\ lock' = [lock EXCEPT !.verified = @ \cup {s}]
    BY <1>14 DEF Desk!Admit, Desk!desk, Desk!others
  <2>2. \/ \E sel \in Desk!Retained(primary, {s}, coll[primary].req) :
              Desk!Subscribe(primary, sel, coll[primary].req)
        \/ UNCHANGED coll
    BY <1>14 DEF Desk!Admit
  <2>3. PICK b \in Venue : b = Desk!Bars(s) BY <1>1, <1>5 DEF Desk!Bars
  <2>4. cache' \in [Symbol -> Venue \cup {None}] BY <1>5, <2>1, <2>3
  <2>5. context' \in [Symbol -> Desk!Market \cup {None}]
    <3>1. PICK m : m = [inst |-> primary, bars |-> b] OBVIOUS
    <3>2. m \in Desk!Market BY <1>1, <3>1 DEF Desk!Market
    <3>3. context' = [context EXCEPT ![s] = m] BY <2>1, <2>3, <3>1
    <3> QED BY <1>5, <3>2, <3>3
  <2>6. setups' \subseteq Desk!Setup /\ Desk!Followed \subseteq Desk!Followed'
    BY <1>1, <2>1, <2>3, GenerateFacts
  <2>7. lock' \in LockType /\ lock'.at # "stopping" BY <1>1, <2>1, LockFacts
  <2>8. /\ coll' \in [Venue -> [sel : SUBSET Symbol, req : SUBSET Symbol]]
        /\ \A f \in seen : f[2] \in coll'[f[1]].req /\ f[2] \in coll'[f[1]].sel
    <3>1. CASE UNCHANGED coll BY <1>5, <3>1
    <3>2. CASE \E sel \in Desk!Retained(primary, {s}, coll[primary].req) :
                 Desk!Subscribe(primary, sel, coll[primary].req)
      <4>1. PICK sel \in Desk!Retained(primary, {s}, coll[primary].req) :
              Desk!Subscribe(primary, sel, coll[primary].req)
        BY <3>2
      <4>2. sel \subseteq Symbol /\ coll[primary].req \subseteq sel BY <1>1, <1>2, <1>4, <4>1
      <4> QED BY <1>1, <4>1, <4>2, SubscribeKeeps
    <3> QED BY <2>2, <3>1, <3>2
  <2> QED BY <1>1, <1>5, <2>1, <2>4, <2>5, <2>6, <2>7, <2>8, SteadyKeeps
<1>15. CASE Desk!ScanSelects
  <2>1. /\ UNCHANGED <<primary, peers, setups, context, cache, refresh, seen>> /\ lock' = Desk!Free
    BY <1>15 DEF Desk!ScanSelects, Desk!desk, Desk!others
  <2> DEFINE retained == lock.pinned \cap coll[primary].sel
  <2>2. PICK more \in SUBSET lock.verified :
          \E sel \in Desk!Chosen(retained \cup more, coll[primary].req) :
            Desk!Subscribe(primary, sel, coll[primary].req)
    BY <1>15 DEF Desk!ScanSelects
  <2>3. PICK sel \in Desk!Chosen(retained \cup more, coll[primary].req) :
          Desk!Subscribe(primary, sel, coll[primary].req)
    BY <2>2
  <2>4. retained \cup more \subseteq Symbol BY <1>1, <1>4, <1>5 DEF LockType
  <2>5. sel \subseteq Symbol /\ coll[primary].req \subseteq sel
    <3> HIDE DEF retained
    <3> QED BY <1>1, <1>4, <2>3, <2>4, ChosenFacts
  <2>6. /\ coll' \in [Venue -> [sel : SUBSET Symbol, req : SUBSET Symbol]]
        /\ \A f \in seen : f[2] \in coll'[f[1]].req /\ f[2] \in coll'[f[1]].sel
    BY <1>1, <2>3, <2>5, SubscribeKeeps
  <2>7. lock' \in LockType /\ lock'.at # "stopping" BY <1>1, <2>1, LockFacts
  <2> QED BY <1>1, <1>5, <1>6, <2>1, <2>6, <2>7, SteadyKeeps
<1>16. CASE Desk!ScanFails
  <2>1. /\ UNCHANGED <<primary, peers, setups, context, cache, refresh, seen>> /\ lock' = Desk!Free
    BY <1>16 DEF Desk!ScanFails, Desk!desk, Desk!others
  <2>2. PICK sel \in Desk!Retained(primary, Desk!Pending(primary), Desk!Pending(primary)) :
          Desk!Subscribe(primary, IF lock.at = "stopping" THEN Desk!Pending(primary) ELSE sel,
                         Desk!Pending(primary))
    BY <1>16 DEF Desk!ScanFails
  <2>3. PICK x : x = IF lock.at = "stopping" THEN Desk!Pending(primary) ELSE sel OBVIOUS
  <2>4. sel \subseteq Symbol /\ Desk!Pending(primary) \subseteq sel BY <1>1, <1>2, <1>3, <2>2
  <2>5. x \subseteq Symbol /\ Desk!Pending(primary) \subseteq x BY <1>3, <2>3, <2>4
  <2>6. Desk!Subscribe(primary, x, Desk!Pending(primary)) BY <2>2, <2>3
  <2>7. /\ coll' \in [Venue -> [sel : SUBSET Symbol, req : SUBSET Symbol]]
        /\ \A f \in seen : f[2] \in coll'[f[1]].req /\ f[2] \in coll'[f[1]].sel
    BY <1>1, <2>5, <2>6, SubscribeKeeps
  <2>8. lock' \in LockType /\ lock'.at # "stopping" BY <1>1, <2>1, LockFacts
  <2> QED BY <1>1, <1>5, <1>6, <2>1, <2>7, <2>8, SteadyKeeps
<1>17. ASSUME NEW s \in Symbol, Desk!RefreshAsks(s) PROVE DeskInv'
  <2>1. /\ UNCHANGED <<primary, peers, coll, setups, context, cache, lock, seen>> /\ context[s] # None
        /\ refresh' = [symbol |-> s, inst |-> context[s].inst, asked |-> primary]
    BY <1>17 DEF Desk!RefreshAsks, Desk!desk
  <2>2. context[s].inst \in Venue BY <1>5, <2>1 DEF Desk!Market
  <2>3. refresh' \in [symbol : Symbol, inst : Venue, asked : Venue] BY <1>1, <2>1, <2>2
  <2> QED BY <1>1, <1>5, <1>6, <2>1, <2>3, SteadyKeeps
<1>18. CASE Desk!RefreshGets
  <2> DEFINE s == refresh.symbol
  <2>1. /\ UNCHANGED <<primary, peers, coll, lock, seen>> /\ refresh # None /\ refresh' = None
        /\ cache' = [cache EXCEPT ![s] = refresh.asked]
        /\ context' = [context EXCEPT ![s] = [inst |-> refresh.inst, bars |-> refresh.asked]]
        /\ Desk!Generate(s, refresh.inst, refresh.asked)
    BY <1>18 DEF Desk!RefreshGets, Desk!desk
  <2>2. s \in Symbol /\ refresh.inst \in Venue /\ refresh.asked \in Venue BY <1>5, <2>1
  <2> HIDE DEF s
  <2>3. cache' \in [Symbol -> Venue \cup {None}] BY <1>5, <2>1, <2>2
  <2>4. context' \in [Symbol -> Desk!Market \cup {None}]
    <3>1. PICK m : m = [inst |-> refresh.inst, bars |-> refresh.asked] OBVIOUS
    <3>2. m \in Desk!Market BY <2>2, <3>1 DEF Desk!Market
    <3>3. context' = [context EXCEPT ![s] = m] BY <2>1, <3>1
    <3> QED BY <1>5, <3>2, <3>3
  <2>5. setups' \subseteq Desk!Setup /\ Desk!Followed \subseteq Desk!Followed'
    BY <1>1, <2>1, <2>2, GenerateFacts
  <2> QED BY <1>1, <1>5, <2>1, <2>3, <2>4, <2>5, SteadyKeeps
<1>19. CASE Desk!RefreshFails
  <2>1. UNCHANGED <<primary, peers, coll, setups, context, cache, lock, seen>> /\ refresh' = None
    BY <1>19 DEF Desk!RefreshFails, Desk!desk
  <2> QED BY <1>1, <1>5, <1>6, <2>1, SteadyKeeps
<1>20. CASE Desk!RunnerRound
  <2>1. /\ UNCHANGED <<primary, coll, setups, context, cache, refresh, lock, seen>>
        /\ peers' = peers \cup {v \in Venue \ {primary} : jobs[v] = "none"}
    BY <1>20 DEF Desk!RunnerRound, Desk!market
  <2> QED BY <1>1, <1>5, <1>6, <2>1, SteadyKeeps
<1>21. ASSUME NEW v \in Venue, Desk!Collect(v) PROVE DeskInv'
  <2>1. UNCHANGED <<primary, peers, setups, context, cache, refresh, lock, seen>>
    BY <1>21 DEF Desk!Collect, Desk!market
  <2>2. PICK asked \in SUBSET (Desk!Pending(primary) \cup coll[primary].sel) :
          \E sel \in Desk!Chosen(asked, Desk!Pending(v)) : Desk!Subscribe(v, sel, Desk!Pending(v))
    BY <1>21 DEF Desk!Collect
  <2>3. PICK sel \in Desk!Chosen(asked, Desk!Pending(v)) : Desk!Subscribe(v, sel, Desk!Pending(v))
    BY <2>2
  <2>4. asked \subseteq Symbol BY <1>1, <1>3, <1>4, <2>2
  <2>5. sel \subseteq Symbol /\ Desk!Pending(v) \subseteq sel BY <1>3, <2>3, <2>4, ChosenFacts
  <2>6. /\ coll' \in [Venue -> [sel : SUBSET Symbol, req : SUBSET Symbol]]
        /\ \A f \in seen : f[2] \in coll'[f[1]].req /\ f[2] \in coll'[f[1]].sel
    BY <2>3, <2>5, SubscribeKeeps
  <2> QED BY <1>1, <1>5, <1>6, <2>1, <2>6, SteadyKeeps
<1>22. ASSUME NEW v \in Venue, Desk!CollectorDies(v) PROVE DeskInv'
  BY <1>22, ShutKeeps DEF Desk!CollectorDies, Desk!market
<1>23. CASE Desk!RunnerFails
  BY <1>23, ShutKeeps DEF Desk!RunnerFails, Desk!market
<1>24. CASE Desk!Supervise
  <2>1. UNCHANGED <<primary, peers, coll, setups, context, cache, refresh, lock, seen>>
    BY <1>24 DEF Desk!Supervise, Desk!market
  <2> QED BY <1>1, <1>5, <1>6, <2>1, SteadyKeeps
<1>25. CASE Desk!Restart BY <1>25, RestartKeeps
<1>26. ASSUME NEW p \in setups, Desk!SetupEnds(p) PROVE DeskInv'
  <2>1. /\ UNCHANGED <<primary, peers, coll, context, cache, refresh, lock>>
        /\ setups' = setups \ {p} /\ seen' = seen \ {<<p.source, p.symbol>>}
    BY <1>26 DEF Desk!SetupEnds
  <2>2. seen' \subseteq Desk!Followed'
    <3> SUFFICES ASSUME NEW f \in seen' PROVE f \in Desk!Followed' OBVIOUS
    <3>1. f \in Desk!Followed /\ f # <<p.source, p.symbol>> BY <1>1, <2>1
    <3>2. PICK q \in setups : f = <<q.source, q.symbol>> BY <3>1 DEF Desk!Followed
    <3>3. q \in setups' BY <2>1, <3>1, <3>2
    <3> QED BY <3>2, <3>3 DEF Desk!Followed
  <2>3. setups' \subseteq Desk!Setup /\ seen' \subseteq seen BY <1>5, <2>1
  <2> QED BY <1>1, <1>5, <2>1, <2>2, <2>3, SteadyKeeps
<1> QED
  BY <1>7, <1>8, <1>9, <1>10, <1>11, <1>12, <1>13, <1>14, <1>15, <1>16, <1>17, <1>18, <1>19,
     <1>20, <1>21, <1>22, <1>23, <1>24, <1>25, <1>26
  DEF Desk!Next

\* A setup that a tick has followed has its symbol streamed by its own venue,
\* through every switch of the primary, scan and round of the collectors.
THEOREM FollowedStreams == PartsSpec => []HistoryKept
<1>1. PartsInit => DeskInv BY DeskInit DEF PartsInit
<1>2. DeskInv /\ [PartsNext]_partsVars => DeskInv'
  <2> SUFFICES ASSUME DeskInv, [PartsNext]_partsVars PROVE DeskInv' OBVIOUS
  <2>1. CASE UNCHANGED desk
    <3>1. UNCHANGED <<primary, peers, coll, setups, context, cache, refresh, lock, seen>>
      BY <2>1 DEF desk
    <3> QED BY <3>1 DEF DeskInv, DeskTypes, Required, Collected, StopsEmpty, Desk!Followed
  <2>2. CASE Desk!Next BY <2>2, DeskNext
  <2> QED BY <2>1, <2>2 DEF PartsNext, partsVars
<1>3. DeskInv => HistoryKept BY DEF DeskInv, Required, HistoryKept, Desk!HistoryKept
<1> QED BY <1>1, <1>2, <1>3, PTL DEF PartsSpec

=============================================================================
