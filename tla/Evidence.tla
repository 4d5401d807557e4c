------------------------------ MODULE Evidence ------------------------------
(***************************************************************************)
(* The recorded segments once they are published, and the tasks that read, *)
(* pack and release them: leases.py (RangeLease), packing.py (compact),    *)
(* retention.py, recording_maintenance.py (planning, execute) and the      *)
(* replay of ml/recordings.py.                                             *)
(*                                                                         *)
(* A segment is a raw file with its sidecars, or a member of an archive    *)
(* that a row of segment_packs names.  A tombstone says that it has been   *)
(* released.  Files and rows change in separate steps, and a task may die  *)
(* between any two of them.  Tasks keep out of each other's way with       *)
(* leases on ranges of segments, which expire when they are not renewed.   *)
(*                                                                         *)
(* All segments are older than the retention floor, and segment n covers   *)
(* the instant n.  A lease is the set of segments its range covers.  One   *)
(* task replays, any number maintain: the storage loop of the desk, and    *)
(* the commands that compact or prune.                                     *)
(***************************************************************************)
EXTENDS Naturals, FiniteSets

CONSTANTS
  Segments,     \* number of segments
  Zips,         \* number of archive names in use at a time
  Maintainers,  \* tasks that compact or clean
  Reader,       \* the task that replays
  Nobody, Dead, \* no cleanup claim; the claim of a task that died
  MaxFaults     \* bound on crashes, expiries, failures, damage and late consumers

ASSUME EvidenceAssumption ==
  /\ Segments \in Nat /\ Zips \in Nat /\ MaxFaults \in Nat
  /\ Reader \notin Maintainers
  /\ Nobody \notin Maintainers /\ Dead \notin Maintainers /\ Nobody # Dead

Segs == 1..Segments
Zip == 1..Zips
Holders == Maintainers \cup {Reader}

VARIABLES
  raw,      \* segments whose raw file is in segments/
  rest,     \* segments whose parquet and manifest are there
  archive,  \* segment_packs: the archive of a segment, 0 for none
  disk,     \* archives in packs/
  good,     \* the members that can be read from each archive
  tomb,     \* pruned_segment: rows
  marked,   \* archives that a writer_batch_v212: row protects
  lease,    \* what the live lease of each task covers
  ghost,    \* what unexpired leases of tasks that died cover
  claim,    \* cleanup_run_claim_v212
  failed,   \* cleanup_verification_v212 says FAILED
  at,       \* where each maintainer is
  work,     \* the segments it holds leases for
  todo,     \* those it has not dealt with
  keep,     \* the members of a pack it retains
  old, new, \* the archives it replaces and writes, 0 for none
  items, packs, orphans,  \* what planning found: segments, packs, archives without rows
  rAt,      \* where the reader is
  rCheck,   \* segments its preflight has not verified
  rTodo,    \* segments it has not replayed
  need,     \* segments that an active setup or an unresolved outcome needs
  broken,   \* history: the reader's lease expired under it
  overran,  \* history: a maintainer released segments without a live lease
  late,     \* history: needed since the release was decided
  rotten,   \* history: an archived copy was damaged
  faults

files == <<raw, rest, archive, disk, good, tomb, marked>>
leases == <<lease, ghost>>
owner == <<claim, failed>>
job == <<work, todo, keep, old, new>>
plan == <<items, packs, orphans>>
tasks == <<at, job, plan>>
reader == <<rAt, rCheck, rTodo, broken>>
consumers == <<need, late>>
vars == <<files, leases, owner, tasks, reader, consumers, overran, rotten, faults>>

-----------------------------------------------------------------------------
Compacting == {"claim", "write", "map", "beat"}
Cleaning == {"planned", "clean", "sweep", "locked", "checked", "copy", "verify", "commit",
             "retired", "item", "release", "tombed"}
MaintainerAt == {"idle", "unlink", "rest"} \cup Compacting \cup Cleaning

Init ==
  /\ raw = Segs /\ rest = Segs
  /\ archive = [s \in Segs |-> 0]
  /\ disk = {} /\ good = [z \in Zip |-> {}]
  /\ tomb = {} /\ marked = {}
  /\ lease = [h \in Holders |-> {}] /\ ghost = [h \in Holders |-> {}]
  /\ claim = Nobody /\ failed = FALSE
  /\ at = [m \in Maintainers |-> "idle"]
  /\ work = [m \in Maintainers |-> {}] /\ todo = work /\ keep = work
  /\ old = [m \in Maintainers |-> 0] /\ new = old
  /\ items = work /\ packs = work /\ orphans = work
  /\ rAt = "idle" /\ rCheck = {} /\ rTodo = {}
  /\ need \in SUBSET Segs
  /\ broken = FALSE /\ overran = FALSE /\ late = {} /\ rotten = {}
  /\ faults = 0

Fault == faults < MaxFaults /\ faults' = faults + 1

-----------------------------------------------------------------------------
(* Files and rows.                                                         *)
Originals == raw \cap rest
Members(z) == {s \in Segs : archive[s] = z}

\* raw_bytes
Readable(s) == s \in raw \/ (archive[s] \in disk /\ s \in good[archive[s]])

\* Members of an archive that archive_health finds valid, or damaged with originals.
Sound(z) == {s \in Members(z) : z \in disk /\ s \in good[z]}
Repairable(z) == {s \in Members(z) \ Sound(z) : s \in Originals}

\* A name drawn for a new archive is not in use, here or in the hands of a task.
InUse(m) == {old[m], new[m]} \cup orphans[m] \cup {p.zip : p \in packs[m]}
Unused ==
  {z \in Zip \ (disk \cup marked) : Members(z) = {} /\ \A m \in Maintainers : z \notin InUse(m)}
Fresh(z) == z \in Unused /\ \A y \in Unused : z <= y

-----------------------------------------------------------------------------
(* Leases.  A maintainer's are exclusive, the reader's are shared.         *)
Exclusive(h) == h # Reader

\* Mutant: readers are not respected.
BlockedByWriters(h, S) ==
  \E g \in Holders : /\ Exclusive(g)
                     /\ \/ g # h /\ lease[g] \cap S # {}
                        \/ ghost[g] \cap S # {}

Blocked(h, S) ==
  \E g \in Holders : /\ Exclusive(h) \/ Exclusive(g)
                     /\ \/ g # h /\ lease[g] \cap S # {}
                        \/ ghost[g] \cap S # {}

Hold(h, S) == lease' = [lease EXCEPT ![h] = S] /\ UNCHANGED ghost
Release(h) == Hold(h, {})

\* overlaps, protection_ranges: what any live lease covers.
Covered == {s \in Segs : \E h \in Holders : s \in lease[h] \cup ghost[h]}

\* The storage lease of a task that went on too long, or whose clock jumped.
Expire(h) ==
  /\ Fault
  /\ lease[h] # {} /\ Release(h)
  /\ broken' = (broken \/ h = Reader)
  /\ UNCHANGED <<files, owner, tasks, rAt, rCheck, rTodo, consumers, overran, rotten>>

\* Nobody renews the leases of a dead task.
GhostExpires(h) ==
  /\ ghost[h] # {} /\ ghost' = [ghost EXCEPT ![h] = {}]
  /\ UNCHANGED <<files, lease, owner, tasks, reader, consumers, overran, rotten, faults>>

-----------------------------------------------------------------------------
(* Positions.                                                              *)
Go(m, pos) == at' = [at EXCEPT ![m] = pos]

TakeJob(m, S, z) ==
  /\ work' = [work EXCEPT ![m] = S] /\ old' = [old EXCEPT ![m] = z]
  /\ todo' = [todo EXCEPT ![m] = {}] /\ keep' = [keep EXCEPT ![m] = {}]
  /\ new' = [new EXCEPT ![m] = 0]

DropJob(m) == TakeJob(m, {}, 0)

DropPlan(m) ==
  /\ items' = [items EXCEPT ![m] = {}] /\ packs' = [packs EXCEPT ![m] = {}]
  /\ orphans' = [orphans EXCEPT ![m] = {}]

Leave(m) == Go(m, "idle") /\ Release(m) /\ DropJob(m) /\ DropPlan(m)

\* The pack or item is dealt with, the cleanup goes on.
EndUnit(m) == Go(m, "clean") /\ Release(m) /\ DropJob(m) /\ UNCHANGED plan

\* What a step of a maintainer leaves alone.
Elsewhere == UNCHANGED <<reader, consumers, rotten>>

-----------------------------------------------------------------------------
(* compact: pack originals, losing nothing.                                *)
Select(m) ==
  LET chosen == {s \in Originals : archive[s] = 0 /\ s \notin Covered}
  IN  /\ at[m] = "idle" /\ Cardinality(chosen) >= 2
      /\ todo' = [todo EXCEPT ![m] = chosen] /\ Go(m, "claim")
      /\ UNCHANGED <<files, leases, owner, work, keep, old, new, plan, overran, faults>>
      /\ Elsewhere

\* One transaction per segment; those that are taken by now are passed over.
ClaimNext(m) ==
  /\ at[m] = "claim"
  /\ \E s \in todo[m] :
       /\ \A t \in todo[m] : s <= t
       /\ todo' = [todo EXCEPT ![m] = @ \ {s}]
       /\ \/ /\ ~Blocked(m, {s}) /\ Hold(m, lease[m] \cup {s})
             /\ work' = [work EXCEPT ![m] = @ \cup {s}]
          \/ Blocked(m, {s}) /\ UNCHANGED <<leases, work>>
  /\ UNCHANGED <<files, owner, at, keep, old, new, plan, overran, faults>> /\ Elsewhere

TooFew(m) ==
  /\ at[m] = "claim" /\ todo[m] = {} /\ Cardinality(work[m]) < 2
  /\ Leave(m)
  /\ UNCHANGED <<files, owner, overran, faults>> /\ Elsewhere

PackMark(m, z) ==
  /\ at[m] = "claim" /\ todo[m] = {} /\ Cardinality(work[m]) >= 2
  /\ Fresh(z)
  /\ marked' = marked \cup {z} /\ new' = [new EXCEPT ![m] = z] /\ Go(m, "write")
  /\ UNCHANGED <<raw, rest, archive, disk, good, tomb, leases, owner, work, todo, keep, old, plan,
                 overran, faults>>
  /\ Elsewhere

\* The archive is written, closed and compared with the originals.
PackWrite(m) ==
  /\ at[m] = "write" /\ work[m] \subseteq Originals
  /\ disk' = disk \cup {new[m]} /\ good' = [good EXCEPT ![new[m]] = work[m]]
  /\ Go(m, "map")
  /\ UNCHANGED <<raw, rest, archive, tomb, marked, leases, owner, job, plan, overran, faults>>
  /\ Elsewhere

\* The rows are inserted together: a segment already packed, or gone, fails all.
PackMap(m) ==
  /\ at[m] = "map"
  /\ \A s \in work[m] : archive[s] = 0 /\ s \in Originals
  /\ archive' = [s \in Segs |-> IF s \in work[m] THEN new[m] ELSE archive[s]]
  /\ Go(m, "beat")
  /\ UNCHANGED <<raw, rest, disk, good, tomb, marked, leases, owner, job, plan, overran, faults>>
  /\ Elsewhere

\* The forced heartbeat of the claims precedes the first removal.
PackBeat(m) ==
  /\ at[m] = "beat" /\ ~Blocked(m, work[m])
  /\ Hold(m, work[m]) /\ todo' = [todo EXCEPT ![m] = work[m]] /\ Go(m, "unlink")
  /\ UNCHANGED <<files, owner, work, keep, old, new, plan, overran, faults>> /\ Elsewhere

PackDone(m) ==
  /\ at[m] = "unlink" /\ todo[m] = {} /\ new[m] # 0
  /\ marked' = marked \ {new[m]} /\ Leave(m)
  /\ UNCHANGED <<raw, rest, archive, disk, good, tomb, owner, overran, faults>> /\ Elsewhere

\* An archive under construction may stay behind, unreadable.
Partial(m) ==
  \/ UNCHANGED disk
  \/ at[m] \in {"write", "copy"} /\ disk' = disk \cup {new[m]}

\* Anything else raises: the context managers remove marker and leases.
PackRaised(m) ==
  /\ at[m] \in Compacting \/ (at[m] \in {"unlink", "rest"} /\ new[m] # 0)
  /\ \/ Fault
     \/ /\ UNCHANGED faults
        /\ \/ at[m] = "write" /\ ~(work[m] \subseteq Originals)
           \/ at[m] = "map" /\ \E s \in work[m] : archive[s] # 0 \/ s \notin Originals
           \/ at[m] = "beat" /\ Blocked(m, work[m])
           \/ at[m] = "unlink" /\ ~(todo[m] \subseteq Originals)
  /\ Partial(m)
  /\ marked' = marked \ {new[m]} /\ Leave(m)
  /\ UNCHANGED <<raw, rest, archive, good, tomb, owner, overran>> /\ Elsewhere

-----------------------------------------------------------------------------
(* Removal of original files, by compaction and by release: the raw file,  *)
(* then its sidecars, one segment after the other.                         *)
UnlinkRaw(m, s) ==
  /\ at[m] = "unlink" /\ s \in todo[m] /\ \A t \in todo[m] : s <= t
  /\ s \in raw \/ new[m] = 0
  /\ raw' = raw \ {s} /\ Go(m, "rest")
  /\ UNCHANGED <<rest, archive, disk, good, tomb, marked, leases, owner, job, plan, overran, faults>>
  /\ Elsewhere

UnlinkRest(m, s) ==
  /\ at[m] = "rest" /\ s \in todo[m] /\ \A t \in todo[m] : s <= t
  /\ rest' = rest \ {s}
  /\ todo' = [todo EXCEPT ![m] = @ \ {s}] /\ Go(m, "unlink")
  /\ UNCHANGED <<raw, archive, disk, good, tomb, marked, leases, owner, work, keep, old, new, plan,
                 overran, faults>>
  /\ Elsewhere

-----------------------------------------------------------------------------
(* prune_recordings: plan, then execute what is still right.               *)

\* classify, for what no lease protects.
Unneeded(s) == s \notin need

Free == {s \in Segs : Unneeded(s) /\ s \notin Covered}

PacksFound ==
  {[zip |-> z, members |-> Members(z)] :
     z \in {y \in disk : Members(y) \cap Free # {} \/ Repairable(y) # {}}}

Plan(m) ==
  /\ at[m] = "idle" /\ claim = Nobody
  /\ items' = [items EXCEPT ![m] = raw \cap Free]
  /\ packs' = [packs EXCEPT ![m] = PacksFound]
  /\ orphans' = [orphans EXCEPT ![m] =
       {z \in disk \ marked : Members(z) = {} /\ \A n \in Maintainers : new[n] # z}]
  /\ Go(m, "planned")
  /\ UNCHANGED <<files, leases, owner, job, overran, faults>> /\ Elsewhere

Begin(m) ==
  /\ at[m] = "planned" /\ claim = Nobody /\ ~failed
  /\ claim' = m /\ Go(m, "clean")
  /\ UNCHANGED <<files, leases, failed, job, plan, overran, faults>> /\ Elsewhere

Refused(m) ==
  /\ at[m] = "planned" /\ (claim # Nobody \/ failed)
  /\ Leave(m)
  /\ UNCHANGED <<files, owner, overran, faults>> /\ Elsewhere

\* done: the claim is renewed before each destructive step.  One that has expired
\* stops this cleanup, and FAILED stops all later ones.
Owns(m) == claim = m

Overrun(m) ==
  /\ at[m] \in {"clean", "sweep", "checked", "release"} /\ ~Owns(m)
  /\ failed' = TRUE /\ UNCHANGED claim
  /\ Leave(m)
  /\ UNCHANGED <<files, overran, faults>> /\ Elsewhere

ClaimExpires ==
  /\ \/ claim = Dead /\ UNCHANGED faults
     \/ claim \in Maintainers /\ Fault
  /\ claim' = Nobody
  /\ UNCHANGED <<files, leases, failed, tasks, reader, consumers, overran, rotten>>

\* Archives without rows, under a lease of everything.
SweepLock(m) ==
  /\ at[m] = "clean" /\ orphans[m] # {}
  /\ \/ ~Blocked(m, Segs) /\ Hold(m, Segs) /\ Go(m, "sweep") /\ UNCHANGED orphans
     \/ Blocked(m, Segs) /\ orphans' = [orphans EXCEPT ![m] = {}] /\ UNCHANGED <<leases, at>>
  /\ UNCHANGED <<files, owner, job, items, packs, overran, faults>> /\ Elsewhere

\* The grace of an hour covers the archives that tasks are about to map.
Sweepable(z) == z \in disk \ marked /\ Members(z) = {}

Sweep(m, z) ==
  /\ at[m] = "sweep" /\ Owns(m) /\ z \in orphans[m]
  /\ orphans' = [orphans EXCEPT ![m] = @ \ {z}]
  /\ disk' = IF Sweepable(z) THEN disk \ {z} ELSE disk
  /\ good' = IF Sweepable(z) THEN [good EXCEPT ![z] = {}] ELSE good
  /\ UNCHANGED <<raw, rest, archive, tomb, marked, leases, owner, at, job, items, packs, overran,
                 faults>>
  /\ Elsewhere

SweepDone(m) ==
  /\ at[m] = "sweep" /\ orphans[m] = {} /\ Go(m, "clean") /\ Release(m)
  /\ UNCHANGED <<files, owner, job, plan, overran, faults>> /\ Elsewhere

Ready(m) == at[m] = "clean" /\ Owns(m) /\ orphans[m] = {}

\* A unit whose range is leased is left for the next cleanup.
Lock(m, S, z, pos) ==
  \/ ~Blocked(m, S) /\ Hold(m, S) /\ Go(m, pos) /\ TakeJob(m, S, z)
  \/ Blocked(m, S) /\ UNCHANGED <<leases, at, job>>

LockPack(m, p) ==
  /\ Ready(m) /\ p \in packs[m]
  /\ packs' = [packs EXCEPT ![m] = @ \ {p}]
  /\ Lock(m, p.members, p.zip, "locked")
  /\ UNCHANGED <<files, owner, items, orphans, overran, faults>> /\ Elsewhere

\* The consumers are read again under the lease.
Keep(m) == {s \in work[m] : ~Unneeded(s)}

Recheck(m) ==
  LET z == old[m]
      worth == work[m] # Keep(m) \/ Repairable(z) # {}
      able == Keep(m) \subseteq Sound(z) \cup Repairable(z)
  IN  /\ at[m] = "locked"
      /\ \/ /\ worth /\ able /\ keep' = [keep EXCEPT ![m] = Keep(m)] /\ Go(m, "checked")
            /\ UNCHANGED <<leases, work, todo, old, new, plan>>
         \/ ~(worth /\ able) /\ EndUnit(m)
      /\ UNCHANGED <<files, owner, overran, faults>> /\ Elsewhere

NoReplacement(m) ==
  /\ at[m] = "checked" /\ Owns(m) /\ keep[m] = {} /\ Go(m, "commit")
  /\ UNCHANGED <<files, leases, owner, job, plan, overran, faults>> /\ Elsewhere

ReplaceMark(m, z) ==
  /\ at[m] = "checked" /\ Owns(m) /\ keep[m] # {} /\ Fresh(z)
  /\ marked' = marked \cup {z} /\ new' = [new EXCEPT ![m] = z] /\ Go(m, "copy")
  /\ UNCHANGED <<raw, rest, archive, disk, good, tomb, leases, owner, work, todo, keep, old, plan,
                 overran, faults>>
  /\ Elsewhere

\* Each member is copied from the archive, or from its originals if damaged there.
Copyable(m) ==
  /\ old[m] \in disk
  /\ \A s \in keep[m] : s \in good[old[m]] \/ s \in Originals

ReplaceWrite(m) ==
  /\ at[m] = "copy" /\ Copyable(m)
  /\ disk' = disk \cup {new[m]} /\ good' = [good EXCEPT ![new[m]] = keep[m]]
  /\ Go(m, "verify")
  /\ UNCHANGED <<raw, rest, archive, tomb, marked, leases, owner, job, plan, overran, faults>>
  /\ Elsewhere

ReplaceBeat(m) ==
  /\ at[m] = "verify" /\ ~Blocked(m, work[m])
  /\ Hold(m, work[m]) /\ marked' = marked \ {new[m]} /\ Go(m, "commit")
  /\ UNCHANGED <<raw, rest, archive, disk, good, tomb, owner, job, plan, overran, faults>>
  /\ Elsewhere

\* Mutant: the retained members keep their rows.
MapDead(m) ==
  [s \in Segs |-> IF archive[s] = old[m] /\ s \in work[m] \ keep[m]
                    THEN 0 ELSE archive[s]]

MapAfter(m) ==
  [s \in Segs |-> IF archive[s] # old[m] THEN archive[s]
                  ELSE IF s \in keep[m] THEN new[m]
                  ELSE IF s \in work[m] THEN 0 ELSE archive[s]]

WithoutLease(m) == ~(work[m] \subseteq lease[m])

\* The rows of retained and released members change together.
Retire(m) ==
  /\ at[m] = "commit"
  /\ archive' = MapAfter(m)
  /\ tomb' = tomb \cup (work[m] \ keep[m])
  /\ overran' = (overran \/ WithoutLease(m)) /\ Go(m, "retired")
  /\ UNCHANGED <<raw, rest, disk, good, marked, leases, owner, job, plan, faults>>
  /\ Elsewhere

DropZip(m) ==
  /\ at[m] = "retired"
  /\ disk' = disk \ {old[m]} /\ good' = [good EXCEPT ![old[m]] = {}]
  /\ EndUnit(m)
  /\ UNCHANGED <<raw, rest, archive, tomb, marked, owner, overran, faults>> /\ Elsewhere

LockItem(m, s) ==
  /\ Ready(m) /\ s \in items[m]
  /\ items' = [items EXCEPT ![m] = @ \ {s}]
  /\ Lock(m, {s}, 0, "item")
  /\ UNCHANGED <<files, owner, packs, orphans, overran, faults>> /\ Elsewhere

CheckItem(m, s) ==
  /\ at[m] = "item" /\ work[m] = {s}
  /\ \/ Unneeded(s) /\ s \in tomb /\ Go(m, "tombed") /\ UNCHANGED <<leases, job, plan>>
     \/ /\ Unneeded(s) /\ s \in Originals \ tomb /\ Go(m, "release")
        /\ UNCHANGED <<leases, job, plan>>
     \/ ~(Unneeded(s) /\ s \in tomb \cup Originals) /\ EndUnit(m)
  /\ UNCHANGED <<files, owner, overran, faults>> /\ Elsewhere

Tombstone(m) ==
  /\ at[m] = "release" /\ Owns(m)
  /\ tomb' = tomb \cup work[m]
  /\ overran' = (overran \/ WithoutLease(m)) /\ Go(m, "tombed")
  /\ UNCHANGED <<raw, rest, archive, disk, good, marked, leases, owner, job, plan, faults>>
  /\ Elsewhere

ItemBeat(m) ==
  /\ at[m] = "tombed"
  /\ \/ /\ ~Blocked(m, work[m]) /\ Hold(m, work[m])
        /\ todo' = [todo EXCEPT ![m] = work[m]] /\ Go(m, "unlink")
        /\ UNCHANGED <<work, keep, old, new, plan>>
     \/ Blocked(m, work[m]) /\ EndUnit(m)
  /\ UNCHANGED <<files, owner, overran, faults>> /\ Elsewhere

ItemDone(m) ==
  /\ at[m] = "unlink" /\ todo[m] = {} /\ new[m] = 0
  /\ EndUnit(m)
  /\ UNCHANGED <<files, owner, overran, faults>> /\ Elsewhere

\* An exception in a unit is recorded, and the cleanup goes on with the next.
UnitRaised(m) ==
  /\ \/ at[m] \in {"locked", "checked", "copy", "verify", "commit", "retired", "item",
                   "release", "tombed"}
     \/ at[m] \in {"unlink", "rest"} /\ new[m] = 0
  /\ \/ Fault
     \/ at[m] = "copy" /\ ~Copyable(m) /\ UNCHANGED faults
     \/ at[m] = "verify" /\ Blocked(m, work[m]) /\ UNCHANGED faults
     \/ at[m] = "retired" /\ old[m] \notin disk /\ UNCHANGED faults
  /\ Partial(m)
  /\ marked' = marked \ {new[m]} /\ EndUnit(m)
  /\ UNCHANGED <<raw, rest, archive, good, tomb, owner, overran>> /\ Elsewhere

Finish(m) ==
  /\ at[m] = "clean" /\ items[m] = {} /\ packs[m] = {} /\ orphans[m] = {}
  /\ claim' = (IF Owns(m) THEN Nobody ELSE claim) /\ UNCHANGED failed
  /\ Leave(m)
  /\ UNCHANGED <<files, overran, faults>> /\ Elsewhere

\* The process dies: its leases, claim and marker stay.
Crash(m) ==
  /\ Fault
  /\ at[m] # "idle"
  /\ Partial(m)
  /\ ghost' = [ghost EXCEPT ![m] = @ \cup lease[m]] /\ lease' = [lease EXCEPT ![m] = {}]
  /\ claim' = (IF Owns(m) THEN Dead ELSE claim)
  /\ Go(m, "idle")
  /\ DropJob(m) /\ DropPlan(m)
  /\ UNCHANGED <<raw, rest, archive, good, tomb, marked, failed, overran>> /\ Elsewhere

-----------------------------------------------------------------------------
(* worker_rows: list, verify all, then replay in order.                    *)
From(a) == a..Segments

ReaderLeaves == rAt' = "idle" /\ rCheck' = {} /\ rTodo' = {} /\ broken' = FALSE

ReaderElsewhere == UNCHANGED <<files, owner, tasks, consumers, overran, rotten>>

ReadOpen(a) ==
  /\ rAt = "idle" /\ ~Blocked(Reader, From(a)) /\ Hold(Reader, From(a))
  /\ rAt' = "list" /\ rTodo' = From(a) /\ UNCHANGED <<rCheck, broken, faults>>
  /\ ReaderElsewhere

\* Tombstoned segments are not listed.
ReadList ==
  /\ rAt = "list" /\ rAt' = "check"
  /\ rTodo' = rTodo \ tomb /\ rCheck' = rTodo \ tomb
  /\ UNCHANGED <<leases, broken, faults>> /\ ReaderElsewhere

\* What cannot be read becomes a gap of the replay.
ReadCheck(s) ==
  /\ rAt = "check" /\ s \in rCheck /\ \A t \in rCheck : s <= t
  /\ rCheck' = rCheck \ {s}
  /\ rTodo' = IF Readable(s) THEN rTodo ELSE rTodo \ {s}
  /\ UNCHANGED <<leases, rAt, broken, faults>> /\ ReaderElsewhere

\* The lease is narrowed to what is left, then the segment is read.
ReadNext(s) ==
  /\ rAt = "check" /\ rCheck = {} /\ s \in rTodo /\ \A t \in rTodo : s <= t
  /\ ~Blocked(Reader, From(s)) /\ Hold(Reader, From(s))
  /\ Readable(s)
  /\ rTodo' = rTodo \ {s}
  /\ UNCHANGED <<rAt, rCheck, broken, faults>> /\ ReaderElsewhere

\* All is read, or a heartbeat or a read fails.
ReadEnd ==
  /\ rAt # "idle"
  /\ \/ rAt = "check" /\ rCheck = {} /\ rTodo = {} /\ UNCHANGED faults
     \/ /\ rAt = "check" /\ UNCHANGED faults
        /\ \E s \in rTodo : Blocked(Reader, From(s)) \/ (rCheck = {} /\ ~Readable(s))
     \/ Fault
  /\ ReaderLeaves /\ Release(Reader) /\ ReaderElsewhere

ReaderCrash ==
  /\ Fault
  /\ rAt # "idle" /\ ReaderLeaves
  /\ ghost' = [ghost EXCEPT ![Reader] = @ \cup lease[Reader]]
  /\ lease' = [lease EXCEPT ![Reader] = {}]
  /\ ReaderElsewhere

-----------------------------------------------------------------------------
(* Consumers and damage.                                                   *)
NeedEnds(s) ==
  /\ s \in need /\ need' = need \ {s}
  /\ UNCHANGED <<files, leases, owner, tasks, reader, late, overran, rotten, faults>>

\* The decision to release it has been taken.
Decided(s) ==
  \/ s \in tomb
  \/ \E m \in Maintainers :
       /\ s \in work[m] \ keep[m]
       /\ at[m] \in {"checked", "copy", "verify", "commit", "release"}

\* An outcome is labelled from history: a snapshot of the past is inserted.
NeedArises(s) ==
  /\ Fault
  /\ s \notin need /\ need' = need \cup {s}
  /\ late' = IF Decided(s) THEN late \cup {s} ELSE late
  /\ UNCHANGED <<files, leases, owner, tasks, reader, overran, rotten>>

Damage(z, s) ==
  /\ Fault
  /\ s \in good[z] /\ good' = [good EXCEPT ![z] = @ \ {s}] /\ rotten' = rotten \cup {s}
  /\ UNCHANGED <<raw, rest, archive, disk, tomb, marked, leases, owner, tasks, reader,
                 consumers, overran>>

-----------------------------------------------------------------------------
Compact(m) ==
  \/ Select(m) \/ ClaimNext(m) \/ TooFew(m)
  \/ \E z \in Zip : PackMark(m, z)
  \/ PackWrite(m) \/ PackMap(m) \/ PackBeat(m) \/ PackDone(m) \/ PackRaised(m)

Unlink(m) == \E s \in Segs : UnlinkRaw(m, s) \/ UnlinkRest(m, s)

CleanUnit(m) ==
  \/ \E p \in packs[m] : LockPack(m, p)
  \/ Recheck(m) \/ NoReplacement(m) \/ ReplaceWrite(m) \/ ReplaceBeat(m)
  \/ \E z \in Zip : ReplaceMark(m, z)
  \/ Retire(m) \/ DropZip(m)
  \/ \E s \in Segs : LockItem(m, s) \/ CheckItem(m, s)
  \/ Tombstone(m) \/ ItemBeat(m) \/ ItemDone(m) \/ UnitRaised(m)

Clean(m) ==
  \/ Plan(m) \/ Begin(m) \/ Refused(m) \/ Overrun(m)
  \/ SweepLock(m) \/ SweepDone(m) \/ \E z \in Zip : Sweep(m, z)
  \/ CleanUnit(m) \/ Finish(m)

Read ==
  \/ ReadList \/ ReadEnd
  \/ \E s \in Segs : ReadOpen(s) \/ ReadCheck(s) \/ ReadNext(s)

Environment ==
  \/ \E h \in Holders : Expire(h) \/ GhostExpires(h)
  \/ ClaimExpires
  \/ \E s \in Segs : NeedEnds(s) \/ NeedArises(s) \/ \E z \in Zip : Damage(z, s)

Next ==
  \/ \E m \in Maintainers : Compact(m) \/ Unlink(m) \/ Clean(m) \/ Crash(m)
  \/ Read \/ ReaderCrash
  \/ Environment

Spec == Init /\ [][Next]_vars

-----------------------------------------------------------------------------
(* Properties.                                                             *)
FilesOK ==
  /\ raw \subseteq Segs /\ rest \subseteq Segs /\ tomb \subseteq Segs
  /\ archive \in [Segs -> 0..Zips] /\ good \in [Zip -> SUBSET Segs]
  /\ disk \subseteq Zip /\ marked \subseteq Zip

OwnersOK ==
  /\ lease \in [Holders -> SUBSET Segs] /\ ghost \in [Holders -> SUBSET Segs]
  /\ claim \in Maintainers \cup {Nobody, Dead} /\ failed \in BOOLEAN

JobsOK ==
  /\ at \in [Maintainers -> MaintainerAt]
  /\ work \in [Maintainers -> SUBSET Segs] /\ todo \in [Maintainers -> SUBSET Segs]
  /\ keep \in [Maintainers -> SUBSET Segs]
  /\ old \in [Maintainers -> 0..Zips] /\ new \in [Maintainers -> 0..Zips]
  /\ \A m \in Maintainers :
       /\ at[m] \in {"write", "map", "beat", "copy", "verify"} => new[m] \in Zip
       /\ at[m] \in {"locked", "checked", "copy", "verify", "commit", "retired"} => old[m] \in Zip

PlansOK ==
  /\ items \in [Maintainers -> SUBSET Segs] /\ orphans \in [Maintainers -> SUBSET Zip]
  /\ packs \in [Maintainers -> SUBSET [zip : Zip, members : SUBSET Segs]]

TypeOK ==
  /\ FilesOK /\ OwnersOK /\ JobsOK /\ PlansOK
  /\ rTodo \subseteq Segs /\ need \subseteq Segs

\* What is not released can be read, whoever died, expired or raised between the
\* steps of packing, replacing and releasing; only a damaged copy is an exception
\* (_pack, replacement, _execute).
KeptReadable == \A s \in Segs \ (tomb \cup rotten) : Readable(s)

\* A replay whose lease has held meets everything it listed, unless a maintainer
\* released segments after its own lease had expired (RangeLease, worker_rows).
ReaderKeepsList ==
  rAt = "check" /\ ~broken /\ ~overran =>
    \A s \in rTodo : s \notin tomb /\ (s \in rotten \/ Readable(s))

\* Nothing is released that a setup or an outcome needed when the release was
\* decided, however old the plan (planning, _execute).
NeededKept == need \cap tomb \subseteq late

\* The custody as a whole: what is kept can be read, and what is needed is kept.
EvidenceKept == KeptReadable /\ NeededKept
=============================================================================
