---------------------------- MODULE MetadataWriter ----------------------------
(***************************************************************************)
(* The diagnostic metadata of the desk (MetadataWriter of db_runtime.py,   *)
(* put and get of storage.py): snapshots of health that decide what work   *)
(* is admitted, and the many rows about single markets.  They are offered  *)
(* to a bounded queue that a task of the same loop empties into the table  *)
(* kv, and read through what waits in it.  Another process reads kv only.  *)
(*                                                                         *)
(* A value is the number of its offer.  The order of the queue is not      *)
(* kept: any row may be the first.  A pass that finds a critical           *)
(* transaction open, or the database locked, changes nothing.              *)
(***************************************************************************)
EXTENDS Naturals, FiniteSets

CONSTANTS
  Global,       \* DIAGNOSTIC_KEYS: the snapshots of the whole desk
  Market,       \* rows about one market, or one task
  Capacity,     \* rows that may wait
  MaxOffers, MaxFaults

Keys == Global \cup Market

MetadataAssumption ==
  /\ IsFiniteSet(Global) /\ IsFiniteSet(Market) /\ Global \cap Market = {}
  /\ Capacity \in Nat /\ Cardinality(Global) <= Capacity
  /\ MaxOffers \in Nat /\ MaxFaults \in Nat

VARIABLES
  writer,     \* the task: "off", "on", "closing", "done"; "stopped" with the process
  pending,    \* the rows that wait, 0 for none
  overlay,    \* what get answers before it looks into kv
  kv,         \* the table
  offers,     \* the number of the last offer
  latest,     \* history: the last value of each key put by this process
  failed,     \* history: keys whose last value was lost with its write, or at a stop
  faults

metadataVars == <<writer, pending, overlay, kv, offers, latest, failed, faults>>

NoRows == [k \in Keys |-> 0]

Init ==
  /\ writer = "off" /\ pending = NoRows /\ overlay = NoRows /\ kv = NoRows
  /\ offers = 0 /\ latest = NoRows /\ failed = {} /\ faults = 0

\* get of storage.py.  The worker has no writer of its own.
Read(k) == IF overlay[k] # 0 THEN overlay[k] ELSE kv[k]
ReadElsewhere(k) == kv[k]

Without(rows, gone) == [k \in Keys |-> IF k \in gone THEN 0 ELSE rows[k]]
Waiting == {k \in Keys : pending[k] # 0}
Full(k) == pending[k] = 0 /\ Cardinality(Waiting) >= Capacity
Next1 == offers + 1

\* Mutated: the oldest row gives way, whatever it is about.
AnyVictim(k) == Waiting
\* A row about a market gives way first.
Victims(k) == IF Waiting \cap Market # {} THEN Waiting \cap Market ELSE Waiting

\* offer: a burst about markets is dropped when only global snapshots wait.
Queued(k, n) ==
  IF Full(k) /\ k \in Market /\ Waiting \cap Market = {} THEN UNCHANGED <<pending, overlay>>
  ELSE \E gone \in IF Full(k) THEN {{v} : v \in Victims(k)} ELSE {{}} :
         /\ pending' = [Without(pending, gone) EXCEPT ![k] = n]
         /\ overlay' = [Without(overlay, {v \in gone : overlay[v] = pending[v]}) EXCEPT ![k] = n]

\* put of storage.py: directly, while there is no writer.
Put(k) ==
  /\ offers < MaxOffers /\ offers' = Next1
  /\ \/ writer \in {"off", "stopped"} /\ kv' = [kv EXCEPT ![k] = Next1] /\ UNCHANGED <<pending, overlay>>
     \/ writer \in {"on", "closing", "done"} /\ Queued(k, Next1) /\ UNCHANGED kv
  /\ latest' = [latest EXCEPT ![k] = Next1] /\ failed' = failed \ {k}
  /\ UNCHANGED <<writer, faults>>

Running == writer \in {"on", "closing"}

\* The task ends with the last row after it was asked to.
Popped(k) ==
  /\ pending' = Without(pending, {k})
  /\ overlay' = IF overlay[k] = pending[k] THEN Without(overlay, {k}) ELSE overlay
  /\ writer' = IF writer = "closing" /\ Waiting = {k} THEN "done" ELSE writer

Write(k) ==
  /\ Running /\ k \in Waiting /\ Popped(k)
  /\ kv' = [kv EXCEPT ![k] = pending[k]]
  /\ UNCHANGED <<offers, latest, failed, faults>>

\* An error other than that of a busy database.
WriteFails(k) ==
  /\ Running /\ k \in Waiting /\ faults < MaxFaults /\ Popped(k)
  /\ faults' = faults + 1 /\ failed' = failed \cup {k}
  /\ UNCHANGED <<kv, offers, latest>>

Enable ==
  /\ writer = "off" /\ writer' = "on"
  /\ UNCHANGED <<pending, overlay, kv, offers, latest, failed, faults>>

Close ==
  /\ writer = "on" /\ writer' = IF Waiting = {} THEN "done" ELSE "closing"
  /\ UNCHANGED <<pending, overlay, kv, offers, latest, failed, faults>>

\* stop_runtime, once the task has ended or its five seconds are over: what still
\* waits is lost.
Stopped ==
  /\ writer \in {"closing", "done"} /\ writer' = "stopped"
  /\ pending' = NoRows /\ overlay' = NoRows /\ failed' = failed \cup Waiting
  /\ UNCHANGED <<kv, offers, latest, faults>>

Crash ==
  /\ faults < MaxFaults /\ faults' = faults + 1 /\ writer' = "off"
  /\ pending' = NoRows /\ overlay' = NoRows /\ latest' = NoRows /\ failed' = {}
  /\ UNCHANGED <<kv, offers>>

Next ==
  \/ \E k \in Keys : Put(k) \/ Write(k) \/ WriteFails(k)
  \/ Enable \/ Close \/ Stopped \/ Crash

Spec == Init /\ [][Next]_metadataVars
-----------------------------------------------------------------------------
Rows == [Keys -> Nat]

TypeOK ==
  /\ writer \in {"off", "on", "closing", "done", "stopped"}
  /\ pending \in Rows /\ overlay \in Rows /\ kv \in Rows /\ latest \in Rows
  /\ offers \in Nat /\ failed \subseteq Keys /\ faults \in Nat

\* Whatever burst of rows about markets comes between, a snapshot of the whole desk
\* reads as it was last put by this process, unless its write failed or the process
\* stops (offer: markets must not evict the global health snapshots).
SnapshotsKept ==
  \A k \in Global : latest[k] # 0 /\ k \notin failed => Read(k) = latest[k]
=============================================================================
