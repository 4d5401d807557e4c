---------------------------- MODULE AttemptLedger ----------------------------
(***************************************************************************)
(* The numbering of repeated attempts at one level (forward_power.py,      *)
(* called by Store.signal after every save of a new setup).  Research is   *)
(* deferred while the desk is under pressure; a deferred attempt leaves a  *)
(* gap, and an ordinal whose window spans a gap is a lower bound.          *)
(*                                                                         *)
(* The scan admits several symbols at once and the refresh works on any of *)
(* them meanwhile: each has read the clock before it asked for candles and *)
(* saves its setup later, so decisions are not saved in the order of their *)
(* instants.                                                               *)
(***************************************************************************)
EXTENDS Naturals, Sequences, FiniteSets, SequencesExt

CONSTANTS
  Task,     \* the tasks that generate setups at one level of one symbol
  Lookback, \* lengths of windows: 72 hours, or since the trend qualified
  Flight,   \* bound: the age of a decision when it is saved
  Merge,    \* gaps closer than this are one (60 s)
  MaxGaps,  \* gaps kept (500)
  Epoch,    \* start of the evidence epoch
  MaxNow,   \* bound: the clock
  MaxSaves  \* bound: setups saved

\* Tasks are cut off long before as many gaps as are kept can open.
ASSUME LedgerAssumption ==
  /\ Lookback \subseteq Nat /\ MaxGaps \in Nat \ {0} /\ Merge \in Nat /\ Flight \in Nat
  /\ (MaxGaps - 1) * (Merge + 1) >= Flight
  /\ Epoch \in Nat /\ MaxNow \in Nat /\ MaxSaves \in Nat

VARIABLES
  now,
  asof,      \* per task: the instant of its decision, 0 when it has none
  saved,     \* the decisions of the setups saved at this level, in order
  rows,      \* candidate_attempts
  gaps,      \* kv row of GAPS
  lost       \* history: saves that no row and no gap tells of

vars == <<now, asof, saved, rows, gaps, lost>>

Gap == [from : 0..MaxNow, to : 0..MaxNow]
TypeOK ==
  /\ now \in 1..MaxNow /\ asof \in [Task -> 0..MaxNow]
  /\ saved \in Seq(1..MaxNow) /\ gaps \in Seq(Gap)
  /\ rows \subseteq [nth : 1..MaxSaves, start : 0..MaxNow, ordinal : Nat, exact : BOOLEAN]
  /\ lost \subseteq 1..MaxSaves

\* covered: no deferral, and nothing of before the epoch, in the window.
Covered(from, to) ==
  from >= Epoch /\ \A i \in DOMAIN gaps : gaps[i].from > to \/ gaps[i].to < from

\* A deferral extends the last gap when it is close to it.
Widened(d) ==
  LET last == Last(gaps)
      all == IF gaps # <<>> /\ d <= last.to + Merge
               THEN Append(Front(gaps), [last EXCEPT !.to = IF d > @ THEN d ELSE @])
               ELSE Append(gaps, [from |-> d, to |-> d])
  IN IF Len(all) > MaxGaps THEN Tail(all) ELSE all
AtNow(d) == Widened(now)
Deferred(d) == Widened(d)

\* Recorded attempts in the window, which ends at the decision.
Prior(from, d) == {r \in rows : saved[r.nth] \in from..(d - 1)}

\* record_attempt, in the order of the saves; the window is the lookback of
\* the level, or starts when the trend qualified.
Since(d, w) == IF w < d THEN d - w ELSE 0
Attempt(from, d) ==
  [nth |-> Len(saved) + 1, start |-> from,
   ordinal |-> Cardinality(Prior(from, d)) + 1, exact |-> Covered(from, d)]

\* A task reads the clock for one symbol, and generates a setup or none.
Begin(t) ==
  /\ asof' = [asof EXCEPT ![t] = now]
  /\ UNCHANGED <<now, saved, rows, gaps, lost>>

Save(t) ==
  /\ asof[t] # 0 /\ Len(saved) < MaxSaves
  /\ saved' = Append(saved, asof[t])
  /\ asof' = [asof EXCEPT ![t] = 0]
  /\ now' = now

\* on_save of a setup of before the epoch does nothing.
Early(t) == Save(t) /\ asof[t] < Epoch /\ UNCHANGED <<rows, gaps, lost>>
Record(t, w) ==
  /\ Save(t) /\ asof[t] >= Epoch
  /\ rows' = rows \cup {Attempt(Since(asof[t], w), asof[t])}
  /\ UNCHANGED <<gaps, lost>>
\* Not admitted, or the table is full.  A decision older than the last gap
\* does not widen it.
Defer(t) ==
  /\ Save(t) /\ asof[t] >= Epoch
  /\ gaps' = Deferred(asof[t])
  /\ lost' = IF gaps # <<>> /\ asof[t] < Last(gaps).from
               THEN lost \cup {Len(saved) + 1} ELSE lost
  /\ UNCHANGED rows
\* An attempt at another level, by any task, is deferred.
Elsewhere(d) ==
  /\ d \in Epoch..now /\ d + Flight >= now
  /\ gaps' = Deferred(d)
  /\ UNCHANGED <<now, asof, saved, rows, lost>>
\* The hook fails and its transaction is undone: only a counter tells.
HookFails(t) ==
  /\ Save(t) /\ asof[t] >= Epoch
  /\ lost' = lost \cup {Len(saved) + 1}
  /\ UNCHANGED <<rows, gaps>>

\* Requests end within the timeouts of their task.
Tick ==
  /\ now < MaxNow /\ now' = now + 1
  /\ asof' = [t \in Task |-> IF asof[t] + Flight > now THEN asof[t] ELSE 0]
  /\ UNCHANGED <<saved, rows, gaps, lost>>

Init ==
  /\ now = 1 /\ asof = [t \in Task |-> 0]
  /\ saved = <<>> /\ rows = {} /\ gaps = <<>> /\ lost = {}

Next ==
  \/ Tick
  \/ \E t \in Task :
       \/ Begin(t) \/ Early(t) \/ Defer(t) \/ HookFails(t)
       \/ \E w \in Lookback : Record(t, w)
  \/ \E d \in 1..now : Elsewhere(d)
Spec == Init /\ [][Next]_vars

\* An ordinal marked EXACT counts every attempt of its level saved before it
\* whose decision lies in its window, in whatever order the tasks save, gaps
\* merge and old gaps are dropped, unless one of them left neither a row nor a
\* gap: its hook failed, or it was deferred after a gap of a later instant.
OrdinalAsSaved ==
  \A r \in rows :
    LET before == {n \in 1..(r.nth - 1) : saved[n] \in r.start..(saved[r.nth] - 1)}
    IN (r.exact /\ before \cap lost = {}) => r.ordinal = Cardinality(before) + 1
=============================================================================
