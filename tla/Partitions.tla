----------------------------- MODULE Partitions -----------------------------
(***************************************************************************)
(* The planner of chronological partitions (ml/validation.py): outcomes    *)
(* are cut into training, calibration, validation and holdout by three     *)
(* decision times, from times alone.  A row of a partition was released,   *)
(* embargo included, before the partition ends, so that nothing later is   *)
(* fitted on it; the holdout starts after the last one consumed.           *)
(*                                                                         *)
(* The planner takes the earliest boundary it can, three times over, and   *)
(* refines the result when it leaves half of the rows to the holdout.      *)
(***************************************************************************)
EXTENDS Integers, FiniteSets

CONSTANTS
  Need,       \* REQUIREMENTS: the least size of each part
  MinTotal,   \* MINIMUM_TOTAL rows
  MinTimes,   \* and this many distinct decision times
  Embargo,    \* embargo_ms
  PathTotal   \* the rows from which an allocation may be pathological

Holdout == 4
Parts == 1 .. 4

ASSUME PartitionAssumption ==
  /\ Need \in [Parts -> Nat \ {0}]
  /\ MinTotal \in Nat /\ MinTimes \in Nat /\ Embargo \in Nat /\ PathTotal \in Nat

\* A row: the time of its decision, and the later of its exit and of the
\* moment its label was available.  The end of a holdout nobody consumed is 0.
Row == [id : Nat, d : Nat \ {0}, rel : Nat]
Causal(rows) == rows \subseteq Row /\ IsFiniteSet(rows) /\ \A r \in rows : r.d < r.rel

Times(rows) == {r.d : r \in rows}
First(T) == CHOOSE t \in T : \A u \in T : t <= u
Unseen(t, prev) == prev = 0 \/ t > prev + Embargo

\* The rows decided from lower on whose outcome was out, embargo included, before upper.
Released(rows, lower, upper) ==
  {r \in rows : lower <= r.d /\ r.d < upper /\ r.rel + Embargo < upper}
From(rows, lower) == {r \in rows : lower <= r.d}

\* Every boundary must leave a full holdout: at most the ceiling.
LeavesHoldout(rows, t) == Cardinality(From(rows, t)) >= Need[Holdout]

Boundaries(rows, part, lower, prev) ==
  {t \in Times(rows) :
     /\ lower < t /\ LeavesHoldout(rows, t)
     /\ Cardinality(Released(rows, lower, t)) >= Need[part]
     /\ part = 3 => Unseen(t, prev)}

\* _earliest_boundary, 0 for none.
Earliest(rows, part, lower, prev) ==
  LET B == Boundaries(rows, part, lower, prev) IN IF lower = 0 \/ B = {} THEN 0 ELSE First(B)

Enough(rows) ==
  Cardinality(rows) >= MinTotal /\ Cardinality(Times(rows)) >= MinTimes

\* The plan of the first policy: the three boundaries, the last one 0 when there is no split.
V1Plan(rows, prev) ==
  LET lower == IF rows # {} /\ Enough(rows) THEN First(Times(rows)) ELSE 0
      a == Earliest(rows, 1, lower, prev)
      b == Earliest(rows, 2, a, prev)
  IN  <<a, b, Earliest(rows, 3, b, prev)>>

Ready(cut) == cut[3] # 0

\* The rows of each part under a cut.
Group(rows, cut, part) ==
  CASE part = 1 -> Released(rows, First(Times(rows)), cut[1])
    [] part = 2 -> Released(rows, cut[1], cut[2])
    [] part = 3 -> Released(rows, cut[2], cut[3])
    [] part = 4 -> From(rows, cut[3])
Count(rows, cut, part) == Cardinality(Group(rows, cut, part))

-----------------------------------------------------------------------------
(* The second policy.  An allocation is pathological when the holdout has  *)
(* half of the rows or more and the training at most a quarter.  The code  *)
(* then looks at up to 64 times between the first boundary and the         *)
(* ceiling; with no more rows than its grid of 32, those are all of them.  *)
Pathological(rows, cut) ==
  /\ Ready(cut) /\ Cardinality(rows) >= PathTotal
  /\ 2 * Count(rows, cut, 4) >= Cardinality(rows)
  /\ 4 * Count(rows, cut, 1) <= Cardinality(rows)

Candidates(rows, cut) == {t \in Times(rows) : cut[1] <= t /\ LeavesHoldout(rows, t)}

Cuts(rows, cut, prev) ==
  {c \in Candidates(rows, cut) \X Candidates(rows, cut) \X Candidates(rows, cut) :
     /\ c[1] < c[2] /\ c[2] < c[3] /\ Unseen(c[3], prev)
     /\ \A part \in Parts : Count(rows, c, part) >= Need[part]}

Distance(x, y) == IF x <= y THEN y - x ELSE x - y
Kept(rows, cut) ==
  Count(rows, cut, 1) + Count(rows, cut, 2) + Count(rows, cut, 3) + Count(rows, cut, 4)
\* The distance from the shares 10, 3, 3 and 4 in 20, as a multiple of 1 / Kept.
Loss(rows, cut) ==
  LET off(part, share) == Distance(20 * Count(rows, cut, part), share * Kept(rows, cut))
  IN  off(1, 10) + off(2, 3) + off(3, 3) + off(4, 4)

\* _allocation_key: less loss, then more rows to learn from, then a later holdout, then earlier cuts.
Tie(rows, cut) ==
  <<-Count(rows, cut, 1), -Count(rows, cut, 2), -Count(rows, cut, 3), -cut[3], cut[1], cut[2]>>
Lexical(x, y) == \E i \in DOMAIN x : x[i] < y[i] /\ \A j \in 1 .. i - 1 : x[j] = y[j]
Better(rows, c, e) ==
  LET p == Loss(rows, c) * Kept(rows, e)
      q == Loss(rows, e) * Kept(rows, c)
  IN  p < q \/ (p = q /\ Lexical(Tie(rows, c), Tie(rows, e)))

Refined(rows, cut, prev) ==
  LET all == Cuts(rows, cut, prev) \cup {cut}
  IN  CHOOSE c \in all : \A e \in all : ~Better(rows, e, c)

\* plan_partitions
Plan(rows, prev) ==
  LET cut == V1Plan(rows, prev)
  IN  IF Pathological(rows, cut) THEN Refined(rows, cut, prev) ELSE cut

-----------------------------------------------------------------------------
(* What a split has to be, whoever finds it.                               *)
Feasible(rows, prev, cut) ==
  /\ cut[1] < cut[2] /\ cut[2] < cut[3] /\ First(Times(rows)) < cut[1]
  /\ Unseen(cut[3], prev) /\ Enough(rows)
  /\ \A part \in Parts : Count(rows, cut, part) >= Need[part]

Splittable(rows, prev) ==
  rows # {} /\ \E a, b, c \in Times(rows) : Feasible(rows, prev, <<a, b, c>>)
=============================================================================
