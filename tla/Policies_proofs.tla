--------------------------- MODULE Policies_proofs --------------------------
(***************************************************************************)
(* Proofs about the seven systems of Policies.                             *)
(*                                                                         *)
(* The planner and the registry.  Whatever the rows and the sizes asked    *)
(* for, the planner finds a split exactly when there is one.  Earlier      *)
(* boundaries leave more rows to the parts after them, so taking the       *)
(* earliest loses nothing; and the refinement chooses among splits.  The   *)
(* plans of the registry are exact, no experiment is judged on what an     *)
(* earlier one has used, and a champion that stands is only replaced by a  *)
(* model that beat it.  The inductive invariant has four parts: types and  *)
(* datasets (Types), the one fit under the lock (FitInv), what the ledger  *)
(* says of the rows used (LedgerInv) and the models of the registry and of *)
(* its operator (RegInv).                                                  *)
(*                                                                         *)
(* The others.  A step of the composition is a step of one of them and a   *)
(* stutter of the rest (PartSteps), so each has an inductive invariant of  *)
(* its own, and a theorem about PartsSpec: the word of a champion          *)
(* (WordInv), the queue that admission reads through (QueueInv), the turn  *)
(* of a reversal (TurnInv), the families of the gate (FamilyInv), the      *)
(* checks and windows of a published setup (VerdictInv and RunInv), and    *)
(* what an opener of the store has passed (OpenerInv and ShownInv).        *)
(***************************************************************************)
EXTENDS Policies, FiniteSetTheorems, WellFoundedInduction, TLAPS

-----------------------------------------------------------------------------
(* The planner.                                                            *)

\* A finite set has a minimal element under every strict order.
LEMMA Minimal ==
  ASSUME NEW S, IsFiniteSet(S), S # {}, NEW R,
         \A x \in S : <<x, x>> \notin R,
         \A x, y, z \in S : <<x, y>> \in R /\ <<y, z>> \in R => <<x, z>> \in R
  PROVE  \E x \in S : \A y \in S : <<y, x>> \notin R
<1> DEFINE Below(x) == {y \in S : <<y, x>> \in R}
           All == {Below(x) : x \in S}
<1>1. All \subseteq FiniteSubsetsOf(S)
  <2> SUFFICES ASSUME NEW x \in S PROVE Below(x) \in FiniteSubsetsOf(S) OBVIOUS
  <2>1. Below(x) \in SUBSET S OBVIOUS
  <2> QED BY <2>1, FS_Subset DEF FiniteSubsetsOf
<1>2. All # {}
  <2>1. PICK x \in S : TRUE OBVIOUS
  <2>2. Below(x) \in All BY <2>1
  <2> QED BY <2>2
<1>3. IsWellFoundedOn(StrictSubsetOrdering(S), FiniteSubsetsOf(S))
  BY FS_StrictSubsetOrderingWellFounded
<1>4. PICK T \in All : \A U \in All : <<U, T>> \notin StrictSubsetOrdering(S)
  BY <1>1, <1>2, <1>3, WFMin
<1>5. PICK x \in S : T = Below(x) OBVIOUS
<1>6. ASSUME NEW y \in S, <<y, x>> \in R PROVE FALSE
  <2>1. Below(y) \subseteq Below(x) BY <1>6
  <2>2. y \in Below(x) /\ y \notin Below(y) BY <1>6
  <2>3. <<Below(y), Below(x)>> \in StrictSubsetOrdering(S) BY <2>1, <2>2 DEF StrictSubsetOrdering
  <2> QED BY <2>3, <1>4, <1>5
<1> QED BY <1>6

LEMMA FirstIsLeast ==
  ASSUME NEW T, T \subseteq Nat, IsFiniteSet(T), T # {}
  PROVE  First(T) \in T /\ \A u \in T : First(T) <= u
<1> DEFINE R == {p \in T \X T : p[1] < p[2]}
<1>1. \A x \in T : <<x, x>> \notin R OBVIOUS
<1>2. \A x, y, z \in T : <<x, y>> \in R /\ <<y, z>> \in R => <<x, z>> \in R OBVIOUS
<1>3. \E x \in T : \A y \in T : <<y, x>> \notin R
  <2> HIDE DEF R
  <2> QED BY <1>1, <1>2, Minimal
<1>4. \E x \in T : \A y \in T : x <= y
  <2>1. PICK x \in T : \A y \in T : <<y, x>> \notin R BY <1>3
  <2>2. ASSUME NEW y \in T PROVE x <= y
    <3>1. <<y, x>> \in T \X T /\ <<y, x>>[1] = y /\ <<y, x>>[2] = x OBVIOUS
    <3>2. ~(y < x) BY <3>1, <2>1
    <3>3. x \in Nat /\ y \in Nat OBVIOUS
    <3> QED BY <3>2, <3>3
  <2> QED BY <2>2
<1> QED BY <1>4 DEF First

-----------------------------------------------------------------------------
LEMMA Sizes ==
  ASSUME NEW rows, Causal(rows)
  PROVE  /\ Times(rows) \subseteq Nat \ {0} /\ IsFiniteSet(Times(rows))
         /\ \A S \in SUBSET rows : IsFiniteSet(S) /\ Cardinality(S) \in Nat
         /\ \A S, T \in SUBSET rows : S \subseteq T => Cardinality(S) <= Cardinality(T)
<1>1. IsFiniteSet(rows) /\ rows \subseteq Row BY DEF Causal
<1>2. IsFiniteSet(Times(rows))
  <2> DEFINE f == [r \in rows |-> r.d]
  <2>1. Times(rows) = {f[r] : r \in rows} BY DEF Times
  <2>2. f \in [rows -> Times(rows)] BY DEF Times
  <2>3. f \in Surjection(rows, Times(rows)) BY <2>1, <2>2 DEF Surjection
  <2> QED BY <2>3, <1>1, FS_Surjection
<1>3. \A S \in SUBSET rows : IsFiniteSet(S) /\ Cardinality(S) \in Nat
  BY <1>1, FS_Subset, FS_CardinalityType
<1>4. \A S, T \in SUBSET rows : S \subseteq T => Cardinality(S) <= Cardinality(T)
  BY <1>3, FS_Subset
<1> QED BY <1>1, <1>2, <1>3, <1>4 DEF Times, Row

\* Later lower ends leave fewer rows, later upper ends release more.
LEMMA Monotone ==
  ASSUME NEW rows, Causal(rows),
         NEW l \in Nat, NEW m \in Nat, NEW u \in Nat, NEW v \in Nat, l <= m, u <= v
  PROVE  /\ Cardinality(Released(rows, m, u)) <= Cardinality(Released(rows, l, v))
         /\ Cardinality(From(rows, m)) <= Cardinality(From(rows, l))
<1>0. Embargo \in Nat /\ rows \subseteq Row BY PartitionAssumption DEF Causal
<1>1. Released(rows, m, u) \subseteq Released(rows, l, v) BY <1>0 DEF Released, Row
<1>2. From(rows, m) \subseteq From(rows, l) BY <1>0 DEF From, Row
<1>3. Released(rows, m, u) \in SUBSET rows /\ Released(rows, l, v) \in SUBSET rows BY DEF Released
<1>4. From(rows, m) \in SUBSET rows /\ From(rows, l) \in SUBSET rows BY DEF From
<1> QED BY <1>1, <1>2, <1>3, <1>4, Sizes

\* The earliest boundary of a part, when a boundary exists.
LEMMA EarliestFound ==
  ASSUME NEW rows, Causal(rows), NEW part, NEW lower \in Nat, NEW prev
  PROVE  LET e == Earliest(rows, part, lower, prev) IN
         /\ e = 0 \/ (lower # 0 /\ e \in Boundaries(rows, part, lower, prev))
         /\ \A t \in Boundaries(rows, part, lower, prev) : lower # 0 => e # 0 /\ e <= t
         /\ e \in Nat
<1> DEFINE B == Boundaries(rows, part, lower, prev)
<1>1. B \subseteq Times(rows) BY DEF Boundaries
<1>2. B \subseteq Nat \ {0} /\ IsFiniteSet(B) BY <1>1, Sizes, FS_Subset
<1>3. B # {} => First(B) \in B /\ \A t \in B : First(B) <= t BY <1>2, FirstIsLeast
<1> QED BY <1>2, <1>3 DEF Earliest

-----------------------------------------------------------------------------
(* The first policy.                                                       *)

\* Where Earliest stops, and what the three calls leave.
LEMMA V1Facts ==
  ASSUME NEW rows, Causal(rows), NEW prev \in Nat
  PROVE  LET cut == V1Plan(rows, prev) IN
         /\ cut[1] \in Nat /\ cut[2] \in Nat /\ cut[3] \in Nat
         /\ cut = <<cut[1], cut[2], cut[3]>>
         /\ Ready(cut) => /\ cut[1] \in Times(rows) /\ cut[2] \in Times(rows) /\ cut[3] \in Times(rows)
                          /\ Feasible(rows, prev, cut)
<1> DEFINE lower == IF rows # {} /\ Enough(rows) THEN First(Times(rows)) ELSE 0
           a == Earliest(rows, 1, lower, prev)
           b == Earliest(rows, 2, a, prev)
           c == Earliest(rows, 3, b, prev)
           cut == <<a, b, c>>
<1>1. V1Plan(rows, prev) = cut BY DEF V1Plan
<1>2. rows # {} => First(Times(rows)) \in Times(rows)
  <2>1. rows # {} => Times(rows) # {} BY DEF Times
  <2> QED BY <2>1, Sizes, FirstIsLeast
<1>3. lower \in Nat BY <1>2, Sizes
<1> HIDE DEF lower
<1>4. a \in Nat /\ (a # 0 => lower # 0 /\ a \in Boundaries(rows, 1, lower, prev)) BY <1>3, EarliestFound
<1> HIDE DEF a
<1>5. b \in Nat /\ (b # 0 => a # 0 /\ b \in Boundaries(rows, 2, a, prev)) BY <1>4, EarliestFound
<1> HIDE DEF b
<1>6. c \in Nat /\ (c # 0 => b # 0 /\ c \in Boundaries(rows, 3, b, prev)) BY <1>5, EarliestFound
<1> HIDE DEF c
<1>7. ASSUME c # 0 PROVE /\ a \in Times(rows) /\ b \in Times(rows) /\ c \in Times(rows)
                         /\ Feasible(rows, prev, cut)
  <2>1. lower # 0 /\ lower = First(Times(rows)) /\ Enough(rows) BY <1>4, <1>5, <1>6, <1>7 DEF lower
  <2>2. /\ a \in Boundaries(rows, 1, lower, prev) /\ b \in Boundaries(rows, 2, a, prev)
        /\ c \in Boundaries(rows, 3, b, prev)
    BY <1>4, <1>5, <1>6, <1>7
  <2>3. a \in Times(rows) /\ b \in Times(rows) /\ c \in Times(rows) BY <2>2 DEF Boundaries
  <2>4. lower < a /\ a < b /\ b < c /\ Unseen(c, prev) BY <2>2 DEF Boundaries
  <2>5. cut[1] = a /\ cut[2] = b /\ cut[3] = c OBVIOUS
  <2>6. Count(rows, cut, 1) >= Need[1] BY <2>1, <2>2, <2>5 DEF Boundaries, Count, Group
  <2>7. Count(rows, cut, 2) >= Need[2] BY <2>2, <2>5 DEF Boundaries, Count, Group
  <2>8. Count(rows, cut, 3) >= Need[3] BY <2>2, <2>5 DEF Boundaries, Count, Group
  <2>9. Count(rows, cut, 4) >= Need[4] BY <2>2, <2>5 DEF Boundaries, Count, Group, LeavesHoldout, Holdout
  <2>10. \A part \in Parts : Count(rows, cut, part) >= Need[part]
    <3>1. \A part \in Parts : part = 1 \/ part = 2 \/ part = 3 \/ part = 4 BY DEF Parts
    <3> QED BY <3>1, <2>6, <2>7, <2>8, <2>9
  <2> QED BY <2>1, <2>3, <2>4, <2>5, <2>10 DEF Feasible
<1> QED BY <1>1, <1>4, <1>5, <1>6, <1>7 DEF Ready

\* Earliest boundaries dominate later ones: where there is a split they find one.
LEMMA V1Complete ==
  ASSUME NEW rows, Causal(rows), NEW prev \in Nat, Splittable(rows, prev)
  PROVE  Ready(V1Plan(rows, prev))
<1>1. PICK x \in Times(rows), y \in Times(rows), z \in Times(rows) : Feasible(rows, prev, <<x, y, z>>)
  BY DEF Splittable
<1>2. rows # {} BY DEF Splittable
<1> DEFINE given == <<x, y, z>>
           lower == First(Times(rows))
           a == Earliest(rows, 1, lower, prev)
           b == Earliest(rows, 2, a, prev)
           c == Earliest(rows, 3, b, prev)
<1>3. given[1] = x /\ given[2] = y /\ given[3] = z OBVIOUS
<1>4. lower < x /\ x < y /\ y < z /\ Unseen(z, prev) /\ Enough(rows) BY <1>1, <1>3 DEF Feasible
<1>5. V1Plan(rows, prev) = <<a, b, c>> BY <1>2, <1>4 DEF V1Plan
<1>6. x \in Nat \ {0} /\ y \in Nat \ {0} /\ z \in Nat \ {0} BY Sizes
<1>7. lower \in Nat \ {0}
  <2>1. Times(rows) # {} OBVIOUS
  <2> QED BY <2>1, Sizes, FirstIsLeast
<1>8. Count(rows, given, 1) >= Need[1] /\ Count(rows, given, 2) >= Need[2] /\ Count(rows, given, 3) >= Need[3]
      /\ Count(rows, given, 4) >= Need[4]
  BY <1>1 DEF Feasible, Parts
<1>9. /\ Cardinality(Released(rows, lower, x)) >= Need[1] /\ Cardinality(Released(rows, x, y)) >= Need[2]
      /\ Cardinality(Released(rows, y, z)) >= Need[3] /\ Cardinality(From(rows, z)) >= Need[4]
  BY <1>8, <1>3 DEF Count, Group
<1> HIDE DEF lower, given
<1>10. Need[1] \in Nat /\ Need[2] \in Nat /\ Need[3] \in Nat /\ Need[4] \in Nat
  BY PartitionAssumption DEF Parts
<1>11. \A l, u \in Nat : Cardinality(Released(rows, l, u)) \in Nat /\ Cardinality(From(rows, l)) \in Nat
  <2>1. \A l, u \in Nat : Released(rows, l, u) \in SUBSET rows /\ From(rows, l) \in SUBSET rows
    BY DEF Released, From
  <2> QED BY <2>1, Sizes
<1>12. \A t \in Nat : t <= z => LeavesHoldout(rows, t)
  <2> SUFFICES ASSUME NEW t \in Nat, t <= z PROVE LeavesHoldout(rows, t) OBVIOUS
  <2>1. Cardinality(From(rows, z)) <= Cardinality(From(rows, t)) BY <1>6, Monotone
  <2>2. Cardinality(From(rows, z)) \in Nat /\ Cardinality(From(rows, t)) \in Nat BY <1>6, <1>11
  <2>3. Cardinality(From(rows, t)) >= Need[4] BY <2>1, <2>2, <1>9, <1>10
  <2> QED BY <2>3 DEF LeavesHoldout, Holdout
<1>13. a # 0 /\ a <= x /\ a \in Nat
  <2>1. LeavesHoldout(rows, x) BY <1>4, <1>6, <1>12
  <2>2. x \in Boundaries(rows, 1, lower, prev) BY <2>1, <1>4, <1>9 DEF Boundaries
  <2> QED BY <2>2, <1>7, EarliestFound
<1> HIDE DEF a
<1>14. b # 0 /\ b <= y /\ b \in Nat
  <2>1. LeavesHoldout(rows, y) BY <1>4, <1>6, <1>12
  <2>2. Cardinality(Released(rows, x, y)) <= Cardinality(Released(rows, a, y)) BY <1>6, <1>13, Monotone
  <2>3. Cardinality(Released(rows, x, y)) \in Nat /\ Cardinality(Released(rows, a, y)) \in Nat
    BY <1>6, <1>11, <1>13
  <2>4. Cardinality(Released(rows, a, y)) >= Need[2] BY <2>2, <2>3, <1>9, <1>10
  <2>5. a < y BY <1>4, <1>6, <1>13
  <2>6. y \in Boundaries(rows, 2, a, prev) BY <2>1, <2>4, <2>5 DEF Boundaries
  <2> QED BY <2>6, <1>13, EarliestFound
<1> HIDE DEF b
<1>15. c # 0
  <2>1. LeavesHoldout(rows, z) BY <1>6, <1>12
  <2>2. Cardinality(Released(rows, y, z)) <= Cardinality(Released(rows, b, z)) BY <1>6, <1>14, Monotone
  <2>3. Cardinality(Released(rows, y, z)) \in Nat /\ Cardinality(Released(rows, b, z)) \in Nat
    BY <1>6, <1>11, <1>14
  <2>4. Cardinality(Released(rows, b, z)) >= Need[3] BY <2>2, <2>3, <1>9, <1>10
  <2>5. b < z BY <1>4, <1>6, <1>14
  <2>6. z \in Boundaries(rows, 3, b, prev) BY <2>1, <2>4, <2>5, <1>4 DEF Boundaries
  <2> QED BY <2>6, <1>14, EarliestFound
<1> QED BY <1>5, <1>15 DEF Ready

-----------------------------------------------------------------------------
(* The refinement.                                                         *)

\* Fractions are compared by cross-multiplication.
LEMMA Fractions ==
  ASSUME NEW p \in Nat, NEW q \in Nat, NEW r \in Nat,
         NEW k \in Nat \ {0}, NEW l \in Nat \ {0}, NEW m \in Nat \ {0},
         p * l <= q * k, q * m <= r * l
  PROVE  /\ p * m <= r * k
         /\ p * m = r * k => p * l = q * k /\ q * m = r * l
<1>1. \A x, y \in Nat, n \in Nat \ {0} : x <= y => n * x <= n * y OBVIOUS
<1>2. \A x, y \in Nat, n \in Nat \ {0} : n * x <= n * y => x <= y OBVIOUS
<1>3. \A x, y \in Nat, n \in Nat \ {0} : n * x = n * y => x = y OBVIOUS
<1>4. p * l \in Nat /\ q * k \in Nat /\ q * m \in Nat /\ r * l \in Nat /\ p * m \in Nat /\ r * k \in Nat OBVIOUS
<1>5. m * (p * l) <= m * (q * k) BY <1>1, <1>4
<1>6. k * (q * m) <= k * (r * l) BY <1>1, <1>4
<1>7. m * (p * l) = l * (p * m) OBVIOUS
<1>8. m * (q * k) = k * (q * m) OBVIOUS
<1>9. k * (r * l) = l * (r * k) OBVIOUS
<1>10. m * (p * l) \in Nat /\ m * (q * k) \in Nat /\ k * (r * l) \in Nat /\ l * (p * m) \in Nat OBVIOUS
<1>11. l * (p * m) <= l * (r * k)
  <2> DEFINE A == m * (p * l)
             B == m * (q * k)
             C == k * (r * l)
  <2>1. A <= B /\ B <= C BY <1>5, <1>6, <1>8
  <2>2. A \in Nat /\ B \in Nat /\ C \in Nat BY <1>10
  <2> HIDE DEF A, B, C
  <2>3. A <= C BY <2>1, <2>2
  <2> QED BY <2>3, <1>7, <1>9 DEF A, C
<1>12. p * m <= r * k BY <1>11, <1>2, <1>4
<1>13. ASSUME p * m = r * k PROVE p * l = q * k /\ q * m = r * l
  <2> DEFINE A == m * (p * l)
             B == m * (q * k)
             C == k * (r * l)
  <2>1. A <= B /\ B <= C BY <1>5, <1>6, <1>8
  <2>2. A \in Nat /\ B \in Nat /\ C \in Nat BY <1>10
  <2>3. A = C BY <1>7, <1>9, <1>13
  <2> HIDE DEF A, B, C
  <2>4. A = B /\ B = C BY <2>1, <2>2, <2>3
  <2>5. m * (p * l) = m * (q * k) BY <2>4 DEF A, B
  <2>6. k * (q * m) = k * (r * l) BY <2>4, <1>8 DEF B, C
  <2> QED BY <2>5, <2>6, <1>3, <1>4
<1> QED BY <1>12, <1>13

Ties == Int \X Int \X Int \X Int \X Int \X Int

LEMMA LexicalOrder ==
  ASSUME NEW x \in Ties, NEW y \in Ties, NEW z \in Ties
  PROVE  ~Lexical(x, x) /\ (Lexical(x, y) /\ Lexical(y, z) => Lexical(x, z))
<1>1. DOMAIN x = 1 .. 6 /\ DOMAIN y = 1 .. 6 /\ DOMAIN z = 1 .. 6 BY DEF Ties
<1>2. \A i \in 1 .. 6 : x[i] \in Int /\ y[i] \in Int /\ z[i] \in Int
  <2>1. \A i \in 1 .. 6 : i = 1 \/ i = 2 \/ i = 3 \/ i = 4 \/ i = 5 \/ i = 6 OBVIOUS
  <2> QED BY <2>1 DEF Ties
<1>3. ~Lexical(x, x) BY <1>1, <1>2 DEF Lexical
<1>4. ASSUME Lexical(x, y), Lexical(y, z) PROVE Lexical(x, z)
  <2>1. PICK i \in 1 .. 6 : x[i] < y[i] /\ \A j \in 1 .. i - 1 : x[j] = y[j] BY <1>1, <1>4 DEF Lexical
  <2>2. PICK k \in 1 .. 6 : y[k] < z[k] /\ \A j \in 1 .. k - 1 : y[j] = z[j] BY <1>1, <1>4 DEF Lexical
  <2>3. CASE i <= k
    <3>1. \A j \in 1 .. i - 1 : x[j] = z[j] BY <2>1, <2>2, <2>3
    <3>2. y[i] <= z[i] BY <2>1, <2>2, <2>3, <1>2
    <3>3. x[i] < z[i] BY <2>1, <3>2, <1>2
    <3> QED BY <3>1, <3>3, <1>1 DEF Lexical
  <2>4. CASE k < i
    <3>1. \A j \in 1 .. k - 1 : x[j] = z[j] BY <2>1, <2>2, <2>4
    <3>2. x[k] = y[k] BY <2>1, <2>4
    <3> QED BY <3>1, <3>2, <2>2, <1>1 DEF Lexical
  <2> QED BY <2>3, <2>4
<1> QED BY <1>3, <1>4

\* What the order of allocations needs to know of a cut.
Weighed(rows, c) == Kept(rows, c) \in Nat \ {0} /\ Loss(rows, c) \in Nat /\ Tie(rows, c) \in Ties

LEMMA BetterOrder ==
  ASSUME NEW rows, NEW c, NEW e, NEW f, Weighed(rows, c), Weighed(rows, e), Weighed(rows, f)
  PROVE  ~Better(rows, c, c) /\ (Better(rows, c, e) /\ Better(rows, e, f) => Better(rows, c, f))
<1> DEFINE p == Loss(rows, c)
           q == Loss(rows, e)
           r == Loss(rows, f)
           k == Kept(rows, c)
           l == Kept(rows, e)
           m == Kept(rows, f)
<1>1. p \in Nat /\ q \in Nat /\ r \in Nat /\ k \in Nat \ {0} /\ l \in Nat \ {0} /\ m \in Nat \ {0}
  BY DEF Weighed
<1>2. Tie(rows, c) \in Ties /\ Tie(rows, e) \in Ties /\ Tie(rows, f) \in Ties BY DEF Weighed
<1>3. /\ Better(rows, c, e) <=> p * l < q * k \/ (p * l = q * k /\ Lexical(Tie(rows, c), Tie(rows, e)))
      /\ Better(rows, e, f) <=> q * m < r * l \/ (q * m = r * l /\ Lexical(Tie(rows, e), Tie(rows, f)))
      /\ Better(rows, c, f) <=> p * m < r * k \/ (p * m = r * k /\ Lexical(Tie(rows, c), Tie(rows, f)))
      /\ Better(rows, c, c) <=> p * k < p * k \/ (p * k = p * k /\ Lexical(Tie(rows, c), Tie(rows, c)))
  BY DEF Better
<1> HIDE DEF p, q, r, k, l, m
<1>4. p * l \in Nat /\ q * k \in Nat /\ q * m \in Nat /\ r * l \in Nat /\ p * m \in Nat /\ r * k \in Nat /\ p * k \in Nat
  BY <1>1
<1>5. ~Lexical(Tie(rows, c), Tie(rows, c)) BY <1>2, LexicalOrder
<1>6. ~Better(rows, c, c) BY <1>3, <1>4, <1>5
<1>7. ASSUME Better(rows, c, e), Better(rows, e, f) PROVE Better(rows, c, f)
  <2>1. p * l <= q * k /\ q * m <= r * l BY <1>3, <1>4, <1>7
  <2>2. p * m <= r * k /\ (p * m = r * k => p * l = q * k /\ q * m = r * l) BY <2>1, <1>1, Fractions
  <2>3. CASE p * m = r * k
    <3>1. Lexical(Tie(rows, c), Tie(rows, e)) /\ Lexical(Tie(rows, e), Tie(rows, f))
      BY <2>2, <2>3, <1>3, <1>4, <1>7
    <3>2. Lexical(Tie(rows, c), Tie(rows, f)) BY <3>1, <1>2, LexicalOrder
    <3> QED BY <3>2, <2>3, <1>3
  <2>4. CASE p * m # r * k BY <2>2, <2>4, <1>3, <1>4
  <2> QED BY <2>3, <2>4
<1> QED BY <1>6, <1>7

LEMMA CutWeighed ==
  ASSUME NEW rows, Causal(rows), NEW prev,
         NEW c \in Times(rows) \X Times(rows) \X Times(rows), Feasible(rows, prev, c)
  PROVE  Weighed(rows, c)
<1>1. c[1] \in Nat /\ c[2] \in Nat /\ c[3] \in Nat BY Sizes
<1>2. Group(rows, c, 1) \in SUBSET rows /\ Group(rows, c, 2) \in SUBSET rows
      /\ Group(rows, c, 3) \in SUBSET rows /\ Group(rows, c, 4) \in SUBSET rows
  BY DEF Group, Released, From
<1> DEFINE n(i) == Count(rows, c, i)
<1>3. n(1) \in Nat /\ n(2) \in Nat /\ n(3) \in Nat /\ n(4) \in Nat BY <1>2, Sizes DEF Count
<1>4. n(1) >= Need[1] /\ Need[1] \in Nat \ {0} BY PartitionAssumption DEF Feasible, Parts
<1>5. Kept(rows, c) = n(1) + n(2) + n(3) + n(4) BY DEF Kept
<1>6. Tie(rows, c) = <<-n(1), -n(2), -n(3), -c[3], c[1], c[2]>> BY DEF Tie
<1> HIDE DEF n
<1>7. Kept(rows, c) \in Nat \ {0} BY <1>3, <1>4, <1>5
<1>8. Tie(rows, c) \in Ties BY <1>1, <1>3, <1>6 DEF Ties
<1>9. \A x, y \in Nat : Distance(x, y) \in Nat BY DEF Distance
<1>10. Loss(rows, c) \in Nat
  <2> DEFINE off(part, share) == Distance(20 * Count(rows, c, part), share * Kept(rows, c))
  <2>1. off(1, 10) \in Nat
    <3>1. Count(rows, c, 1) \in Nat BY <1>3 DEF n
    <3>2. 20 * Count(rows, c, 1) \in Nat /\ 10 * Kept(rows, c) \in Nat BY <3>1, <1>7
    <3> QED BY <3>2, <1>9
  <2>2. off(2, 3) \in Nat
    <3>1. Count(rows, c, 2) \in Nat BY <1>3 DEF n
    <3>2. 20 * Count(rows, c, 2) \in Nat /\ 3 * Kept(rows, c) \in Nat BY <3>1, <1>7
    <3> QED BY <3>2, <1>9
  <2>3. off(3, 3) \in Nat
    <3>1. Count(rows, c, 3) \in Nat BY <1>3 DEF n
    <3>2. 20 * Count(rows, c, 3) \in Nat /\ 3 * Kept(rows, c) \in Nat BY <3>1, <1>7
    <3> QED BY <3>2, <1>9
  <2>4. off(4, 4) \in Nat
    <3>1. Count(rows, c, 4) \in Nat BY <1>3 DEF n
    <3>2. 20 * Count(rows, c, 4) \in Nat /\ 4 * Kept(rows, c) \in Nat BY <3>1, <1>7
    <3> QED BY <3>2, <1>9
  <2>5. Loss(rows, c) = off(1, 10) + off(2, 3) + off(3, 3) + off(4, 4) BY DEF Loss
  <2> HIDE DEF off
  <2> QED BY <2>1, <2>2, <2>3, <2>4, <2>5
<1> QED BY <1>7, <1>8, <1>10 DEF Weighed

\* The refinement chooses among splits.
LEMMA RefinedFeasible ==
  ASSUME NEW rows, Causal(rows), NEW prev \in Nat,
         NEW cut \in Times(rows) \X Times(rows) \X Times(rows), Feasible(rows, prev, cut)
  PROVE  /\ Refined(rows, cut, prev) \in Times(rows) \X Times(rows) \X Times(rows)
         /\ Feasible(rows, prev, Refined(rows, cut, prev))
<1> DEFINE T == Times(rows)
           all == Cuts(rows, cut, prev) \cup {cut}
           R == {p \in all \X all : Better(rows, p[1], p[2])}
<1>1. T \subseteq Nat \ {0} /\ IsFiniteSet(T) BY Sizes
<1>2. First(T) < cut[1] /\ Enough(rows) /\ First(T) \in Nat
  <2>1. T # {} OBVIOUS
  <2> QED BY <2>1, <1>1, FirstIsLeast DEF Feasible
<1>3. Cuts(rows, cut, prev) \subseteq T \X T \X T BY DEF Cuts, Candidates
<1>4. \A c \in Cuts(rows, cut, prev) : Feasible(rows, prev, c)
  <2> SUFFICES ASSUME NEW c \in Cuts(rows, cut, prev) PROVE Feasible(rows, prev, c) OBVIOUS
  <2>1. c[1] < c[2] /\ c[2] < c[3] /\ Unseen(c[3], prev) /\ \A part \in Parts : Count(rows, c, part) >= Need[part]
    BY DEF Cuts
  <2>2. c[1] \in Candidates(rows, cut) BY DEF Cuts
  <2>3. cut[1] <= c[1] /\ c[1] \in Nat /\ cut[1] \in Nat BY <2>2, <1>1 DEF Candidates
  <2>4. First(T) < c[1] BY <2>3, <1>2
  <2> QED BY <2>1, <2>4, <1>2 DEF Feasible
<1>5. \A c \in all : c \in T \X T \X T /\ Feasible(rows, prev, c) BY <1>3, <1>4
<1>6. IsFiniteSet(all)
  <2>1. IsFiniteSet(T \X T) BY <1>1, FS_Product
  <2>2. IsFiniteSet((T \X T) \X T) BY <2>1, <1>1, FS_Product
  <2> DEFINE f == [p \in (T \X T) \X T |-> <<p[1][1], p[1][2], p[2]>>]
             I == {f[p] : p \in (T \X T) \X T}
  <2>3. f \in [(T \X T) \X T -> I] OBVIOUS
  <2>4. f \in Surjection((T \X T) \X T, I) BY <2>3 DEF Surjection
  <2>5. IsFiniteSet(I) BY <2>4, <2>2, FS_Surjection
  <2>6. all \subseteq I
    <3> SUFFICES ASSUME NEW c \in all PROVE c \in I OBVIOUS
    <3>1. c \in T \X T \X T BY <1>5
    <3>2. <<<<c[1], c[2]>>, c[3]>> \in (T \X T) \X T BY <3>1
    <3>3. f[<<<<c[1], c[2]>>, c[3]>>] = c BY <3>1, <3>2
    <3> QED BY <3>2, <3>3
  <2> QED BY <2>5, <2>6, FS_Subset
<1>7. \A c \in all : Weighed(rows, c) BY <1>5, CutWeighed
<1>8. \A c \in all : ~Better(rows, c, c) BY <1>7, BetterOrder
<1>9. \A c, e, f \in all : Better(rows, c, e) /\ Better(rows, e, f) => Better(rows, c, f)
  BY <1>7, BetterOrder
<1> HIDE DEF all
<1>10. \A c, e \in all : <<c, e>> \in R <=> Better(rows, c, e) OBVIOUS
<1>11. \E c \in all : \A e \in all : <<e, c>> \notin R
  <2>1. all # {} BY DEF all
  <2>2. \A x \in all : <<x, x>> \notin R BY <1>8, <1>10
  <2>3. \A x, y, z \in all : <<x, y>> \in R /\ <<y, z>> \in R => <<x, z>> \in R BY <1>9, <1>10
  <2> HIDE DEF R
  <2> QED BY <2>1, <2>2, <2>3, <1>6, Minimal
<1>12. \E c \in all : \A e \in all : ~Better(rows, e, c) BY <1>10, <1>11
<1>13. Refined(rows, cut, prev) \in all BY <1>12 DEF Refined, all
<1> QED BY <1>13, <1>5

-----------------------------------------------------------------------------
(* Whatever its rows, its sizes and the holdout before it, plan_partitions *)
(* finds a split exactly when there is one, and what it finds is one.      *)
THEOREM PlannerExact ==
  ASSUME NEW rows, Causal(rows), NEW prev \in Nat
  PROVE  /\ Ready(Plan(rows, prev)) <=> Splittable(rows, prev)
         /\ Ready(Plan(rows, prev)) => /\ Plan(rows, prev) \in Times(rows) \X Times(rows) \X Times(rows)
                                       /\ Feasible(rows, prev, Plan(rows, prev))
<1> DEFINE cut == V1Plan(rows, prev)
<1>1. Ready(cut) => cut \in Times(rows) \X Times(rows) \X Times(rows) /\ Feasible(rows, prev, cut)
  BY V1Facts
<1>2. Ready(Plan(rows, prev)) => Ready(cut) BY DEF Plan, Pathological
<1>3. ASSUME Ready(cut)
      PROVE  /\ Plan(rows, prev) \in Times(rows) \X Times(rows) \X Times(rows)
             /\ Feasible(rows, prev, Plan(rows, prev)) /\ Ready(Plan(rows, prev))
  <2>1. /\ Refined(rows, cut, prev) \in Times(rows) \X Times(rows) \X Times(rows)
        /\ Feasible(rows, prev, Refined(rows, cut, prev))
    BY <1>1, <1>3, RefinedFeasible
  <2>2. /\ Plan(rows, prev) \in Times(rows) \X Times(rows) \X Times(rows)
        /\ Feasible(rows, prev, Plan(rows, prev))
    BY <1>1, <1>3, <2>1 DEF Plan
  <2>3. Plan(rows, prev)[3] # 0 BY <2>2, Sizes
  <2> QED BY <2>2, <2>3 DEF Ready
<1>4. Splittable(rows, prev) => Ready(cut) BY V1Complete
<1>5. Ready(cut) => Splittable(rows, prev)
  <2> SUFFICES ASSUME Ready(cut) PROVE Splittable(rows, prev) OBVIOUS
  <2>1. cut \in Times(rows) \X Times(rows) \X Times(rows) /\ Feasible(rows, prev, cut) BY <1>1
  <2>2. cut = <<cut[1], cut[2], cut[3]>> BY V1Facts
  <2>3. \E x, y, z \in Times(rows) : Feasible(rows, prev, <<x, y, z>>) BY <2>1, <2>2
  <2>4. rows # {} BY <2>1 DEF Times
  <2> QED BY <2>3, <2>4 DEF Splittable
<1> QED BY <1>2, <1>3, <1>4, <1>5

-----------------------------------------------------------------------------
(* The registry.                                                           *)

Held == {"fitting", "reserved", "evaluated", "compared"}
Reserved == {"reserved", "evaluated", "compared"}
HoldoutOf(r) == Group(r.data, r.cut, Holdout)

Types ==
  /\ TypeOK
  /\ \A i \in Decisions : released[i] # 0 => DecidedAt[i] < released[i]
  /\ \A t \in Trainers : Causal(trainer[t].data)

Fit(t) ==
  /\ trainer[t].pc \in Held => lock = t /\ HoldoutOf(trainer[t]) # {}
  /\ trainer[t].pc = "fitting" =>
       /\ Len(ledger) < MaxFits
       /\ \A k \in 1 .. Len(ledger) : ledger[k].end < HoldStart(trainer[t])
  /\ trainer[t].pc \in Reserved =>
       /\ trainer[t].exp = Len(ledger) /\ Len(ledger) > 0 /\ models[Len(ledger)] = NoModel
       /\ ledger[Len(ledger)].start = HoldStart(trainer[t])
       /\ ledger[Len(ledger)].end = HoldEnd(trainer[t])
FitInv == \A t \in Trainers : Fit(t)

LedgerInv ==
  /\ \A k \in 1 .. Len(ledger) : ledger[k].end > 0
  /\ \A j, k \in 1 .. Len(ledger) : j < k => ledger[j].end < ledger[k].start
  /\ \A e \in Experiments : e > Len(ledger) => looks[e].data = {} /\ looks[e].hold = {}
  /\ \A e \in Experiments : e <= Len(ledger) =>
       /\ \A x \in looks[e].data : x.d <= ledger[e].end
       /\ \A x \in looks[e].hold : ledger[e].start <= x.d

RegInv ==
  /\ \A m \in Experiments : Registered(m) =>
       m <= Len(ledger) /\ models[m].start = ledger[m].start /\ models[m].end = ledger[m].end
  /\ \A m \in approved : Registered(m)
  /\ champion # 0 => champion \in approved
  /\ previous # 0 => previous \in approved
  /\ operator.pc # "idle" => operator.id \in Experiments /\ Registered(operator.id)
  /\ operator.pc \in {"approved", "kept"} => operator.id \in approved
  /\ operator.pc # "idle" /\ operator.kind = "promote" => Proven(operator.id)

IInv == Types /\ FitInv /\ LedgerInv /\ RegInv

-----------------------------------------------------------------------------
LEMMA GreatestExists ==
  ASSUME NEW T, T \subseteq Nat, IsFiniteSet(T), T # {}
  PROVE  \E e \in T : \A u \in T : u <= e
<1> DEFINE R == {p \in T \X T : p[2] < p[1]}
<1>1. \A x \in T : <<x, x>> \notin R OBVIOUS
<1>2. \A x, y, z \in T : <<x, y>> \in R /\ <<y, z>> \in R => <<x, z>> \in R OBVIOUS
<1>3. \E x \in T : \A y \in T : <<y, x>> \notin R
  <2> HIDE DEF R
  <2> QED BY <1>1, <1>2, Minimal
<1>4. PICK x \in T : \A y \in T : <<y, x>> \notin R BY <1>3
<1>5. ASSUME NEW y \in T PROVE y <= x
  <2>1. <<y, x>> \in T \X T /\ <<y, x>>[1] = y /\ <<y, x>>[2] = x OBVIOUS
  <2>2. ~(x < y) BY <2>1, <1>4
  <2>3. x \in Nat /\ y \in Nat OBVIOUS
  <2> QED BY <2>2, <2>3
<1> QED BY <1>5

\* The end of a holdout is after every decision of its dataset.
LEMMA HoldFacts ==
  ASSUME NEW r, Causal(r.data), r.cut[3] \in Nat, HoldoutOf(r) # {}
  PROVE  /\ HoldEnd(r) \in Nat \ {0}
         /\ \A x \in r.data : x.d <= HoldEnd(r)
         /\ \A x \in HoldoutOf(r) : HoldStart(r) <= x.d
         /\ HoldoutOf(r) \subseteq r.data
<1> DEFINE T == {x.rel : x \in HoldoutOf(r)}
<1>1. HoldoutOf(r) = {x \in r.data : HoldStart(r) <= x.d} BY DEF HoldoutOf, Holdout, Group, From, HoldStart
<1>2. HoldoutOf(r) \subseteq Row /\ IsFiniteSet(HoldoutOf(r)) BY <1>1, FS_Subset DEF Causal
<1>3. T \subseteq Nat BY <1>2 DEF Row
<1>4. IsFiniteSet(T)
  <2> DEFINE f == [x \in HoldoutOf(r) |-> x.rel]
  <2>1. f \in [HoldoutOf(r) -> T] OBVIOUS
  <2>2. f \in Surjection(HoldoutOf(r), T) BY <2>1 DEF Surjection
  <2> QED BY <2>2, <1>2, FS_Surjection
<1>5. T # {}
  <2>1. PICK x \in HoldoutOf(r) : TRUE OBVIOUS
  <2> QED BY <2>1
<1>6. \E e \in T : \A u \in T : u <= e BY <1>3, <1>4, <1>5, GreatestExists
<1>7. HoldEnd(r) \in T /\ \A x \in HoldoutOf(r) : x.rel <= HoldEnd(r) BY <1>6 DEF HoldEnd, HoldoutOf
<1>8. \A x \in r.data : x.d \in Nat /\ x.rel \in Nat /\ x.d < x.rel BY DEF Causal, Row
<1>9. PICK h \in HoldoutOf(r) : TRUE OBVIOUS
<1>10. HoldEnd(r) \in Nat /\ h.d < h.rel /\ h.rel <= HoldEnd(r) /\ HoldStart(r) <= h.d /\ h.d \in Nat /\ h.rel \in Nat
  BY <1>1, <1>3, <1>7, <1>8, <1>9
<1>11. ASSUME NEW x \in r.data PROVE x.d <= HoldEnd(r)
  <2>1. CASE x \in HoldoutOf(r) BY <2>1, <1>7, <1>8, <1>10
  <2>2. CASE x \notin HoldoutOf(r)
    <3>1. ~(HoldStart(r) <= x.d) BY <2>2, <1>1
    <3>2. HoldStart(r) \in Nat BY DEF HoldStart
    <3> QED BY <3>1, <3>2, <1>8, <1>10
  <2> QED BY <2>1, <2>2
<1> QED BY <1>1, <1>10, <1>11

LEMMA OutcomesCausal == Types => Causal(Outcomes)
<1> SUFFICES ASSUME Types PROVE Causal(Outcomes) OBVIOUS
<1> DEFINE D == {j \in Decisions : released[j] # 0}
           f == [i \in D |-> [id |-> i, d |-> DecidedAt[i], rel |-> released[i]]]
<1>1. DecidedAt \in Seq(Nat \ {0}) BY RegistryAssumption
<1>2. Decisions = 1 .. Len(DecidedAt) /\ Len(DecidedAt) \in Nat BY <1>1 DEF Decisions
<1>3. IsFiniteSet(D)
  <2>1. IsFiniteSet(Decisions) BY <1>2, FS_Interval
  <2> QED BY <2>1, FS_Subset
<1>4. Outcomes = {f[i] : i \in D} BY DEF Outcomes
<1>5. IsFiniteSet(Outcomes)
  <2>1. f \in [D -> Outcomes] BY <1>4
  <2>2. f \in Surjection(D, Outcomes) BY <2>1, <1>4 DEF Surjection
  <2> QED BY <2>2, <1>3, FS_Surjection
<1>6. \A i \in D : i \in Nat /\ DecidedAt[i] \in Nat \ {0} /\ released[i] \in Nat /\ DecidedAt[i] < released[i]
  BY <1>1, <1>2 DEF Types, TypeOK
<1>7. \A x \in Outcomes : x \in Row /\ x.d < x.rel
  BY <1>6 DEF Outcomes, Row
<1> QED BY <1>5, <1>7 DEF Causal

LEMMA LastEndFacts ==
  ASSUME Types
  PROVE  LastEnd \in Nat /\ \A k \in 1 .. Len(ledger) : ledger[k].end <= LastEnd
<1>1. ledger \in Seq(Reservation) BY DEF Types, TypeOK
<1>2. Len(ledger) \in Nat /\ DOMAIN ledger = 1 .. Len(ledger) BY <1>1
<1>3. \A k \in 1 .. Len(ledger) : ledger[k].end \in Nat
  <2>1. \A k \in 1 .. Len(ledger) : ledger[k] \in Reservation BY <1>1, <1>2
  <2> QED BY <2>1 DEF Reservation
<1>4. CASE ledger = <<>> BY <1>4, <1>2 DEF LastEnd
<1>5. CASE ledger # <<>>
  <2> DEFINE T == {ledger[k].end : k \in DOMAIN ledger}
             f == [k \in DOMAIN ledger |-> ledger[k].end]
  <2>1. T \subseteq Nat BY <1>2, <1>3
  <2>2. IsFiniteSet(T)
    <3>1. f \in [DOMAIN ledger -> T] OBVIOUS
    <3>2. f \in Surjection(DOMAIN ledger, T) BY <3>1 DEF Surjection
    <3>3. IsFiniteSet(DOMAIN ledger) BY <1>2, FS_Interval
    <3> QED BY <3>2, <3>3, FS_Surjection
  <2>3. T # {}
    <3>1. 1 \in DOMAIN ledger BY <1>1, <1>2, <1>5
    <3>2. ledger[1].end \in T BY <3>1
    <3> QED BY <3>2
  <2>4. \E e \in T : \A u \in T : u <= e BY <2>1, <2>2, <2>3, GreatestExists
  <2>5. \E e \in T : \A k \in DOMAIN ledger : ledger[k].end <= e BY <2>4
  <2>6. LastEnd \in T /\ \A k \in DOMAIN ledger : ledger[k].end <= LastEnd BY <2>5, <1>5 DEF LastEnd
  <2> QED BY <2>1, <2>6, <1>2
<1> QED BY <1>4, <1>5

LEMMA LedgerTypes ==
  ASSUME Types
  PROVE  /\ Len(ledger) \in Nat /\ DOMAIN ledger = 1 .. Len(ledger)
         /\ \A k \in 1 .. Len(ledger) : ledger[k].start \in Nat /\ ledger[k].end \in Nat
<1>1. ledger \in Seq(Reservation) BY DEF Types, TypeOK
<1>2. Len(ledger) \in Nat /\ DOMAIN ledger = 1 .. Len(ledger) BY <1>1
<1>3. \A k \in 1 .. Len(ledger) : ledger[k] \in Reservation BY <1>1, <1>2
<1> QED BY <1>2, <1>3 DEF Reservation

\* What the type invariant says of one trainer.
LEMMA TrainerTypes ==
  ASSUME Types, NEW t \in Trainers
  PROVE  /\ trainer[t].cut \in Nat \X Nat \X Nat /\ trainer[t].cut[3] \in Nat
         /\ trainer[t].exp \in Experiments \cup {0} /\ trainer[t].versus \in Experiments \cup {0}
         /\ trainer[t].wins \in BOOLEAN /\ trainer[t].data \in SUBSET Row
         /\ Causal(trainer[t].data) /\ HoldStart(trainer[t]) \in Nat
BY DEF Types, TypeOK, HoldStart, Process

\* A trainer that has compared.
LEMMA ComparedTypes ==
  ASSUME NEW p \in Process, NEW v \in Experiments \cup {0}, NEW w \in BOOLEAN
  PROVE  LET q == [p EXCEPT !.pc = "compared", !.versus = v, !.wins = w]
         IN  q \in Process /\ q.data = p.data
<1> DEFINE q == [p EXCEPT !.pc = "compared", !.versus = v, !.wins = w]
<1>1. CASE w = TRUE BY <1>1 DEF Process
<1>2. CASE w = FALSE BY <1>2 DEF Process
<1> QED BY <1>1, <1>2

LEMMA Standings ==
  ASSUME Types
  PROVE  Standing \in Experiments \cup {0} /\ (Standing # 0 => Standing = champion /\ Standing \in approved)
BY DEF Standing, Types, TypeOK

-----------------------------------------------------------------------------
LEMMA InitInv == Init => IInv
<1> SUFFICES ASSUME Init PROVE IInv OBVIOUS
<1> USE RegistryAssumption
<1>1. DecidedAt \in Seq(Nat \ {0}) /\ \A i \in Decisions : DecidedAt[i] \in Nat
  BY DEF Decisions
<1>2. released \in [Decisions -> Nat] /\ \A i \in Decisions : released[i] # 0 => DecidedAt[i] < released[i]
  BY <1>1 DEF Init
<1>3. Idle \in Process BY DEF Idle, Process
<1>4. NoModel \in Model
  BY DEF NoModel, Model
<1>5. Causal({}) BY FS_EmptySet DEF Causal
<1>6. Types
  <2>1. trainer \in [Trainers -> Process] /\ models \in [Experiments -> Model] BY <1>3, <1>4 DEF Init
  <2>2. ledger \in Seq(Reservation) /\ Len(ledger) <= MaxFits BY DEF Init
  <2>3. looks \in [Experiments -> [data : SUBSET Row, hold : SUBSET Row]] BY DEF Init
  <2>4. \A t \in Trainers : Causal(trainer[t].data) BY <1>5 DEF Init, Idle
  <2>5. now \in Nat /\ lock \in Trainers \cup {Free} /\ deaths \in Nat /\ approved = {} /\ degraded = {}
        /\ champion = 0 /\ previous = 0 /\ operator = [pc |-> "idle", kind |-> "promote", id |-> 0]
    BY DEF Init, NoOne
  <2> QED BY <1>2, <2>1, <2>2, <2>3, <2>4, <2>5 DEF Types, TypeOK
<1>7. FitInv BY DEF Init, FitInv, Fit, Idle, Held, Reserved
<1>8. LedgerInv BY DEF Init, LedgerInv, Experiments
<1>9. RegInv BY DEF Init, RegInv, Registered, NoOne
<1> QED BY <1>6, <1>7, <1>8, <1>9 DEF IInv

-----------------------------------------------------------------------------
(* Types.                                                                  *)
LEMMA TypesStep == IInv /\ [Next]_vars => Types'
<1> SUFFICES ASSUME IInv, [Next]_vars PROVE Types' OBVIOUS
<1>0. Types /\ FitInv BY DEF IInv
<1>a. Types /\ UNCHANGED <<outcomes, trainer, lock, ledger, looks, registry, operator>> /\ deaths' \in Nat => Types'
  BY DEF Types, TypeOK, Decisions, outcomes, registry
<1>b. deaths \in Nat /\ (Die => deaths' \in Nat) BY <1>0 DEF Die, Types, TypeOK
<1>1. ASSUME Tick PROVE Types'
  BY <1>0, <1>1 DEF Tick, Types, TypeOK, Decisions, registry
<1>2. ASSUME NEW i \in Decisions, Resolve(i) PROVE Types'
  <2>1. released' \in [Decisions -> Nat] BY <1>0, <1>2 DEF Resolve, Types, TypeOK
  <2>2. \A j \in Decisions : released'[j] # 0 => DecidedAt[j] < released'[j]
    BY <1>0, <1>2 DEF Resolve, Types, TypeOK
  <2> QED BY <2>1, <2>2, <1>0, <1>2 DEF Resolve, Types, TypeOK, Decisions, registry
<1>c. ASSUME NEW t \in Trainers, NEW r, Step(t, r), Causal(r.data),
             r \in Process
      PROVE /\ trainer' \in [Trainers ->
                   Process]
            /\ \A u \in Trainers : Causal(trainer'[u].data)
  BY <1>0, <1>c DEF Step, Types, TypeOK
<1>d. Idle \in Process /\ Causal(Idle.data)
  BY FS_EmptySet DEF Idle, Causal, Process
<1>e. ASSUME NEW t \in Trainers, Unlocked(t) PROVE lock' \in Trainers \cup {Free}
  BY <1>0, <1>e DEF Unlocked, Types, TypeOK
<1>3. ASSUME NEW t \in Trainers, Export(t) PROVE Types'
  <2> DEFINE r == [Idle EXCEPT !.pc = "file", !.data = Outcomes]
  <2>1. Causal(Outcomes) BY <1>0, OutcomesCausal
  <2>2. r.data = Outcomes BY DEF Idle
  <2>3. Outcomes \in SUBSET Row BY <2>1 DEF Causal
  <2>4. r \in Process
    BY <2>3 DEF Idle, Process
  <2>5. Step(t, r) BY <1>3 DEF Export
  <2> HIDE DEF r
  <2> QED BY <2>1, <2>2, <2>4, <2>5, <1>c, <1>0, <1>3 DEF Export, Types, TypeOK, Decisions, outcomes, registry
<1>4. ASSUME NEW t \in Trainers, Begin(t) PROVE Types'
  <2>1. CASE lock = Free /\ Fitting(t)
    <3> DEFINE r == [trainer[t] EXCEPT !.cut = Plan(trainer[t].data, LastEnd)]
               q == [r EXCEPT !.pc = "fitting"]
    <3>1. Causal(trainer[t].data) /\ LastEnd \in Nat BY <1>0, TrainerTypes, LastEndFacts
    <3>2. r.cut = Plan(trainer[t].data, LastEnd) BY <1>0 DEF Types, TypeOK
    <3>3. Ready(Plan(trainer[t].data, LastEnd)) BY <2>1, <3>2 DEF Fitting
    <3>4. Plan(trainer[t].data, LastEnd) \in Times(trainer[t].data) \X Times(trainer[t].data) \X Times(trainer[t].data)
      BY <3>1, <3>3, PlannerExact
    <3>5. Plan(trainer[t].data, LastEnd) \in Nat \X Nat \X Nat BY <3>1, <3>4, Sizes
    <3>6. q \in Process /\ q.data = trainer[t].data
      BY ZenonT(30), <3>5, <1>0 DEF Types, TypeOK, Process
    <3>7. Step(t, q) /\ lock' = t BY <2>1 DEF Fitting
    <3> HIDE DEF q
    <3> QED BY <3>1, <3>6, <3>7, <1>c, <1>0, <1>4 DEF Begin, Types, TypeOK, Decisions, outcomes, registry
  <2>2. CASE Abstain(t)
    <3>1. Step(t, Idle) /\ Unlocked(t) BY <2>2 DEF Abstain
    <3> QED BY <3>1, <1>c, <1>d, <1>e, <1>0, <1>4 DEF Begin, Types, TypeOK, Decisions, outcomes, registry
  <2> QED BY <2>1, <2>2, <1>4 DEF Begin
<1>5. ASSUME NEW t \in Trainers, Reserve(t) PROVE Types'
  <2>0. trainer[t].pc = "fitting" BY <1>5 DEF Reserve
  <2>1. CASE Overlaps(trainer[t])
    <3>1. Step(t, Idle) /\ Unlocked(t) /\ UNCHANGED ledger BY <2>1, <1>5 DEF Reserve, Abstain
    <3> QED BY <3>1, <1>c, <1>d, <1>e, <1>0, <1>5 DEF Reserve, Types, TypeOK, Decisions, outcomes, registry
  <2>2. CASE ~Overlaps(trainer[t])
    <3> DEFINE q == [trainer[t] EXCEPT !.pc = "reserved", !.exp = Len(ledger) + 1]
               l == [start |-> HoldStart(trainer[t]), end |-> HoldEnd(trainer[t])]
    <3>1. HoldoutOf(trainer[t]) # {} /\ Len(ledger) < MaxFits BY <2>0, <1>0 DEF FitInv, Fit, Held
    <3>2. HoldEnd(trainer[t]) \in Nat /\ HoldStart(trainer[t]) \in Nat BY <3>1, <1>0, TrainerTypes, HoldFacts
    <3>3. l \in Reservation BY <3>2 DEF Reservation
    <3>4. ledger' = Append(ledger, l) BY <2>2, <1>5 DEF Reserve
    <3>5. ledger \in Seq(Reservation) BY <1>0 DEF Types, TypeOK
    <3>6. ledger' \in Seq(Reservation) /\ Len(ledger') = Len(ledger) + 1 BY <3>3, <3>4, <3>5
    <3>7. Len(ledger) + 1 \in Experiments /\ Len(ledger') <= MaxFits
      BY <3>1, <3>5, <3>6, RegistryAssumption DEF Experiments
    <3>8. q \in Process /\ q.data = trainer[t].data /\ Causal(trainer[t].data)
      BY ZenonT(30), <3>7, <1>0 DEF Types, TypeOK, Process
    <3>9. Step(t, q) /\ lock' = lock BY <2>2, <1>5 DEF Reserve
    <3> HIDE DEF q, l
    <3> QED BY <3>6, <3>7, <3>8, <3>9, <1>c, <1>0, <1>5 DEF Reserve, Types, TypeOK, Decisions, outcomes, registry
  <2> QED BY <2>1, <2>2
<1>6. ASSUME NEW t \in Trainers, Evaluate(t) PROVE Types'
  <2> DEFINE q == [trainer[t] EXCEPT !.pc = "evaluated"]
  <2>1. Causal(trainer[t].data) /\ trainer[t].data \in SUBSET Row BY <1>0, TrainerTypes
  <2>2. Group(trainer[t].data, trainer[t].cut, Holdout) \in SUBSET Row BY <2>1 DEF Group, Holdout, From
  <2>3. looks' \in [Experiments -> [data : SUBSET Row, hold : SUBSET Row]]
    BY <2>1, <2>2, <1>0, <1>6 DEF Evaluate, Types, TypeOK
  <2>4. q \in Process /\ q.data = trainer[t].data
    BY ZenonT(30), <1>0 DEF Types, TypeOK, Process
  <2>5. Step(t, q) BY <1>6 DEF Evaluate
  <2> HIDE DEF q
  <2> QED BY <2>1, <2>3, <2>4, <2>5, <1>c, <1>0, <1>6 DEF Evaluate, Types, TypeOK, Decisions, outcomes, registry
<1>7. ASSUME NEW t \in Trainers, Compare(t) PROVE Types'
  <2>1. PICK wins \in BOOLEAN :
          LET fair == Standing # 0 /\ HoldStart(trainer[t]) > models[Standing].end
          IN  Step(t, [trainer[t] EXCEPT !.pc = "compared",
                         !.versus = IF fair THEN Standing ELSE 0, !.wins = fair /\ wins])
    BY <1>7 DEF Compare
  <2> DEFINE fair == Standing # 0 /\ HoldStart(trainer[t]) > models[Standing].end
             q == [trainer[t] EXCEPT !.pc = "compared", !.versus = IF fair THEN Standing ELSE 0,
                                     !.wins = fair /\ wins]
  <2>2. Standing \in Experiments \cup {0} BY <1>0, Standings
  <2>3. (fair /\ wins) \in BOOLEAN /\ (IF fair THEN Standing ELSE 0) \in Experiments \cup {0}
    BY <2>2
  <2>4. q \in Process /\ q.data = trainer[t].data /\ Causal(trainer[t].data)
    <3>1. trainer[t] \in Process BY <1>0 DEF Types, TypeOK
    <3> QED BY <2>3, <3>1, <1>0, ComparedTypes DEF Types
  <2>5. Step(t, q) BY <2>1 DEF fair
  <2> HIDE DEF q
  <2> QED BY <2>4, <2>5, <1>c, <1>0, <1>7 DEF Compare, Types, TypeOK, Decisions, outcomes, registry
<1>8. ASSUME NEW t \in Trainers, Register(t) PROVE Types'
  <2>1. PICK good \in BOOLEAN :
          models' = [models EXCEPT ![trainer[t].exp] =
                       [start |-> HoldStart(trainer[t]), end |-> HoldEnd(trainer[t]), good |-> good,
                        versus |-> trainer[t].versus, wins |-> trainer[t].wins]]
    BY <1>8 DEF Register
  <2>2. HoldoutOf(trainer[t]) # {} BY <1>0, <1>8 DEF Register, FitInv, Fit, Held
  <2>3. HoldEnd(trainer[t]) \in Nat /\ HoldStart(trainer[t]) \in Nat BY <2>2, <1>0, TrainerTypes, HoldFacts
  <2>4. models' \in [Experiments ->
          Model]
    BY <2>1, <2>3, <1>0, TrainerTypes DEF Types, TypeOK, Process, Model
  <2>5. Step(t, Idle) /\ Unlocked(t) BY <1>8 DEF Register
  <2> QED BY <2>4, <2>5, <1>c, <1>d, <1>e, <1>0, <1>8 DEF Register, Types, TypeOK, Decisions, outcomes
<1>9. ASSUME NEW t \in Trainers, TrainerDies(t) PROVE Types'
  <2>1. Step(t, Idle) /\ Unlocked(t) /\ deaths' \in Nat BY <1>9, <1>b DEF TrainerDies, Abstain
  <2> QED BY <2>1, <1>c, <1>d, <1>e, <1>0, <1>9 DEF TrainerDies, Types, TypeOK, Decisions, outcomes, registry
<1>10. ASSUME NEW m \in Experiments, Review(m) \/ Degrade(m) PROVE Types'
  BY <1>0, <1>10 DEF Review, Degrade, Order, Types, TypeOK, Decisions, outcomes, registry
<1>11. ASSUME Approve \/ RollBack \/ KeepPrevious \/ Install PROVE Types'
  <2>1. CASE Approve
    <3>1. operator.id \in Experiments BY <1>0, <2>1 DEF IInv, RegInv, Approve
    <3> QED BY <3>1, <1>0, <2>1 DEF Approve, Order, Types, TypeOK, Decisions, outcomes
  <2>2. CASE RollBack BY <1>0, <2>2 DEF RollBack, Order, Types, TypeOK, Decisions, outcomes, registry
  <2>3. CASE KeepPrevious BY <1>0, <2>3 DEF KeepPrevious, Order, Types, TypeOK, Decisions, outcomes
  <2>4. CASE Install BY <1>0, <2>4 DEF Install, NoOne, Types, TypeOK, Decisions, outcomes
  <2> QED BY <1>11, <2>1, <2>2, <2>3, <2>4
<1>12. ASSUME OperatorDies PROVE Types'
  BY <1>0, <1>b, <1>12 DEF OperatorDies, NoOne, Types, TypeOK, Decisions, outcomes, registry
<1>13. CASE UNCHANGED vars BY <1>a, <1>0, <1>b, <1>13 DEF vars
<1> QED BY <1>1, <1>2, <1>3, <1>4, <1>5, <1>6, <1>7, <1>8, <1>9, <1>10, <1>11, <1>12, <1>13 DEF Next

-----------------------------------------------------------------------------
(* The fit under the lock.                                                 *)
LEMMA Only ==
  ASSUME FitInv, NEW t \in Trainers, trainer[t].pc \in Held
  PROVE  \A u \in Trainers \ {t} : trainer[u].pc \notin Held
BY DEF FitInv, Fit

LEMMA Stepped ==
  ASSUME Types, NEW t \in Trainers, NEW r, Step(t, r)
  PROVE  trainer'[t] = r /\ \A u \in Trainers \ {t} : trainer'[u] = trainer[u]
BY DEF Types, TypeOK, Step

\* What happens to one trainer leaves the others as they were.
LEMMA OthersFit ==
  ASSUME Types, FitInv, NEW t \in Trainers, NEW r, Step(t, r),
         \/ trainer[t].pc \in Held \/ lock = Free
         \/ UNCHANGED <<ledger, models>> /\ (Unlocked(t) \/ UNCHANGED lock),
         \A u \in Trainers : u # Free
  PROVE  \A u \in Trainers \ {t} : Fit(u)'
<1> SUFFICES ASSUME NEW u \in Trainers \ {t} PROVE Fit(u)' OBVIOUS
<1>1. trainer'[u] = trainer[u] BY Stepped
<1>2. CASE trainer[u].pc \notin Held
  BY <1>1, <1>2 DEF Fit, Held, Reserved
<1>3. CASE trainer[u].pc \in Held
  <2>1. lock = u /\ Fit(u) BY <1>3 DEF FitInv, Fit
  <2>2. trainer[t].pc \notin Held BY <2>1, <1>3 DEF FitInv, Fit
  <2>3. lock # Free BY <2>1
  <2>4. UNCHANGED <<ledger, models>> /\ (Unlocked(t) \/ UNCHANGED lock) BY <2>2, <2>3
  <2>5. lock' = lock BY <2>1, <2>4 DEF Unlocked
  <2> QED BY <1>1, <2>1, <2>4, <2>5 DEF Fit
<1> QED BY <1>2, <1>3

LEMMA IdleFits ==
  ASSUME NEW t \in Trainers, trainer'[t].pc \notin Held
  PROVE  Fit(t)'
BY DEF Fit, Held, Reserved

LEMMA FitStep == IInv /\ [Next]_vars => FitInv'
<1> SUFFICES ASSUME IInv, [Next]_vars PROVE FitInv' OBVIOUS
<1>0. Types /\ FitInv /\ LedgerInv /\ RegInv BY DEF IInv
<1>f. \A u \in Trainers : u # Free BY RegistryAssumption
<1>k. UNCHANGED <<trainer, lock, ledger, models>> => FitInv' BY <1>0 DEF FitInv, Fit
<1>d. Idle.pc \notin Held BY DEF Idle, Held
<1>1. CASE Tick \/ (\E i \in Decisions : Resolve(i)) BY <1>1, <1>k DEF Tick, Resolve, registry
<1>2. ASSUME NEW m \in Experiments, Review(m) \/ Degrade(m) PROVE FitInv'
  BY <1>2, <1>k DEF Review, Degrade, registry
<1>3. CASE Approve \/ RollBack \/ KeepPrevious \/ Install \/ OperatorDies
  BY <1>3, <1>k DEF Approve, RollBack, KeepPrevious, Install, OperatorDies, registry
<1>4. ASSUME NEW t \in Trainers, Abstain(t), trainer[t].pc \in Held \/ UNCHANGED <<ledger, models>> PROVE FitInv'
  <2>1. Step(t, Idle) /\ Unlocked(t) BY <1>4 DEF Abstain
  <2>2. \A u \in Trainers \ {t} : Fit(u)' BY <2>1, <1>0, <1>4, <1>f, OthersFit
  <2>3. trainer'[t] = Idle BY <2>1, <1>0, Stepped
  <2>4. Fit(t)' BY <2>3, <1>d, IdleFits
  <2> QED BY <2>2, <2>4 DEF FitInv
<1>5. ASSUME NEW t \in Trainers, Export(t) PROVE FitInv'
  <2> DEFINE r == [Idle EXCEPT !.pc = "file", !.data = Outcomes]
  <2>1. Step(t, r) /\ UNCHANGED <<ledger, models, lock>> BY <1>5 DEF Export, registry
  <2>2. r.pc \notin Held BY DEF Idle, Held
  <2> HIDE DEF r
  <2>3. \A u \in Trainers \ {t} : Fit(u)' BY <2>1, <1>0, <1>f, OthersFit
  <2>4. trainer'[t] = r BY <2>1, <1>0, Stepped
  <2>5. Fit(t)' BY <2>2, <2>4, IdleFits
  <2> QED BY <2>3, <2>5 DEF FitInv
<1>6. ASSUME NEW t \in Trainers, Begin(t) PROVE FitInv'
  <2>0. trainer[t].pc = "file" /\ Len(ledger) < MaxFits /\ UNCHANGED <<ledger, models>> BY <1>6 DEF Begin, registry
  <2>1. CASE Abstain(t) BY <2>0, <2>1, <1>4
  <2>2. CASE lock = Free /\ Fitting(t)
    <3> DEFINE p == trainer[t]
               cut == Plan(p.data, LastEnd)
               r == [p EXCEPT !.cut = cut]
               q == [r EXCEPT !.pc = "fitting"]
    <3>1. p \in Process BY <1>0 DEF Types, TypeOK
    <3>2. r.cut = cut /\ q.data = p.data /\ q.cut = cut /\ q.pc = "fitting" BY <3>1 DEF Process
    <3>3. Ready(cut) /\ Step(t, q) /\ lock' = t BY <2>2, <3>2 DEF Fitting
    <3>4. Causal(p.data) /\ LastEnd \in Nat /\ \A k \in 1 .. Len(ledger) : ledger[k].end <= LastEnd
      BY <1>0, TrainerTypes, LastEndFacts
    <3>5. Feasible(p.data, LastEnd, cut) /\ cut \in Times(p.data) \X Times(p.data) \X Times(p.data)
      BY <3>3, <3>4, PlannerExact
    <3> HIDE DEF r
    <3>6. cut[3] \in Nat /\ Embargo \in Nat BY <3>4, <3>5, Sizes, PartitionAssumption
    <3>7. HoldoutOf(q) # {}
      <4>1. Count(p.data, cut, Holdout) >= Need[Holdout] /\ Need[Holdout] \in Nat \ {0}
        BY <3>5, PartitionAssumption DEF Feasible, Parts, Holdout
      <4>2. Cardinality({}) = 0 BY FS_EmptySet
      <4>3. Cardinality(HoldoutOf(q)) >= Need[Holdout] BY <4>1, <3>2 DEF HoldoutOf, Count
      <4> QED BY <4>1, <4>2, <4>3
    <3>8. \A k \in 1 .. Len(ledger) : ledger[k].end < cut[3]
      <4> SUFFICES ASSUME NEW k \in 1 .. Len(ledger) PROVE ledger[k].end < cut[3] OBVIOUS
      <4>1. ledger[k].end \in Nat /\ ledger[k].end > 0 /\ ledger[k].end <= LastEnd
        BY <1>0, <3>4, LedgerTypes DEF LedgerInv
      <4>2. LastEnd = 0 \/ cut[3] > LastEnd + Embargo BY <3>5 DEF Feasible, Unseen
      <4> HIDE DEF cut
      <4> QED BY <4>1, <4>2, <3>4, <3>6
    <3>9. HoldStart(q) = cut[3] BY <3>2 DEF HoldStart
    <3> HIDE DEF q
    <3>10. trainer'[t] = q BY <3>3, <1>0, Stepped
    <3>11. Fit(t)'
      <4>1. HoldoutOf(trainer'[t]) # {} /\ HoldStart(trainer'[t]) = cut[3] /\ trainer'[t].pc = "fitting"
        BY <3>2, <3>7, <3>9, <3>10
      <4> HIDE DEF cut
      <4>2. \A k \in 1 .. Len(ledger') : ledger'[k].end < HoldStart(trainer'[t]) BY <4>1, <3>8, <2>0
      <4> QED BY <4>1, <4>2, <2>0, <3>3 DEF Fit, Held, Reserved
    <3>12. \A u \in Trainers \ {t} : Fit(u)' BY <3>3, <1>0, <1>f, <2>2, OthersFit
    <3> QED BY <3>11, <3>12 DEF FitInv
  <2> QED BY <2>1, <2>2, <1>6 DEF Begin
<1>7. ASSUME NEW t \in Trainers, Reserve(t) PROVE FitInv'
  <2>0. trainer[t].pc = "fitting" /\ trainer[t].pc \in Held /\ Fit(t) /\ UNCHANGED models
    BY <1>0, <1>7 DEF Reserve, Held, FitInv, registry
  <2>1. CASE Overlaps(trainer[t])
    <3>1. Abstain(t) BY <1>7, <2>1 DEF Reserve
    <3> QED BY <3>1, <2>0, <1>4
  <2>2. CASE ~Overlaps(trainer[t])
    <3> DEFINE p == trainer[t]
               q == [p EXCEPT !.pc = "reserved", !.exp = Len(ledger) + 1]
               l == [start |-> HoldStart(p), end |-> HoldEnd(p)]
    <3>1. p \in Process BY <1>0 DEF Types, TypeOK
    <3>2. q.data = p.data /\ q.cut = p.cut /\ q.pc = "reserved" /\ q.exp = Len(ledger) + 1 BY <3>1 DEF Process
    <3>3. Step(t, q) /\ ledger' = Append(ledger, l) /\ lock' = lock BY <1>7, <2>2 DEF Reserve
    <3>4. HoldoutOf(q) = HoldoutOf(p) /\ HoldStart(q) = HoldStart(p) /\ HoldEnd(q) = HoldEnd(p)
      BY <3>2 DEF HoldoutOf, HoldStart, HoldEnd
    <3>5. l.start = HoldStart(p) /\ l.end = HoldEnd(p) OBVIOUS
    <3> HIDE DEF q, l
    <3>6. trainer'[t] = q BY <3>3, <1>0, Stepped
    <3>7. Len(ledger) \in Nat /\ Len(ledger') = Len(ledger) + 1 /\ ledger'[Len(ledger) + 1] = l
      BY <3>3, <1>0 DEF Types, TypeOK
    <3>8. Len(ledger) + 1 \in Experiments BY <3>7, <2>0, RegistryAssumption DEF Fit, Experiments
    <3>9. models[Len(ledger) + 1] = NoModel BY <3>7, <3>8, <1>0 DEF RegInv, Registered
    <3>10. HoldoutOf(p) # {} /\ lock = t BY <2>0 DEF Fit
    <3>11. Fit(t)'
      <4>1. lock' = t /\ HoldoutOf(trainer'[t]) # {} /\ trainer'[t].pc = "reserved" BY <3>2, <3>3, <3>4, <3>6, <3>10
      <4>2. trainer'[t].exp = Len(ledger') /\ Len(ledger') > 0 /\ models'[Len(ledger')] = NoModel
        BY <3>2, <3>6, <3>7, <3>9, <2>0
      <4>3. ledger'[Len(ledger')].start = HoldStart(trainer'[t]) /\ ledger'[Len(ledger')].end = HoldEnd(trainer'[t])
        BY <3>4, <3>5, <3>6, <3>7
      <4> QED BY <4>1, <4>2, <4>3 DEF Fit
    <3>12. \A u \in Trainers \ {t} : Fit(u)' BY <3>3, <1>0, <1>f, <2>0, OthersFit
    <3> QED BY <3>11, <3>12 DEF FitInv
  <2> QED BY <2>1, <2>2
<1>8. ASSUME NEW t \in Trainers, NEW q, Step(t, q), UNCHANGED <<ledger, models, lock>>,
             trainer[t].pc \in Reserved, q.pc \in Reserved,
             q.data = trainer[t].data, q.cut = trainer[t].cut, q.exp = trainer[t].exp
      PROVE FitInv'
  <2>1. trainer'[t] = q BY <1>8, <1>0, Stepped
  <2>2. HoldoutOf(q) = HoldoutOf(trainer[t]) /\ HoldStart(q) = HoldStart(trainer[t]) /\ HoldEnd(q) = HoldEnd(trainer[t])
    BY <1>8 DEF HoldoutOf, HoldStart, HoldEnd
  <2>3. Fit(t) /\ trainer[t].pc \in Held /\ q.pc # "fitting" BY <1>0, <1>8 DEF FitInv, Held, Reserved
  <2>4. Fit(t)'
    <3>1. lock' = t /\ HoldoutOf(trainer'[t]) # {} BY <1>8, <2>1, <2>2, <2>3 DEF Fit
    <3>2. /\ trainer'[t].exp = Len(ledger') /\ Len(ledger') > 0 /\ models'[Len(ledger')] = NoModel
          /\ ledger'[Len(ledger')].start = HoldStart(trainer'[t])
          /\ ledger'[Len(ledger')].end = HoldEnd(trainer'[t])
      BY <1>8, <2>1, <2>2, <2>3 DEF Fit
    <3> QED BY <3>1, <3>2, <2>1, <2>3 DEF Fit
  <2>5. \A u \in Trainers \ {t} : Fit(u)' BY <1>8, <1>0, <1>f, OthersFit
  <2> QED BY <2>4, <2>5 DEF FitInv
<1>9. ASSUME NEW t \in Trainers, Evaluate(t) PROVE FitInv'
  <2> DEFINE q == [trainer[t] EXCEPT !.pc = "evaluated"]
  <2>1. trainer[t] \in Process BY <1>0 DEF Types, TypeOK
  <2>2. q.pc \in Reserved /\ q.data = trainer[t].data /\ q.cut = trainer[t].cut /\ q.exp = trainer[t].exp
    BY <2>1 DEF Process, Reserved
  <2>3. Step(t, q) /\ UNCHANGED <<ledger, models, lock>> /\ trainer[t].pc \in Reserved
    BY <1>9 DEF Evaluate, registry, Reserved
  <2> HIDE DEF q
  <2> QED BY <2>2, <2>3, <1>8
<1>10. ASSUME NEW t \in Trainers, Compare(t) PROVE FitInv'
  <2>1. PICK v, w : Step(t, [trainer[t] EXCEPT !.pc = "compared", !.versus = v, !.wins = w])
    BY <1>10 DEF Compare
  <2> DEFINE q == [trainer[t] EXCEPT !.pc = "compared", !.versus = v, !.wins = w]
  <2>2. trainer[t] \in Process BY <1>0 DEF Types, TypeOK
  <2>3. q.pc \in Reserved /\ q.data = trainer[t].data /\ q.cut = trainer[t].cut /\ q.exp = trainer[t].exp
    BY <2>2 DEF Process, Reserved
  <2>4. Step(t, q) /\ UNCHANGED <<ledger, models, lock>> /\ trainer[t].pc \in Reserved
    BY <1>10, <2>1 DEF Compare, registry, Reserved
  <2> HIDE DEF q
  <2> QED BY <2>3, <2>4, <1>8
<1>11. ASSUME NEW t \in Trainers, Register(t) PROVE FitInv'
  <2>1. Abstain(t) /\ trainer[t].pc \in Held BY <1>11 DEF Register, Abstain, Held
  <2> QED BY <2>1, <1>4
<1>12. ASSUME NEW t \in Trainers, TrainerDies(t) PROVE FitInv'
  BY <1>12, <1>4 DEF TrainerDies, registry
<1>13. CASE UNCHANGED vars BY <1>13, <1>k DEF vars, registry
<1> QED BY <1>1, <1>2, <1>3, <1>5, <1>6, <1>7, <1>9, <1>10, <1>11, <1>12, <1>13 DEF Next

-----------------------------------------------------------------------------
(* What the ledger says of the rows used.                                  *)
LEMMA LedgerStep == IInv /\ [Next]_vars => LedgerInv'
<1> SUFFICES ASSUME IInv, [Next]_vars PROVE LedgerInv' OBVIOUS
<1>0. Types /\ FitInv /\ LedgerInv BY DEF IInv
<1>l. Len(ledger) \in Nat /\ \A k \in 1 .. Len(ledger) : ledger[k].start \in Nat /\ ledger[k].end \in Nat
  BY <1>0, LedgerTypes
<1>k. UNCHANGED <<ledger, looks>> => LedgerInv' BY <1>0 DEF LedgerInv
<1>1. CASE Tick \/ (\E i \in Decisions : Resolve(i)) BY <1>1, <1>k DEF Tick, Resolve
<1>2. ASSUME NEW m \in Experiments, Review(m) \/ Degrade(m) PROVE LedgerInv'
  BY <1>2, <1>k DEF Review, Degrade
<1>3. CASE Approve \/ RollBack \/ KeepPrevious \/ Install \/ OperatorDies
  BY <1>3, <1>k DEF Approve, RollBack, KeepPrevious, Install, OperatorDies
<1>4. ASSUME NEW t \in Trainers, Export(t) \/ Begin(t) \/ Compare(t) \/ Register(t) \/ TrainerDies(t)
      PROVE LedgerInv'
  BY <1>4, <1>k DEF Export, Begin, Compare, Register, TrainerDies
<1>5. ASSUME NEW t \in Trainers, Reserve(t) PROVE LedgerInv'
  <2>1. CASE Overlaps(trainer[t]) BY <2>1, <1>5, <1>k DEF Reserve
  <2>2. CASE ~Overlaps(trainer[t])
    <3> DEFINE p == trainer[t]
               l == [start |-> HoldStart(p), end |-> HoldEnd(p)]
               n == Len(ledger)
    <3>1. ledger' = Append(ledger, l) /\ looks' = looks BY <1>5, <2>2 DEF Reserve
    <3>2. l.start = HoldStart(p) /\ l.end = HoldEnd(p) OBVIOUS
    <3>3. Fit(t) /\ p.pc = "fitting" BY <1>0, <1>5 DEF Reserve, FitInv
    <3>4. HoldoutOf(p) # {} /\ n < MaxFits /\ \A k \in 1 .. n : ledger[k].end < HoldStart(p)
      BY <3>3 DEF Fit, Held
    <3>5. HoldEnd(p) \in Nat \ {0} /\ HoldStart(p) \in Nat BY <3>4, <1>0, TrainerTypes, HoldFacts
    <3>6. n + 1 \in Experiments BY <3>4, <1>l, RegistryAssumption DEF Experiments
    <3> HIDE DEF l
    <3>7. Len(ledger') = n + 1 /\ ledger'[n + 1] = l /\ \A k \in 1 .. n : ledger'[k] = ledger[k]
      BY <3>1, <1>0 DEF Types, TypeOK
    <3>8. \A k \in 1 .. Len(ledger') : ledger'[k].end > 0
      <4> SUFFICES ASSUME NEW k \in 1 .. Len(ledger') PROVE ledger'[k].end > 0 OBVIOUS
      <4>1. CASE k = n + 1 BY <4>1, <3>2, <3>5, <3>7
      <4>2. CASE k # n + 1
        <5>1. k \in 1 .. n BY <4>2, <3>7, <1>l
        <5> QED BY <5>1, <3>7, <1>0 DEF LedgerInv
      <4> QED BY <4>1, <4>2
    <3>9. \A j, k \in 1 .. Len(ledger') : j < k => ledger'[j].end < ledger'[k].start
      <4> SUFFICES ASSUME NEW j \in 1 .. Len(ledger'), NEW k \in 1 .. Len(ledger'), j < k
                   PROVE ledger'[j].end < ledger'[k].start OBVIOUS
      <4>1. j \in 1 .. n BY <3>7, <1>l
      <4>2. CASE k = n + 1 BY <4>1, <4>2, <3>2, <3>4, <3>7
      <4>3. CASE k # n + 1
        <5>1. k \in Nat /\ 1 <= k /\ k <= n + 1 /\ n \in Nat BY <3>7, <1>l
        <5>2. k \in 1 .. n BY <4>3, <5>1
        <5> QED BY <4>1, <5>2, <3>7, <1>0 DEF LedgerInv
      <4> QED BY <4>2, <4>3
    <3>10. \A e \in Experiments : e > Len(ledger') => looks'[e].data = {} /\ looks'[e].hold = {}
      <4> SUFFICES ASSUME NEW e \in Experiments, e > Len(ledger')
                   PROVE looks'[e].data = {} /\ looks'[e].hold = {} OBVIOUS
      <4>1. e > n BY <3>7, <1>l DEF Experiments
      <4> QED BY <4>1, <3>1, <1>0 DEF LedgerInv
    <3>11. \A e \in Experiments : e <= Len(ledger') =>
             /\ \A x \in looks'[e].data : x.d <= ledger'[e].end
             /\ \A x \in looks'[e].hold : ledger'[e].start <= x.d
      <4> SUFFICES ASSUME NEW e \in Experiments, e <= Len(ledger')
                   PROVE /\ \A x \in looks'[e].data : x.d <= ledger'[e].end
                         /\ \A x \in looks'[e].hold : ledger'[e].start <= x.d OBVIOUS
      <4>1. CASE e = n + 1
        <5>1. e > n BY <4>1, <1>l
        <5>2. looks'[e].data = {} /\ looks'[e].hold = {} BY <5>1, <3>1, <1>0 DEF LedgerInv
        <5> QED BY <5>2
      <4>2. CASE e # n + 1
        <5>1. e \in 1 .. n BY <4>2, <3>7, <1>l DEF Experiments
        <5> QED BY <5>1, <3>1, <3>7, <1>0 DEF LedgerInv
      <4> QED BY <4>1, <4>2
    <3> QED BY <3>8, <3>9, <3>10, <3>11 DEF LedgerInv
  <2> QED BY <2>1, <2>2
<1>6. ASSUME NEW t \in Trainers, Evaluate(t) PROVE LedgerInv'
  <2> DEFINE p == trainer[t]
             n == Len(ledger)
             look == [data |-> p.data, hold |-> HoldoutOf(p)]
  <2>1. Fit(t) /\ p.pc = "reserved" /\ ledger' = ledger BY <1>0, <1>6 DEF Evaluate, FitInv
  <2>2. HoldoutOf(p) # {} /\ p.exp = n /\ n > 0 /\ ledger[n].start = HoldStart(p) /\ ledger[n].end = HoldEnd(p)
    BY <2>1 DEF Fit, Held, Reserved
  <2>3. n \in Experiments BY <2>2, <1>0, <1>l, RegistryAssumption DEF Types, TypeOK, Experiments
  <2>4. looks' = [looks EXCEPT ![n] = look] BY <1>6, <2>2 DEF Evaluate, HoldoutOf
  <2>5. looks'[n] = look /\ \A e \in Experiments \ {n} : looks'[e] = looks[e]
    BY <2>3, <2>4, <1>0 DEF Types, TypeOK
  <2>6. /\ \A x \in p.data : x.d <= HoldEnd(p)
        /\ \A x \in HoldoutOf(p) : HoldStart(p) <= x.d
    BY <2>2, <1>0, TrainerTypes, HoldFacts
  <2>7. look.data = p.data /\ look.hold = HoldoutOf(p) OBVIOUS
  <2> HIDE DEF look
  <2>8. \A e \in Experiments : e > Len(ledger') => looks'[e].data = {} /\ looks'[e].hold = {}
    <3> SUFFICES ASSUME NEW e \in Experiments, e > Len(ledger')
                 PROVE looks'[e].data = {} /\ looks'[e].hold = {} OBVIOUS
    <3>1. e > n /\ e # n BY <2>1, <1>l DEF Experiments
    <3> QED BY <3>1, <2>5, <1>0 DEF LedgerInv
  <2>9. \A e \in Experiments : e <= Len(ledger') =>
          /\ \A x \in looks'[e].data : x.d <= ledger'[e].end
          /\ \A x \in looks'[e].hold : ledger'[e].start <= x.d
    <3> SUFFICES ASSUME NEW e \in Experiments, e <= Len(ledger')
                 PROVE /\ \A x \in looks'[e].data : x.d <= ledger'[e].end
                       /\ \A x \in looks'[e].hold : ledger'[e].start <= x.d OBVIOUS
    <3>1. CASE e = n BY <3>1, <2>1, <2>2, <2>5, <2>6, <2>7
    <3>2. CASE e # n BY <3>2, <2>1, <2>5, <1>0 DEF LedgerInv
    <3> QED BY <3>1, <3>2
  <2> QED BY <2>1, <2>8, <2>9, <1>0 DEF LedgerInv
<1>7. CASE UNCHANGED vars BY <1>7, <1>k DEF vars
<1> QED BY <1>1, <1>2, <1>3, <1>4, <1>5, <1>6, <1>7 DEF Next

-----------------------------------------------------------------------------
(* The models of the registry and of its operator.                         *)
LEMMA RegStep == IInv /\ [Next]_vars => RegInv'
<1> SUFFICES ASSUME IInv, [Next]_vars PROVE RegInv' OBVIOUS
<1>0. Types /\ FitInv /\ LedgerInv /\ RegInv BY DEF IInv
<1>l. Len(ledger) \in Nat BY <1>0, LedgerTypes
<1>k. UNCHANGED <<ledger, registry, operator>> => RegInv'
  BY <1>0 DEF RegInv, Registered, Proven, Standing, registry
<1>s. Standing \in Experiments \cup {0} /\ (Standing # 0 => Standing = champion /\ Standing \in approved)
  BY <1>0, Standings
<1>1. CASE Tick \/ (\E i \in Decisions : Resolve(i)) BY <1>1, <1>k DEF Tick, Resolve
<1>2. ASSUME NEW t \in Trainers, Export(t) \/ Begin(t) \/ Evaluate(t) \/ Compare(t) \/ TrainerDies(t) PROVE RegInv'
  BY <1>2, <1>k DEF Export, Begin, Evaluate, Compare, TrainerDies
<1>3. ASSUME NEW t \in Trainers, Reserve(t) PROVE RegInv'
  <2>1. CASE Overlaps(trainer[t]) BY <2>1, <1>3, <1>k DEF Reserve
  <2>2. CASE ~Overlaps(trainer[t])
    <3> DEFINE l == [start |-> HoldStart(trainer[t]), end |-> HoldEnd(trainer[t])]
    <3>1. ledger' = Append(ledger, l) /\ UNCHANGED <<registry, operator>> BY <1>3, <2>2 DEF Reserve
    <3> HIDE DEF l
    <3>2. Len(ledger') = Len(ledger) + 1 /\ \A k \in 1 .. Len(ledger) : ledger'[k] = ledger[k]
      BY <3>1, <1>0 DEF Types, TypeOK
    <3>3. \A m \in Experiments : Registered(m)' =>
            m <= Len(ledger') /\ models'[m].start = ledger'[m].start /\ models'[m].end = ledger'[m].end
      <4> SUFFICES ASSUME NEW m \in Experiments, Registered(m)'
                   PROVE m <= Len(ledger') /\ models'[m].start = ledger'[m].start
                         /\ models'[m].end = ledger'[m].end OBVIOUS
      <4>1. Registered(m) /\ models' = models BY <3>1 DEF Registered, registry
      <4>2. m <= Len(ledger) /\ models[m].start = ledger[m].start /\ models[m].end = ledger[m].end
        BY <4>1, <1>0 DEF RegInv
      <4>3. m \in 1 .. Len(ledger) /\ m <= Len(ledger) + 1 BY <4>2, <1>l DEF Experiments
      <4> QED BY <4>1, <4>2, <4>3, <3>2
    <3> QED BY <3>1, <3>3, <1>0 DEF RegInv, Registered, Proven, Standing, registry
  <2> QED BY <2>1, <2>2
<1>4. ASSUME NEW t \in Trainers, Register(t) PROVE RegInv'
  <2> DEFINE p == trainer[t]
             n == Len(ledger)
  <2>1. PICK good \in BOOLEAN :
          models' = [models EXCEPT ![p.exp] =
                       [start |-> HoldStart(p), end |-> HoldEnd(p), good |-> good,
                        versus |-> p.versus, wins |-> p.wins]]
    BY <1>4 DEF Register
  <2> DEFINE q == [start |-> HoldStart(p), end |-> HoldEnd(p), good |-> good,
                   versus |-> p.versus, wins |-> p.wins]
  <2>2. Fit(t) /\ p.pc \in Reserved BY <1>0, <1>4 DEF Register, FitInv, Reserved
  <2>3. p.exp = n /\ n > 0 /\ models[n] = NoModel /\ ledger[n].start = HoldStart(p) /\ ledger[n].end = HoldEnd(p)
    BY <2>2 DEF Fit
  <2>4. n \in Experiments BY <2>3, <1>0, <1>l, RegistryAssumption DEF Types, TypeOK, Experiments
  <2>5. q.start = HoldStart(p) /\ q.end = HoldEnd(p) OBVIOUS
  <2> HIDE DEF q
  <2>6. models'[n] = q /\ \A m \in Experiments \ {n} : models'[m] = models[m]
    BY <2>1, <2>3, <2>4, <1>0 DEF q, Types, TypeOK
  <2>7. UNCHANGED <<ledger, approved, degraded, champion, previous, operator>> BY <1>4 DEF Register
  <2>8. ~Registered(n) BY <2>3 DEF Registered
  <2>9. \A m \in Experiments : Registered(m) => m # n /\ models'[m] = models[m] /\ Registered(m)'
    BY <2>6, <2>8 DEF Registered
  <2>10. \A m \in Experiments : Registered(m)' =>
           m <= Len(ledger') /\ models'[m].start = ledger'[m].start /\ models'[m].end = ledger'[m].end
    <3> SUFFICES ASSUME NEW m \in Experiments, Registered(m)'
                 PROVE m <= Len(ledger') /\ models'[m].start = ledger'[m].start
                       /\ models'[m].end = ledger'[m].end OBVIOUS
    <3>1. CASE m = n BY <3>1, <2>3, <2>5, <2>6, <2>7, <1>l
    <3>2. CASE m # n
      <4>1. Registered(m) BY <3>2, <2>6 DEF Registered
      <4> QED BY <4>1, <3>2, <2>6, <2>7, <1>0 DEF RegInv
    <3> QED BY <3>1, <3>2
  <2>11. \A m \in approved : m \in Experiments /\ Registered(m) BY <1>0 DEF RegInv, Types, TypeOK
  <2>12. Standing' = Standing
    <3>1. CASE champion = 0 BY <3>1, <2>7 DEF Standing
    <3>2. CASE champion # 0
      <4>1. champion \in approved BY <3>2, <1>0 DEF RegInv
      <4>2. models'[champion] = models[champion] BY <4>1, <2>9, <2>11
      <4> QED BY <4>2, <2>7 DEF Standing
    <3> QED BY <3>1, <3>2
  <2>13. Standing # 0 => models'[Standing] = models[Standing] BY <1>s, <2>9, <2>11
  <2>14. operator.pc # "idle" =>
           operator.id \in Experiments /\ Registered(operator.id) /\ models'[operator.id] = models[operator.id]
    BY <1>0, <2>9 DEF RegInv
  <2>15. operator.pc # "idle" /\ operator.kind = "promote" => Proven(operator.id)'
    <3> SUFFICES ASSUME operator.pc # "idle", operator.kind = "promote" PROVE Proven(operator.id)' OBVIOUS
    <3>1. Proven(operator.id) /\ operator' = operator BY <1>0, <2>7 DEF RegInv
    <3> QED BY <3>1, <2>12, <2>13, <2>14 DEF Proven
  <2> QED BY <2>7, <2>9, <2>10, <2>11, <2>14, <2>15, <1>0 DEF RegInv
<1>5. ASSUME NEW m \in Experiments, Review(m) PROVE RegInv'
  <2>1. operator' = [pc |-> "reviewed", kind |-> "promote", id |-> m] /\ Proven(m) /\ Registered(m)
        /\ UNCHANGED <<ledger, registry>>
    BY <1>5 DEF Review, Order
  <2>2. Proven(m)' /\ Registered(m)' BY <2>1 DEF Proven, Registered, Standing, registry
  <2> QED BY <2>1, <2>2, <1>0 DEF RegInv, Registered, registry
<1>6. ASSUME NEW m \in Experiments, Degrade(m) PROVE RegInv'
  <2>1. degraded' = degraded \cup {m} /\ UNCHANGED <<ledger, models, approved, champion, previous, operator>>
    BY <1>6 DEF Degrade
  <2>2. Standing' = Standing \/ Standing' = 0 BY <2>1 DEF Standing
  <2>3. operator.pc # "idle" /\ operator.kind = "promote" => Proven(operator.id)'
    BY <2>1, <2>2, <1>0 DEF RegInv, Proven
  <2> QED BY <2>1, <2>3, <1>0 DEF RegInv, Registered
<1>7. CASE Approve
  <2>1. /\ operator.pc = "reviewed" /\ approved' = approved \cup {operator.id}
        /\ operator' = [pc |-> "approved", kind |-> operator.kind, id |-> operator.id]
        /\ UNCHANGED <<ledger, models, degraded, champion, previous>>
    BY <1>7 DEF Approve, Order
  <2>2. operator.id \in Experiments /\ Registered(operator.id) BY <2>1, <1>0 DEF RegInv
  <2>3. Standing' = Standing BY <2>1, <1>0 DEF Standing, RegInv
  <2>4. operator.kind = "promote" => Proven(operator.id)'
    <3> SUFFICES ASSUME operator.kind = "promote" PROVE Proven(operator.id)' OBVIOUS
    <3>1. Proven(operator.id) /\ operator'.id = operator.id BY <2>1, <1>0 DEF RegInv
    <3> QED BY <3>1, <2>1, <2>3 DEF Proven
  <2> QED BY <2>1, <2>2, <2>4, <1>0 DEF RegInv, Registered
<1>8. CASE RollBack
  BY <1>8, <1>0 DEF RollBack, Order, RegInv, Registered, Types, TypeOK, registry
<1>9. CASE KeepPrevious
  <2>1. /\ operator.pc = "approved" /\ previous' = champion
        /\ operator' = [pc |-> "kept", kind |-> operator.kind, id |-> operator.id]
        /\ UNCHANGED <<ledger, models, approved, degraded, champion>>
    BY <1>9 DEF KeepPrevious, Order
  <2>2. Standing' = Standing BY <2>1 DEF Standing
  <2>3. operator.kind = "promote" => Proven(operator.id)'
    <3> SUFFICES ASSUME operator.kind = "promote" PROVE Proven(operator.id)' OBVIOUS
    <3>1. Proven(operator.id) /\ operator'.id = operator.id BY <2>1, <1>0 DEF RegInv
    <3> QED BY <3>1, <2>1, <2>2 DEF Proven
  <2> QED BY <2>1, <2>3, <1>0 DEF RegInv, Registered
<1>10. CASE Install
  BY <1>10, <1>0 DEF Install, NoOne, RegInv, Registered
<1>11. CASE OperatorDies
  BY <1>11, <1>0 DEF OperatorDies, NoOne, RegInv, Registered, registry
<1>12. CASE UNCHANGED vars BY <1>12, <1>k DEF vars
<1> QED BY <1>1, <1>2, <1>3, <1>4, <1>5, <1>6, <1>7, <1>8, <1>9, <1>10, <1>11, <1>12 DEF Next

-----------------------------------------------------------------------------
LEMMA Invariant == Spec => []IInv
<1>1. IInv /\ [Next]_vars => IInv' BY TypesStep, FitStep, LedgerStep, RegStep DEF IInv
<1> QED BY <1>1, InitInv, PTL DEF Spec

\* Every state of the ledger, of its trainers and of the registry has its type.
THEOREM TypeCorrect == Spec => []TypeOK
<1>1. IInv => TypeOK BY DEF IInv, Types
<1> QED BY <1>1, Invariant, PTL

\* Whatever has been consumed, the planner splits the outcomes exactly when a
\* split exists (plan_partitions).
THEOREM PlansAreExact == Spec => []PlanExact
<1>1. IInv => PlanExact
  <2> SUFFICES ASSUME IInv PROVE PlanExact OBVIOUS
  <2>1. Causal(Outcomes) /\ LastEnd \in Nat BY OutcomesCausal, LastEndFacts DEF IInv
  <2> QED BY <2>1, PlannerExact DEF PlanExact
<1> QED BY <1>1, Invariant, PTL

\* No experiment is judged on outcomes that an earlier one was fitted to or
\* judged on, whatever dies in between (the ledger of ml/training.py).
THEOREM HoldoutsUnseen == Spec => []HoldoutUnseen
<1>1. IInv => HoldoutUnseen
  <2> SUFFICES ASSUME IInv, NEW e \in Experiments, NEW f \in Experiments, e < f,
                      NEW x \in looks[e].data, x \in looks[f].hold
               PROVE FALSE
    BY DEF HoldoutUnseen
  <2>1. Types /\ LedgerInv BY DEF IInv
  <2>2. Len(ledger) \in Nat /\ \A k \in 1 .. Len(ledger) : ledger[k].start \in Nat /\ ledger[k].end \in Nat
    BY <2>1, LedgerTypes
  <2>3. f <= Len(ledger) /\ e <= Len(ledger) BY <2>1, <2>2 DEF LedgerInv, Experiments
  <2>4. e \in 1 .. Len(ledger) /\ f \in 1 .. Len(ledger) BY <2>2, <2>3 DEF Experiments
  <2>5. x.d <= ledger[e].end /\ ledger[f].start <= x.d /\ ledger[e].end < ledger[f].start
    BY <2>1, <2>3, <2>4 DEF LedgerInv
  <2>6. x.d \in Nat BY <2>1 DEF Types, TypeOK, Row
  <2> QED BY <2>2, <2>4, <2>5, <2>6
<1> QED BY <1>1, Invariant, PTL

\* A standing champion is only replaced, rollbacks apart, by a model that beat
\* it on outcomes it was not fitted to (promote in ml/registry.py).
THEOREM ChampionsProven == Spec => ChampionProven
<1> DEFINE Fair == champion' \notin {champion, 0} /\ Standing # 0 /\ operator.kind = "promote"
                     => /\ models[champion'].versus = Standing /\ models[champion'].wins
                        /\ looks[champion'].hold \cap looks[Standing].data = {}
<1>1. IInv /\ [Next]_vars => [Fair]_vars
  <2> SUFFICES ASSUME IInv, Next, champion' \notin {champion, 0}, Standing # 0, operator.kind = "promote"
               PROVE /\ models[champion'].versus = Standing /\ models[champion'].wins
                     /\ looks[champion'].hold \cap looks[Standing].data = {}
    OBVIOUS
  <2>0. Types /\ LedgerInv /\ RegInv BY DEF IInv
  <2>1. Install
    BY DEF Next, Tick, Resolve, Export, Begin, Reserve, Evaluate, Compare, Register, TrainerDies, Review,
           Degrade, Approve, RollBack, KeepPrevious, OperatorDies, registry
  <2>2. operator.pc = "kept" /\ champion' = operator.id BY <2>1 DEF Install
  <2>3. Proven(champion') /\ champion' \in Experiments /\ Registered(champion') BY <2>0, <2>2 DEF RegInv
  <2>4. Standing = champion /\ Standing \in approved /\ Standing \in Experiments
    BY <2>0, Standings
  <2>5. /\ models[champion'].start > models[Standing].end
        /\ models[champion'].versus = Standing /\ models[champion'].wins
    BY <2>3, <2>4 DEF Proven
  <2>6. /\ champion' <= Len(ledger) /\ models[champion'].start = ledger[champion'].start
        /\ Standing <= Len(ledger) /\ models[Standing].end = ledger[Standing].end
    BY <2>0, <2>3, <2>4 DEF RegInv
  <2>7. ASSUME NEW x \in looks[champion'].hold, x \in looks[Standing].data PROVE FALSE
    <3>1. ledger[champion'].start <= x.d /\ x.d <= ledger[Standing].end
      BY <2>0, <2>3, <2>4, <2>6, <2>7 DEF LedgerInv
    <3>2. x.d \in Nat BY <2>0, <2>3, <2>7 DEF Types, TypeOK, Row
    <3>3. champion' \in 1 .. Len(ledger) /\ Standing \in 1 .. Len(ledger)
      BY <2>0, <2>3, <2>4, <2>6, LedgerTypes DEF Experiments
    <3>4. ledger[champion'].start \in Nat /\ ledger[Standing].end \in Nat BY <2>0, <3>3, LedgerTypes
    <3> QED BY <3>1, <3>2, <3>4, <2>5, <2>6
  <2> QED BY <2>5, <2>7
<1> QED BY <1>1, Invariant, PTL DEF Spec, ChampionProven

-----------------------------------------------------------------------------
(* The systems beside the registry.                                        *)

\* A step of one part is a step of its own specification, and a stutter of the others.
LEMMA PartSteps ==
  ASSUME [PartsNext]_partsVars
  PROVE  /\ [Learned!Next]_(Learned!inferenceVars) /\ [Gate!Next]_(Gate!gateVars)
         /\ [Turn!Next]_(Turn!reversalVars) /\ [Thesis!Next]_(Thesis!healthVars)
         /\ [Work!AdmissionNext]_(Work!allVars) /\ [Store!Next]_(Store!migrationVars)
<1>1. UNCHANGED inference => UNCHANGED Learned!inferenceVars
  BY DEF inference, Learned!inferenceVars
<1>2. UNCHANGED gates => UNCHANGED Gate!gateVars
  BY DEF gates, Gate!gateVars, Gate!observed, Gate!decision
<1>3. UNCHANGED reversal => UNCHANGED Turn!reversalVars
  BY DEF reversal, Turn!reversalVars
<1>4. UNCHANGED thesis => UNCHANGED Thesis!healthVars
  BY DEF thesis, Thesis!healthVars
<1>5. UNCHANGED admission => UNCHANGED Work!allVars
  BY DEF admission, Work!allVars, Work!metadataVars, Work!admissionVars
<1>6. UNCHANGED opening => UNCHANGED Store!migrationVars
  BY DEF opening, Store!migrationVars, Store!base
<1>7. UNCHANGED partsVars => UNCHANGED <<inference, gates, reversal, thesis, admission, opening>>
  BY DEF partsVars
<1> QED BY <1>1, <1>2, <1>3, <1>4, <1>5, <1>6, <1>7 DEF PartsNext

-----------------------------------------------------------------------------
(* What the models of the registry say of a setup.                         *)

\* Where the word of the setup comes from, and what the prediction of a model says.
WordInv ==
  /\ clock \in Nat \ {0} /\ frozen.cohorts \subseteq Models
  /\ predictions \in [Models -> [at : Nat, accepted : BOOLEAN]]
  /\ \A m \in Models : predictions[m].accepted => predictions[m].at # 0
  /\ candidate.status = "validated" =>
       candidate.model = decider /\ candidate.model \in frozen.cohorts /\ Track[candidate.model] = "primary"
  /\ cleared.model # 0 => candidate.state = "SENT"
  /\ Learned!PublicEarned

\* A decision takes its word from the champion, or from nobody.
LEMMA DecisionKeepsWord ==
  ASSUME Learned!InferenceAssumption, WordInv, NEW gated, NEW answer, NEW answers,
         Learned!Decide(gated, answer, answers),
         answer.status = "validated" =>
           answer.model = deployed /\ answer.model \in frozen.cohorts /\ Track[answer.model] = "primary",
         answers = predictions \/ answers = Learned!Predicted(Learned!Selected)
  PROVE  WordInv'
<1> USE DEF Learned!Decide, Learned!registryVars, WordInv
<1>1. candidate.state = "PENDING" /\ cleared.model = 0 /\ UNCHANGED <<clock, frozen, cleared>>
  OBVIOUS
<1>2. /\ predictions' \in [Models -> [at : Nat, accepted : BOOLEAN]]
      /\ \A m \in Models : predictions'[m].accepted => predictions'[m].at # 0
  <2> DEFINE m == Learned!Selected
             new == [at |-> clock, accepted |-> m \in frozen.accepts]
  <2>1. new \in [at : Nat, accepted : BOOLEAN] /\ new.at # 0 OBVIOUS
  <2>2. predictions' = predictions \/ predictions' = [predictions EXCEPT ![m] = new]
    BY DEF Learned!Predicted
  <2> HIDE DEF m, new
  <2> QED BY <2>1, <2>2
<1>3. candidate'.status = "validated" =>
       candidate'.model = decider' /\ candidate'.model \in frozen'.cohorts /\ Track[candidate'.model] = "primary"
  BY <1>1
<1> QED BY <1>1, <1>2, <1>3 DEF Learned!PublicEarned

\* A setup goes to the public channel only on the word of the champion that decided
\* it, however the registry changes meanwhile (apply, delivery_eligible of inference.py).
THEOREM PublicIsEarned == PartsSpec => []PublicEarned
<1>0. Learned!InferenceAssumption BY PoliciesAssumption DEF PoliciesAssumption
<1> USE <1>0
<1>1. PartsInit => WordInv
  BY DEF PartsInit, Learned!Init, Learned!InferenceAssumption, WordInv, Learned!PublicEarned, Learned!NoPrediction, Learned!NotCleared
<1>2. ASSUME WordInv, [Learned!Next]_(Learned!inferenceVars) PROVE WordInv'
  <2>1. ASSUME NEW gated \in BOOLEAN, Learned!Asks(gated) PROVE WordInv'
    <3>1. CASE Learned!Selected = 0
      BY <1>2, <2>1, <3>1, DecisionKeepsWord DEF Learned!Asks, Learned!Abstention, Learned!Answer
    <3>2. CASE Learned!Selected # 0
      <4>1. Learned!Prediction(gated).status = "validated" =>
              /\ Learned!Prediction(gated).model = deployed
              /\ Learned!Prediction(gated).model \in frozen.cohorts
              /\ Track[Learned!Prediction(gated).model] = "primary"
        BY DEF Learned!Prediction, Learned!Validates, Learned!Answer
      <4> QED BY <1>2, <2>1, <3>2, <4>1, DecisionKeepsWord DEF Learned!Asks
    <3> QED BY <3>1, <3>2
  <2>2. ASSUME NEW gated \in BOOLEAN, Learned!AsksNone(gated) PROVE WordInv'
    BY <1>2, <2>2, DecisionKeepsWord DEF Learned!AsksNone, Learned!Answer
  <2>3. ASSUME NEW gated \in BOOLEAN, NEW late \in BOOLEAN, Learned!AsksInVain(gated, late) PROVE WordInv'
    BY <1>2, <2>3, DecisionKeepsWord DEF Learned!AsksInVain, Learned!Failure, Learned!Answer
  <2>4. CASE Learned!Clear
    <3>1. candidate.model \in Models /\ candidate.model # 0
      BY <1>2, <2>4 DEF Learned!Clear, Learned!Eligible, WordInv
    <3>2. deployed = candidate.model /\ cleared'.sound /\ cleared'.model = candidate.model /\ cleared'.at = clock
      BY <1>2, <2>4, <3>1 DEF Learned!Clear, Learned!Eligible, Learned!Standing
    <3>3. clock <= predictions[candidate.model].at + PredictionTtl /\ predictions[candidate.model].at # 0
      BY <1>2, <2>4, <3>1 DEF Learned!Clear, Learned!Eligible, WordInv, Learned!InferenceAssumption
    <3> QED BY <1>2, <2>4, <3>1, <3>2, <3>3 DEF Learned!Clear, Learned!Eligible, Learned!registryVars, WordInv, Learned!PublicEarned
  <2>5. CASE Learned!Closes
    BY <1>2, <2>5 DEF Learned!Closes, Learned!registryVars, WordInv, Learned!PublicEarned
  <2>6. CASE Learned!Register \/ \E m \in Models : Learned!Promote(m) \/ Learned!Degrade(m) \/ Learned!Damage(m)
    BY <1>2, <2>6 DEF Learned!Register, Learned!Promote, Learned!Degrade, Learned!Damage, Learned!Changes, WordInv, Learned!PublicEarned
  <2>7. CASE Learned!Tick
    BY <1>2, <2>7 DEF Learned!Tick, Learned!registryVars, WordInv, Learned!PublicEarned
  <2>8. CASE UNCHANGED Learned!inferenceVars
    BY <1>2, <2>8 DEF Learned!inferenceVars, WordInv, Learned!PublicEarned
  <2> QED BY <1>2, <2>1, <2>2, <2>3, <2>4, <2>5, <2>6, <2>7, <2>8 DEF Learned!Next
<1>3. WordInv => PublicEarned
  BY DEF WordInv, PublicEarned
<1>4. WordInv /\ [PartsNext]_partsVars => WordInv' BY <1>2, PartSteps
<1> QED BY <1>1, <1>3, <1>4, PTL DEF PartsSpec

-----------------------------------------------------------------------------
(* The admission of optional work, over the queue of the metadata writer.  *)

\* What waits is what get answers first; nothing waits without a writer; and the last
\* value of a snapshot waits, or is in the table.
QueueInv ==
  /\ writer \in {"off", "on", "closing", "done", "stopped"}
  /\ pending \in Work!Rows /\ kv \in Work!Rows /\ latest \in Work!Rows
  /\ offers \in Nat /\ overlay = pending
  /\ writer \in {"off", "stopped"} => pending = Work!NoRows
  /\ \A k \in Global : latest[k] # 0 /\ k \notin failed =>
       IF pending[k] # 0 THEN pending[k] = latest[k] ELSE kv[k] = latest[k]


\* The finite sets of the instance are those of FiniteSets.
LEMMA SameSets ==
  \A S : (Work!IsFiniteSet(S) <=> IsFiniteSet(S)) /\ Work!Cardinality(S) = Cardinality(S)
BY Zenon DEF Work!IsFiniteSet, IsFiniteSet, Work!Cardinality, Cardinality

\* What get answers for a snapshot is what was put last.
LEMMA SnapshotsRead ==
  ASSUME QueueInv PROVE Work!SnapshotsKept
BY DEF QueueInv, Work!SnapshotsKept, Work!Read, Work!Rows, Work!Keys

\* Snapshots alone never fill the queue.
LEMMA RoomForSnapshots ==
  ASSUME Work!MetadataAssumption, QueueInv, NEW k \in Global, Work!Full(k)
  PROVE  Work!Waiting \cap Market # {}
<1> SUFFICES ASSUME Work!Waiting \cap Market = {} PROVE FALSE OBVIOUS
<1> USE SameSets DEF Work!MetadataAssumption
<1>1. Work!Waiting \subseteq Global \ {k}
  BY DEF Work!Full, Work!Waiting, Work!Keys
<1>2. IsFiniteSet(Global \ {k}) /\ Cardinality(Global \ {k}) = Cardinality(Global) - 1
  BY FS_RemoveElement
<1>3. Cardinality(Work!Waiting) <= Cardinality(Global \ {k})
  BY <1>1, <1>2, FS_Subset
<1>4. Cardinality(Global) \in Nat /\ Cardinality(Work!Waiting) \in Nat
  BY <1>1, <1>2, FS_Subset, FS_CardinalityType
<1> QED BY <1>2, <1>3, <1>4 DEF Work!Full

\* A row put, with the row that gives way to it.
LEMMA PutKeeps ==
  ASSUME Work!MetadataAssumption, QueueInv, NEW k \in Work!Keys, Work!Put(k)
  PROVE  QueueInv'
<1> USE DEF QueueInv, Work!Rows, Work!Next1
<1>1. CASE writer \in {"off", "stopped"}
  <2>1. /\ kv' = [kv EXCEPT ![k] = offers + 1] /\ latest' = [latest EXCEPT ![k] = offers + 1]
        /\ failed' = failed \ {k} /\ offers' = offers + 1 /\ UNCHANGED <<writer, pending, overlay>>
    BY <1>1 DEF Work!Put
  <2>2. \A g \in Work!Keys : pending[g] = 0 BY <1>1 DEF Work!NoRows
  <2>3. kv' \in Work!Rows /\ latest' \in Work!Rows BY <2>1
  <2> QED BY <2>1, <2>2, <2>3 DEF Work!Keys
<1>2. CASE writer \in {"on", "closing", "done"} /\ Work!Queued(k, Work!Next1)
  <2>1. CASE k \in Market /\ UNCHANGED <<pending, overlay>>
    BY <1>2, <2>1 DEF Work!Put, Work!MetadataAssumption
  <2>2. ASSUME NEW gone \in SUBSET (Work!Keys \cap Market),
               pending' = [Work!Without(pending, gone) EXCEPT ![k] = Work!Next1],
               overlay' = [Work!Without(overlay, {v \in gone : overlay[v] = pending[v]}) EXCEPT ![k] = Work!Next1]
        PROVE  QueueInv'
    <3>1. overlay' = pending'
      <4>1. {v \in gone : overlay[v] = pending[v]} = gone OBVIOUS
      <4> QED BY <2>2, <4>1
    <3>2. pending' \in Work!Rows /\ latest' \in Work!Rows
      BY <1>2, <2>2 DEF Work!Without, Work!Put
    <3>3. ASSUME NEW g \in Global PROVE pending'[g] = IF g = k THEN offers + 1 ELSE pending[g]
      BY <2>2 DEF Work!Without, Work!Keys, Work!MetadataAssumption
    <3> QED BY <1>2, <3>1, <3>2, <3>3 DEF Work!Put, Work!Keys
  <2>3. ASSUME ~ (Work!Full(k) /\ k \in Market /\ Work!Waiting \cap Market = {})
        PROVE  \E gone \in SUBSET (Work!Keys \cap Market) :
                 /\ pending' = [Work!Without(pending, gone) EXCEPT ![k] = Work!Next1]
                 /\ overlay' = [Work!Without(overlay, {v \in gone : overlay[v] = pending[v]}) EXCEPT ![k] = Work!Next1]
    <3>1. CASE ~Work!Full(k)
      BY <1>2, <2>3, <3>1 DEF Work!Queued
    <3>2. CASE Work!Full(k)
      <4>1. Work!Waiting \cap Market # {}
        BY <2>3, <3>2, RoomForSnapshots DEF Work!Keys
      <4>2. PICK v \in Work!Waiting \cap Market :
              /\ pending' = [Work!Without(pending, {v}) EXCEPT ![k] = Work!Next1]
              /\ overlay' = [Work!Without(overlay, {u \in {v} : overlay[u] = pending[u]}) EXCEPT ![k] = Work!Next1]
        BY <1>2, <2>3, <3>2, <4>1 DEF Work!Queued, Work!Victims
      <4>3. {v} \in SUBSET (Work!Keys \cap Market) BY DEF Work!Waiting
      <4> QED BY <4>2, <4>3
    <3> QED BY <3>1, <3>2
  <2> QED BY <1>2, <2>1, <2>2, <2>3 DEF Work!Queued
<1> QED BY <1>1, <1>2 DEF Work!Put

\* The writer takes a row off the queue: written, or lost with its write.
LEMMA PoppedKeeps ==
  ASSUME QueueInv, NEW k \in Work!Keys, Work!Popped(k), Work!Running,
         UNCHANGED <<latest, offers>>,
         \/ kv' = [kv EXCEPT ![k] = pending[k]] /\ k \in Work!Waiting /\ UNCHANGED failed
         \/ failed' = failed \cup {k} /\ UNCHANGED kv
  PROVE  QueueInv'
<1> USE DEF QueueInv, Work!Rows, Work!Popped, Work!Without, Work!Running
<1>1. overlay' = pending' /\ pending' \in Work!Rows /\ kv' \in Work!Rows
  BY DEF Work!Waiting
<1>2. writer' \in {"on", "closing", "done"} OBVIOUS
<1>3. \A g \in Work!Keys : pending'[g] = IF g = k THEN 0 ELSE pending[g]
  OBVIOUS
<1> QED BY <1>1, <1>2, <1>3 DEF Work!Waiting, Work!Keys

\* Every step of the metadata writer.
LEMMA MetadataStep ==
  ASSUME Work!MetadataAssumption, QueueInv, Work!Next
  PROVE  QueueInv'
<1>1. ASSUME NEW k \in Work!Keys, Work!Put(k) PROVE QueueInv' BY <1>1, PutKeeps
<1>2. ASSUME NEW k \in Work!Keys, Work!Write(k) \/ Work!WriteFails(k) PROVE QueueInv'
  BY <1>2, PoppedKeeps DEF Work!Write, Work!WriteFails
<1>3. CASE Work!Enable \/ Work!Close
  BY <1>3 DEF Work!Enable, Work!Close, QueueInv
<1>4. CASE Work!Stopped
  BY <1>4 DEF Work!Stopped, QueueInv, Work!Waiting, Work!NoRows, Work!Rows, Work!Keys
<1>5. CASE Work!Crash
  BY <1>5 DEF Work!Crash, QueueInv, Work!NoRows, Work!Rows, Work!Keys
<1> QED BY <1>1, <1>2, <1>3, <1>4, <1>5 DEF Work!Next

\* Work of the desk is never admitted on a sample that a newer one has replaced,
\* whatever burst of rows fills the queue (allowed of operational.py, db_runtime.py).
THEOREM AdmissionIsCurrent == PartsSpec => []AdmittedOnNewest
<1>0. Work!MetadataAssumption /\ Work!AdmissionAssumption BY PoliciesAssumption DEF PoliciesAssumption
<1> USE <1>0
<1> DEFINE Inv == QueueInv /\ Work!AdmittedOnNewest
<1>1. PartsInit => Inv
  BY DEF PartsInit, Work!AdmissionInit, Work!Init, QueueInv, Work!NoRows, Work!Rows, Work!AdmittedOnNewest, Work!NoAdmission, Work!Keys
<1>2. ASSUME Inv, [Work!AdmissionNext]_(Work!allVars) PROVE Inv'
  <2>1. CASE Work!Pass \/ Work!Ends \/ \E p \in Loads : Work!Sampled(p)
    BY <1>2, <2>1 DEF Work!Pass, Work!Ends, Work!Sampled, Work!metadataVars, QueueInv,
      Work!AdmittedOnNewest, Work!NoAdmission
  <2>2. CASE Work!Others
    <3>1. Work!Next /\ UNCHANGED admitted
      BY <2>2 DEF Work!Others, Work!Next, Work!admissionVars
    <3> QED BY <1>2, <3>1, MetadataStep DEF Work!AdmittedOnNewest
  <2>3. CASE Work!Dies
    <3>1. Work!Next /\ UNCHANGED admitted
      BY <2>3 DEF Work!Dies, Work!Next
    <3> QED BY <1>2, <3>1, MetadataStep DEF Work!AdmittedOnNewest
  <2>4. ASSUME NEW grows \in BOOLEAN, NEW fails \in BOOLEAN, Work!Told(grows, fails) PROVE Inv'
    <3>1. Work!Put(Health) /\ Health \in Work!Keys /\ UNCHANGED admitted
      BY <2>4 DEF Work!Told, Work!AdmissionAssumption, Work!Keys
    <3> QED BY <1>2, <3>1, PutKeeps DEF Work!AdmittedOnNewest
  <2>5. ASSUME NEW p \in {6, 7, 8}, Work!DeskBegins(p) PROVE Inv'
    <3>1. UNCHANGED Work!metadataVars /\ admitted' = [of |-> Work!Read(Health), newest |-> Work!Newest]
      BY <2>5 DEF Work!DeskBegins, Work!Begin
    <3>2. Work!Newest # 0 => Work!Read(Health) = Work!Newest
      BY <1>2, SnapshotsRead DEF Work!SnapshotsKept, Work!Newest, Work!AdmissionAssumption
    <3> QED BY <1>2, <3>1, <3>2 DEF Work!metadataVars, QueueInv, Work!AdmittedOnNewest
  <2>6. ASSUME NEW p \in {6, 7, 8}, Work!WorkerBegins(p) PROVE Inv'
    BY <1>2, <2>6 DEF Work!WorkerBegins, Work!Begin, Work!metadataVars, QueueInv, Work!AdmittedOnNewest
  <2>7. CASE UNCHANGED Work!allVars
    BY <1>2, <2>7 DEF Work!allVars, Work!metadataVars, Work!admissionVars, QueueInv, Work!AdmittedOnNewest
  <2> HIDE DEF Inv
  <2> QED BY <1>2, <2>1, <2>2, <2>3, <2>4, <2>5, <2>6, <2>7 DEF Work!AdmissionNext
<1>3. Inv => AdmittedOnNewest BY DEF AdmittedOnNewest
<1>4. Inv /\ [PartsNext]_partsVars => Inv' BY <1>2, PartSteps
<1> QED BY <1>1, <1>3, <1>4, PTL DEF PartsSpec

-----------------------------------------------------------------------------
(* The staged confirmation of a reversal.                                  *)

\* The turn that a row speaks of, in units that are over.
Turned(rec) ==
  /\ rec.start \in Nat \ {0} /\ rec.end \in Nat /\ rec.end <= Turn!clock
  /\ \E u \in rec.start .. rec.end - Trigger - 1, v \in rec.end - Trigger .. rec.end - 1 :
       /\ tape[u].seen /\ tape[u].price < 0 /\ tape[v].seen /\ tape[v].price > 0
       /\ \E w \in rec.end - Trigger .. v - 1 : tape[w].seen /\ tape[w].price < tape[v].price

Founded(rec) == rec.state = "CONFIRMED" => Turned(rec)

TurnInv ==
  /\ tape \in Seq(Slots) /\ feeds \in [tape : Nat, book : Nat, epoch : Nat]
  /\ broken \in Nat /\ broken <= Turn!clock
  /\ feeds.tape <= Turn!clock /\ feeds.book <= Turn!clock
  /\ feeds.book # 0 => broken <= feeds.tape \/ broken <= feeds.book
  /\ Founded(sequence) /\ Founded(task.row)
  /\ sent.at # 0 =>
       /\ Turned(sent.row)
       /\ sent.at <= sent.row.end + SequenceTtl /\ sent.broken <= sent.row.start

\* The first and the last of some units.
LEMMA EndsOfUnits ==
  ASSUME NEW a \in Nat, NEW b \in Nat, NEW units, units \subseteq a .. b, b \in units
  PROVE  /\ Turn!Latest(units) = b
         /\ Turn!Oldest(units) \in units
<1>1. Turn!Latest(units) = b
  <2>1. \A v \in units : v <= b OBVIOUS
  <2>2. \A x \in units : (\A v \in units : v <= x) => x = b OBVIOUS
  <2> QED BY <2>1, <2>2 DEF Turn!Latest
<1>2. IsFiniteSet(units)
  <2>1. IsFiniteSet(a .. b) BY FS_Interval
  <2> QED BY <2>1, FS_Subset
<1>3. units \subseteq Nat /\ units # {} OBVIOUS
<1>4. \E u \in units : \A v \in units : u <= v
  BY <1>2, <1>3, FirstIsLeast
<1> QED BY <1>1, <1>4 DEF Turn!Oldest

\* What an observation confirms is a turn of the tape.
LEMMA ObservedFounded ==
  ASSUME Turn!ReversalAssumption, TurnInv, NEW found
  PROVE  Founded(Turn!Observed(found))
<1> DEFINE rec == Turn!Observed(found)
<1> SUFFICES ASSUME rec.state = "CONFIRMED" PROVE Turned(rec)
  BY DEF Founded
<1>1. /\ rec.start = Turn!Onset /\ rec.end = Turn!clock
      /\ ~(Turn!Onset < 1) /\ Turn!Heard /\ Turn!Confirmed(found)
  BY DEF Turn!Observed
<1> HIDE DEF rec
<1>2. /\ Trigger \in Nat \ {0} /\ Onsets \in Nat \ {0} /\ Late \in Nat \ {0}
      /\ Slots \subseteq [seen : BOOLEAN, price : Int, against : Int]
  BY DEF Turn!ReversalAssumption, Turn!Slot
<1>3. Turn!clock \in Nat /\ Turn!clock = Len(tape) + 1 BY DEF TurnInv, Turn!clock
<1>4. /\ Turn!Onset = Turn!clock - (Onsets + Late + Trigger)
      /\ Turn!Split = Turn!Onset + Onsets /\ Turn!Turn = Turn!clock - Trigger
  BY DEF Turn!Onset, Turn!Length, Turn!Split, Turn!Turn
<1>5. \A u \in 1 .. Turn!clock - 1 : tape[u].price \in Int
  <2> TAKE u \in 1 .. Turn!clock - 1
  <2>1. tape[u] \in Slots BY <1>3 DEF TurnInv
  <2> QED BY <2>1, <1>2
<1>6. PICK u \in Turn!Units(Turn!Onset, Turn!Split) : tape[u].price < 0
  BY <1>1 DEF Turn!Confirmed, Turn!Pressure
<1>7. tape[u].seen /\ u \in Turn!Onset .. Turn!Split - 1 BY <1>6 DEF Turn!Units
<1> DEFINE late == Turn!Units(Turn!Turn, Turn!clock)
           v == Turn!clock - 1
<1>8. v \in late /\ tape[v].seen
  BY <1>1, <1>2, <1>3, <1>4 DEF Turn!Heard, Turn!Units
<1>9. Turn!Latest(late) = v /\ Turn!Oldest(late) \in late
  <2>1. late \subseteq Turn!Turn .. v BY DEF Turn!Units
  <2>2. Turn!Turn \in Nat /\ v \in Nat BY <1>1, <1>2, <1>3, <1>4
  <2> HIDE DEF late, v
  <2> QED BY <2>1, <2>2, <1>8, EndsOfUnits
<1>10. tape[v].price > 0 /\ tape[v].price - tape[Turn!Oldest(late)].price > 0
  BY <1>1, <1>9 DEF Turn!Confirmed, Turn!Reclaimed, Turn!Change
<1>11. Turn!Oldest(late) \in Turn!Turn .. Turn!clock - 1 /\ tape[Turn!Oldest(late)].seen
  BY <1>9 DEF Turn!Units
<1> HIDE DEF late
<1>12. PICK w : w = Turn!Oldest(late) OBVIOUS
<1>13. w \in 1 .. Turn!clock - 1 /\ v \in 1 .. Turn!clock - 1
  BY <1>1, <1>2, <1>3, <1>4, <1>11, <1>12
<1>14. tape[w].price \in Int /\ tape[v].price \in Int BY <1>5, <1>13
<1>15. tape[w].price < tape[v].price BY <1>10, <1>12, <1>14
<1>16. w # v BY <1>15, <1>14
<1>17. w \in rec.end - Trigger .. v - 1 BY <1>1, <1>2, <1>3, <1>4, <1>11, <1>12, <1>16
<1>18. u \in rec.start .. rec.end - Trigger - 1 BY <1>1, <1>2, <1>3, <1>4, <1>7
<1>19. v \in rec.end - Trigger .. rec.end - 1 BY <1>1, <1>2, <1>3, <1>4
<1>20. rec.start \in Nat \ {0} /\ rec.end \in Nat /\ rec.end <= Turn!clock
  BY <1>1, <1>2, <1>3, <1>4
<1> HIDE DEF v
<1> QED BY <1>6, <1>7, <1>8, <1>10, <1>11, <1>12, <1>15, <1>17, <1>18, <1>19, <1>20 DEF Turned

\* Units that are over never change.
LEMMA TurnedKept ==
  ASSUME Turn!ReversalAssumption, TurnInv, NEW rec, Turned(rec),
         tape' = tape \/ \E slot \in Slots : tape' = Append(tape, slot)
  PROVE  Turned(rec)'
<1>1. tape \in Seq(Slots) BY DEF TurnInv
<1>2. Len(tape') >= Len(tape) /\ Len(tape') \in Nat BY <1>1
<1>3. \A i \in 1 .. Len(tape) : tape'[i] = tape[i] BY <1>1
<1>4. Trigger \in Nat BY DEF Turn!ReversalAssumption
<1>5. rec.start \in Nat \ {0} /\ rec.end \in Nat /\ rec.end <= Len(tape) + 1
  BY DEF Turned, Turn!clock
<1>6. \A i \in rec.start .. rec.end - 1 : tape'[i] = tape[i] BY <1>3, <1>5, <1>1
<1>7. PICK u \in rec.start .. rec.end - Trigger - 1, v \in rec.end - Trigger .. rec.end - 1 :
        /\ tape[u].seen /\ tape[u].price < 0 /\ tape[v].seen /\ tape[v].price > 0
        /\ \E w \in rec.end - Trigger .. v - 1 : tape[w].seen /\ tape[w].price < tape[v].price
  BY DEF Turned
<1>8. PICK w \in rec.end - Trigger .. v - 1 : tape[w].seen /\ tape[w].price < tape[v].price
  BY <1>7
<1>9. u \in rec.start .. rec.end - 1 /\ v \in rec.start .. rec.end - 1 /\ w \in rec.start .. rec.end - 1
  BY <1>4, <1>5
<1>10. tape'[u] = tape[u] /\ tape'[v] = tape[v] /\ tape'[w] = tape[w] BY <1>6, <1>9
<1>11. rec.end <= Turn!clock' BY <1>1, <1>2, <1>5 DEF Turn!clock
<1>12. \E w1 \in rec.end - Trigger .. v - 1 : tape'[w1].seen /\ tape'[w1].price < tape'[v].price
  BY <1>8, <1>10
<1> QED BY <1>5, <1>7, <1>10, <1>11, <1>12 DEF Turned

\* The tape only grows, and what is founded on it stays so.
LEMMA Recorded ==
  ASSUME Turn!ReversalAssumption, TurnInv, [Turn!Next]_(Turn!reversalVars)
  PROVE  /\ (tape' = tape \/ \E slot \in Slots : tape' = Append(tape, slot))
         /\ \A rec : Founded(rec) => Founded(rec)'
<1>1. tape' = tape \/ \E slot \in Slots : tape' = Append(tape, slot)
  BY DEF Turn!Next, Turn!reversalVars, Turn!Observe, Turn!Observes, Turn!Enters, Turn!Prepare,
         Turn!Prepared, Turn!Blocked, Turn!Dispatch, Turn!Decide, Turn!Hear, Turn!TapeReset,
         Turn!BookReset, Turn!BookStarts
<1> QED BY <1>1, TurnedKept DEF Founded

\* What the task and the row are after a step that observes or takes up a row.
LEMMA RowsStep ==
  ASSUME Turn!ReversalAssumption, TurnInv, [Turn!Next]_(Turn!reversalVars)
  PROVE  Founded(sequence)' /\ Founded(task.row)'
<1>1. \A rec : Founded(rec) => Founded(rec)' BY Recorded
<1>2. ASSUME NEW rec, Founded(rec), sequence' = rec PROVE Founded(sequence)'
  BY <1>1, <1>2 DEF Founded, Turned, Turn!clock
<1>3. ASSUME NEW rec, Founded(rec), task'.row = rec PROVE Founded(task.row)'
  BY <1>1, <1>3 DEF Founded, Turned, Turn!clock
<1>4. PICK r \in {Turn!NoRow} : TRUE OBVIOUS
<1>5. Founded(r) /\ r = Turn!NoRow BY <1>4 DEF Founded, Turn!NoRow
<1>6. PICK s : s = sequence OBVIOUS
<1>7. PICK t : t = task.row OBVIOUS
<1>8. Founded(s) /\ Founded(t) BY <1>6, <1>7 DEF TurnInv
<1>9. sequence' \in {s, t}
  BY <1>6, <1>7 DEF Turn!Next, Turn!reversalVars, Turn!Observe, Turn!Observes, Turn!Enters, Turn!Prepare,
     Turn!Prepared, Turn!Blocked, Turn!Dispatch, Turn!Decide, Turn!Hear, Turn!TapeReset,
     Turn!BookReset, Turn!BookStarts, Turn!clock
<1>10. \/ task'.row \in {r, t}
       \/ \E found \in Turn!Findings : task'.row = Turn!Observed(found)
  BY <1>5, <1>7 DEF Turn!Next, Turn!reversalVars, Turn!Observe, Turn!Observes, Turn!Enters, Turn!Prepare,
     Turn!Prepared, Turn!Blocked, Turn!Dispatch, Turn!Decide, Turn!Hear, Turn!TapeReset,
     Turn!BookReset, Turn!BookStarts, Turn!clock, Turn!Freezes, Turn!Idle, Turn!At, Turn!NoTask
<1>11. Founded(sequence)' BY <1>2, <1>8, <1>9
<1>12. CASE task'.row \in {r, t}
  <2>1. PICK o : o \in {r, t} /\ task'.row = o BY <1>12
  <2>2. Founded(o) BY <1>5, <1>8, <2>1
  <2> QED BY <2>1, <2>2, <1>3, <1>11
<1>13. CASE \E found \in Turn!Findings : task'.row = Turn!Observed(found)
  <2>1. PICK found \in Turn!Findings : task'.row = Turn!Observed(found) BY <1>13
  <2>2. PICK o : o = Turn!Observed(found) OBVIOUS
  <2>3. Founded(o) BY <2>2, ObservedFounded
  <2>4. task'.row = o BY <2>1, <2>2
  <2> QED BY <2>3, <2>4, <1>3, <1>11
<1> QED BY <1>10, <1>11, <1>12, <1>13

\* What a step does to book and tape.
LEMMA FeedsStep ==
  ASSUME Turn!ReversalAssumption, TurnInv, [Turn!Next]_(Turn!reversalVars)
  PROVE  /\ tape' \in Seq(Slots) /\ feeds' \in [tape : Nat, book : Nat, epoch : Nat]
         /\ broken' \in Nat /\ broken' <= Turn!clock'
         /\ feeds'.tape <= Turn!clock' /\ feeds'.book <= Turn!clock'
         /\ feeds'.book # 0 => broken' <= feeds'.tape \/ broken' <= feeds'.book
<1> USE DEF TurnInv
<1>1. Turn!clock \in Nat /\ Turn!clock = Len(tape) + 1 /\ Turn!clock' = Len(tape') + 1
  BY DEF Turn!clock
<1>2. ASSUME NEW slot \in Slots, Turn!Hear(slot) PROVE tape' \in Seq(Slots) /\ Turn!clock' = Turn!clock + 1
  BY <1>1, <1>2 DEF Turn!Hear
<1>3. CASE \E slot \in Slots : Turn!Hear(slot)
  BY <1>1, <1>2, <1>3 DEF Turn!Hear
<1>4. CASE Turn!TapeReset \/ Turn!BookReset \/ Turn!BookStarts
  <2>1. tape' = tape /\ Turn!clock' = Turn!clock
    BY <1>1, <1>4 DEF Turn!TapeReset, Turn!BookReset, Turn!BookStarts
  <2>2. PICK c \in Nat : c = Turn!clock BY <1>1
  <2>3. \/ feeds' = [tape |-> c, book |-> feeds.book, epoch |-> feeds.epoch] /\ broken' = c
        \/ feeds' = [tape |-> feeds.tape, book |-> 0, epoch |-> feeds.epoch + 1] /\ broken' = c
        \/ /\ feeds' = [tape |-> feeds.tape, book |-> c, epoch |-> feeds.epoch]
           /\ broken' = broken
    BY <1>4, <2>2 DEF Turn!TapeReset, Turn!BookReset, Turn!BookStarts
  <2> QED BY <2>1, <2>2, <2>3
<1>5. CASE UNCHANGED <<tape, feeds, broken>>
  BY <1>1, <1>5
<1>6. \/ \E slot \in Slots : Turn!Hear(slot)
      \/ Turn!TapeReset \/ Turn!BookReset \/ Turn!BookStarts \/ UNCHANGED <<tape, feeds, broken>>
  BY DEF Turn!Next, Turn!reversalVars, Turn!Observe, Turn!Observes, Turn!Enters, Turn!Prepare,
     Turn!Prepared, Turn!Blocked, Turn!Dispatch, Turn!Decide
<1> QED BY <1>3, <1>4, <1>5, <1>6

\* A card is sent on a founded row, and keeps it.
LEMMA SentStep ==
  ASSUME Turn!ReversalAssumption, TurnInv, [Turn!Next]_(Turn!reversalVars), sent'.at # 0
  PROVE  /\ Turned(sent.row)'
         /\ sent'.at <= sent'.row.end + SequenceTtl /\ sent'.broken <= sent'.row.start
<1>1. \A rec : Founded(rec) => Founded(rec)' BY Recorded
<1>2. ASSUME NEW rec, Turned(rec), sent'.row = rec PROVE Turned(sent.row)'
  <2>1. Turned(rec)'
    BY <1>2, TurnedKept, Recorded
  <2> QED BY <1>2, <2>1 DEF Turned, Turn!clock
<1>3. CASE UNCHANGED sent
  BY <1>2, <1>3 DEF TurnInv
<1>4. CASE Turn!Dispatch
  <2>1. /\ sequence.state = "CONFIRMED" /\ Turn!clock - sequence.end <= SequenceTtl
        /\ feeds.tape <= sequence.start /\ 0 < feeds.book /\ feeds.book <= sequence.start
        /\ sent' = [row |-> sequence, at |-> Turn!clock, broken |-> broken]
    BY <1>4 DEF Turn!Dispatch, Turn!Ready, Turn!Valid
  <2>2. Turned(sequence) BY <2>1 DEF TurnInv, Founded
  <2>3. Turned(sent.row)'
    <3>1. PICK s : s = sequence OBVIOUS
    <3> QED BY <3>1, <2>1, <2>2, <1>2
  <2>4. sequence.start \in Nat /\ sequence.end \in Nat BY <2>2 DEF Turned
  <2>5. SequenceTtl \in Nat /\ Turn!clock \in Nat BY DEF Turn!ReversalAssumption, TurnInv, Turn!clock
  <2>6. broken <= sequence.start BY <2>1, <2>4 DEF TurnInv
  <2>7. Turn!clock <= sequence.end + SequenceTtl BY <2>1, <2>4, <2>5
  <2> QED BY <2>1, <2>3, <2>6, <2>7
<1>5. UNCHANGED sent \/ Turn!Dispatch
  BY DEF Turn!Next, Turn!reversalVars, Turn!Observe, Turn!Observes, Turn!Enters, Turn!Prepare,
     Turn!Prepared, Turn!Blocked, Turn!Decide, Turn!Hear, Turn!TapeReset, Turn!BookReset, Turn!BookStarts
<1> QED BY <1>3, <1>4, <1>5

\* A staged reversal is sent on a turn that nothing interrupted, whatever is reset
\* while a thread reads or a card waits (observe, dispatch_guard of reversal_sequence.py).
THEOREM TurnIsUninterrupted == PartsSpec => []TurnHolds
<1>0. Turn!ReversalAssumption BY PoliciesAssumption DEF PoliciesAssumption
<1> USE <1>0
<1>1. PartsInit => TurnInv
  BY DEF PartsInit, Turn!Init, TurnInv, Founded, Turn!NoRow, Turn!NoTask, Turn!clock
<1>2. TurnInv /\ [Turn!Next]_(Turn!reversalVars) => TurnInv'
  BY RowsStep, FeedsStep, SentStep DEF TurnInv
<1>3. TurnInv => TurnHolds BY DEF TurnHolds, TurnInv, Turned, Turn!TurnHolds
<1>4. TurnInv /\ [PartsNext]_partsVars => TurnInv' BY <1>2, PartSteps
<1> QED BY <1>1, <1>3, <1>4, PTL DEF PartsSpec

-----------------------------------------------------------------------------
(* The production gate.                                                    *)

\* A family found malformed stays disabled, and every reading has its instant.
FamilyInv ==
  /\ gateClock \in Nat /\ book \in Nat /\ asof \in Nat
  /\ DOMAIN row \in {{}, {"liquidation", "volatility"}}
  /\ \A n \in DOMAIN row : row[n].at \in Nat
  /\ \A n \in DOMAIN cache : cache[n].at \in Nat
  /\ \A n \in Gate!Families : evidence[n].at \in Nat
  /\ malformed \subseteq disabled
  /\ Gate!BlockedOnEvidence

\* Every reading that a decision decorates has its instant.
LEMMA DecoratedDated ==
  ASSUME FamilyInv, NEW says
  PROVE  \A n \in Gate!Families : Gate!Decorated(says)[n].at \in Nat
BY DEF FamilyInv, Gate!Decorated, Gate!Reading, Gate!Computed

\* Steps that only bring readings keep the invariant.
LEMMA ReadingStep ==
  ASSUME FamilyInv,
         \/ \E own \in BOOLEAN, l \in Facts["liquidation"], v \in Facts["volatility"] : Gate!RefreshBegins(own, l, v)
         \/ \E s \in Facts["spot_perp"] : Gate!RefreshEnds(s)
         \/ Gate!RefreshFails \/ Gate!Dropped \/ Gate!BookMoves \/ Gate!Advance
         \/ \E own \in BOOLEAN, b \in Facts["breadth"] : Gate!BreadthBuilt(own, b)
  PROVE  FamilyInv'
<1> USE DEF FamilyInv, Gate!observed, Gate!decision, Gate!Reading, Gate!NoRow
<1>1. ASSUME NEW own, NEW l, NEW v, Gate!RefreshBegins(own, l, v) PROVE FamilyInv'
  BY <1>1 DEF Gate!RefreshBegins, Gate!BlockedOnEvidence
<1>2. ASSUME NEW s, Gate!RefreshEnds(s) PROVE FamilyInv'
  <2>1. DOMAIN row = {"liquidation", "volatility"} BY <1>2 DEF Gate!RefreshEnds
  <2>2. \A n \in DOMAIN cache' : cache'[n].at \in Nat
    BY <1>2, <2>1 DEF Gate!RefreshEnds, Gate!Cached
  <2> QED BY <1>2, <2>2 DEF Gate!RefreshEnds, Gate!BlockedOnEvidence
<1>3. CASE Gate!RefreshFails \/ Gate!Dropped \/ Gate!BookMoves \/ Gate!Advance
  BY <1>3 DEF Gate!RefreshFails, Gate!Dropped, Gate!BookMoves, Gate!Advance, Gate!BlockedOnEvidence
<1>4. ASSUME NEW own, NEW b, Gate!BreadthBuilt(own, b) PROVE FamilyInv'
  BY <1>4 DEF Gate!BreadthBuilt, Gate!BlockedOnEvidence
<1> QED BY <1>1, <1>2, <1>3, <1>4

\* A decision blocks on the readings it was given, and disables the malformed.
LEMMA DecisionStep ==
  ASSUME Gate!GateAssumption, FamilyInv, NEW c, NEW says, Gate!Decide(c, says)
  PROVE  FamilyInv'
<1> DEFINE e == Gate!Decorated(says)
<1>1. /\ pass' = "decided" /\ evidence' = e /\ gate' = Gate!States(c, e)
      /\ disabled' = disabled \cup Gate!Invalid(e) /\ malformed' = malformed \cup Gate!Invalid(e)
      /\ UNCHANGED <<gateClock, book, row, cache, asof>>
  BY DEF Gate!Decide, Gate!Disabled, Gate!observed
<1>2. \A n \in Gate!Families : e[n].at \in Nat BY DecoratedDated
<1> HIDE DEF e
<1>3. malformed' \subseteq disabled' BY <1>1 DEF FamilyInv
<1>4. ASSUME NEW n \in Gate!Families, gate'[n] = Gate!Ready("ADVERSE")
      PROVE  n \notin malformed' /\ evidence'[n].own /\ evidence'[n].at \in asof' - FamilyTtl[n] .. asof'
  <2>1. n \in Enabled \ Gate!Disabled(e) /\ Gate!Fresh(n, e[n])
    BY <1>1, <1>4 DEF Gate!States, Gate!Ready, Gate!NoState
  <2>2. n \notin malformed' BY <1>1, <2>1 DEF FamilyInv, Gate!Disabled
  <2>3. ~(e[n].at > asof) BY <2>1 DEF Gate!Disabled, Gate!Invalid
  <2>4. FamilyTtl[n] \in Nat BY DEF Gate!GateAssumption
  <2> QED BY <1>1, <1>2, <2>1, <2>2, <2>3, <2>4 DEF FamilyInv, Gate!Fresh
<1>5. Gate!BlockedOnEvidence'
  BY <1>4 DEF Gate!BlockedOnEvidence, Gate!Blocking, Gate!Adverse
<1> QED BY <1>1, <1>2, <1>3, <1>5 DEF FamilyInv

\* A candidate is blocked only on its own, timely and well-formed evidence, across
\* awaits, faults and failed passes (evaluate and invalid_reason of v8_gating.py).
THEOREM BlocksAreFounded == PartsSpec => []BlockedOnEvidence
<1>0. Gate!GateAssumption BY PoliciesAssumption DEF PoliciesAssumption
<1> USE <1>0
<1>1. PartsInit => FamilyInv
  BY DEF PartsInit, Gate!Init, FamilyInv, Gate!NoRow, Gate!NoEvidence, Gate!Nothing, Gate!Reading, Gate!BlockedOnEvidence
<1>2. ASSUME FamilyInv, [Gate!Next]_(Gate!gateVars) PROVE FamilyInv'
  <2>1. ASSUME NEW c \in Decided, NEW says \in Gate!Said, Gate!Decide(c, says) PROVE FamilyInv'
    BY <1>2, <2>1, DecisionStep
  <2>2. ASSUME NEW again \in BOOLEAN, Gate!Begin(again) PROVE FamilyInv'
    BY <1>2, <2>2 DEF Gate!Begin, FamilyInv, Gate!observed, Gate!NoEvidence, Gate!Nothing, Gate!Reading, Gate!BlockedOnEvidence
  <2>3. ASSUME NEW says \in Gate!Said, Gate!Raises(says) PROVE FamilyInv'
    <3>1. \A n \in Gate!Families : evidence'[n].at \in Nat
      BY <1>2, <2>3, DecoratedDated DEF Gate!Raises
    <3> QED BY <1>2, <2>3, <3>1 DEF Gate!Raises, FamilyInv, Gate!observed, Gate!BlockedOnEvidence
  <2>4. CASE Gate!Passes
    BY <1>2, <2>4 DEF Gate!Passes, FamilyInv, Gate!observed, Gate!BlockedOnEvidence
  <2>5. CASE Gate!Restart
    BY <1>2, <2>5 DEF Gate!Restart, FamilyInv, Gate!NoRow, Gate!BlockedOnEvidence, Gate!Blocking, Gate!Adverse
  <2>6. CASE UNCHANGED Gate!gateVars
    BY <1>2, <2>6 DEF Gate!gateVars, Gate!observed, Gate!decision, FamilyInv, Gate!BlockedOnEvidence, Gate!Blocking, Gate!Adverse
  <2> QED BY <1>2, <2>1, <2>2, <2>3, <2>4, <2>5, <2>6, ReadingStep DEF Gate!Next
<1>3. FamilyInv => BlockedOnEvidence BY DEF FamilyInv, BlockedOnEvidence
<1>4. FamilyInv /\ [PartsNext]_partsVars => FamilyInv' BY <1>2, PartSteps
<1> QED BY <1>1, <1>3, <1>4, PTL DEF PartsSpec

-----------------------------------------------------------------------------
(* The health of a published setup.                                        *)

Checks == [at : Nat, lasting : BOOLEAN]

\* The checks from the k-th on found what has to last, and left no gap.
Lasts(s, k) ==
  /\ k \in 1 .. Len(s)
  /\ \A j \in k .. Len(s) : s[j].lasting
  /\ \A j \in k + 1 .. Len(s) : s[j].at <= s[j - 1].at + Gap

\* A record that counts from an instant was written by the check that is last.
VerdictInv ==
  /\ checks \in Seq(Checks)
  /\ verdict.since # 0 =>
       \E k \in 1 .. Len(checks) :
         /\ Lasts(checks, k) /\ checks[k].at = verdict.since
         /\ checks[Len(checks)].at = verdict.checked
  /\ setup.state = "WITHDRAWN" => at = "idle" /\ Thesis!Persisted

\* A run of windows that were assessed as bad, since the start of its episode.
Begun(c) ==
  /\ c.window <= Thesis!Window /\ c.episode <= healthClock
  /\ c.run > 0 => /\ {Thesis!WindowOf(c.episode), c.window} \subseteq assessed
                  /\ Thesis!WindowOf(c.episode) <= c.window
  /\ c.run > 1 => Thesis!WindowOf(c.episode) < c.window

Rows == [higher : BOOLEAN, state : {"ALERTED", "FAILED", "WITHDRAWN", "CLOSED"},
         current : Thesis!Currents]
Copies == [higher : BOOLEAN, state : {"ALERTED", "none"}, current : Thesis!Currents]

HealthTypes ==
  /\ healthClock \in Nat \ {0} /\ began \in Nat
  /\ verdict \in [checked : Nat, since : Nat]
  /\ setup \in Rows /\ copies \in [{"health", "tick"} -> Copies]
  /\ \A t \in {"health", "tick"} : copies[t] # Thesis!NoCopy => copies[t].state = "ALERTED"
  /\ at # "idle" => copies["health"].state = "ALERTED"

RunInv ==
  /\ Begun(setup.current)
  /\ \A t \in {"health", "tick"} : Begun(copies[t].current)
  /\ at = "telling" => copies["health"].current.run > 1
  /\ Thesis!NoticeEarned

-----------------------------------------------------------------------------
\* A copy that is not there.
LEMMA Empty == Thesis!NoCopy \in Copies /\ Thesis!NoCopy.state = "none"
               /\ Thesis!NoCurrent \in Thesis!Currents /\ Thesis!NoCopy.current = Thesis!NoCurrent
BY DEF Thesis!NoCopy, Thesis!NoCurrent, Thesis!Currents, Thesis!None, Copies

\* What a task saves: its copy, in the state that it found.
LEMMA Written ==
  ASSUME HealthTypes, NEW t \in {"health", "tick"}, NEW s
  PROVE  [copies[t] EXCEPT !.state = s] =
           [higher |-> copies[t].higher, state |-> s, current |-> copies[t].current]
<1>1. copies[t] \in Copies BY DEF HealthTypes
<1> QED BY <1>1 DEF Copies

\* The row as it is after a step: as it was, or what a task that held it wrote.
LEMMA RowStep ==
  ASSUME HealthTypes, [Thesis!Next]_(Thesis!healthVars)
  PROVE  \/ setup' = setup
         \/ \E t \in {"health", "tick"}, s \in {"ALERTED", "FAILED", "WITHDRAWN", "CLOSED"} :
              /\ setup.state = "ALERTED"
              /\ s = "WITHDRAWN" =>
                   \E o \in Seen : Thesis!Judge(o) /\ ~Thesis!HardFailure(o) /\ Thesis!Toxic(o)
              /\ setup' = [higher |-> copies[t].higher, state |-> s, current |-> copies[t].current]
<1> DEFINE Wrote(t, s) ==
             setup' = [higher |-> copies[t].higher, state |-> s, current |-> copies[t].current]
<1>1. ASSUME NEW t \in {"health", "tick"}, copies[t].state = "ALERTED", setup' = copies[t]
      PROVE  Wrote(t, "ALERTED")
  <2>1. copies[t] \in Copies BY DEF HealthTypes
  <2> QED BY <1>1, <2>1 DEF Copies
<1>2. ASSUME at # "idle", Thesis!Saved(copies["health"])
      PROVE  setup' = setup \/ (setup.state = "ALERTED" /\ Wrote("health", "ALERTED"))
  BY <1>1, <1>2 DEF Thesis!Saved, HealthTypes
<1>3. CASE Thesis!Paused \/ Thesis!HealthSave
  BY <1>2, <1>3 DEF Thesis!Paused, Thesis!HealthSave
<1>4. CASE Thesis!HealthExpires
  <2>1. Thesis!Saved([copies["health"] EXCEPT !.state = "CLOSED"]) BY <1>4 DEF Thesis!HealthExpires
  <2>2. Thesis!Saved([higher |-> copies["health"].higher, state |-> "CLOSED",
                      current |-> copies["health"].current])
    BY <2>1, Written
  <2> QED BY <2>2 DEF Thesis!Saved
<1>5. ASSUME NEW o \in Seen, Thesis!Judge(o)
      PROVE  \/ setup' = setup
             \/ \E s \in {"FAILED", "WITHDRAWN"} :
                  /\ setup.state = "ALERTED"
                  /\ s = "WITHDRAWN" => ~Thesis!HardFailure(o) /\ Thesis!Toxic(o)
                  /\ Wrote("health", s)
  <2>1. CASE Thesis!HardFailure(o) \/ Thesis!Toxic(o)
    <3> DEFINE s == IF Thesis!HardFailure(o) THEN "FAILED" ELSE "WITHDRAWN"
    <3>1. Thesis!Saved([copies["health"] EXCEPT !.state = s]) BY <1>5, <2>1 DEF Thesis!Judge
    <3>2. [copies["health"] EXCEPT !.state = s] =
            [higher |-> copies["health"].higher, state |-> s, current |-> copies["health"].current]
      BY Written
    <3>3. s \in {"FAILED", "WITHDRAWN"} /\ (s = "WITHDRAWN" => ~Thesis!HardFailure(o) /\ Thesis!Toxic(o))
      BY <2>1
    <3> HIDE DEF s
    <3>4. setup' = setup \/ (setup.state = "ALERTED" /\ Wrote("health", s))
      BY <3>1, <3>2 DEF Thesis!Saved
    <3> QED BY <3>3, <3>4
  <2>2. CASE ~(Thesis!HardFailure(o) \/ Thesis!Toxic(o))
    BY <1>5, <2>2 DEF Thesis!Judge
  <2> QED BY <2>1, <2>2
<1>6. CASE Thesis!TickSave
  <2>1. copies["tick"].state = "ALERTED" BY <1>6 DEF Thesis!TickSave, Thesis!Holds, HealthTypes
  <2>2. setup' = setup \/ (setup.state = "ALERTED" /\ setup' = copies["tick"])
    BY <1>6, <2>1 DEF Thesis!TickSave
  <2> QED BY <1>1, <2>1, <2>2
<1>7. ASSUME NEW stopped, Thesis!TickClose(stopped)
      PROVE  setup' = setup \/ (setup.state = "ALERTED" /\ Wrote("tick", "CLOSED"))
  <2>1. Thesis!Saved([copies["tick"] EXCEPT !.state = "CLOSED"]) BY <1>7 DEF Thesis!TickClose
  <2>2. Thesis!Saved([higher |-> copies["tick"].higher, state |-> "CLOSED",
                      current |-> copies["tick"].current])
    BY <2>1, Written
  <2> QED BY <2>2 DEF Thesis!Saved
<1>8. \/ setup' = setup \/ Thesis!Paused \/ Thesis!HealthSave \/ Thesis!HealthExpires
      \/ \E o \in Seen : Thesis!Judge(o)
      \/ Thesis!TickSave \/ \E stopped \in BOOLEAN : Thesis!TickClose(stopped)
  BY DEF Thesis!Next, Thesis!healthVars, Thesis!Pass, Thesis!HealthLoad, Thesis!Raised, Thesis!CrashJudged,
         Thesis!AssessNothing, Thesis!AssessUnknown, Thesis!Assess, Thesis!Tell, Thesis!TickLoad, Thesis!Crash
<1> HIDE DEF Wrote
<1>9. \/ setup' = setup
      \/ \E t \in {"health", "tick"}, s \in {"ALERTED", "FAILED", "WITHDRAWN", "CLOSED"} :
           /\ setup.state = "ALERTED"
           /\ s = "WITHDRAWN" =>
                   \E o \in Seen : Thesis!Judge(o) /\ ~Thesis!HardFailure(o) /\ Thesis!Toxic(o)
           /\ Wrote(t, s)
  <2>1. CASE \E o \in Seen : Thesis!Judge(o) BY <2>1, <1>5
  <2>2. CASE Thesis!TickSave \/ Thesis!Paused \/ Thesis!HealthSave \/ Thesis!HealthExpires
    BY <2>2, <1>3, <1>4, <1>6 DEF Wrote
  <2>3. CASE \E stopped \in BOOLEAN : Thesis!TickClose(stopped) BY <2>3, <1>7
  <2> QED BY <2>1, <2>2, <2>3, <1>8
<1> QED BY <1>9 DEF Wrote

\* Who writes the copies: loading, dropping, dying and assessing.
LEMMA CopiesWriters ==
  ASSUME [Thesis!Next]_(Thesis!healthVars)
  PROVE  \/ UNCHANGED copies \/ (\E t : Thesis!Drop(t) \/ Thesis!Load(t))
         \/ Thesis!Die \/ Thesis!AssessUnknown \/ \E bad \in BOOLEAN : Thesis!Assess(bad)
<1>1. ASSUME NEW o \in Seen, Thesis!Judge(o) PROVE UNCHANGED copies \/ Thesis!Drop("health")
  BY <1>1 DEF Thesis!Judge
<1>2. CASE Thesis!Paused \/ Thesis!HealthSave \/ Thesis!HealthExpires \/ Thesis!Raised \/ Thesis!TickSave
           \/ \E stopped \in BOOLEAN : Thesis!TickClose(stopped)
  BY <1>2 DEF Thesis!Paused, Thesis!HealthSave, Thesis!HealthExpires, Thesis!Raised, Thesis!TickSave,
              Thesis!TickClose
<1>3. CASE Thesis!HealthLoad \/ Thesis!TickLoad BY <1>3 DEF Thesis!HealthLoad, Thesis!TickLoad
<1>4. CASE Thesis!Crash \/ \E o \in Seen : Thesis!CrashJudged(o)
  BY <1>4 DEF Thesis!Crash, Thesis!CrashJudged
<1>5. CASE Thesis!Pass \/ Thesis!AssessNothing \/ Thesis!Tell \/ UNCHANGED Thesis!healthVars
  BY <1>5 DEF Thesis!Pass, Thesis!AssessNothing, Thesis!Tell, Thesis!healthVars
<1> QED BY <1>1, <1>2, <1>3, <1>4, <1>5 DEF Thesis!Next

\* The copies after a step.
LEMMA CopiesStep ==
  ASSUME HealthTypes, [Thesis!Next]_(Thesis!healthVars)
  PROVE  \A t \in {"health", "tick"} :
           \/ copies'[t] \in {copies[t], Thesis!NoCopy}
           \/ setup.state = "ALERTED" /\ copies'[t] = setup
           \/ /\ t = "health" /\ at = "judged"
              /\ Thesis!AssessUnknown \/ \E bad \in BOOLEAN : Thesis!Assess(bad)
<1>0. DOMAIN copies = {"health", "tick"} /\ copies = [t \in {"health", "tick"} |-> copies[t]]
  BY DEF HealthTypes
<1>1. ASSUME NEW t, Thesis!Drop(t)
      PROVE  \A u \in {"health", "tick"} : copies'[u] \in {copies[u], Thesis!NoCopy}
  BY <1>0, <1>1 DEF Thesis!Drop
<1>2. ASSUME NEW t, Thesis!Load(t)
      PROVE  \A u \in {"health", "tick"} :
               copies'[u] = copies[u] \/ (setup.state = "ALERTED" /\ copies'[u] = setup)
  BY <1>0, <1>2 DEF Thesis!Load
<1>3. ASSUME Thesis!Die PROVE \A u \in {"health", "tick"} : copies'[u] = Thesis!NoCopy
  BY <1>3 DEF Thesis!Die, Thesis!Holders
<1>4. ASSUME NEW c, Thesis!Keep(c) PROVE copies'["tick"] = copies["tick"]
  BY <1>0, <1>4 DEF Thesis!Keep
<1>5. CASE Thesis!AssessUnknown \/ \E bad \in BOOLEAN : Thesis!Assess(bad)
  <2>1. at = "judged" /\ \E c : Thesis!Keep(c) BY <1>5 DEF Thesis!AssessUnknown, Thesis!Assess
  <2> QED BY <2>1, <1>4, <1>5
<1>6. \/ UNCHANGED copies \/ (\E t : Thesis!Drop(t) \/ Thesis!Load(t))
      \/ Thesis!Die \/ Thesis!AssessUnknown \/ \E bad \in BOOLEAN : Thesis!Assess(bad)
  BY CopiesWriters
<1> QED BY <1>1, <1>2, <1>3, <1>5, <1>6

\* Which actions write the clocks, the verdict with its checks, and the histories.
LEMMA Writers ==
  ASSUME [Thesis!Next]_(Thesis!healthVars)
  PROVE  /\ healthClock' = healthClock \/ Thesis!Pass
         /\ began' = began \/ Thesis!HealthLoad
         /\ notices' = notices \/ Thesis!Tell
         /\ assessed' = assessed \/ \E bad \in BOOLEAN : Thesis!Assess(bad)
         /\ \/ UNCHANGED <<verdict, checks>> \/ Thesis!Raised
            \/ \E o \in Seen : Thesis!Judge(o) \/ Thesis!CrashJudged(o)
            \/ checks' = checks /\ verdict' = [checked |-> healthClock, since |-> 0]
<1>1. ASSUME NEW o \in Seen, Thesis!Judge(o) \/ Thesis!CrashJudged(o)
      PROVE  UNCHANGED <<healthClock, began, notices, assessed>>
  BY <1>1 DEF Thesis!Judge, Thesis!CrashJudged
<1>2. CASE Thesis!Raised
  <2>1. UNCHANGED <<healthClock, began, notices, assessed>> BY <1>2 DEF Thesis!Raised
  <2> QED BY <1>2, <2>1
<1>3. CASE Thesis!Paused \/ Thesis!HealthSave \/ Thesis!HealthExpires \/ Thesis!TickSave \/ Thesis!TickLoad
  BY <1>3 DEF Thesis!Paused, Thesis!HealthSave, Thesis!HealthExpires, Thesis!TickSave, Thesis!TickLoad
<1>4. ASSUME NEW stopped \in BOOLEAN, Thesis!TickClose(stopped)
      PROVE  /\ UNCHANGED <<healthClock, began, notices, assessed, checks>>
             /\ verdict' = verdict \/ verdict' = [checked |-> healthClock, since |-> 0]
  BY <1>4 DEF Thesis!TickClose, Thesis!None
<1>5. CASE Thesis!Pass \/ Thesis!HealthLoad
  BY <1>5 DEF Thesis!Pass, Thesis!HealthLoad
<1>6. CASE Thesis!AssessNothing \/ Thesis!AssessUnknown \/ Thesis!Tell
  BY <1>6 DEF Thesis!AssessNothing, Thesis!AssessUnknown, Thesis!Tell
<1>7. CASE \E bad \in BOOLEAN : Thesis!Assess(bad)
  <2>1. UNCHANGED <<healthClock, began, notices, verdict, checks>> BY <1>7 DEF Thesis!Assess
  <2> QED BY <1>7, <2>1
<1>8. CASE Thesis!Crash BY <1>8 DEF Thesis!Crash
<1>9. CASE UNCHANGED Thesis!healthVars BY <1>9 DEF Thesis!healthVars
<1> QED BY <1>1, <1>2, <1>3, <1>4, <1>5, <1>6, <1>7, <1>8, <1>9 DEF Thesis!Next

\* Where the pass is after a step.
LEMMA AtStep ==
  ASSUME HealthTypes, [Thesis!Next]_(Thesis!healthVars)
  PROVE  \/ at' = "idle"
         \/ at' = at /\ copies'["health"] = copies["health"]
         \/ at = "idle" /\ at' = "loaded" /\ Thesis!HealthLoad
         \/ /\ at # "idle" /\ at' # "idle" /\ at' # "telling"
            /\ copies'["health"] = copies["health"]
         \/ Thesis!AssessUnknown
         \/ \E bad \in BOOLEAN : Thesis!Assess(bad)
<1>0. DOMAIN copies = {"health", "tick"} BY DEF HealthTypes
<1>1. ASSUME NEW o \in Seen, Thesis!Judge(o)
      PROVE  at' = "idle" \/ (at # "idle" /\ at' \in {"judged", "partial"} /\ UNCHANGED copies)
  BY <1>1 DEF Thesis!Judge
<1>2. CASE Thesis!Raised \/ Thesis!Paused \/ Thesis!HealthSave \/ Thesis!HealthExpires
  BY <1>2 DEF Thesis!Raised, Thesis!Paused, Thesis!HealthSave, Thesis!HealthExpires
<1>3. CASE Thesis!Crash \/ \E o \in Seen : Thesis!CrashJudged(o)
  BY <1>3 DEF Thesis!Crash, Thesis!CrashJudged, Thesis!Die
<1>4. CASE Thesis!TickSave \/ Thesis!TickLoad \/ \E stopped \in BOOLEAN : Thesis!TickClose(stopped)
  BY <1>0, <1>4 DEF Thesis!TickSave, Thesis!TickLoad, Thesis!TickClose, Thesis!Drop, Thesis!Load
<1>5. CASE Thesis!Pass \/ UNCHANGED Thesis!healthVars
  BY <1>5 DEF Thesis!Pass, Thesis!healthVars
<1>6. CASE Thesis!HealthLoad BY <1>6 DEF Thesis!HealthLoad
<1>7. CASE Thesis!AssessNothing \/ Thesis!Tell
  BY <1>7 DEF Thesis!AssessNothing, Thesis!Tell
<1> QED BY <1>1, <1>2, <1>3, <1>4, <1>5, <1>6, <1>7 DEF Thesis!Next

\* Windows are natural numbers, in the order of their instants.
LEMMA WindowTypes ==
  ASSUME Thesis!ThesisAssumption
  PROVE  /\ \A t \in Nat : Thesis!WindowOf(t) \in Nat
         /\ \A t, u \in Nat : t <= u => Thesis!WindowOf(t) <= Thesis!WindowOf(u)
<1>1. MinuteLength \in Nat \ {0} BY DEF Thesis!ThesisAssumption
<1>2. \A t \in Nat : t \div MinuteLength \in Nat BY <1>1
<1>3. ASSUME NEW t \in Nat, NEW u \in Nat, t <= u PROVE t \div MinuteLength <= u \div MinuteLength
  <2> DEFINE p == t \div MinuteLength
             q == u \div MinuteLength
  <2>1. p \in Nat /\ q \in Nat BY <1>2
  <2>2. p * MinuteLength <= t /\ u < (q + 1) * MinuteLength BY <1>1
  <2> HIDE DEF p, q
  <2>3. p * MinuteLength < (q + 1) * MinuteLength BY <2>1, <2>2, <1>1, <1>3
  <2>4. p < q + 1
    <3> SUFFICES ASSUME q + 1 <= p PROVE FALSE BY <2>1
    <3>1. PICK d \in Nat : p = (q + 1) + d BY <2>1
    <3>2. p * MinuteLength = (q + 1) * MinuteLength + d * MinuteLength BY <3>1, <2>1, <1>1
    <3>3. d * MinuteLength \in Nat /\ (q + 1) * MinuteLength \in Nat BY <3>1, <2>1, <1>1
    <3> QED BY <2>3, <3>2, <3>3
  <2> QED BY <2>1, <2>4 DEF p, q
<1> QED BY <1>2, <1>3 DEF Thesis!WindowOf

\* What an assessment puts in the place of the last.
LEMMA AssessedRun ==
  ASSUME Thesis!ThesisAssumption, HealthTypes, NEW c \in Thesis!Currents, NEW bad \in BOOLEAN,
         Begun(c), c.window # Thesis!Window
  PROVE  LET d == Thesis!Assessed(c, bad) IN
         /\ d \in Thesis!Currents /\ d.window = Thesis!Window /\ d.episode <= healthClock
         /\ d.run > 0 => /\ bad
                         /\ \/ d.run = 1 /\ d.episode = healthClock
                            \/ /\ Thesis!WindowOf(d.episode) \in assessed
                               /\ Thesis!WindowOf(d.episode) < d.window
         /\ d.state = "DETERIORATING" => d.run > 1
<1> DEFINE d == Thesis!Assessed(c, bad)
<1>1. healthClock \in Nat /\ Thesis!Window \in Nat BY WindowTypes DEF HealthTypes, Thesis!Window
<1>2. /\ c.window \in Nat /\ c.available \in Nat /\ c.run \in Nat /\ c.episode \in Nat
      /\ c.state \in {"none", "STABLE", "WATCH", "DETERIORATING", "UNKNOWN"}
  BY DEF Thesis!Currents
<1>3. Thesis!WindowOf(c.episode) \in Nat BY <1>2, WindowTypes
<1> DEFINE near == c.available < healthClock /\ healthClock <= c.available + Near
           run == IF bad /\ near THEN c.run + 1 ELSE IF bad THEN 1 ELSE 0
           episode == IF near /\ c.run > 0 THEN c.episode ELSE healthClock
           state == IF run >= 2 THEN "DETERIORATING" ELSE IF bad THEN "WATCH" ELSE "STABLE"
<1>4. d = [state |-> state, window |-> Thesis!Window, available |-> healthClock, run |-> run, episode |-> episode]
  BY DEF Thesis!Assessed
<1>5. run \in Nat /\ episode \in Nat /\ state \in {"none", "STABLE", "WATCH", "DETERIORATING", "UNKNOWN"}
  BY <1>1, <1>2
<1>6. run > 0 => /\ bad
                 /\ \/ run = 1 /\ episode = healthClock
                    \/ episode = c.episode /\ c.run > 0
  BY <1>1, <1>2
<1>7. state = "DETERIORATING" => run > 1 BY <1>5
<1>8. episode <= healthClock BY <1>1, <1>2 DEF Begun
<1>9. c.run > 0 => /\ Thesis!WindowOf(c.episode) \in assessed
                   /\ Thesis!WindowOf(c.episode) < Thesis!Window
  BY <1>1, <1>2, <1>3 DEF Begun
<1> HIDE DEF near, run, episode, state, d
<1>10. d \in Thesis!Currents BY <1>1, <1>4, <1>5 DEF Thesis!Currents
<1>11. /\ d.window = Thesis!Window /\ d.episode = episode /\ d.run = run /\ d.state = state
  BY <1>4
<1> QED BY <1>6, <1>7, <1>8, <1>9, <1>10, <1>11 DEF d

\* What is kept of a setup that cannot be assessed.
LEMMA UnknownCurrent ==
  ASSUME NEW b \in Thesis!Currents, NEW n \in Nat
  PROVE  [b EXCEPT !.state = "UNKNOWN", !.available = n] =
           [state |-> "UNKNOWN", window |-> b.window, available |-> n, run |-> b.run, episode |-> b.episode]
<1>1. PICK e : e = [b EXCEPT !.state = "UNKNOWN", !.available = n] OBVIOUS
<1>2. PICK f : f = [b EXCEPT !.state = "UNKNOWN"] OBVIOUS
<1>3. f = [state |-> "UNKNOWN", window |-> b.window, available |-> b.available, run |-> b.run,
           episode |-> b.episode]
  BY <1>2 DEF Thesis!Currents
<1>4. e = [f EXCEPT !.available = n] BY <1>1, <1>2, Zenon
<1>5. e = [state |-> "UNKNOWN", window |-> b.window, available |-> n, run |-> b.run,
           episode |-> b.episode]
  BY <1>3, <1>4
<1> QED BY <1>1, <1>5

\* The copy of the health task once it has assessed its window.
LEMMA KeptCopy ==
  ASSUME Thesis!ThesisAssumption, HealthTypes, Begun(copies["health"].current),
         Thesis!AssessUnknown \/ \E bad \in BOOLEAN : Thesis!Assess(bad)
  PROVE  \E d \in Thesis!Currents :
           /\ copies'["health"] = [higher |-> copies["health"].higher,
                                   state |-> copies["health"].state, current |-> d]
           /\ at # "idle" /\ UNCHANGED healthClock
           /\ Begun(d)'
           /\ at' = "telling" => d.run > 1
<1> DEFINE c == copies["health"].current
           Copy(d) == [higher |-> copies["health"].higher, state |-> copies["health"].state, current |-> d]
<1>1. copies["health"] \in Copies /\ c \in Thesis!Currents BY DEF HealthTypes, Copies
<1>2. ASSUME NEW d, Thesis!Keep(d) PROVE copies'["health"] = Copy(d)
  BY <1>1, <1>2 DEF Thesis!Keep, HealthTypes, Copies
<1>3. CASE Thesis!AssessUnknown
  <2>0. PICK b \in Thesis!Currents : b = c BY <1>1
  <2>1. PICK n \in Nat : n = healthClock BY DEF HealthTypes
  <2>2. PICK d : d = [state |-> "UNKNOWN", window |-> b.window, available |-> n, run |-> b.run,
                      episode |-> b.episode]
    OBVIOUS
  <2>3. [b EXCEPT !.state = "UNKNOWN", !.available = n] = d
    BY <2>2, UnknownCurrent
  <2>4. [Thesis!Current EXCEPT !.state = "UNKNOWN", !.available = healthClock] = d
    BY <2>0, <2>1, <2>3, Zenon DEF Thesis!Current
  <2>5. Thesis!Keep(d) /\ at = "judged" /\ at' = "saving" /\ UNCHANGED <<healthClock, assessed>>
    BY <1>3, <2>4, Zenon DEF Thesis!AssessUnknown
  <2>6. d \in Thesis!Currents /\ d.window = b.window /\ d.run = b.run /\ d.episode = b.episode
    BY <2>2 DEF Thesis!Currents
  <2>7. Begun(b) BY <2>0
  <2>8. Begun(d)' BY <2>5, <2>6, <2>7 DEF Begun, Thesis!Window, Thesis!WindowOf
  <2>9. copies'["health"] = Copy(d) BY <1>2, <2>5
  <2> QED BY <2>5, <2>6, <2>8, <2>9
<1>4. ASSUME NEW bad \in BOOLEAN, Thesis!Assess(bad)
      PROVE  \E d \in Thesis!Currents :
               /\ copies'["health"] = Copy(d)
               /\ at # "idle" /\ UNCHANGED healthClock
               /\ Begun(d)'
               /\ at' = "telling" => d.run > 1
  <2>1. PICK d : d = Thesis!Assessed(c, bad) OBVIOUS
  <2>2. /\ at = "judged" /\ c.window # Thesis!Window /\ Thesis!Keep(d) /\ UNCHANGED healthClock
        /\ assessed' = assessed \cup (IF bad THEN {Thesis!Window} ELSE {})
        /\ at' = IF d.state = "DETERIORATING" THEN "telling" ELSE "saving"
    BY <1>4, <2>1 DEF Thesis!Assess, Thesis!Current
  <2>3. /\ d \in Thesis!Currents /\ d.window = Thesis!Window /\ d.episode <= healthClock
        /\ d.run > 0 => /\ bad
                        /\ \/ d.run = 1 /\ d.episode = healthClock
                           \/ /\ Thesis!WindowOf(d.episode) \in assessed
                              /\ Thesis!WindowOf(d.episode) < d.window
        /\ d.state = "DETERIORATING" => d.run > 1
    BY <1>1, <2>1, <2>2, AssessedRun
  <2>4. /\ Thesis!Window \in Nat /\ Thesis!Window = Thesis!WindowOf(healthClock)
        /\ Thesis!WindowOf(d.episode) \in Nat /\ d.run \in Nat
    BY <2>3, WindowTypes DEF HealthTypes, Thesis!Window, Thesis!Currents
  <2>5. Begun(d)'
    <3>1. Thesis!Window' = Thesis!Window BY <2>2 DEF Thesis!Window, Thesis!WindowOf
    <3>2. d.run > 0 => /\ {Thesis!WindowOf(d.episode), d.window} \subseteq assessed'
                       /\ Thesis!WindowOf(d.episode) <= d.window
      BY <2>2, <2>3, <2>4
    <3>3. d.run > 1 => Thesis!WindowOf(d.episode) < d.window BY <2>3, <2>4
    <3>4. d.window <= Thesis!Window' /\ d.episode <= healthClock' BY <2>2, <2>3, <2>4, <3>1
    <3> QED BY <3>2, <3>3, <3>4 DEF Begun, Thesis!WindowOf
  <2> QED BY <1>2, <2>2, <2>3, <2>5
<1> QED BY <1>3, <1>4

\* Whatever a step does to the copies, there is one for each task.
LEMMA CopiesShape ==
  ASSUME HealthTypes, [Thesis!Next]_(Thesis!healthVars),
         ~(Thesis!AssessUnknown \/ \E bad \in BOOLEAN : Thesis!Assess(bad))
  PROVE  DOMAIN copies' = {"health", "tick"} /\ copies' = [t \in {"health", "tick"} |-> copies'[t]]
<1>0. DOMAIN copies = {"health", "tick"} /\ copies = [t \in {"health", "tick"} |-> copies[t]]
  BY DEF HealthTypes
<1>1. UNCHANGED copies \/ (\E t : Thesis!Drop(t) \/ Thesis!Load(t)) \/ Thesis!Die
  BY CopiesWriters
<1>2. ASSUME NEW t, Thesis!Drop(t) \/ Thesis!Load(t)
      PROVE  DOMAIN copies' = {"health", "tick"} /\ copies' = [u \in {"health", "tick"} |-> copies'[u]]
  BY <1>0, <1>2 DEF Thesis!Drop, Thesis!Load
<1>3. CASE Thesis!Die BY <1>3 DEF Thesis!Die, Thesis!Holders
<1> QED BY <1>0, <1>1, <1>2, <1>3

\* Types are kept.
LEMMA HealthTypesStep ==
  ASSUME Thesis!ThesisAssumption, HealthTypes, Begun(copies["health"].current),
         [Thesis!Next]_(Thesis!healthVars)
  PROVE  HealthTypes'
<1> USE DEF HealthTypes
<1>1. healthClock' \in Nat \ {0} /\ began' \in Nat
  BY Writers DEF Thesis!Pass, Thesis!HealthLoad
<1>2. verdict' \in [checked : Nat, since : Nat]
  <2>1. ASSUME NEW o, Thesis!Judged(o) PROVE verdict' \in [checked : Nat, since : Nat]
    <3>1. Thesis!Since(o) \in Nat BY DEF Thesis!Since, Thesis!None
    <3> QED BY <2>1, <3>1 DEF Thesis!Judged, Thesis!None
  <2>2. CASE Thesis!Raised BY <2>2 DEF Thesis!Raised, Thesis!None
  <2>3. CASE \E o \in Seen : Thesis!Judge(o) \/ Thesis!CrashJudged(o)
    <3>1. \E o : Thesis!Judged(o) BY <2>3 DEF Thesis!Judge, Thesis!CrashJudged
    <3> QED BY <3>1, <2>1
  <2> QED BY <2>2, <2>3, Writers
<1>3. setup' \in Rows BY RowStep DEF Rows, Copies
<1>4. setup.state = "ALERTED" => setup \in Copies BY DEF Rows, Copies
<1>5. CASE Thesis!AssessUnknown \/ \E bad \in BOOLEAN : Thesis!Assess(bad)
  <2>1. PICK d \in Thesis!Currents :
          /\ copies'["health"] = [higher |-> copies["health"].higher,
                                  state |-> copies["health"].state, current |-> d]
          /\ at # "idle"
    BY <1>5, KeptCopy
  <2>2. copies'["health"] \in Copies /\ copies'["health"].state = "ALERTED" BY <2>1 DEF Copies
  <2>3. copies' = [copies EXCEPT !["health"] = copies'["health"]]
    BY <1>5 DEF Thesis!AssessUnknown, Thesis!Assess, Thesis!Keep
  <2> HIDE DEF HealthTypes
  <2>4. DOMAIN copies' = {"health", "tick"} /\ copies'["tick"] = copies["tick"]
    BY <2>3 DEF HealthTypes
  <2>5. copies' \in [{"health", "tick"} -> Copies]
    BY <2>2, <2>3 DEF HealthTypes
  <2> QED BY <1>1, <1>2, <1>3, <2>2, <2>4, <2>5 DEF HealthTypes
<1>6. CASE ~(Thesis!AssessUnknown \/ \E bad \in BOOLEAN : Thesis!Assess(bad))
  <2>1. \A t \in {"health", "tick"} :
           \/ copies'[t] \in {copies[t], Thesis!NoCopy}
           \/ setup.state = "ALERTED" /\ copies'[t] = setup
    BY <1>6, CopiesStep
  <2>2. \A t \in {"health", "tick"} :
          copies'[t] \in Copies /\ (copies'[t] # Thesis!NoCopy => copies'[t].state = "ALERTED")
    BY <2>1, <1>4, Empty
  <2>3. DOMAIN copies' = {"health", "tick"} /\ copies' = [t \in {"health", "tick"} |-> copies'[t]]
    BY <1>6, CopiesShape
  <2>4. at' # "idle" => copies'["health"].state = "ALERTED"
    <3>1. CASE Thesis!HealthLoad BY <3>1 DEF Thesis!HealthLoad, Thesis!Load
    <3> QED BY <3>1, <1>6, AtStep
  <2> QED BY <1>1, <1>2, <1>3, <2>2, <2>3, <2>4
<1> QED BY <1>5, <1>6

\* The assessed windows and the clock only grow.
LEMMA BegunKept ==
  ASSUME Thesis!ThesisAssumption, HealthTypes, [Thesis!Next]_(Thesis!healthVars)
  PROVE  /\ healthClock <= healthClock' /\ assessed \subseteq assessed' /\ Thesis!Window <= Thesis!Window'
         /\ \A c \in Thesis!Currents : Begun(c) => Begun(c)'
<1>1. healthClock \in Nat /\ healthClock' \in Nat /\ healthClock <= healthClock'
  BY Writers DEF HealthTypes, Thesis!Pass
<1>2. assessed \subseteq assessed' BY Writers DEF Thesis!Assess
<1>3. Thesis!WindowOf(healthClock) <= Thesis!WindowOf(healthClock') BY <1>1, WindowTypes
<1>4. Thesis!Window <= Thesis!Window' BY <1>3 DEF Thesis!Window, Thesis!WindowOf
<1>5. Thesis!Window \in Nat /\ Thesis!Window' \in Nat
  BY <1>1, WindowTypes DEF Thesis!Window, Thesis!WindowOf
<1>6. ASSUME NEW c \in Thesis!Currents, Begun(c) PROVE Begun(c)'
  <2>1. c.window \in Nat /\ c.episode \in Nat BY DEF Thesis!Currents
  <2>2. c.window <= Thesis!Window' /\ c.episode <= healthClock' BY <2>1, <1>1, <1>4, <1>5, <1>6 DEF Begun
  <2> QED BY <2>2, <1>2, <1>6 DEF Begun, Thesis!WindowOf
<1> QED BY <1>1, <1>2, <1>4, <1>6

\* Runs of bad windows are kept.
LEMMA RunStep ==
  ASSUME Thesis!ThesisAssumption, HealthTypes, RunInv, [Thesis!Next]_(Thesis!healthVars)
  PROVE  RunInv'
<1>1. \A c \in Thesis!Currents : Begun(c) => Begun(c)' BY BegunKept
<1>2. /\ setup.current \in Thesis!Currents /\ Begun(setup.current)
      /\ \A t \in {"health", "tick"} : copies[t].current \in Thesis!Currents /\ Begun(copies[t].current)
  BY DEF HealthTypes, Rows, Copies, RunInv
<1>3. ASSUME NEW c \in Thesis!Currents, Begun(c), setup'.current = c PROVE Begun(setup.current)'
  BY <1>1, <1>3 DEF Begun, Thesis!Window, Thesis!WindowOf
<1>4. Begun(setup.current)'
  <2>1. \E c \in Thesis!Currents : Begun(c) /\ setup'.current = c BY <1>2, RowStep
  <2> QED BY <2>1, <1>3
<1>5. ASSUME NEW t \in {"health", "tick"} PROVE Begun(copies[t].current)'
  <2>1. ASSUME NEW c \in Thesis!Currents, Begun(c)', copies'[t].current = c PROVE Begun(copies[t].current)'
    BY <2>1 DEF Begun, Thesis!Window, Thesis!WindowOf
  <2>2. Begun(Thesis!NoCurrent)
    BY WindowTypes DEF Begun, Thesis!NoCurrent, Thesis!None, Thesis!Window, HealthTypes
  <2>3. CASE copies'[t] \in {copies[t], Thesis!NoCopy} \/ copies'[t] = setup
    <3>1. \E c \in Thesis!Currents : Begun(c) /\ copies'[t].current = c BY <1>2, <2>2, <2>3, Empty
    <3> QED BY <3>1, <1>1, <2>1
  <2>4. CASE t = "health" /\ (Thesis!AssessUnknown \/ \E bad \in BOOLEAN : Thesis!Assess(bad))
    <3>1. PICK d \in Thesis!Currents :
            /\ copies'["health"] = [higher |-> copies["health"].higher,
                                    state |-> copies["health"].state, current |-> d]
            /\ Begun(d)'
      BY <1>2, <2>4, KeptCopy
    <3>2. copies'[t].current = d BY <2>4, <3>1
    <3> QED BY <3>1, <3>2, <2>1
  <2> QED BY <2>3, <2>4, CopiesStep
<1>6. at' = "telling" => copies'["health"].current.run > 1
  <2>1. CASE Thesis!AssessUnknown \/ \E bad \in BOOLEAN : Thesis!Assess(bad)
    <3>1. PICK d \in Thesis!Currents :
            /\ copies'["health"] = [higher |-> copies["health"].higher,
                                    state |-> copies["health"].state, current |-> d]
            /\ at' = "telling" => d.run > 1
      BY <1>2, <2>1, KeptCopy
    <3>2. copies'["health"].current = d BY <3>1
    <3> QED BY <3>1, <3>2
  <2> QED BY <2>1, AtStep DEF RunInv
<1>7. Thesis!NoticeEarned'
  <2>1. assessed \subseteq assessed' BY BegunKept
  <2>2. CASE notices' = notices BY <2>1, <2>2 DEF RunInv, Thesis!NoticeEarned, Thesis!WindowOf
  <2>3. CASE Thesis!Tell
    <3> DEFINE c == copies["health"].current
               n == [episode |-> c.episode, window |-> c.window]
    <3>1. notices' \subseteq notices \cup {n} /\ assessed' = assessed /\ at = "telling"
      BY <2>3 DEF Thesis!Tell, Thesis!Current
    <3>2. c.run > 1 /\ Begun(c) /\ c.run \in Nat BY <3>1, <1>2 DEF RunInv, Thesis!Currents
    <3>3. Thesis!WindowOf(c.episode) < c.window /\ {Thesis!WindowOf(c.episode), c.window} \subseteq assessed
      BY <3>2 DEF Begun
    <3>4. n.episode = c.episode /\ n.window = c.window OBVIOUS
    <3> HIDE DEF n, c
    <3>5. \A m \in notices' : /\ Thesis!WindowOf(m.episode) < m.window
                              /\ {Thesis!WindowOf(m.episode), m.window} \subseteq assessed'
      BY <3>1, <3>3, <3>4 DEF RunInv, Thesis!NoticeEarned
    <3> QED BY <3>5 DEF Thesis!NoticeEarned, Thesis!WindowOf
  <2> QED BY <2>2, <2>3, Writers
<1> QED BY <1>4, <1>5, <1>6, <1>7 DEF RunInv

\* One more check goes on from those before it, without a gap.
LEMMA LastsAppended ==
  ASSUME Gap \in Nat, NEW s \in Seq(Checks), NEW x \in Checks, x.lasting
  PROVE  /\ Lasts(Append(s, x), Len(s) + 1)
         /\ \A k : Lasts(s, k) /\ x.at <= s[Len(s)].at + Gap => Lasts(Append(s, x), k)
<1> DEFINE n == Len(s)
<1>1. PICK t : t = Append(s, x) OBVIOUS
<1>2. n \in Nat /\ Len(t) = n + 1 /\ t[n + 1] = x /\ \A j \in 1 .. n : t[j] = s[j] BY <1>1
<1>3. Lasts(t, n + 1) BY <1>2 DEF Lasts
<1>4. ASSUME NEW k, Lasts(s, k), x.at <= s[n].at + Gap PROVE Lasts(t, k)
  <2>1. k \in 1 .. n BY <1>4 DEF Lasts
  <2> HIDE DEF n
  <2>2. \A j \in k .. n + 1 : t[j].lasting
    <3> TAKE j \in k .. n + 1
    <3>1. CASE j = n + 1 BY <3>1, <1>2
    <3>2. CASE j \in k .. n
      <4>1. s[j].lasting BY <3>2, <1>4 DEF Lasts, n
      <4>2. j \in 1 .. n BY <3>2, <2>1
      <4> QED BY <4>1, <4>2, <1>2
    <3> QED BY <3>1, <3>2, <1>2, <2>1
  <2>3. \A j \in k + 1 .. n + 1 : t[j].at <= t[j - 1].at + Gap
    <3> TAKE j \in k + 1 .. n + 1
    <3>1. CASE j = n + 1
      <4>1. j - 1 = n /\ n \in 1 .. n BY <3>1, <1>2, <2>1
      <4> QED BY <4>1, <3>1, <1>2, <1>4
    <3>2. CASE j \in k + 1 .. n
      <4>1. s[j].at <= s[j - 1].at + Gap BY <3>2, <1>4 DEF Lasts, n
      <4>2. j \in 1 .. n /\ j - 1 \in 1 .. n BY <3>2, <1>2, <2>1
      <4> QED BY <4>1, <4>2, <1>2
    <3> QED BY <3>1, <3>2, <1>2, <2>1
  <2>4. k \in 1 .. n + 1 BY <1>2, <2>1
  <2> QED BY <1>2, <2>2, <2>3, <2>4 DEF Lasts
<1> QED BY <1>1, <1>3, <1>4

\* A check that goes on from the record, or begins anew, ends the list of checks.
LEMMA JudgedLasts ==
  ASSUME Thesis!ThesisAssumption, HealthTypes, VerdictInv, NEW o \in Seen, Thesis!Judged(o)
  PROVE  /\ checks' \in Seq(Checks)
         /\ Len(checks') = Len(checks) + 1 /\ checks'[Len(checks')].at = began
         /\ Thesis!Lasting(o) =>
              \E k \in 1 .. Len(checks') : Lasts(checks', k) /\ checks'[k].at = Thesis!Since(o)
<1>1. PICK s \in Seq(Checks) : s = checks BY DEF VerdictInv, Checks
<1>2. PICK x \in Checks : x = [at |-> began, lasting |-> Thesis!Lasting(o)]
  <2>1. Thesis!Lasting(o) \in BOOLEAN
    BY DEF Thesis!Lasting, Thesis!ThesisAssumption, Thesis!Observation
  <2> QED BY <2>1 DEF HealthTypes, Checks
<1>3. PICK t : t = checks' OBVIOUS
<1>4. t = Append(s, x) /\ Gap \in Nat
  BY <1>1, <1>2, <1>3 DEF Thesis!Judged, Thesis!ThesisAssumption
<1>5. x.at = began /\ x.lasting = Thesis!Lasting(o) BY <1>2
<1>6. /\ t \in Seq(Checks) /\ Len(t) = Len(s) + 1 /\ Len(s) \in Nat
      /\ t[Len(s) + 1] = x /\ \A j \in 1 .. Len(s) : t[j] = s[j]
  BY <1>4
<1>7. ASSUME Thesis!Lasting(o)
      PROVE  \E k \in 1 .. Len(t) : Lasts(t, k) /\ t[k].at = Thesis!Since(o)
  <2>1. CASE verdict.since # 0 /\ began <= verdict.checked + Gap
    <3>1. Thesis!Since(o) = verdict.since BY <1>7, <2>1 DEF Thesis!Since, Thesis!None
    <3>2. PICK k \in 1 .. Len(s) : Lasts(s, k) /\ s[k].at = verdict.since
                                   /\ s[Len(s)].at = verdict.checked
      BY <1>1, <2>1 DEF VerdictInv
    <3>3. Lasts(t, k) BY <1>4, <1>5, <1>7, <2>1, <3>2, LastsAppended
    <3> QED BY <3>1, <3>2, <3>3, <1>6
  <2>2. CASE ~(verdict.since # 0 /\ began <= verdict.checked + Gap)
    <3>1. Thesis!Since(o) = began BY <1>7, <2>2 DEF Thesis!Since, Thesis!None
    <3>2. Lasts(t, Len(s) + 1) BY <1>4, <1>5, <1>7, LastsAppended
    <3> QED BY <3>1, <3>2, <1>5, <1>6
  <2> QED BY <2>1, <2>2
<1> QED BY <1>1, <1>3, <1>5, <1>6, <1>7

\* A verdict that a check leaves, whatever becomes of the row.
LEMMA JudgedVerdict ==
  ASSUME Thesis!ThesisAssumption, HealthTypes, VerdictInv, NEW o \in Seen, Thesis!Judged(o)
  PROVE  /\ checks' \in Seq(Checks)
         /\ verdict'.since # 0 =>
              \E k \in 1 .. Len(checks') :
                /\ Lasts(checks', k) /\ checks'[k].at = verdict'.since
                /\ checks'[Len(checks')].at = verdict'.checked
<1>1. verdict' = [checked |-> began, since |-> IF Thesis!HardFailure(o) THEN 0 ELSE Thesis!Since(o)]
  BY DEF Thesis!Judged, Thesis!None
<1>2. verdict'.checked = began /\ (verdict'.since # 0 => verdict'.since = Thesis!Since(o) /\ Thesis!Lasting(o))
  BY <1>1 DEF Thesis!Since, Thesis!None
<1> QED BY <1>2, JudgedLasts

\* The verdict after a step, with the list of checks.
LEMMA VerdictStep ==
  ASSUME Thesis!ThesisAssumption, HealthTypes, VerdictInv, [Thesis!Next]_(Thesis!healthVars)
  PROVE  VerdictInv'
<1>1. checks \in Seq(Checks) /\ Len(checks) \in Nat BY DEF VerdictInv
<1>2. ASSUME setup' = setup, setup.state = "WITHDRAWN" PROVE at' = "idle" /\ UNCHANGED checks
  <2>1. at = "idle" BY <1>2 DEF VerdictInv
  <2>2. at' = "idle"
    BY <1>2, <2>1, AtStep DEF Thesis!HealthLoad, Thesis!Load, Thesis!AssessUnknown, Thesis!Assess
  <2>3. \A o \in Seen : ~Thesis!Judge(o) /\ ~Thesis!CrashJudged(o)
    BY <2>1 DEF Thesis!Judge, Thesis!CrashJudged
  <2>4. ~Thesis!Raised BY <2>1 DEF Thesis!Raised
  <2> QED BY <2>2, <2>3, <2>4, Writers
<1>3. ASSUME NEW o \in Seen, Thesis!Judge(o), ~Thesis!HardFailure(o), Thesis!Toxic(o)
      PROVE  at' = "idle" /\ Thesis!Persisted'
  <2>1. at' = "idle" /\ Thesis!Judged(o) BY <1>3 DEF Thesis!Judge
  <2>2. Thesis!Lasting(o) /\ Thesis!Since(o) + Hold <= began BY <1>3 DEF Thesis!Toxic
  <2>3. PICK k \in 1 .. Len(checks') : Lasts(checks', k) /\ checks'[k].at = Thesis!Since(o)
    BY <2>1, <2>2, JudgedLasts
  <2>4. checks' \in Seq(Checks) /\ checks'[Len(checks')].at = began BY <2>1, JudgedLasts
  <2>5. checks'[k].at + Hold <= checks'[Len(checks')].at BY <2>2, <2>3, <2>4
  <2>6. k \in DOMAIN checks' BY <2>3, <2>4
  <2> QED BY <2>1, <2>3, <2>5, <2>6 DEF Lasts, Thesis!Persisted
<1>4. setup'.state = "WITHDRAWN" => at' = "idle" /\ Thesis!Persisted'
  <2> SUFFICES ASSUME setup'.state = "WITHDRAWN" PROVE at' = "idle" /\ Thesis!Persisted' OBVIOUS
  <2>1. CASE setup' = setup
    <3>1. setup.state = "WITHDRAWN" BY <2>1
    <3>2. at' = "idle" /\ UNCHANGED checks BY <1>2, <2>1, <3>1
    <3> QED BY <3>1, <3>2 DEF VerdictInv, Thesis!Persisted
  <2>2. CASE setup' # setup
    <3>1. \E o \in Seen : Thesis!Judge(o) /\ ~Thesis!HardFailure(o) /\ Thesis!Toxic(o)
      BY <2>2, RowStep
    <3> QED BY <3>1, <1>3
  <2> QED BY <2>1, <2>2
<1>5. /\ checks' \in Seq(Checks)
      /\ verdict'.since # 0 =>
           \E k \in 1 .. Len(checks') :
             /\ Lasts(checks', k) /\ checks'[k].at = verdict'.since
             /\ checks'[Len(checks')].at = verdict'.checked
  <2>1. CASE UNCHANGED <<verdict, checks>> BY <2>1 DEF VerdictInv
  <2>2. CASE checks' = checks /\ verdict' = [checked |-> healthClock, since |-> 0] BY <1>1, <2>2
  <2>3. CASE \E o \in Seen : Thesis!Judge(o) \/ Thesis!CrashJudged(o)
    <3>1. \E o \in Seen : Thesis!Judged(o) BY <2>3 DEF Thesis!Judge, Thesis!CrashJudged
    <3> QED BY <3>1, JudgedVerdict
  <2>4. CASE Thesis!Raised
    <3>1. /\ checks' = Append(checks, [at |-> healthClock, lasting |-> FALSE]) /\ verdict'.since = 0
      BY <2>4 DEF Thesis!Raised, Thesis!None
    <3>2. [at |-> healthClock, lasting |-> FALSE] \in Checks BY DEF Checks, HealthTypes
    <3> QED BY <1>1, <3>1, <3>2
  <2> QED BY <2>1, <2>2, <2>3, <2>4, Writers
<1> QED BY <1>4, <1>5 DEF VerdictInv

\* A setup is withdrawn, and a deterioration announced, only on what has lasted,
\* whatever copies of the row are saved and whenever the process restarts (health_loop,
\* evaluate, observe_health and send_deterioration).
THEOREM HealthIsEarned == PartsSpec => []HealthEarned
<1>0. Thesis!ThesisAssumption BY PoliciesAssumption DEF PoliciesAssumption
<1> USE <1>0
<1> DEFINE Inv == HealthTypes /\ VerdictInv /\ RunInv
<1>1. PartsInit => Inv
  <2> SUFFICES ASSUME Thesis!Init PROVE Inv BY DEF PartsInit
  <2> USE DEF Thesis!Init, Thesis!None, Thesis!NoVerdict
  <2>1. HealthTypes
    <3>1. setup \in Rows BY Empty DEF Rows
    <3>2. copies \in [{"health", "tick"} -> Copies] /\ \A t \in {"health", "tick"} : copies[t] = Thesis!NoCopy
      BY Empty DEF Thesis!Holders
    <3> QED BY <3>1, <3>2 DEF HealthTypes
  <2>2. VerdictInv BY DEF VerdictInv
  <2>3. RunInv
    <3>1. Begun(Thesis!NoCurrent)
      BY WindowTypes DEF Begun, Thesis!NoCurrent, Thesis!Window
    <3> QED BY <3>1, Empty DEF RunInv, Thesis!NoticeEarned, Thesis!Holders
  <2> QED BY <2>1, <2>2, <2>3
<1>2. Inv /\ [Thesis!Next]_(Thesis!healthVars) => Inv'
  BY HealthTypesStep, VerdictStep, RunStep DEF RunInv
<1>3. Inv => HealthEarned
  BY DEF HealthEarned, VerdictInv, RunInv, Thesis!HealthEarned, Thesis!WithdrawalEarned
<1>4. Inv /\ [PartsNext]_partsVars => Inv' BY <1>2, PartSteps
<1> QED BY <1>1, <1>3, <1>4, PTL DEF PartsSpec

-----------------------------------------------------------------------------
(* The opening of the store.                                               *)

Shaped(r) ==
  r = [is |-> r.is, step |-> r.step, n |-> r.n, applied |-> r.applied, read |-> r.read]

\* What an opener that is at a statement has seen to before.
Passed(o, is, step, n) ==
  /\ is = "opening" =>
       /\ step \in 1 .. Knows[o] /\ n \in Nat \ {0}
       /\ step = 2 /\ n >= 5 => "labelTriggers" \in made
       /\ step = 6 /\ n >= 2 => "symbolTriggers" \in made
       /\ step = 6 /\ n >= 3 => shown["symbols"] = table["symbols"]
       /\ Knows[o] >= 4 /\ (step > 4 \/ (step = 4 /\ n > 6)) => before[o] \subseteq claimed
  /\ is = "open" /\ Knows[o] >= 4 => before[o] \subseteq claimed

\* Projections: nothing is shown before the triggers, and nothing stale after them.
ShownInv ==
  /\ DOMAIN shown = {"labels", "symbols"} /\ DOMAIN table = {"labels", "symbols"}
  /\ \A t \in {"labels", "symbols"} : shown[t] = "none" \/ shown[t] = table[t]
  /\ "labelTriggers" \notin made => shown["labels"] = "none"
  /\ "symbolTriggers" \notin made => shown["symbols"] = "none"
  /\ "labelRows" \in made => "labelTriggers" \in made /\ shown["labels"] = table["labels"]
  /\ 6 \in DOMAIN receipts => "symbolTriggers" \in made /\ shown["symbols"] = table["symbols"]

OpenerInv ==
  /\ DOMAIN opener = Opener /\ DOMAIN before = Opener
  /\ DOMAIN copy = {"copyOrigins", "copyClaims"}
  /\ \A o \in Opener : /\ Shaped(opener[o]) /\ Passed(o, opener[o].is, opener[o].step, opener[o].n)
                        /\ before[o] \subseteq cards

\* The statements of each step.
LEMMA Statements ==
  /\ Len(Store!Registry) = 7
  /\ Store!Registry[4].again
  /\ Store!Registry[1].does = <<"core">>
  /\ Store!Registry[2].does = <<"features", "columns", "scope", "labelTriggers", "labelRows">>
  /\ Store!Registry[3].does = <<"copyOrigins", "copied", "observations">>
  /\ Store!Registry[4].does = <<"copyClaims", "copied", "claims", "setups", "registered", "seeded">>
  /\ Store!Registry[5].does = <<"opportunities">>
  /\ Store!Registry[6].does = <<"symbolTriggers", "symbolRows">>
  /\ Store!Registry[7].does = <<"attempts">>
BY DEF Store!Registry, Store!Step, Store!CoreSteps, Store!FeatureSteps, Store!ObservationSteps,
       Store!IdentitySteps, Store!ReliabilitySteps, Store!SymbolSteps, Store!PowerSteps

\* Where the statements are that the projections and the claims depend on.
PlacedAt(k, n, s) ==
  /\ k = 2 /\ n >= 4 => (n = 4 /\ s = "labelTriggers") \/ (n = 5 /\ s = "labelRows")
  /\ k = 6 => (n = 1 /\ s = "symbolTriggers") \/ (n = 2 /\ s = "symbolRows")
  /\ k = 4 => n <= 6 /\ (n = 1 <=> s = "copyClaims") /\ (n = 6 <=> s = "seeded")
  /\ s = "copyClaims" => k = 4
  /\ s = "copyOrigins" => k = 3
  /\ s = "labelRows" => k = 2 /\ n = 5
  /\ s = "symbolRows" => k = 6 /\ n = 2

\* Every statement is where PlacedAt says.
LEMMA Placed ==
  ASSUME NEW k \in 1 .. 7, NEW n \in 1 .. Len(Store!Registry[k].does), NEW s,
         Store!Registry[k].does[n] = s
  PROVE  PlacedAt(k, n, s)
<1> USE DEF PlacedAt
<1>1. CASE k = 1 \/ k = 5 \/ k = 7 BY <1>1, Statements
<1>2. CASE k = 2 BY <1>2, Statements
<1>3. CASE k = 3 BY <1>3, Statements
<1>4. CASE k = 4 BY <1>4, Statements
<1>5. CASE k = 6 BY <1>5, Statements
<1> QED BY <1>1, <1>2, <1>3, <1>4, <1>5

\* The next step that is due comes no later than the one of identities.
LEMMA DueNext ==
  ASSUME Store!MigrationAssumption, NEW o \in Opener, NEW i \in 1 .. 8, NEW applied
  PROVE  LET d == Store!Due(o, i, applied) IN
         /\ Shaped(d)
         /\ d.is = "opening" => d.step \in i .. Knows[o] /\ d.n = 1
         /\ Knows[o] >= 4 /\ i <= 4 => d.is = "opening" /\ d.step <= 4
         /\ d.is \in {"open", "opening"}
<1> DEFINE due == {s \in i .. Knows[o] : s \notin applied \/ Store!Registry[s].again}
<1>1. Knows[o] \in 1 .. 7 BY Statements DEF Store!MigrationAssumption, Store!Version
<1>2. due # {} => (CHOOSE s \in due : \A t \in due : s <= t) \in due
                  /\ \A t \in due : (CHOOSE s \in due : \A u \in due : s <= u) <= t
  <2> SUFFICES ASSUME due # {} PROVE \E s \in due : \A t \in due : s <= t OBVIOUS
  <2>1. IsFiniteSet(i .. Knows[o])
    <3>1. i \in Int /\ Knows[o] \in Int BY <1>1
    <3> QED BY <3>1, FS_Interval
  <2>2. IsFiniteSet(due) BY <2>1, FS_Subset
  <2>3. due \subseteq Nat BY <1>1
  <2> HIDE DEF due
  <2> QED BY <2>2, <2>3, FirstIsLeast
<1>3. Knows[o] >= 4 /\ i <= 4 => 4 \in due BY <1>1, Statements
<1>4. due \subseteq i .. Knows[o] OBVIOUS
<1>5. Store!Due(o, i, applied) =
        IF due = {} THEN Store!Opened
        ELSE Store!Opening(CHOOSE s \in due : \A t \in due : s <= t, applied)
  BY DEF Store!Due
<1> HIDE DEF due
<1>6. CASE due = {}
  BY <1>3, <1>5, <1>6 DEF Store!Opened, Store!Closed, Shaped
<1>7. CASE due # {}
  <2>1. PICK s : s = CHOOSE x \in due : \A t \in due : x <= t OBVIOUS
  <2>2. Store!Due(o, i, applied) =
          [is |-> "opening", step |-> s, n |-> 1, applied |-> applied, read |-> {}]
    BY <1>5, <1>7, <2>1 DEF Store!Opening
  <2>3. s \in due /\ \A t \in due : s <= t BY <1>2, <1>7, <2>1
  <2> QED BY <1>3, <1>4, <2>2, <2>3 DEF Shaped
<1> QED BY <1>6, <1>7

\* An opener that goes to its next statement.
LEMMA Onward ==
  ASSUME OpenerInv, NEW o \in Opener, NEW n, NEW read, Store!Goes(o, n, read)
  PROVE  /\ DOMAIN opener' = Opener /\ Shaped(opener[o])'
         /\ opener'[o].is = opener[o].is /\ opener'[o].step = opener[o].step /\ opener'[o].n = n
         /\ \A p \in Opener \ {o} : opener'[p] = opener[p]
<1>1. PICK r : r = opener[o] OBVIOUS
<1>2. r = [is |-> r.is, step |-> r.step, n |-> r.n, applied |-> r.applied, read |-> r.read]
  BY <1>1 DEF OpenerInv, Shaped
<1>3. PICK b : b = [opener EXCEPT ![o].n = n] OBVIOUS
<1>4. /\ b[o] = [is |-> r.is, step |-> r.step, n |-> n, applied |-> r.applied, read |-> r.read]
      /\ DOMAIN b = Opener /\ \A p \in Opener \ {o} : b[p] = opener[p]
  BY <1>1, <1>2, <1>3 DEF OpenerInv
<1>5. opener' = [b EXCEPT ![o].read = read] BY <1>3, Zenon DEF Store!Goes
<1>6. /\ opener'[o] = [is |-> r.is, step |-> r.step, n |-> n, applied |-> r.applied, read |-> read]
      /\ DOMAIN opener' = Opener /\ \A p \in Opener \ {o} : opener'[p] = b[p]
  BY <1>4, <1>5
<1> QED BY <1>1, <1>4, <1>6 DEF Shaped

\* What no step undoes.
StoreKept ==
  /\ made \subseteq made' /\ claimed \subseteq claimed' /\ cards \subseteq cards'
  /\ "symbolTriggers" \in made /\ shown["symbols"] = table["symbols"]
       => shown'["symbols"] = table'["symbols"]

\* The others have passed what they had passed.
LEMMA OthersKept ==
  ASSUME OpenerInv, NEW o \in Opener, StoreKept, opener'[o] = opener[o], before'[o] = before[o]
  PROVE  Passed(o, opener[o].is, opener[o].step, opener[o].n)' /\ Shaped(opener[o])' /\ before'[o] \subseteq cards'
<1>1. Passed(o, opener[o].is, opener[o].step, opener[o].n) /\ Shaped(opener[o]) /\ before[o] \subseteq cards
  BY DEF OpenerInv
<1> QED BY <1>1 DEF Passed, Shaped, StoreKept

\* A statement done, with what it has to leave.
LEMMA StatementStep ==
  ASSUME Store!MigrationAssumption, OpenerInv, StoreKept, NEW o \in Opener, NEW n \in {opener[o].n + 1, opener[o].n + 2, Store!Rest(o, "copyClaims"), Store!Rest(o, "copyOrigins")}, NEW read,
         opener[o].is = "opening", opener[o].n <= Len(Store!Doing(o)),
         NEW s, Store!Doing(o)[opener[o].n] = s,
         Store!Goes(o, n, read), UNCHANGED before, UNCHANGED DOMAIN copy,
         n # opener[o].n + 1 => \/ s = "copyOrigins" \/ s = "copyClaims",
         s \in {"labelTriggers", "symbolTriggers"} => s \in made',
         s = "symbolRows" => shown'["symbols"] = table'["symbols"],
         s = "seeded" => cards \subseteq claimed'
  PROVE  OpenerInv'
<1>1. /\ DOMAIN opener' = Opener /\ Shaped(opener[o])'
      /\ opener'[o].is = opener[o].is /\ opener'[o].step = opener[o].step /\ opener'[o].n = n
      /\ \A p \in Opener \ {o} : opener'[p] = opener[p]
  BY Onward
<1>2. PICK k : k = opener[o].step OBVIOUS
<1>3. PICK m : m = opener[o].n OBVIOUS
<1>4. k \in 1 .. Knows[o] /\ Knows[o] \in 1 .. 7 /\ m \in Nat \ {0} /\ Passed(o, "opening", k, m)
      /\ before[o] \subseteq cards
  BY <1>2, <1>3, Statements DEF OpenerInv, Passed, Store!MigrationAssumption, Store!Version
<1>5. m \in 1 .. Len(Store!Registry[k].does) /\ Store!Registry[k].does[m] = s /\ k \in 1 .. 7
  <2>1. Store!Doing(o) = Store!Registry[k].does BY <1>2 DEF Store!Doing
  <2>2. k \in 1 .. 7 BY <1>4
  <2>3. Len(Store!Registry[k].does) \in Nat
    <3>1. CASE k \in {1, 2, 3} BY <3>1, Statements
    <3>2. CASE k \in {4, 5, 6, 7} BY <3>2, Statements
    <3> QED BY <3>1, <3>2, <2>2
  <2> QED BY <1>3, <1>4, <2>1, <2>2, <2>3
<1>6. PlacedAt(k, m, s) BY <1>5, Placed
<1>7. n \in {m + 1, m + 2, 6, 4} /\ n \in Nat \ {0} /\ (n # m + 1 => k \in {3, 4})
      /\ (n # m + 1 /\ k = 4 => n \in {m + 2, 6, 4} /\ m = 1)
  BY <1>3, <1>4, <1>6 DEF Store!Rest, PlacedAt
<1>8. Passed(o, "opening", k, n)'
  <2>1. k = 2 /\ n >= 5 => "labelTriggers" \in made' BY <1>4, <1>6, <1>7 DEF Passed, StoreKept, PlacedAt
  <2>2. k = 6 => "symbolTriggers" \in made' BY <1>4, <1>6, <1>7 DEF Passed, StoreKept, PlacedAt
  <2>3. k = 6 /\ n >= 3 => shown'["symbols"] = table'["symbols"] BY <1>4, <1>6, <1>7 DEF Passed, StoreKept, PlacedAt
  <2>4. Knows[o] >= 4 /\ k > 4 => before[o] \subseteq claimed' BY <1>4 DEF Passed, StoreKept, PlacedAt
  <2>5. k = 4 /\ n > 6 => before[o] \subseteq claimed' BY <1>4, <1>6, <1>7 DEF StoreKept, PlacedAt
  <2> QED BY <1>4, <1>7, <2>1, <2>2, <2>3, <2>4, <2>5 DEF Passed
<1>9. Passed(o, opener[o].is, opener[o].step, opener[o].n)' BY <1>1, <1>2, <1>8 DEF Passed
<1>10. before'[o] \subseteq cards' BY <1>4 DEF StoreKept
<1>11. \A p \in Opener : Passed(p, opener[p].is, opener[p].step, opener[p].n)' /\ Shaped(opener[p])' /\ before'[p] \subseteq cards'
  BY <1>1, <1>9, <1>10, OthersKept
<1> QED BY <1>1, <1>11 DEF OpenerInv

\* No step has more statements than these.
LEMMA DoingLengths ==
  ASSUME NEW k \in 1 .. 7
  PROVE  /\ Len(Store!Registry[k].does) \in Nat
         /\ k = 6 => Len(Store!Registry[k].does) = 2
         /\ k = 4 => Len(Store!Registry[k].does) = 6
<1>1. CASE k \in {1, 2, 3} BY <1>1, Statements
<1>2. CASE k = 4 BY <1>2, Statements
<1>3. CASE k = 6 BY <1>3, Statements
<1>4. CASE k \in {5, 7} BY <1>4, Statements
<1> QED BY <1>1, <1>2, <1>3, <1>4

\* The statement that an opener is about to do.
LEMMA AtStatement ==
  ASSUME Store!MigrationAssumption, OpenerInv, NEW o \in Opener, NEW s, Store!Is(o, s)
  PROVE  /\ opener[o].is = "opening" /\ opener[o].n \in Nat \ {0} /\ opener[o].n <= Len(Store!Doing(o))
         /\ Store!Doing(o)[opener[o].n] = s
         /\ Passed(o, "opening", opener[o].step, opener[o].n)
         /\ PlacedAt(opener[o].step, opener[o].n, s)
<1>1. opener[o].is = "opening" /\ opener[o].n <= Len(Store!Doing(o)) /\ Store!Doing(o)[opener[o].n] = s
  BY DEF Store!Is
<1>2. /\ Passed(o, "opening", opener[o].step, opener[o].n)
      /\ opener[o].n \in Nat \ {0} /\ opener[o].step \in 1 .. Knows[o] /\ Knows[o] \in 1 .. 7
  BY <1>1, Statements DEF OpenerInv, Passed, Store!MigrationAssumption, Store!Version
<1>3. PICK k \in 1 .. 7, m \in Nat \ {0} : k = opener[o].step /\ m = opener[o].n
  <2>1. opener[o].step \in 1 .. 7 BY <1>2
  <2> QED BY <1>2, <2>1
<1>4. Store!Doing(o) = Store!Registry[k].does BY <1>3 DEF Store!Doing
<1>5. m \in 1 .. Len(Store!Registry[k].does) BY SMTT(30), <1>1, <1>3, <1>4, DoingLengths
<1>6. PlacedAt(k, m, s) BY <1>1, <1>3, <1>4, <1>5, Placed
<1> QED BY <1>1, <1>2, <1>3, <1>6

\* Projections after a step.
LEMMA ShownStep ==
  ASSUME Store!MigrationAssumption, OpenerInv, ShownInv, Store!Next
  PROVE  StoreKept /\ ShownInv'
<1> USE DEF ShownInv, StoreKept
<1>1. ASSUME NEW o \in Opener, Store!FillsLabels(o) PROVE StoreKept /\ ShownInv'
  <2>1. "labelTriggers" \in made
    BY <1>1, AtStatement DEF Store!FillsLabels, PlacedAt, Passed
  <2>2. /\ DOMAIN shown' = DOMAIN shown /\ shown'["symbols"] = shown["symbols"]
        /\ shown'["labels"] = table["labels"]
    <3>1. CASE "labelRows" \in made BY <1>1, <3>1 DEF Store!FillsLabels
    <3>2. CASE "labelRows" \notin made
      <4>1. shown' = [shown EXCEPT !["labels"] = IF shown["labels"] = "none" THEN table["labels"]
                                                 ELSE shown["labels"]]
        BY <1>1, <3>2 DEF Store!FillsLabels, Store!Filled, Store!NoRow
      <4> QED BY <4>1
    <3> QED BY <3>1, <3>2
  <2>3. made' = made \cup {"labelRows"} /\ UNCHANGED <<receipts, table, cards, claimed>>
    BY <1>1 DEF Store!FillsLabels
  <2> QED BY <2>1, <2>2, <2>3
<1>2. ASSUME NEW o \in Opener, Store!FillsSymbols(o) PROVE StoreKept /\ ShownInv'
  <2>1. "symbolTriggers" \in made
    BY <1>2, AtStatement DEF Store!FillsSymbols, PlacedAt, Passed
  <2>2. shown' = [shown EXCEPT !["symbols"] = IF shown["symbols"] = "none" THEN table["symbols"]
                                              ELSE shown["symbols"]]
    BY <1>2 DEF Store!FillsSymbols, Store!Filled, Store!NoRow
  <2>3. UNCHANGED <<made, receipts, table, cards, claimed>> BY <1>2 DEF Store!FillsSymbols
  <2> QED BY <2>1, <2>2, <2>3
<1>3. ASSUME NEW o \in Opener, Store!Makes(o) \/ Store!AddsScope(o) \/ Store!Registers(o)
      PROVE  StoreKept /\ ShownInv'
  <2>1. /\ made \subseteq made' /\ ("labelRows" \in made' => "labelRows" \in made)
        /\ UNCHANGED <<receipts, table, shown, cards, claimed>>
    BY <1>3 DEF Store!Makes, Store!AddsScope, Store!Registers, Store!Plain
  <2> QED BY <2>1
<1>4. ASSUME NEW o \in Opener, Store!Receipt(o) PROVE StoreKept /\ ShownInv'
  <2>1. /\ DOMAIN receipts' = DOMAIN receipts \cup {opener[o].step}
        /\ opener[o].is = "opening" /\ opener[o].n > Len(Store!Doing(o))
        /\ UNCHANGED <<made, table, shown, cards, claimed>>
    BY <1>4 DEF Store!Receipt
  <2>2. Passed(o, "opening", opener[o].step, opener[o].n) /\ opener[o].n \in Nat
    BY <2>1 DEF OpenerInv, Passed
  <2>3. opener[o].step = 6 => opener[o].n >= 3
    <3> SUFFICES ASSUME opener[o].step = 6 PROVE opener[o].n >= 3 OBVIOUS
    <3>1. Len(Store!Doing(o)) = 2 BY DoingLengths DEF Store!Doing
    <3> QED BY <2>1, <2>2, <3>1
  <2> QED BY <2>1, <2>2, <2>3 DEF Passed
<1>5. ASSUME NEW o \in Opener, Store!Seeds(o) \/ \E s \in Setup : Store!SaveSetup(o, s) \/ Store!SendCard(o, s)
      PROVE  StoreKept /\ ShownInv'
  <2>1. claimed \subseteq claimed' /\ cards \subseteq cards' /\ UNCHANGED <<made, receipts, table, shown>>
    BY <1>5 DEF Store!Seeds, Store!SaveSetup, Store!SendCard
  <2> QED BY <2>1
<1>6. ASSUME NEW o \in Opener, NEW t \in Store!Tables, NEW x, Store!Write(o, t, x)
      PROVE  StoreKept /\ ShownInv'
  <2>1. /\ t \in {"labels", "symbols"} /\ Store!Triggers["labels"] = "labelTriggers"
        /\ Store!Triggers["symbols"] = "symbolTriggers"
    BY DEF Store!Tables, Store!Triggers
  <2>2. /\ table' = [table EXCEPT ![t] = x]
        /\ shown' = IF Store!Triggers[t] \in made THEN [shown EXCEPT ![t] = x] ELSE shown
        /\ UNCHANGED <<made, receipts, cards, claimed>>
    BY <1>6 DEF Store!Write
  <2>3. CASE t = "labels" BY <2>1, <2>2, <2>3
  <2>4. CASE t = "symbols" BY <2>1, <2>2, <2>4
  <2> QED BY <2>1, <2>3, <2>4
<1>7. ASSUME UNCHANGED <<made, receipts, table, shown, cards, claimed>> PROVE StoreKept /\ ShownInv'
  BY <1>7
<1>8. ASSUME NEW o \in Opener,
             \/ Store!Opens(o) \/ Store!ReadsColumns(o) \/ Store!ReadsSetups(o) \/ Store!Stops(o)
             \/ Store!CopyEnds(o) \/ \E c : Store!Copies(o, c)
      PROVE  UNCHANGED <<made, receipts, table, shown, cards, claimed>>
  BY <1>8 DEF Store!Opens, Store!ReadsColumns, Store!ReadsSetups, Store!Stops, Store!CopyEnds, Store!Copies,
              Store!base
<1> HIDE DEF ShownInv, StoreKept
<1> QED BY <1>1, <1>2, <1>3, <1>4, <1>5, <1>6, <1>7, <1>8 DEF Store!Next

\* An opener that has done a statement goes to the next, with what it has to leave.
LEMMA Onto ==
  ASSUME Store!MigrationAssumption, OpenerInv, StoreKept, NEW o \in Opener, NEW s, NEW read,
         Store!Is(o, s), Store!Goes(o, opener[o].n + 1, read), UNCHANGED before, UNCHANGED DOMAIN copy,
         s \in {"labelTriggers", "symbolTriggers"} => s \in made',
         s = "symbolRows" => shown'["symbols"] = table'["symbols"],
         s = "seeded" => cards \subseteq claimed'
  PROVE  OpenerInv'
<1>1. /\ opener[o].is = "opening" /\ opener[o].n \in Nat /\ opener[o].n <= Len(Store!Doing(o))
      /\ Store!Doing(o)[opener[o].n] = s
  BY AtStatement
<1>2. PICK n : n = opener[o].n + 1 OBVIOUS
<1>3. Store!Goes(o, n, read) BY <1>2
<1> QED BY <1>1, <1>2, <1>3, StatementStep

\* An opener that takes up another step, has opened, or stops.
LEMMA Elsewhere ==
  ASSUME OpenerInv, StoreKept, NEW o \in Opener, NEW d, opener' = [opener EXCEPT ![o] = d],
         \A p \in Opener \ {o} : before'[p] = before[p], DOMAIN before' = DOMAIN before,
         UNCHANGED DOMAIN copy, Shaped(d), Passed(o, d.is, d.step, d.n)', before'[o] \subseteq cards'
  PROVE  OpenerInv'
<1>1. DOMAIN opener' = Opener /\ opener'[o] = d /\ \A p \in Opener \ {o} : opener'[p] = opener[p]
  BY DEF OpenerInv
<1>2. ASSUME NEW p \in Opener
      PROVE  Passed(p, opener[p].is, opener[p].step, opener[p].n)' /\ Shaped(opener[p])' /\ before'[p] \subseteq cards'
  <2>1. CASE p = o BY <1>1, <2>1 DEF Passed, Shaped
  <2>2. CASE p # o BY <1>1, <2>2, OthersKept
  <2> QED BY <2>1, <2>2
<1> QED BY <1>1, <1>2 DEF OpenerInv

\* What the openers have passed after a step.
LEMMA OpenerStep ==
  ASSUME Store!MigrationAssumption, OpenerInv, ShownInv, StoreKept, Store!Next
  PROVE  OpenerInv'
<1>1. ASSUME NEW o \in Opener, Store!Makes(o) PROVE OpenerInv'
  <2>1. PICK s : Store!Is(o, s) /\ made' = made \cup {s} /\ s \in Store!Plain
    BY <1>1 DEF Store!Makes
  <2>2. s \notin {"symbolRows", "seeded"} BY <2>1 DEF Store!Plain
  <2>3. Store!Goes(o, opener[o].n + 1, opener[o].read) /\ UNCHANGED <<before, copy>>
    BY <1>1 DEF Store!Makes, Store!Then
  <2>4. PICK read : Store!Goes(o, opener[o].n + 1, read) BY <2>3
  <2> QED BY <2>1, <2>2, <2>3, <2>4, Onto
<1>2. ASSUME NEW o \in Opener, Store!FillsLabels(o) \/ Store!FillsSymbols(o) \/ Store!Seeds(o)
      PROVE  OpenerInv'
  <2>1. PICK s : /\ Store!Is(o, s) /\ s \in {"labelRows", "symbolRows", "seeded"}
                 /\ s = "symbolRows" => Store!FillsSymbols(o)
                 /\ s = "seeded" => Store!Seeds(o)
    BY <1>2 DEF Store!FillsLabels, Store!FillsSymbols, Store!Seeds
  <2>2. Store!Goes(o, opener[o].n + 1, opener[o].read) /\ UNCHANGED <<before, copy>>
    BY <1>2 DEF Store!FillsLabels, Store!FillsSymbols, Store!Seeds, Store!Then
  <2>3. PICK read : Store!Goes(o, opener[o].n + 1, read) BY <2>2
  <2>4. Store!Seeds(o) => cards \subseteq claimed' BY DEF Store!Seeds
  <2>5. Store!FillsSymbols(o) => shown'["symbols"] = table'["symbols"]
    <3> SUFFICES ASSUME Store!FillsSymbols(o) PROVE shown'["symbols"] = table'["symbols"] OBVIOUS
    <3>1. /\ shown' = [shown EXCEPT !["symbols"] = IF shown["symbols"] = "none" THEN table["symbols"]
                                                   ELSE shown["symbols"]]
          /\ table' = table
      BY DEF Store!FillsSymbols, Store!Filled, Store!NoRow
    <3> QED BY <3>1 DEF ShownInv
  <2> QED BY <2>1, <2>2, <2>3, <2>4, <2>5, Onto
<1>3. ASSUME NEW o \in Opener,
             \/ Store!ReadsColumns(o) \/ Store!CopyEnds(o) \/ Store!ReadsSetups(o) \/ Store!Registers(o)
      PROVE  OpenerInv'
  <2>1. PICK s : Store!Is(o, s) /\ s \in {"columns", "copied", "setups", "registered"}
    BY <1>3 DEF Store!ReadsColumns, Store!CopyEnds, Store!ReadsSetups, Store!Registers
  <2>2. (\E read : Store!Goes(o, opener[o].n + 1, read)) /\ UNCHANGED before /\ UNCHANGED DOMAIN copy
    BY <1>3 DEF Store!ReadsColumns, Store!CopyEnds, Store!ReadsSetups, Store!Registers, Store!base
  <2>3. PICK read : Store!Goes(o, opener[o].n + 1, read) BY <2>2
  <2> QED BY <2>1, <2>2, <2>3, Onto
<1>4. ASSUME NEW o \in Opener, NEW c \in DOMAIN copy, Store!Copies(o, c) PROVE OpenerInv'
  <2>1. Store!Is(o, c) /\ c \in {"copyOrigins", "copyClaims"} BY <1>4 DEF Store!Copies, OpenerInv
  <2>2. PICK n, read :
          /\ Store!Goes(o, n, read)
          /\ n \in {opener[o].n + 1, opener[o].n + 2, Store!Rest(o, "copyClaims"), Store!Rest(o, "copyOrigins")}
    BY <1>4, <2>1 DEF Store!Copies
  <2>3. UNCHANGED before /\ UNCHANGED DOMAIN copy BY <1>4 DEF Store!Copies
  <2>4. /\ opener[o].is = "opening" /\ opener[o].n <= Len(Store!Doing(o)) /\ Store!Doing(o)[opener[o].n] = c
    BY <2>1, AtStatement
  <2> QED BY <2>1, <2>2, <2>3, <2>4, StatementStep
<1>5. ASSUME NEW o \in Opener, opener' = [opener EXCEPT ![o] = Store!Closed], UNCHANGED before, UNCHANGED copy
      PROVE  OpenerInv'
  <2>1. PICK d : d = Store!Closed OBVIOUS
  <2>2. Shaped(d) /\ Passed(o, d.is, d.step, d.n)' BY <2>1 DEF Store!Closed, Shaped, Passed
  <2>3. before'[o] \subseteq cards' BY <1>5 DEF OpenerInv, StoreKept
  <2> QED BY <1>5, <2>1, <2>2, <2>3, Elsewhere
<1>6. ASSUME NEW o \in Opener, Store!Stops(o) PROVE OpenerInv'
  BY <1>5, <1>6 DEF Store!Stops, Store!base
<1>7. ASSUME NEW o \in Opener, Store!AddsScope(o) PROVE OpenerInv'
  <2>1. Store!Is(o, "scope") /\ UNCHANGED <<before, copy>> BY <1>7 DEF Store!AddsScope
  <2>2. \/ opener' = [opener EXCEPT ![o] = Store!Closed]
        \/ opener' = [opener EXCEPT ![o].n = opener[o].n + 1]
    BY <1>7 DEF Store!AddsScope
  <2>3. ASSUME opener' = [opener EXCEPT ![o].n = opener[o].n + 1] PROVE Store!Goes(o, opener[o].n + 1, opener[o].read)
    <3>1. PICK r : r = opener[o] OBVIOUS
    <3>2. r = [is |-> r.is, step |-> r.step, n |-> r.n, applied |-> r.applied, read |-> r.read]
      BY <3>1 DEF OpenerInv, Shaped
    <3>3. PICK b : b = [opener EXCEPT ![o].n = opener[o].n + 1] OBVIOUS
    <3>4. /\ b[o] = [is |-> r.is, step |-> r.step, n |-> r.n + 1, applied |-> r.applied, read |-> r.read]
          /\ b = [p \in Opener |-> b[p]]
      BY <3>1, <3>2, <3>3 DEF OpenerInv
    <3>5. b = [b EXCEPT ![o].read = r.read] BY <3>4
    <3>6. [[opener EXCEPT ![o].n = opener[o].n + 1] EXCEPT ![o].read = opener[o].read] = opener'
      BY <2>3, <3>1, <3>3, <3>5, Zenon
    <3> QED BY <3>6, Zenon DEF Store!Goes
  <2>4. CASE opener' = [opener EXCEPT ![o].n = opener[o].n + 1]
    <3>1. PICK read : Store!Goes(o, opener[o].n + 1, read) BY <2>3, <2>4
    <3> QED BY <2>1, <3>1, Onto
  <2> QED BY <2>1, <2>2, <2>4, <1>5
<1>8. ASSUME NEW o \in Opener, Store!Opens(o) PROVE OpenerInv'
  <2>1. PICK d : d = Store!Due(o, 1, DOMAIN receipts) OBVIOUS
  <2>2. /\ Shaped(d)
        /\ d.is = "opening" => d.step \in 1 .. Knows[o] /\ d.n = 1
        /\ Knows[o] >= 4 => d.is = "opening" /\ d.step <= 4
    BY <2>1, DueNext
  <2>3. Knows[o] \in 1 .. 7 BY Statements DEF Store!MigrationAssumption, Store!Version
  <2>4. Passed(o, d.is, d.step, d.n)' BY <2>2, <2>3 DEF Passed
  <2>5. /\ opener' = [opener EXCEPT ![o] = d] /\ before' = [before EXCEPT ![o] = cards] /\ UNCHANGED <<copy, cards>>
    BY <1>8, <2>1 DEF Store!Opens, Store!base
  <2>6. /\ \A p \in Opener \ {o} : before'[p] = before[p]
        /\ DOMAIN before' = DOMAIN before /\ before'[o] \subseteq cards'
    BY <2>5 DEF OpenerInv
  <2> QED BY <2>2, <2>4, <2>5, <2>6, Elsewhere
<1>9. ASSUME NEW o \in Opener, Store!Receipt(o) PROVE OpenerInv'
  <2>1. PICK k, m : k = opener[o].step /\ m = opener[o].n OBVIOUS
  <2>2. /\ opener[o].is = "opening" /\ m > Len(Store!Doing(o)) /\ UNCHANGED <<before, copy>>
        /\ opener' = [opener EXCEPT ![o] = Store!Due(o, k + 1, opener[o].applied)]
    BY <1>9, <2>1 DEF Store!Receipt
  <2>3. Knows[o] \in 1 .. 7 BY Statements DEF Store!MigrationAssumption, Store!Version
  <2>4. Passed(o, "opening", k, m) /\ k \in 1 .. Knows[o] /\ m \in Nat BY <2>1, <2>2 DEF OpenerInv, Passed
  <2>5. k \in 1 .. 7 /\ k + 1 \in 1 .. 8 BY <2>3, <2>4
  <2>6. k = 4 => m > 6 BY <2>1, <2>2, <2>4, <2>5, DoingLengths DEF Store!Doing
  <2>7. Knows[o] >= 4 /\ k >= 4 => before[o] \subseteq claimed BY <2>3, <2>4, <2>6 DEF Passed
  <2>8. PICK applied : applied = opener[o].applied OBVIOUS
  <2>9. PICK d : d = Store!Due(o, k + 1, applied) OBVIOUS
  <2>10. /\ Shaped(d)
         /\ d.is = "opening" => d.step \in k + 1 .. Knows[o] /\ d.n = 1
         /\ Knows[o] >= 4 /\ k + 1 <= 4 => d.is = "opening" /\ d.step <= 4
    BY <2>5, <2>9, DueNext
  <2>11. Passed(o, d.is, d.step, d.n)'
    BY <2>2, <2>3, <2>5, <2>7, <2>10 DEF Passed, StoreKept
  <2>12. before'[o] \subseteq cards' BY <2>2 DEF OpenerInv, StoreKept
  <2> QED BY <2>2, <2>8, <2>9, <2>10, <2>11, <2>12, Elsewhere
<1>10. ASSUME UNCHANGED <<opener, before, copy>> PROVE OpenerInv'
  BY <1>10, OthersKept DEF OpenerInv
<1>11. ASSUME NEW o \in Opener,
              \/ \E s \in Setup : Store!SaveSetup(o, s) \/ Store!SendCard(o, s)
              \/ \E t, x : Store!Write(o, t, x)
       PROVE  UNCHANGED <<opener, before, copy>>
  BY <1>11 DEF Store!SaveSetup, Store!SendCard, Store!Write
<1> QED
  BY <1>1, <1>2, <1>3, <1>4, <1>6, <1>7, <1>8, <1>9, <1>10, <1>11 DEF Store!Next

\* What a version relies on is there once it has opened the store, wherever openers
\* stop and whatever others write (Store.__init__, migrations.apply, seed_delivered).
THEOREM StoreOpensWhole == PartsSpec => []OpenedWhole
<1>0. Store!MigrationAssumption BY PoliciesAssumption DEF PoliciesAssumption
<1> USE <1>0
<1> DEFINE Inv == OpenerInv /\ ShownInv
<1>1. PartsInit => Inv
  BY DEF PartsInit, Store!Init, OpenerInv, ShownInv, Store!Tables, Store!NoRow, Store!Closed, Shaped, Passed
<1>2. Inv /\ [Store!Next]_(Store!migrationVars) => Inv'
  <2> SUFFICES ASSUME Inv, [Store!Next]_(Store!migrationVars) PROVE Inv' OBVIOUS
  <2>1. CASE Store!Next BY <2>1, ShownStep, OpenerStep
  <2>2. CASE UNCHANGED Store!migrationVars
    BY <2>2 DEF OpenerInv, ShownInv, Passed, Shaped, Store!migrationVars, Store!base
  <2> QED BY <2>1, <2>2
<1>3. Inv => OpenedWhole
  BY DEF OpenedWhole, OpenerInv, ShownInv, Passed, Store!OpenedWhole, Store!ProjectionsWhole, Store!EarlierSendsKnown,
         Store!Symbols, Store!Identities
<1>4. Inv /\ [PartsNext]_partsVars => Inv' BY <1>2, PartSteps
<1> QED BY <1>1, <1>3, <1>4, PTL DEF PartsSpec
=============================================================================
