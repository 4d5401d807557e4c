------------------------ MODULE Research_proofs ------------------------
(***************************************************************************)
(* Proofs about three parts of Research, for every instance of them: that  *)
(* an ordinal is as saved (AttemptLedger: any tasks, lookbacks, saves,     *)
(* number of gaps that are kept); that the replay of recorded prints gives *)
(* the outcomes of the tape (PrimaryLabels: two decisions, any tape, any   *)
(* windows, any number of passes that die); and that a stage is enrolled   *)
(* blind (ResearchQueue: any setups, markets and sizes of a round).        *)
(***************************************************************************)
EXTENDS Research, FiniteSetTheorems, SequenceTheorems, TLAPS

-----------------------------------------------------------------------------
(* The inductive invariant.                                                *)
Gaps == [from : Nat, to : Nat]
Numbers == {r.nth : r \in rows}

\* Setups are saved while their decision is recent.
Types ==
  /\ now \in Nat \ {0} /\ asof \in [Task -> Nat]
  /\ \A t \in Task : asof[t] # 0 => asof[t] <= now /\ now <= asof[t] + Flight
  /\ saved \in Seq(Nat \ {0})
  /\ gaps \in Seq(Gaps) /\ Len(gaps) <= MaxGaps
  /\ lost \subseteq Nat
  /\ \A k \in lost : k <= Len(saved)

\* One row for a save, at most.
Rows ==
  /\ \A r \in rows : r.nth \in 1..Len(saved) /\ r.start \in Nat /\ r.ordinal \in Nat
  /\ \A q, r \in rows : q.nth = r.nth => q = r

\* Gaps follow each other, farther apart than deferrals are merged.
Apart(i, j) == (j - i) * (Merge + 1)
Spread ==
  /\ \A i \in DOMAIN gaps : gaps[i].from <= gaps[i].to /\ gaps[i].to <= now
  /\ \A i, j \in DOMAIN gaps :
       i < j => gaps[i].from + Apart(i, j) <= gaps[j].from /\ gaps[i].to < gaps[j].from

\* A save of the epoch has its row or its gap, unless it is lost or its gap was
\* dropped: then as many gaps as are kept follow it.
Held(d) == \E i \in DOMAIN gaps : gaps[i].from <= d /\ d <= gaps[i].to
Accounted ==
  \A k \in 1..Len(saved) :
    \/ k \in lost \/ k \in Numbers \/ saved[k] < Epoch
    \/ Held(saved[k])
    \/ Len(gaps) = MaxGaps /\ saved[k] < gaps[1].from

Inv == Types /\ Rows /\ Spread /\ Accounted /\ OrdinalAsSaved

-----------------------------------------------------------------------------
(* Sequences.                                                              *)
LEMMA Entries ==
  ASSUME NEW S, NEW g \in Seq(S)
  PROVE  Len(g) \in Nat /\ DOMAIN g = 1..Len(g) /\ (\A i \in 1..Len(g) : g[i] \in S)
         /\ (g # <<>> <=> Len(g) > 0)
OBVIOUS

LEMMA Appended ==
  ASSUME NEW S, NEW g \in Seq(S), NEW x \in S
  PROVE  /\ Append(g, x) \in Seq(S) /\ Len(Append(g, x)) = Len(g) + 1
         /\ \A i \in 1..Len(g) : Append(g, x)[i] = g[i]
         /\ Append(g, x)[Len(g) + 1] = x
OBVIOUS

LEMMA Tailed ==
  ASSUME NEW S, NEW g \in Seq(S), g # <<>>
  PROVE  /\ Tail(g) \in Seq(S) /\ Len(Tail(g)) = Len(g) - 1
         /\ \A i \in 1..(Len(g) - 1) : Tail(g)[i] = g[i + 1]
OBVIOUS

\* The last entry is replaced.
LEMMA Replaced ==
  ASSUME NEW S, NEW g \in Seq(S), NEW x \in S, g # <<>>
  PROVE  /\ Append(Front(g), x) \in Seq(S) /\ Len(Append(Front(g), x)) = Len(g)
         /\ \A i \in 1..(Len(g) - 1) : Append(Front(g), x)[i] = g[i]
         /\ Append(Front(g), x)[Len(g)] = x
<1> DEFINE n == Len(g) - 1
<1>1. n \in Nat /\ n \in Int /\ 1 \in Int /\ n + 1 = Len(g) /\ \A i \in 1..n : g[i] \in S
  BY Entries
<1>2. /\ Front(g) \in Seq(S) /\ Len(Front(g)) = n
      /\ \A i \in 1..n : Front(g)[i] = g[i]
  <2> HIDE DEF n
  <2> DEFINE f == SubSeq(g, 1, n)
  <2>1. /\ f \in Seq(S)
        /\ Len(f) = IF 1 <= n THEN n - 1 + 1 ELSE 0
        /\ \A i \in 1 .. n - 1 + 1 : f[i] = g[1 + i - 1]
    BY <1>1, SubSeqProperties
  <2>2. Front(g) = f
    BY DEF Front, n
  <2>3. Len(f) = n /\ \A i \in 1..n : f[i] = g[i]
    <3> HIDE DEF f
    <3>1. n - 1 + 1 = n /\ \A i \in 1..n : 1 + i - 1 = i
      BY <1>1
    <3> QED
      BY <1>1, <2>1, <3>1
  <2> QED
    BY <2>1, <2>2, <2>3
<1> QED
  <2> HIDE DEF n
  <2> DEFINE f == Front(g)
  <2> HIDE DEF f
  <2>1. f \in Seq(S) /\ Len(f) = n /\ \A i \in 1..n : f[i] = g[i]
    BY <1>2 DEF f
  <2>2. /\ Append(f, x) \in Seq(S) /\ Len(Append(f, x)) = n + 1
        /\ \A i \in 1..n : Append(f, x)[i] = f[i]
        /\ Append(f, x)[n + 1] = x
    BY <2>1, Appended
  <2>3. Len(g) - 1 = n
    BY DEF n
  <2> QED
    BY <1>1, <2>1, <2>2, <2>3 DEF f

-----------------------------------------------------------------------------
(* Gaps.                                                                   *)

LEMMA Constants ==
  /\ Lookback \subseteq Nat /\ MaxGaps \in Nat \ {0} /\ Merge \in Nat /\ Flight \in Nat
  /\ Epoch \in Nat
BY LedgerAssumption

\* The distances of gaps add up.
LEMMA Distances ==
  ASSUME NEW i \in Nat, NEW j \in Nat
  PROVE  /\ Apart(i, j) \in Int
         /\ Apart(i, j + 1) = Apart(i, j) + Merge + 1
         /\ Apart(i + 1, j + 1) = Apart(i, j)
<1>1. Merge + 1 \in Int /\ j - i \in Int
  BY Constants
<1>2. ASSUME NEW m \in Int, NEW x \in Int  PROVE (x + 1) * m = x * m + m /\ x * m \in Int
  OBVIOUS
<1>3. j + 1 - i = (j - i) + 1 /\ (j + 1) - (i + 1) = j - i
  OBVIOUS
<1>4. Apart(i, j + 1) = ((j - i) + 1) * (Merge + 1)
  BY <1>3 DEF Apart
<1>5. Apart(i, j + 1) = (j - i) * (Merge + 1) + (Merge + 1)
  BY <1>1, <1>2, <1>4
<1>6. Apart(i, j) \in Int
  BY <1>1, <1>2 DEF Apart
<1>7. Apart(i, j + 1) = Apart(i, j) + (Merge + 1)
  BY <1>5 DEF Apart
<1>8. Apart(i + 1, j + 1) = Apart(i, j)
  BY <1>3 DEF Apart
<1> QED
  BY <1>6, <1>7, <1>8, Constants

\* A deferral widens the last gap or opens one after it, and what was held stays held
\* unless the first gap goes.
LEMMA WidenedKeeps ==
  ASSUME Types, Spread, NEW d \in Nat, d <= now, gaps' = Widened(d), now' = now
  PROVE  /\ gaps' \in Seq(Gaps) /\ Len(gaps') <= MaxGaps
         /\ Spread'
         /\ \A x \in Nat :
              (Held(x) \/ (Len(gaps) = MaxGaps /\ x < gaps[1].from)
                 \/ (x = d /\ ~(gaps # <<>> /\ d < Last(gaps).from)))
              => Held(x)' \/ (Len(gaps') = MaxGaps /\ x < gaps'[1].from)
<1> USE Constants
<1>0. /\ gaps \in Seq(Gaps) /\ Len(gaps) <= MaxGaps
      /\ \A i \in 1..Len(gaps) : gaps[i] \in Gaps /\ gaps[i].from \in Nat /\ gaps[i].to \in Nat
      /\ DOMAIN gaps = 1..Len(gaps) /\ Len(gaps) \in Nat /\ (gaps # <<>> <=> Len(gaps) > 0)
      /\ now \in Nat
  <2>1. gaps \in Seq(Gaps) /\ Len(gaps) <= MaxGaps /\ now \in Nat
    BY DEF Types
  <2>2. DOMAIN gaps = 1..Len(gaps) /\ Len(gaps) \in Nat /\ (gaps # <<>> <=> Len(gaps) > 0)
        /\ \A i \in 1..Len(gaps) : gaps[i] \in Gaps
    BY <2>1, Entries
  <2>3. \A g \in Gaps : g.from \in Nat /\ g.to \in Nat
    BY DEF Gaps
  <2> QED
    BY <2>1, <2>2, <2>3
<1> DEFINE n == Len(gaps)
           last == gaps[n]
<1>w. /\ n = Len(gaps) /\ last = gaps[n] /\ Last(gaps) = last
      /\ \A i, j \in 1..n :
           i < j => gaps[i].from + Apart(i, j) <= gaps[j].from /\ gaps[i].to < gaps[j].from
      /\ \A i \in 1..n : gaps[i].from <= gaps[i].to /\ gaps[i].to <= now
  BY <1>0 DEF Last, Spread
<1>h. (\A x : Held(x) <=> \E i \in 1..n : gaps[i].from <= x /\ x <= gaps[i].to)
  BY <1>0 DEF Held
<1> HIDE DEF n, last
<1>1. CASE gaps # <<>> /\ d <= last.to + Merge
  <2> DEFINE g == [last EXCEPT !.to = IF d > @ THEN d ELSE @]
  <2>0. n \in 1..n /\ n \in Nat /\ last \in Gaps /\ last.from \in Nat /\ last.to \in Nat /\ last.to <= now
        /\ last.from <= last.to
    BY <1>0, <1>1, <1>w
  <2>1. /\ g \in Gaps /\ g.from = last.from /\ g.to \in Nat
        /\ last.to <= g.to /\ d <= g.to /\ g.to <= now
    BY <2>0, <1>0 DEF Gaps
  <2>2. gaps' = Append(Front(gaps), g)
    <3>1. Len(Append(Front(gaps), g)) = n
      BY ZenonT(30), <1>0, <1>1, <1>w, <2>1, Replaced
    <3>2. Widened(d) = IF Len(Append(Front(gaps), g)) > MaxGaps THEN Tail(Append(Front(gaps), g)) ELSE Append(Front(gaps), g)
      BY <1>1, <1>w DEF Widened
    <3> QED
      BY <3>1, <3>2, <1>0, <2>0, <1>w
  <2> HIDE DEF g
  <2>3. /\ gaps' \in Seq(Gaps) /\ Len(gaps') = n /\ DOMAIN gaps' = 1..n
        /\ gaps'[n] = g /\ \A i \in 1..(n - 1) : gaps'[i] = gaps[i]
    <3>1. /\ gaps' \in Seq(Gaps) /\ Len(gaps') = n
          /\ \A i \in 1..(n - 1) : gaps'[i] = gaps[i]
          /\ gaps'[n] = g
      <4> DEFINE r == Append(Front(gaps), g)
      <4>1. gaps \in Seq(Gaps) /\ g \in Gaps /\ gaps # <<>>
        BY <2>1, <1>0, <1>1
      <4>2. /\ r \in Seq(Gaps) /\ Len(r) = Len(gaps)
            /\ \A i \in 1..(Len(gaps) - 1) : r[i] = gaps[i]
            /\ r[Len(gaps)] = g
        BY <4>1, Replaced
      <4>3. gaps' = r /\ Len(gaps) = n
        BY <2>2, <1>w
      <4> HIDE DEF r
      <4> QED
        BY <4>2, <4>3
    <3> QED
      BY <3>1, Entries
  <2>4. /\ \A i \in 1..n : gaps'[i].from = gaps[i].from /\ gaps[i].to <= gaps'[i].to /\ gaps'[i].to <= now
        /\ \A i \in 1..n : i < n => gaps'[i].to = gaps[i].to
        /\ \A i \in 1..n : gaps[i].from \in Nat /\ gaps[i].to \in Nat /\ gaps'[i].to \in Nat
    <3>1. \A i \in 1..n : i # n => i \in 1..(n - 1) /\ i < n
      BY <2>0
    <3>2. ASSUME NEW i \in 1..n  PROVE gaps[i].from \in Nat /\ gaps[i].to \in Nat /\ gaps[i].to <= now
      BY <1>0, <1>w
    <3>3. ASSUME NEW i \in 1..n, i # n  PROVE gaps'[i] = gaps[i] /\ i < n
      BY <3>1, <3>3, <2>3
    <3>4. gaps'[n] = g /\ gaps[n] = last
      BY <2>3, <1>w
    <3>5. ASSUME NEW i \in 1..n
          PROVE  /\ gaps'[i].from = gaps[i].from /\ gaps[i].to <= gaps'[i].to /\ gaps'[i].to <= now
                 /\ gaps'[i].to \in Nat /\ (i < n => gaps'[i].to = gaps[i].to)
      <4>1. CASE i = n
        BY <4>1, <3>4, <2>0, <2>1
      <4>2. CASE i # n
        BY <4>2, <3>2, <3>3
      <4> QED
        BY <4>1, <4>2
    <3> QED
      BY <3>2, <3>5
  <2>5. Spread'
    <3>1. \A i \in 1..n : gaps'[i].from <= gaps'[i].to /\ gaps'[i].to <= now
      BY <2>4, <1>w
    <3>2. ASSUME NEW i \in 1..n, NEW j \in 1..n, i < j
          PROVE  gaps'[i].from + Apart(i, j) <= gaps'[j].from /\ gaps'[i].to < gaps'[j].from
      <4>1. i < n
        BY <3>2, <2>0
      <4> QED
        BY <4>1, <3>2, <2>4, <1>w
    <3> QED
      BY <3>1, <3>2, <2>3 DEF Spread
  <2>6. \A x : Held(x)' <=> \E i \in 1..n : gaps'[i].from <= x /\ x <= gaps'[i].to
    BY <2>3 DEF Held
  <2>7. ASSUME NEW x \in Nat, Held(x)  PROVE Held(x)'
    <3>1. PICK i \in 1..n : gaps[i].from <= x /\ x <= gaps[i].to
      BY <2>7, <1>h
    <3>2. gaps'[i].from <= x /\ x <= gaps'[i].to
      BY <3>1, <2>4
    <3> QED
      BY <3>2, <2>6
  <2>8. ASSUME ~(d < last.from)  PROVE Held(d)'
    <3>1. gaps'[n].from <= d /\ d <= gaps'[n].to
      BY <2>8, <2>0, <2>1, <2>3
    <3> QED
      BY <3>1, <2>0, <2>6
  <2>9. ASSUME n = MaxGaps, NEW x \in Nat, x < gaps[1].from  PROVE x < gaps'[1].from
    BY <2>9, <2>4, <2>0
  <2> QED
    BY <2>3, <2>5, <2>7, <2>8, <2>9, <1>0, <1>1, <1>w
<1>2. CASE ~(gaps # <<>> /\ d <= last.to + Merge)
  <2> DEFINE all == Append(gaps, [from |-> d, to |-> d])
  <2>1. /\ all \in Seq(Gaps) /\ Len(all) = n + 1 /\ DOMAIN all = 1..(n + 1) /\ n \in Nat
        /\ all[n + 1].from = d /\ all[n + 1].to = d /\ \A i \in 1..n : all[i] = gaps[i]
    <3> DEFINE e == [from |-> d, to |-> d]
    <3>1. e \in Gaps /\ e.from = d /\ e.to = d
      BY DEF Gaps
    <3> HIDE DEF e
    <3>2. /\ Append(gaps, e) \in Seq(Gaps) /\ Len(Append(gaps, e)) = n + 1
          /\ \A i \in 1..n : Append(gaps, e)[i] = gaps[i]
          /\ Append(gaps, e)[n + 1] = e
      BY <1>0, <1>w, <3>1, Appended
    <3>3. all = Append(gaps, e)
      BY DEF e
    <3> HIDE DEF all
    <3> QED
      BY <1>0, <1>w, <3>1, <3>2, <3>3, Entries
  <2>2. gaps' = IF Len(all) > MaxGaps THEN Tail(all) ELSE all
    BY <1>2, <1>w DEF Widened
  <2> HIDE DEF all
  <2>3. ASSUME n > 0  PROVE last.from + Merge + 1 <= d /\ last.to < d /\ last.from \in Nat /\ last.to \in Nat
    BY <2>3, <2>1, <1>0, <1>2, <1>w
  <2>4. /\ \A i \in 1..(n + 1) : all[i].from \in Nat /\ all[i].to \in Nat
                                   /\ all[i].from <= all[i].to /\ all[i].to <= now
        /\ \A i, j \in 1..(n + 1) :
             i < j => all[i].from + Apart(i, j) <= all[j].from /\ all[i].to < all[j].from
    <3>1. ASSUME NEW i \in 1..n
          PROVE  all[i].from + Apart(i, n + 1) <= d /\ all[i].to < d
      <4>1. n > 0 /\ n \in 1..n /\ i \in Nat
        BY <2>1, <3>1
      <4>2. gaps[i].from \in Nat /\ gaps[i].to \in Nat /\ last.from <= last.to
        BY <1>0, <1>w, <4>1
      <4>3. Apart(i, n + 1) = Apart(i, n) + Merge + 1 /\ Apart(i, n) \in Int
        BY Distances, <4>1, <2>1
      <4>4. CASE i = n
        <5>1. Apart(n, n) = 0
          BY <2>1 DEF Apart
        <5> QED
          BY <5>1, <4>2, <4>3, <4>4, <2>3, <4>1, <2>1, <1>w
      <4>5. CASE i < n
        <5>1. gaps[i].from + Apart(i, n) <= last.from /\ gaps[i].to < last.from
          BY <1>w, <4>1, <4>5
        <5>2. all[i] = gaps[i]
          BY <2>1
        <5>3. last.from + Merge + 1 <= d /\ last.from < d /\ last.from \in Nat
          BY <2>3, <4>1, <4>2, <1>0
        <5>4. Apart(i, n) \in Int /\ gaps[i].from \in Nat /\ gaps[i].to \in Nat
          BY <4>2, <4>3
        <5>5. gaps[i].from + (Apart(i, n) + Merge + 1) <= d /\ gaps[i].to < d
          BY <5>1, <5>3, <5>4
        <5> QED
          BY <5>2, <5>5, <4>3
      <4> QED
        BY <4>4, <4>5, <4>1, <2>1
    <3>2. ASSUME NEW i \in 1..n, NEW j \in 1..n, i < j
          PROVE  all[i].from + Apart(i, j) <= all[j].from /\ all[i].to < all[j].from
      BY <2>1, <1>w, <3>2
    <3>3. \A i \in 1..(n + 1) : all[i].from \in Nat /\ all[i].to \in Nat
                                   /\ all[i].from <= all[i].to /\ all[i].to <= now
      BY <2>1, <1>0, <1>w
    <3>4. \A i, j \in 1..(n + 1) : i < j => i \in 1..n /\ (j \in 1..n \/ j = n + 1)
      BY <2>1
    <3> QED
      BY <3>1, <3>2, <3>3, <3>4, <2>1
  <2>5. CASE n + 1 > MaxGaps
    <3>1. n = MaxGaps /\ n >= 1 /\ gaps' = Tail(all) /\ all # <<>> /\ Len(all) - 1 = n
      <4>1. n <= MaxGaps /\ n = MaxGaps /\ n >= 1 /\ Len(all) - 1 = n /\ Len(all) > MaxGaps
        <5>1. n <= MaxGaps /\ n \in Nat /\ Len(all) = n + 1
          BY <2>1, <1>0, <1>w
        <5> QED
          BY <5>1, <2>5
      <4>2. all # <<>>
        BY <4>1, <2>1, Entries
      <4> QED
        BY <4>1, <4>2, <2>2
    <3>2. /\ gaps' \in Seq(Gaps) /\ Len(gaps') = n /\ DOMAIN gaps' = 1..n
          /\ \A i \in 1..n : i + 1 \in 1..(n + 1) /\ gaps'[i] = all[i + 1]
      <4>1. /\ gaps' \in Seq(Gaps) /\ Len(gaps') = n /\ \A i \in 1..n : gaps'[i] = all[i + 1]
        BY <3>1, <2>1, Tailed
      <4> QED
        BY <4>1, <2>1, Entries
    <3>3. Spread'
      <4>1. ASSUME NEW i \in 1..n, NEW j \in 1..n, i < j
            PROVE  gaps'[i].from + Apart(i, j) <= gaps'[j].from /\ gaps'[i].to < gaps'[j].from
        <5>1. Apart(i + 1, j + 1) = Apart(i, j)
          BY Distances, <2>1
        <5>2. i + 1 < j + 1 /\ i + 1 \in 1..(n + 1) /\ j + 1 \in 1..(n + 1)
          BY <4>1, <2>1
        <5> QED
          BY <5>1, <5>2, <3>2, <2>4
      <4> QED
        BY <4>1, <3>2, <2>4 DEF Spread
    <3>4. /\ all[1].to < gaps'[1].from /\ all[1].from <= all[1].to /\ all[1] = gaps[1]
          /\ all[1].from \in Nat /\ all[1].to \in Nat /\ gaps'[1].from \in Nat
      BY <3>1, <3>2, <2>1, <2>4
    <3>5. \A x : Held(x)' <=> \E i \in 1..n : gaps'[i].from <= x /\ x <= gaps'[i].to
      BY <3>2 DEF Held
    <3>6. ASSUME NEW x \in Nat, Held(x)  PROVE Held(x)' \/ x < gaps'[1].from
      <4>1. PICK i \in 1..n : gaps[i].from <= x /\ x <= gaps[i].to
        BY <3>6, <1>h
      <4>2. CASE i = 1
        BY <4>1, <4>2, <3>4
      <4>3. CASE i # 1
        <5>1. i - 1 \in 1..n /\ (i - 1) + 1 = i
          BY <4>3, <2>1
        <5>2. gaps'[i - 1] = gaps[i]
          BY <5>1, <3>2, <2>1
        <5> QED BY <5>1, <5>2, <4>1, <3>5
      <4> QED BY <4>2, <4>3
    <3>7. Held(d)'
      <4>1. n \in 1..n /\ gaps'[n].from <= d /\ d <= gaps'[n].to
        BY <3>1, <3>2, <2>1
      <4> QED
        BY <4>1, <3>5
    <3>8. ASSUME NEW x \in Nat, x < gaps[1].from  PROVE x < gaps'[1].from
      BY <3>8, <3>4
    <3> QED
      BY <3>1, <3>2, <3>3, <3>6, <3>7, <3>8, <1>0, <1>w
  <2>6. CASE ~(n + 1 > MaxGaps)
    <3>1. gaps' = all /\ n < MaxGaps
      BY <2>1, <2>2, <2>6
    <3>2. Spread'
      BY <3>1, <2>1, <2>4 DEF Spread
    <3>3. \A x : Held(x)' <=> \E i \in 1..(n + 1) : all[i].from <= x /\ x <= all[i].to
      BY <3>1, <2>1 DEF Held
    <3>4. ASSUME NEW x \in Nat, Held(x)  PROVE Held(x)'
      <4>1. PICK i \in 1..n : gaps[i].from <= x /\ x <= gaps[i].to
        BY <3>4, <1>h
      <4> QED
        BY <4>1, <3>3, <2>1
    <3>5. Held(d)'
      <4>1. n + 1 \in 1..(n + 1) /\ all[n + 1].from <= d /\ d <= all[n + 1].to
        BY <2>1
      <4> QED
        BY <4>1, <3>3
    <3> QED
      BY <3>1, <3>2, <3>4, <3>5, <2>1, <1>w
  <2> QED BY <2>5, <2>6
<1> QED BY <1>1, <1>2

\* What an exact ordinal counts is all there is: a save of the window whose gap was
\* dropped would be followed by more gaps than the age of a decision leaves room for.
LEMMA Seen ==
  ASSUME Inv, NEW d \in Nat, NEW from \in Nat, d <= now, now <= d + Flight,
         Covered(from, d), NEW k \in 1..Len(saved), k \notin lost, saved[k] \in from..(d - 1)
  PROVE  k \in Numbers
<1> USE Constants
<1>1. /\ gaps \in Seq(Gaps) /\ now \in Nat /\ saved \in Seq(Nat \ {0})
      /\ from >= Epoch /\ \A i \in DOMAIN gaps : gaps[i].from > d \/ gaps[i].to < from
  BY DEF Inv, Types, Covered
<1>2. /\ DOMAIN gaps = 1..Len(gaps) /\ Len(gaps) \in Nat
      /\ \A i \in 1..Len(gaps) : gaps[i].from \in Nat /\ gaps[i].to \in Nat
  <2>1. DOMAIN gaps = 1..Len(gaps) /\ Len(gaps) \in Nat /\ \A i \in 1..Len(gaps) : gaps[i] \in Gaps
    BY <1>1, Entries
  <2>2. \A g \in Gaps : g.from \in Nat /\ g.to \in Nat
    BY DEF Gaps
  <2> QED
    BY <2>1, <2>2
<1>3. saved[k] \in Nat /\ from <= saved[k] /\ saved[k] < d
  OBVIOUS
<1>4. ~(saved[k] < Epoch)
  BY <1>1, <1>3
<1>5. ~Held(saved[k])
  <2>1. ASSUME NEW i \in DOMAIN gaps, gaps[i].from <= saved[k], saved[k] <= gaps[i].to  PROVE FALSE
    <3>1. gaps[i].from > d \/ gaps[i].to < from
      BY <1>1
    <3>2. gaps[i].from \in Nat /\ gaps[i].to \in Nat
      BY <1>2
    <3> QED
      BY <2>1, <3>1, <3>2, <1>3
  <2> QED
    BY <2>1 DEF Held
<1>6. ASSUME Len(gaps) = MaxGaps, saved[k] < gaps[1].from  PROVE FALSE
  <2> DEFINE n == Len(gaps)
  <2>1. 1 \in 1..n /\ n \in 1..n /\ n \in Nat /\ n = MaxGaps
    BY <1>6, <1>2
  <2>2. /\ gaps[1].from <= gaps[1].to /\ gaps[n].from <= gaps[n].to /\ gaps[n].to <= now
        /\ 1 < n => gaps[1].from + Apart(1, n) <= gaps[n].from
    BY <2>1, <1>2 DEF Inv, Spread
  <2>3. gaps[1].from > d
    <3>1. gaps[1].from > d \/ gaps[1].to < from
      BY <2>1, <1>1, <1>2
    <3>2. gaps[1].from \in Nat /\ gaps[1].to \in Nat
      BY <2>1, <1>2
    <3> QED
      BY SMTT(30), <3>1, <3>2, <2>2, <1>3, <1>6
  <2>4. Apart(1, n) >= Flight /\ Apart(1, n) \in Int
    <3>1. Apart(1, n) = (MaxGaps - 1) * (Merge + 1)
      BY <2>1 DEF Apart
    <3>2. Apart(1, n) \in Int
      BY <2>1, Distances
    <3> QED
      BY <3>1, <3>2, LedgerAssumption
  <2>5. CASE n = 1
    <3>1. Apart(1, n) = 0
      BY <2>5, Distances DEF Apart
    <3> QED
      BY <3>1, <2>5, <2>1, <2>2, <2>3, <2>4, <1>2, <1>1
  <2>6. CASE n # 1
    BY SMTT(30), <2>6, <2>1, <2>2, <2>3, <2>4, <1>2, <1>1
  <2> QED
    BY <2>5, <2>6
<1> QED
  BY <1>4, <1>5, <1>6 DEF Inv, Accounted

-----------------------------------------------------------------------------
(* Ordinals.                                                               *)

\* The saves that the ordinal of a row should count.
Before(r) == {n \in 1..(r.nth - 1) : saved[n] \in r.start..(saved[r.nth] - 1)}
Right(r) == (r.exact /\ Before(r) \cap lost = {}) => r.ordinal = Cardinality(Before(r)) + 1

\* What is saved later changes nothing for the rows there are.
LEMMA RowsStand ==
  ASSUME Inv, saved' \in Seq(Nat \ {0}), Len(saved) <= Len(saved'),
         \A k \in 1..Len(saved) : saved'[k] = saved[k], lost \subseteq lost', NEW r \in rows
  PROVE  /\ r.nth \in 1..Len(saved') /\ r.start \in Nat /\ r.ordinal \in Nat
         /\ Right(r)'
<1>1. r.nth \in 1..Len(saved) /\ r.start \in Nat /\ r.ordinal \in Nat /\ Len(saved) \in Nat /\ Len(saved') \in Nat
  BY Entries DEF Inv, Rows, Types
<1>2. Before(r)' = Before(r)
  <2>1. saved'[r.nth] = saved[r.nth] /\ \A n \in 1..(r.nth - 1) : n \in 1..Len(saved)
    BY <1>1
  <2>2. \A n \in 1..(r.nth - 1) : saved'[n] = saved[n]
    BY <2>1
  <2> QED
    BY <2>1, <2>2 DEF Before
<1>3. Right(r)
  BY DEF Inv, OrdinalAsSaved, Right, Before
<1> QED
  BY <1>1, <1>2, <1>3 DEF Right

\* Each save of the window has one row, so the rows count the saves.
LEMMA Counted ==
  ASSUME Inv, NEW d \in Nat, NEW from \in Nat, d <= now, now <= d + Flight
  PROVE  /\ Cardinality(Prior(from, d)) \in Nat
         /\ LET before == {n \in 1..Len(saved) : saved[n] \in from..(d - 1)}
            IN  (Covered(from, d) /\ before \cap lost = {})
                  => Cardinality(Prior(from, d)) = Cardinality(before)
<1> DEFINE P == Prior(from, d)
           N == 1..Len(saved)
           B == {n \in N : saved[n] \in from..(d - 1)}
           f == [r \in P |-> r.nth]
<1>1. Len(saved) \in Nat
  BY Entries DEF Inv, Types
<1>2. IsFiniteSet(N)
  BY <1>1, FS_Interval
<1>3. /\ \A r \in P : r \in rows /\ r.nth \in N /\ saved[r.nth] \in from..(d - 1)
      /\ \A q, r \in P : q.nth = r.nth => q = r
  BY DEF Inv, Rows, Prior
<1>4. f \in [P -> B] /\ \A q, r \in P : f[q] = f[r] => q = r
  BY <1>3
<1>5. f \in Injection(P, B)
  BY <1>4 DEF Injection, IsInjective
<1>6. IsFiniteSet(B)
  BY <1>2, FS_Subset
<1>7. IsFiniteSet(P)
  BY <1>5, <1>6, FS_Injection
<1>8. ASSUME Covered(from, d), B \cap lost = {}  PROVE Cardinality(P) = Cardinality(B)
  <2>1. ASSUME NEW k \in B  PROVE \E r \in P : f[r] = k
    <3>1. k \in Numbers
      BY <1>8, <2>1, Seen
    <3>2. PICK r \in rows : r.nth = k
      BY <3>1 DEF Numbers
    <3>3. r \in P
      BY <3>2 DEF Prior
    <3> QED
      BY <3>2, <3>3
  <2>2. f \in Surjection(P, B)
    BY <1>4, <2>1 DEF Surjection
  <2> QED
    BY <1>5, <1>6, <2>2, FS_Injection
<1> QED
  BY <1>7, <1>8, FS_CardinalityType

-----------------------------------------------------------------------------
(* Steps.                                                                  *)
LEMMA Starts == Init => Inv
<1> SUFFICES ASSUME Init PROVE Inv
  OBVIOUS
<1> USE Constants DEF Init
<1>1. Types
  BY DEF Types
<1>2. Rows /\ Spread /\ Accounted /\ OrdinalAsSaved
  BY DEF Rows, Spread, Accounted, OrdinalAsSaved
<1> QED
  BY <1>1, <1>2 DEF Inv

\* A save of a recent decision.
LEMMA Saves ==
  ASSUME Inv, NEW t \in Task, Save(t)
  PROVE  /\ asof[t] \in Nat \ {0} /\ asof[t] <= now /\ now <= asof[t] + Flight /\ now' = now
         /\ asof' \in [Task -> Nat] /\ \A u \in Task : asof'[u] # 0 => asof'[u] = asof[u]
         /\ saved' \in Seq(Nat \ {0}) /\ Len(saved') = Len(saved) + 1 /\ Len(saved) \in Nat
         /\ \A k \in 1..Len(saved) : saved'[k] = saved[k]
         /\ saved'[Len(saved) + 1] = asof[t]
<1>1. /\ asof \in [Task -> Nat] /\ saved \in Seq(Nat \ {0})
      /\ \A u \in Task : asof[u] # 0 => asof[u] <= now /\ now <= asof[u] + Flight
  BY DEF Inv, Types
<1>2. asof[t] \in Nat \ {0} /\ asof[t] <= now /\ now <= asof[t] + Flight
  BY <1>1 DEF Save
<1>3. saved' = Append(saved, asof[t])
  BY DEF Save
<1>4. /\ saved' \in Seq(Nat \ {0}) /\ Len(saved') = Len(saved) + 1
      /\ \A k \in 1..Len(saved) : saved'[k] = saved[k]
      /\ saved'[Len(saved) + 1] = asof[t]
  BY <1>1, <1>2, <1>3, Appended
<1>5. asof' \in [Task -> Nat] /\ \A u \in Task : asof'[u] # 0 => asof'[u] = asof[u]
  BY <1>1 DEF Save
<1> QED
  BY <1>1, <1>2, <1>4, <1>5, Entries DEF Save

\* The types after a step of which the rest is known.
LEMMA TypesStay ==
  ASSUME Inv, now' = now, asof' \in [Task -> Nat], \A u \in Task : asof'[u] # 0 => asof'[u] = asof[u],
         saved' \in Seq(Nat \ {0}), gaps' \in Seq(Gaps), Len(gaps') <= MaxGaps,
         Len(saved') \in Nat, Len(saved) \in Nat, Len(saved) <= Len(saved'),
         lost' \subseteq lost \cup {Len(saved')}
  PROVE  Types'
<1>1. /\ now \in Nat \ {0} /\ lost \subseteq Nat /\ \A k \in lost : k <= Len(saved)
      /\ \A t \in Task : asof[t] # 0 => asof[t] <= now /\ now <= asof[t] + Flight
  BY DEF Inv, Types
<1>2. lost' \subseteq Nat /\ \A k \in lost' : k <= Len(saved')
  BY <1>1
<1> QED
  BY <1>1, <1>2 DEF Types

LEMMA RowsStay ==
  ASSUME Inv, rows' = rows, saved' \in Seq(Nat \ {0}), Len(saved) <= Len(saved'),
         \A k \in 1..Len(saved) : saved'[k] = saved[k], lost \subseteq lost'
  PROVE  Rows' /\ OrdinalAsSaved'
<1>1. Rows'
  BY RowsStand DEF Inv, Rows
<1>2. \A r \in rows : Right(r)'
  BY RowsStand
<1>3. OrdinalAsSaved'
  BY <1>2 DEF OrdinalAsSaved, Right, Before
<1> QED
  BY <1>1, <1>3

LEMMA SpreadStays ==
  ASSUME Inv, gaps' = gaps, now' \in Nat, now <= now'
  PROVE  Spread'
<1>1. gaps \in Seq(Gaps) /\ now \in Nat
  BY DEF Inv, Types
<1>2. \A i \in DOMAIN gaps : gaps[i].to \in Nat
  <2>1. \A i \in DOMAIN gaps : gaps[i] \in Gaps
    BY <1>1, Entries
  <2> QED
    BY <2>1 DEF Gaps
<1>3. \A i \in DOMAIN gaps : gaps[i].to <= now'
  <2>1. \A i \in DOMAIN gaps : gaps[i].to <= now
    BY DEF Inv, Spread
  <2> QED
    BY <2>1, <1>1, <1>2
<1> QED
  BY <1>3 DEF Inv, Spread

\* Gaps are the same: what was accounted for still is, and the new save has its row,
\* is lost, or precedes the epoch.
LEMMA AccountedStays ==
  ASSUME Inv, gaps' = gaps, rows \subseteq rows', lost \subseteq lost',
         Len(saved) \in Nat, Len(saved') \in Nat,
         \A k \in 1..Len(saved) : saved'[k] = saved[k],
         \A k \in 1..Len(saved') : k > Len(saved) => k \in lost' \/ k \in Numbers' \/ saved'[k] < Epoch
  PROVE  Accounted'
<1>1. Numbers \subseteq Numbers'
  BY DEF Numbers
<1>2. \A x : Held(x)' <=> Held(x)
  BY DEF Held
<1>3. ASSUME NEW k \in 1..Len(saved'), ~(k > Len(saved))
      PROVE  \/ k \in lost' \/ k \in Numbers' \/ saved'[k] < Epoch
             \/ Held(saved[k])' \/ (Len(gaps') = MaxGaps /\ saved'[k] < gaps'[1].from)
  <2>1. k \in 1..Len(saved)
    BY <1>3
  <2>2. saved'[k] = saved[k]
    BY <2>1
  <2>3. \/ k \in lost \/ k \in Numbers \/ saved[k] < Epoch
        \/ Held(saved[k]) \/ (Len(gaps) = MaxGaps /\ saved[k] < gaps[1].from)
    BY <2>1 DEF Inv, Accounted
  <2> QED
    BY <2>2, <2>3, <1>1, <1>2
<1> QED
  BY <1>3 DEF Accounted

\* A deferral holds what was held, and its own decision unless that is lost.
LEMMA Defers ==
  ASSUME Inv, NEW d \in Nat, d <= now, now' = now, gaps' = Widened(d), rows' = rows, lost \subseteq lost',
         Len(saved) \in Nat, Len(saved') \in Nat,
         \A k \in 1..Len(saved) : saved[k] \in Nat /\ saved'[k] = saved[k],
         \A k \in 1..Len(saved') :
           k > Len(saved) => k \in lost' \/ (saved'[k] = d /\ ~(gaps # <<>> /\ d < Last(gaps).from))
  PROVE  /\ gaps' \in Seq(Gaps) /\ Len(gaps') <= MaxGaps /\ Spread'
         /\ Accounted'
<1>1. /\ gaps' \in Seq(Gaps) /\ Len(gaps') <= MaxGaps /\ Spread'
      /\ \A x \in Nat :
           (Held(x) \/ (Len(gaps) = MaxGaps /\ x < gaps[1].from)
              \/ (x = d /\ ~(gaps # <<>> /\ d < Last(gaps).from)))
           => Held(x)' \/ (Len(gaps') = MaxGaps /\ x < gaps'[1].from)
  BY WidenedKeeps DEF Inv
<1>2. Numbers' = Numbers
  BY DEF Numbers
<1>3. ASSUME NEW k \in 1..Len(saved')
      PROVE  \/ k \in lost' \/ k \in Numbers' \/ saved'[k] < Epoch
             \/ Held(saved[k])' \/ (Len(gaps') = MaxGaps /\ saved'[k] < gaps'[1].from)
  <2>1. CASE k > Len(saved)
    BY <2>1, <1>1
  <2>2. CASE ~(k > Len(saved))
    <3>1. k \in 1..Len(saved)
      BY <2>2
    <3>2. saved[k] \in Nat /\ saved'[k] = saved[k]
      BY <3>1
    <3>3. \/ k \in lost \/ k \in Numbers \/ saved[k] < Epoch
          \/ Held(saved[k]) \/ (Len(gaps) = MaxGaps /\ saved[k] < gaps[1].from)
      BY <3>1 DEF Inv, Accounted
    <3> QED
      BY <3>2, <3>3, <1>1, <1>2
  <2> QED
    BY <2>1, <2>2
<1> QED
  BY <1>1, <1>3 DEF Accounted

LEMMA BeginKeeps ==
  ASSUME Inv, NEW t \in Task, Begin(t)  PROVE Inv'
<1>1. UNCHANGED <<now, saved, rows, gaps, lost>> /\ asof' = [asof EXCEPT ![t] = now]
  BY DEF Begin
<1>2. Types'
  BY <1>1, Constants DEF Inv, Types
<1>3. Rows' /\ Spread' /\ Accounted' /\ OrdinalAsSaved'
  BY <1>1 DEF Inv, Rows, Spread, Accounted, OrdinalAsSaved, Held, Numbers
<1> QED
  BY <1>2, <1>3 DEF Inv

LEMMA TickKeeps ==
  ASSUME Inv, Tick  PROVE Inv'
<1>1. /\ UNCHANGED <<saved, rows, gaps, lost>> /\ now' = now + 1
      /\ asof' = [t \in Task |-> IF asof[t] + Flight > now THEN asof[t] ELSE 0]
  BY DEF Tick
<1>2. Types'
  <2>1. ASSUME NEW t \in Task, asof'[t] # 0  PROVE asof'[t] <= now' /\ now' <= asof'[t] + Flight
    <3>1. asof[t] \in Nat /\ now \in Nat /\ Flight \in Nat /\ (asof[t] <= now \/ asof[t] = 0)
      BY Constants DEF Inv, Types
    <3>2. asof'[t] = asof[t] /\ asof[t] + Flight > now /\ asof[t] # 0
      BY <1>1, <2>1
    <3> QED
      BY <3>1, <3>2, <1>1
  <2>2. asof' \in [Task -> Nat] /\ now' \in Nat \ {0}
    BY <1>1 DEF Inv, Types
  <2> QED
    BY <2>1, <2>2, <1>1 DEF Inv, Types
<1>3. Spread'
  <2>1. now' \in Nat /\ now <= now'
    BY <1>1 DEF Inv, Types
  <2> QED
    BY <2>1, <1>1, SpreadStays
<1>4. Rows' /\ Accounted' /\ OrdinalAsSaved'
  BY <1>1 DEF Inv, Rows, Accounted, OrdinalAsSaved, Held, Numbers
<1> QED
  BY <1>2, <1>3, <1>4 DEF Inv

LEMMA EarlyKeeps ==
  ASSUME Inv, NEW t \in Task, Early(t) \/ HookFails(t)  PROVE Inv'
<1> DEFINE n == Len(saved)
<1>1. /\ Save(t) /\ UNCHANGED <<rows, gaps>> /\ lost \subseteq lost'
      /\ lost' \subseteq lost \cup {n + 1} /\ (n + 1 \in lost' \/ asof[t] < Epoch)
  BY DEF Early, HookFails
<1>2. /\ now' = now /\ asof' \in [Task -> Nat] /\ \A u \in Task : asof'[u] # 0 => asof'[u] = asof[u]
      /\ saved' \in Seq(Nat \ {0}) /\ Len(saved') = n + 1 /\ n \in Nat
      /\ \A k \in 1..n : saved'[k] = saved[k]
      /\ saved'[n + 1] = asof[t]
  BY <1>1, Saves
<1>3. gaps' \in Seq(Gaps) /\ Len(gaps') <= MaxGaps /\ now \in Nat
  BY <1>1 DEF Inv, Types
<1> HIDE DEF n
<1>4. n = Len(saved) /\ n <= Len(saved') /\ Len(saved') \in Nat
  BY <1>2 DEF n
<1>5. Types'
  BY <1>1, <1>2, <1>3, <1>4, TypesStay
<1>6. Rows' /\ OrdinalAsSaved'
  BY <1>1, <1>2, <1>4, RowsStay
<1>7. Spread'
  BY <1>1, <1>2, <1>3, SpreadStays
<1>8. Accounted'
  <2>1. \A k \in 1..Len(saved') : k > Len(saved) => k = n + 1
    BY <1>2, <1>4
  <2> QED
    BY <2>1, <1>1, <1>2, <1>4, AccountedStays
<1> QED
  BY <1>5, <1>6, <1>7, <1>8 DEF Inv

LEMMA DeferKeeps ==
  ASSUME Inv, NEW t \in Task, Defer(t)  PROVE Inv'
<1> DEFINE n == Len(saved)
           d == asof[t]
<1>1. /\ Save(t) /\ UNCHANGED rows /\ gaps' = Widened(d) /\ lost \subseteq lost'
      /\ lost' \subseteq lost \cup {n + 1} /\ (n + 1 \in lost' \/ ~(gaps # <<>> /\ d < Last(gaps).from))
  BY DEF Defer, Deferred
<1>2. /\ d \in Nat /\ d <= now /\ now' = now
      /\ asof' \in [Task -> Nat] /\ \A u \in Task : asof'[u] # 0 => asof'[u] = asof[u]
      /\ saved' \in Seq(Nat \ {0}) /\ Len(saved') = n + 1 /\ n \in Nat
      /\ \A k \in 1..n : saved'[k] = saved[k]
      /\ saved'[n + 1] = d
  BY <1>1, Saves
<1>3. \A k \in 1..n : saved[k] \in Nat
  BY Entries DEF Inv, Types
<1> HIDE DEF n, d
<1>4. n = Len(saved) /\ n <= Len(saved') /\ Len(saved') \in Nat
  BY <1>2 DEF n
<1>5. \A k \in 1..Len(saved') : k > Len(saved) => k = n + 1
  BY <1>2, <1>4
<1>6. gaps' \in Seq(Gaps) /\ Len(gaps') <= MaxGaps /\ Spread' /\ Accounted'
  <2>1. \A k \in 1..Len(saved') :
          k > Len(saved) => k \in lost' \/ (saved'[k] = d /\ ~(gaps # <<>> /\ d < Last(gaps).from))
    <3> SUFFICES ASSUME NEW k \in 1..Len(saved'), k > Len(saved)
                 PROVE  k \in lost' \/ (saved'[k] = d /\ ~(gaps # <<>> /\ d < Last(gaps).from))
      OBVIOUS
    <3>1. k = n + 1
      BY <1>5
    <3> QED
      BY <3>1, <1>1, <1>2
  <2> QED
    BY <2>1, <1>1, <1>2, <1>3, <1>4, Defers
<1>7. Types'
  BY <1>1, <1>2, <1>4, <1>6, TypesStay
<1>8. Rows' /\ OrdinalAsSaved'
  BY <1>1, <1>2, <1>4, RowsStay
<1> QED
  BY <1>6, <1>7, <1>8 DEF Inv

LEMMA ElsewhereKeeps ==
  ASSUME Inv, NEW d \in Nat, d <= now, Elsewhere(d)  PROVE Inv'
<1>1. UNCHANGED <<now, asof, saved, rows, lost>> /\ gaps' = Widened(d)
  BY DEF Elsewhere, Deferred
<1>2. Len(saved) \in Nat /\ \A k \in 1..Len(saved) : saved[k] \in Nat
  BY Entries DEF Inv, Types
<1>3. gaps' \in Seq(Gaps) /\ Len(gaps') <= MaxGaps /\ Spread' /\ Accounted'
  <2>1. \A k \in 1..Len(saved') : ~(k > Len(saved))
    BY <1>1, <1>2
  <2> QED
    BY <2>1, <1>1, <1>2, Defers
<1>4. Types' /\ Rows' /\ OrdinalAsSaved'
  BY <1>1, <1>3 DEF Inv, Types, Rows, OrdinalAsSaved
<1> QED
  BY <1>3, <1>4 DEF Inv

LEMMA RecordKeeps ==
  ASSUME Inv, NEW t \in Task, NEW w \in Lookback, Record(t, w)  PROVE Inv'
<1> DEFINE n == Len(saved)
           d == asof[t]
           from == Since(d, w)
<1>r. PICK r : r = Attempt(from, d)
  OBVIOUS
<1>1. Save(t) /\ UNCHANGED <<gaps, lost>> /\ rows' = rows \cup {r}
  BY <1>r DEF Record
<1>2. /\ d \in Nat /\ d <= now /\ now <= d + Flight /\ now' = now
      /\ asof' \in [Task -> Nat] /\ \A u \in Task : asof'[u] # 0 => asof'[u] = asof[u]
      /\ saved' \in Seq(Nat \ {0}) /\ Len(saved') = n + 1 /\ n \in Nat
      /\ \A k \in 1..n : saved'[k] = saved[k]
      /\ saved'[n + 1] = d
  BY <1>1, Saves
<1>3. from \in Nat
  BY <1>2, Constants DEF Since
<1>4. /\ r.nth = n + 1 /\ r.start = from /\ r.ordinal = Cardinality(Prior(from, d)) + 1
      /\ r.exact = Covered(from, d)
  BY <1>r DEF Attempt
<1>5. /\ Cardinality(Prior(from, d)) \in Nat
      /\ (Covered(from, d) /\ {k \in 1..n : saved[k] \in from..(d - 1)} \cap lost = {})
            => Cardinality(Prior(from, d)) = Cardinality({k \in 1..n : saved[k] \in from..(d - 1)})
  BY <1>2, <1>3, Counted
<1>6. gaps' \in Seq(Gaps) /\ Len(gaps') <= MaxGaps /\ now \in Nat
  BY <1>1 DEF Inv, Types
<1> HIDE DEF n, d, from
<1>7. n = Len(saved) /\ n <= Len(saved') /\ Len(saved') \in Nat /\ n + 1 \in 1..Len(saved') /\ n + 1 - 1 = n
  BY <1>2 DEF n
<1>8. Types'
  BY <1>1, <1>2, <1>6, <1>7, TypesStay
<1>9. ASSUME NEW q \in rows
      PROVE  q.nth \in 1..n /\ q.nth \in 1..Len(saved') /\ q.start \in Nat /\ q.ordinal \in Nat /\ Right(q)'
  <2>1. /\ q.nth \in 1..Len(saved') /\ q.start \in Nat /\ q.ordinal \in Nat /\ Right(q)'
    BY <1>1, <1>2, <1>7, <1>9, RowsStand
  <2> QED
    BY <2>1, <1>7 DEF Inv, Rows
<1>10. Rows'
  <2>1. \A q \in rows' : q.nth \in 1..Len(saved') /\ q.start \in Nat /\ q.ordinal \in Nat
    BY <1>1, <1>3, <1>4, <1>5, <1>7, <1>9
  <2>2. \A q \in rows : q.nth # r.nth
    BY <1>2, <1>4, <1>9
  <2>3. \A p, q \in rows' : p.nth = q.nth => p = q
    BY <1>1, <2>2 DEF Inv, Rows
  <2> QED
    BY <2>1, <2>3 DEF Rows
<1>11. Right(r)'
  <2>1. Before(r)' = {k \in 1..n : saved[k] \in from..(d - 1)}
    <3>1. Before(r)' = {k \in 1..n : saved'[k] \in from..(d - 1)}
      BY <1>2, <1>4, <1>7 DEF Before
    <3> QED
      BY <3>1, <1>2
  <2> QED
    BY <2>1, <1>1, <1>4, <1>5 DEF Right
<1>12. OrdinalAsSaved'
  <2>1. \A q \in rows' : Right(q)'
    BY <1>1, <1>9, <1>11
  <2> QED
    BY <2>1 DEF OrdinalAsSaved, Right, Before
<1>13. Spread'
  BY <1>1, <1>2, <1>6, SpreadStays
<1>14. Accounted'
  <2>1. \A k \in 1..Len(saved') : k > Len(saved) => k = n + 1
    BY <1>2, <1>7
  <2>2. n + 1 \in Numbers'
    BY <1>1, <1>4 DEF Numbers
  <2> QED
    BY <2>1, <2>2, <1>1, <1>2, <1>7, AccountedStays
<1> QED
  BY <1>8, <1>10, <1>12, <1>13, <1>14 DEF Inv

LEMMA StepKeeps == Inv /\ [Next]_vars => Inv'
<1> SUFFICES ASSUME Inv, [Next]_vars PROVE Inv'
  OBVIOUS
<1>1. CASE UNCHANGED vars
  BY <1>1 DEF Inv, Types, Rows, Spread, Accounted, OrdinalAsSaved, Held, Numbers, vars
<1>2. CASE Tick
  BY <1>2, TickKeeps
<1>3. ASSUME NEW t \in Task, Begin(t) \/ Early(t) \/ Defer(t) \/ HookFails(t)
      PROVE  Inv'
  BY <1>3, BeginKeeps, EarlyKeeps, DeferKeeps
<1>4. ASSUME NEW t \in Task, NEW w \in Lookback, Record(t, w)
      PROVE  Inv'
  BY <1>4, RecordKeeps
<1>5. ASSUME NEW d \in 1..now, Elsewhere(d)
      PROVE  Inv'
  <2>1. d \in Nat /\ d <= now
    BY DEF Inv, Types
  <2> QED
    BY <2>1, <1>5, ElsewhereKeeps
<1> QED
  BY <1>1, <1>2, <1>3, <1>4, <1>5 DEF Next

\* Invariant of the specification: rows, gaps and saves are told apart as the steps
\* above need it.
THEOREM Invariance == Spec => []Inv
BY Starts, StepKeeps, PTL DEF Spec

\* An ordinal marked exact counts every attempt of its window saved before it, for any
\* number of tasks, saves and gaps and in whatever order decisions are saved
\* (forward_power.py, record_attempt and covered).
THEOREM OrdinalsExact == Spec => []OrdinalAsSaved
<1>1. Inv => OrdinalAsSaved
  BY DEF Inv
<1> QED
  BY <1>1, Invariance, PTL

-----------------------------------------------------------------------------
(* Of the replay of recorded prints (PrimaryLabels): what a position, a      *)
(* checkpoint and a pass know of the tape t, for a decision at instant n,    *)
(* when they have consumed the rows of up to instant u.                      *)
Receipts == [at : Nat, kind : Labels!Kinds]
Places ==
  [state : {"none", "open", "entered", "exited"}, gap : BOOLEAN, late : BOOLEAN, exit : Nat]

Ordered(t) == \A i, j \in 1..Len(t) : i < j => t[i].at < t[j].at
IsTrade(t, i) == t[i].kind \in {"in", "out"}
Quiet(t, s, i) ==
  /\ IsTrade(t, i) /\ \E j \in s..i-1 : IsTrade(t, j)
  /\ \A j \in s..i-1 : IsTrade(t, j) => t[i].at - t[j].at > Stale

\* Row a begins the decision.
Opens(t, n, a) == a \in 1..Len(t) /\ t[a].at >= n /\ \A i \in 1..a-1 : t[i].at < n

\* Nothing breaks the coverage from row a on; or something does, in the whole tape.
Unbroken(t, n, a, u) ==
  /\ t[a].at - n <= Stale
  /\ \A k \in a..Len(t) : t[k].at <= u => t[k].kind # "gap" /\ ~Quiet(t, a, k)
Torn(t, n, a, u) ==
  \/ t[a].at - n > Stale
  \/ \E k \in a..Len(t) : t[k].at <= u /\ (t[k].kind = "gap" \/ Quiet(t, 1, k))

\* No entry yet; an entry and no exit yet.
Waits(t, n, a, u) ==
  \A k \in a..Len(t) : t[k].at <= u => t[k].kind # "in" /\ (IsTrade(t, k) => t[k].at <= n + Fill)
Entry(t, n, a, e) ==
  /\ e \in a..Len(t) /\ t[e].kind = "in" /\ t[e].at <= n + Fill
  /\ \A k \in a..e-1 : t[k].kind # "in"
Stays(t, n, e, u) ==
  \A k \in e+1..Len(t) : t[k].at <= u => t[k].kind # "out" /\ (IsTrade(t, k) => t[k].at < n + Hold)
Holds(t, n, a, u) == \E e \in 1..Len(t) : Entry(t, n, a, e) /\ t[e].at <= u /\ Stays(t, n, e, u)

\* Position p is what the rows say; last is the receipt of the last print, and
\* s says that a break the position knows of is one of the whole tape.
Tracks(t, n, p, a, u, last, s, h) ==
  /\ Opens(t, n, a)
  /\ p.state = "open" => Waits(t, n, a, u)
  /\ p.state = "entered" => Holds(t, n, a, u)
  /\ ~p.gap => Unbroken(t, n, a, u)
  /\ s /\ p.gap => h \/ Torn(t, n, a, u)
  /\ \A k \in a..Len(t) : t[k].at <= u /\ IsTrade(t, k) => t[k].at <= last
Follows(t, n, p, u, last, s, h) ==
  \E a \in 1..Len(t) : t[a].at <= u /\ Tracks(t, n, p, a, u, last, s, h)

\* The feed was subscribed at the decision; by what the rows of up to u say.
Entered(t, n) ==
  \E s \in 1..Len(t) : /\ t[s].kind = "subscribed" /\ t[s].at < n
                       /\ \A k \in s+1..Len(t) : t[k].at < n => t[k].kind # "gap"
Acknowledged(t, u) ==
  \E s \in 1..Len(t) : /\ t[s].kind = "subscribed" /\ t[s].at <= u
                       /\ \A k \in s+1..Len(t) : t[k].at <= u => t[k].kind # "gap"

\* Row x completes the position that row a begins.
Subscribed(t, m) ==
  \E i \in 1..m : t[i].kind = "subscribed" /\ \A j \in i+1..m : t[j].kind # "gap"
Exits(t, n, a, x) ==
  /\ IsTrade(t, x) /\ t[x].at <= n + Hold
  /\ \E e \in a..x-1 :
       /\ t[e].kind = "in" /\ t[e].at <= n + Fill
       /\ \A i \in a..e-1 : t[i].kind # "in"
       /\ \A i \in e+1..x-1 : t[i].kind # "out"
       /\ t[x].kind = "out" \/ t[x].at = n + Hold
Covers(t, n, s, a, x) ==
  /\ Subscribed(t, a - 1) /\ t[a].at - n <= Stale
  /\ \A i \in a..x : t[i].kind # "gap" /\ ~Quiet(t, s, i)
Proves(t, n, s, a, x) ==
  t[a].at >= n /\ (\A i \in 1..a-1 : t[i].at < n) /\ Covers(t, n, s, a, x) /\ Exits(t, n, a, x)
Proven(t, n, x) == \E a \in 1..x : Proves(t, n, a, a, x)

\* No row completes the decision on the whole tape, and none to come will.
Missed(t, n, a) == \A k \in a..Len(t) : t[k].kind = "in" => t[k].at > n + Fill
Hopeless(t, n, w) ==
  \/ w > n + Hold
  \/ \E a \in 1..Len(t) : Opens(t, n, a) /\ (Torn(t, n, a, w) \/ (w > n + Fill /\ Missed(t, n, a)))
Unproven(t, n) == \A x \in 1..Len(t) : \A a \in 1..x : ~Proves(t, n, 1, a, x)

-----------------------------------------------------------------------------
(* The inductive invariant of the replay.                                    *)
ReplayTypes ==
  /\ clock \in Nat /\ tape \in Seq(Receipts) /\ published \in 0..Len(tape)
  /\ deleted \subseteq 1..published
  /\ decided \in [Labels!Decisions -> Nat] /\ twins \in BOOLEAN
  /\ outcome \in [Labels!Decisions ->
                    [kind : {"none", "complete", "incomplete", "duplicate"}, exit : Nat]]
  /\ checkpoint \in [cursor : Nat, saved : Nat, subscribed : BOOLEAN, last : Nat,
                     open : [Labels!Decisions -> Places]]
  /\ pass \in [pc : {"idle", "walk", "save"}, resumes : BOOLEAN, from : Nat, upto : Nat, i : Nat \ {0},
               until : Nat, at : Nat, pending : SUBSET Labels!Decisions, subscribed : BOOLEAN,
               last : Nat, open : [Labels!Decisions -> Places]]
  /\ lagged \subseteq Labels!Decisions /\ whole \subseteq Labels!Decisions
  /\ holed \in BOOLEAN

Receipted ==
  /\ 0 < clock /\ Ordered(tape)
  /\ \A i \in 1..Len(tape) : 0 < tape[i].at /\ tape[i].at <= clock /\ (i > published => tape[i].at = clock)

\* Cleanup removes the oldest rows.
Shortened ==
  /\ \A i \in deleted : 1..i \subseteq deleted
  /\ \A i \in deleted : tape[i].at + Margin < clock

Captured ==
  \A d \in Labels!Decisions :
    /\ decided[d] <= clock
    /\ outcome[d] # Labels!NoLabel => decided[d] > 0
    /\ decided[d] > 0 => Entered(tape, decided[d])

Instant(u) == u = 0 \/ \E k \in 1..Len(tape) : tape[k].at = u
Heard(last) == last = 0 \/ \E k \in 1..Len(tape) : IsTrade(tape, k) /\ tape[k].at = last

\* A print that a replay has passed it has met, or nothing unresolved needs it.
Passed(u, last) ==
  \A j \in 1..Len(tape) : IsTrade(tape, j) /\ tape[j].at <= u =>
    \/ tape[j].at <= last
    \/ /\ j \in deleted
       /\ \A d \in Labels!Decisions : Labels!Unlabelled(d) => tape[j].at + Margin < decided[d]
Carried(u, last, subscribed) ==
  /\ last <= u /\ Heard(last) /\ Passed(u, last)
  /\ ~holed /\ Acknowledged(tape, u) => subscribed

Position(d, p, u, last, s) ==
  p # Labels!NoPosition =>
    /\ p.state \in {"open", "entered"} /\ decided[d] > 0
    /\ p.late => d \in lagged
    /\ ~p.late /\ (s \/ ~p.gap) => Follows(tape, decided[d], p, u, last, s, holed)

Checkpointed ==
  /\ Instant(checkpoint.cursor)
  /\ Carried(checkpoint.cursor, checkpoint.last, checkpoint.subscribed)
  /\ \A d \in Labels!Decisions :
       /\ Position(d, checkpoint.open[d], checkpoint.cursor, checkpoint.last, TRUE)
       /\ Labels!Unlabelled(d) /\ checkpoint.open[d] = Labels!NoPosition => decided[d] > checkpoint.cursor

\* A row is deleted when nothing unresolved needs it, or a checkpoint has it.
Needless ==
  \A j \in deleted : \A d \in Labels!Decisions : Labels!Unlabelled(d) =>
    \/ tape[j].at + Margin < decided[d]
    \/ checkpoint.open[d] # Labels!NoPosition /\ tape[j].at + Margin < checkpoint.cursor
Whole == ~holed => \A j \in deleted : tape[j].at <= checkpoint.cursor \/ IsTrade(tape, j)

Walking ==
  /\ pass.upto = published /\ pass.i <= pass.upto + 1
  /\ pass.at = pass.from \/ \E k \in 1..pass.i-1 : k <= Len(tape) /\ tape[k].at = pass.at
  /\ \A k \in 1..pass.i-1 : tape[k].at <= pass.at \/ k \in deleted
  /\ \A d \in pass.pending :
       /\ Labels!Unlabelled(d) /\ decided[d] > pass.at /\ pass.open[d] = Labels!NoPosition
       /\ pass.resumes => checkpoint.open[d] = Labels!NoPosition
  /\ pass.resumes => pass.until = clock
  /\ ~pass.resumes => /\ pass.subscribed => pass.at > pass.from
                      /\ \A d \in Labels!Decisions : pass.open[d] # Labels!NoPosition => pass.at > pass.from
Under ==
  /\ pass.from <= pass.at
  /\ pass.at > pass.from => \A j \in deleted : tape[j].at <= pass.at
  /\ pass.last <= pass.at /\ Heard(pass.last)
  /\ \A d \in Labels!Decisions :
       /\ pass.open[d] # Labels!NoPosition => Labels!Unlabelled(d)
       /\ Position(d, pass.open[d], pass.at, pass.last, pass.resumes)
  /\ pass.resumes =>
       /\ pass.from = checkpoint.cursor /\ Instant(pass.at)
       /\ Carried(pass.at, pass.last, pass.subscribed)
       /\ \A d \in Labels!Decisions :
            Labels!Unlabelled(d) => d \in pass.pending \/ pass.open[d] # Labels!NoPosition
  /\ pass.pc = "walk" => Walking
  /\ pass.pc = "save" => pass.resumes /\ pass.pending = {}
Passing == IF pass.pc = "idle" THEN pass = Labels!NoPass ELSE Under

Labelled ==
  \A d \in Labels!Decisions :
    /\ outcome[d].kind = "complete" =>
         \E x \in 1..Len(tape) : tape[x].at = outcome[d].exit /\ Proven(tape, decided[d], x)
    /\ outcome[d].kind = "incomplete" /\ d \notin lagged \cup whole /\ ~holed =>
         Unproven(tape, decided[d]) /\ Hopeless(tape, decided[d], clock)

ReplayInv ==
  /\ ReplayTypes /\ Receipted /\ Shortened /\ Captured /\ Checkpointed /\ Needless /\ Whole
  /\ Passing /\ Labelled

-----------------------------------------------------------------------------
\* What is assumed of the windows, the margin of cleanup and the silence that breaks a tape.
LEMMA ReplayConstants ==
  /\ Stale \in Nat /\ Fill \in Nat /\ Hold \in Nat /\ Margin \in Nat /\ Fresh \in Nat
  /\ Fill <= Hold /\ 0 < Margin /\ Stale <= Margin
BY ResearchAssumption DEF Labels!PrimaryLabelsAssumption

-----------------------------------------------------------------------------
(* The tape grows at its end.                                                *)
LEMMA Lengthened ==
  ASSUME NEW t \in Seq(Receipts), NEW r \in Receipts
  PROVE  /\ Append(t, r) \in Seq(Receipts) /\ Len(Append(t, r)) = Len(t) + 1 /\ Len(t) \in Nat
         /\ Append(t, r)[Len(t) + 1] = r
         /\ \A i \in 1..Len(t) : Append(t, r)[i] = t[i]
OBVIOUS

\* The rows of a tape are receipts with an instant.
LEMMA RowTypes ==
  ASSUME NEW t \in Seq(Receipts)
  PROVE  Len(t) \in Nat /\ \A k \in 1..Len(t) : t[k] \in Receipts /\ t[k].at \in Nat
<1>1. Len(t) \in Nat /\ \A k \in 1..Len(t) : t[k] \in Receipts OBVIOUS
<1> QED BY <1>1 DEF Receipts

\* What rows say of each other they keep saying.
LEMMA QuietKept ==
  ASSUME NEW t \in Seq(Receipts), NEW r \in Receipts, NEW s \in Nat \ {0}, NEW i \in 1..Len(t)
  PROVE  /\ Quiet(Append(t, r), s, i) = Quiet(t, s, i)
         /\ IsTrade(Append(t, r), i) = IsTrade(t, i)
<1>1. \A j \in 1..Len(t) : Append(t, r)[j] = t[j] /\ IsTrade(Append(t, r), j) = IsTrade(t, j)
  BY Lengthened DEF IsTrade
<1>2. \A j \in s..i-1 : j \in 1..Len(t) BY Lengthened
<1> QED BY <1>1, <1>2 DEF Quiet

\* A row is received after those before it.
LEMMA OrderKept ==
  ASSUME NEW t \in Seq(Receipts), NEW r \in Receipts, Ordered(t), \A i \in 1..Len(t) : t[i].at < r.at
  PROVE  Ordered(Append(t, r))
<1> DEFINE t1 == Append(t, r)
<1>1. /\ Len(t) \in Nat /\ Len(t1) = Len(t) + 1 /\ t1[Len(t) + 1] = r
      /\ \A i \in 1..Len(t) : t1[i] = t[i]
  BY Lengthened
<1> HIDE DEF t1
<1>2. ASSUME NEW i \in 1..Len(t1), NEW j \in 1..Len(t1), i < j PROVE t1[i].at < t1[j].at
  <2>1. i \in 1..Len(t) BY <1>1, <1>2
  <2>2. CASE j \in 1..Len(t) BY <2>1, <2>2, <1>1, <1>2 DEF Ordered
  <2>3. CASE j = Len(t) + 1 BY <2>1, <2>3, <1>1
  <2> QED BY <2>2, <2>3, <1>1
<1> QED BY <1>2 DEF Ordered, t1

\* A row from the decision on leaves it subscribed.
LEMMA EnteredKept ==
  ASSUME NEW t \in Seq(Receipts), NEW r \in Receipts, NEW n \in Nat, n <= r.at, Entered(t, n)
  PROVE  Entered(Append(t, r), n)
<1>1. PICK s \in 1..Len(t) : /\ t[s].kind = "subscribed" /\ t[s].at < n
                             /\ \A k \in s+1..Len(t) : t[k].at < n => t[k].kind # "gap"
  BY DEF Entered
<1>2. \A k \in s+1..Len(t)+1 : k = Len(t) + 1 \/ (k \in s+1..Len(t) /\ k \in 1..Len(t)) BY Lengthened
<1>3. r.at \in Nat BY DEF Receipts
<1>4. \A k \in s+1..Len(t)+1 : Append(t, r)[k].at < n => Append(t, r)[k].kind # "gap"
  BY <1>1, <1>2, <1>3, Lengthened
<1>5. s \in 1..Len(Append(t, r)) /\ Append(t, r)[s] = t[s] BY Lengthened
<1> QED BY <1>1, <1>4, <1>5, Lengthened DEF Entered

\* A row later than what is consumed tells nothing of the subscription up to there.
LEMMA AcknowledgedBefore ==
  ASSUME NEW t \in Seq(Receipts), NEW r \in Receipts, NEW u \in Nat, u < r.at,
         Acknowledged(Append(t, r), u)
  PROVE  Acknowledged(t, u)
<1> DEFINE t1 == Append(t, r)
<1>1. PICK s \in 1..Len(t1) : /\ t1[s].kind = "subscribed" /\ t1[s].at <= u
                              /\ \A k \in s+1..Len(t1) : t1[k].at <= u => t1[k].kind # "gap"
  BY DEF Acknowledged
<1>2. s # Len(t) + 1 /\ Len(t) \in Nat /\ Len(t1) = Len(t) + 1 BY <1>1, Lengthened DEF Receipts
<1>3. s \in 1..Len(t) BY <1>2
<1>4. \A k \in s+1..Len(t) : k \in 1..Len(t) /\ k \in s+1..Len(t1) BY <1>2, <1>3
<1> QED BY <1>1, <1>3, <1>4, Lengthened DEF Acknowledged

\* The row that begins a decision stays the first.
LEMMA OpensKept ==
  ASSUME NEW t \in Seq(Receipts), NEW r \in Receipts, NEW n \in Nat, NEW a \in 1..Len(t)
  PROVE  Opens(Append(t, r), n, a) = Opens(t, n, a)
<1>1. \A j \in 1..a-1 : j \in 1..Len(t) BY Lengthened
<1>2. a \in 1..Len(Append(t, r)) BY Lengthened
<1> QED BY <1>1, <1>2, Lengthened DEF Opens

\* A row later than what is consumed changes nothing.
LEMMA FollowsKept ==
  ASSUME NEW t \in Seq(Receipts), NEW r \in Receipts, NEW n \in Nat, NEW p, NEW u \in Nat, NEW last,
         NEW s, NEW h, u < r.at, Follows(t, n, p, u, last, s, h)
  PROVE  Follows(Append(t, r), n, p, u, last, s, h)
<1> DEFINE t1 == Append(t, r)
<1>1. PICK a \in 1..Len(t) : t[a].at <= u /\ Tracks(t, n, p, a, u, last, s, h) BY DEF Follows
<1>2. /\ Len(t) \in Nat /\ Len(t1) = Len(t) + 1 /\ t1[Len(t) + 1] = r
      /\ \A i \in 1..Len(t) : t1[i] = t[i] /\ IsTrade(t1, i) = IsTrade(t, i)
  BY Lengthened DEF IsTrade
<1>3. \A i \in 1..Len(t) : Quiet(t1, a, i) = Quiet(t, a, i) /\ Quiet(t1, 1, i) = Quiet(t, 1, i)
  BY QuietKept
<1>4. r.at \in Nat /\ ~(t1[Len(t) + 1].at <= u) BY <1>2 DEF Receipts
<1>5. \A b \in 1..Len(t) : \A k \in b..Len(t1) : t1[k].at <= u => k \in b..Len(t) /\ k \in 1..Len(t)
  BY <1>2, <1>4
<1> HIDE DEF t1
<1>6. Opens(t1, n, a) BY <1>1, OpensKept DEF Tracks, t1
<1>7. Waits(t, n, a, u) => Waits(t1, n, a, u) BY <1>2, <1>5 DEF Waits
<1>8. ASSUME Holds(t, n, a, u) PROVE Holds(t1, n, a, u)
  <2>1. PICK e \in 1..Len(t) : Entry(t, n, a, e) /\ t[e].at <= u /\ Stays(t, n, e, u) BY <1>8 DEF Holds
  <2>2. \A k \in a..e-1 : k \in 1..Len(t) BY <1>2
  <2>3. Entry(t1, n, a, e) BY <2>1, <2>2, <1>2 DEF Entry
  <2>4. ASSUME NEW k \in e+1..Len(t1), t1[k].at <= u PROVE k \in e+1..Len(t) /\ k \in 1..Len(t)
    BY <2>4, <1>2, <1>4
  <2>5. Stays(t1, n, e, u) BY <2>1, <2>4, <1>2 DEF Stays
  <2>6. e \in 1..Len(t1) /\ t1[e].at <= u BY <2>1, <1>2
  <2> QED BY <2>3, <2>5, <2>6 DEF Holds
<1>9. Unbroken(t, n, a, u) => Unbroken(t1, n, a, u) BY <1>2, <1>3, <1>5 DEF Unbroken
<1>10. Torn(t, n, a, u) => Torn(t1, n, a, u)
  <2>1. \A k \in a..Len(t) : k \in a..Len(t1) /\ k \in 1..Len(t) BY <1>2
  <2> QED BY <2>1, <1>2, <1>3 DEF Torn
<1>11. \A k \in a..Len(t1) : t1[k].at <= u /\ IsTrade(t1, k) => t1[k].at <= last
  BY <1>1, <1>2, <1>5 DEF Tracks
<1>12. Tracks(t1, n, p, a, u, last, s, h)
  BY <1>1, <1>6, <1>7, <1>8, <1>9, <1>10, <1>11 DEF Tracks
<1>13. a \in 1..Len(t1) /\ t1[a].at <= u BY <1>1, <1>2
<1> QED BY <1>12, <1>13 DEF Follows, t1

\* A control that is gone explains a break as well.
LEMMA FollowsHoled ==
  ASSUME NEW t, NEW n, NEW p, NEW u, NEW last, NEW s, NEW h \in BOOLEAN, NEW g \in BOOLEAN, h => g,
         Follows(t, n, p, u, last, s, h)
  PROVE  Follows(t, n, p, u, last, s, g)
<1>1. PICK a \in 1..Len(t) : t[a].at <= u /\ Tracks(t, n, p, a, u, last, s, h) BY DEF Follows
<1>2. Tracks(t, n, p, a, u, last, s, g) BY <1>1 DEF Tracks
<1> QED BY <1>1, <1>2 DEF Follows

\* Of rows that were there, nothing that they prove changes.
LEMMA ProvesKept ==
  ASSUME NEW t \in Seq(Receipts), NEW r \in Receipts, NEW n \in Nat, NEW s \in Nat \ {0},
         NEW x \in 1..Len(t), NEW a \in 1..x
  PROVE  Proves(Append(t, r), n, s, a, x) = Proves(t, n, s, a, x)
<1> DEFINE t1 == Append(t, r)
<1>1. /\ Len(t) \in Nat
      /\ \A i \in 1..Len(t) : t1[i] = t[i] /\ IsTrade(t1, i) = IsTrade(t, i) /\ Quiet(t1, s, i) = Quiet(t, s, i)
  BY Lengthened, QuietKept DEF IsTrade
<1>2. a \in 1..Len(t) /\ \A i \in 1..x : i \in 1..Len(t) BY <1>1
<1> HIDE DEF t1
<1>3. \A i \in 1..a-1 : i \in 1..x BY <1>1
<1>4. \A i \in a..x : i \in 1..x BY <1>1
<1>5. \A i \in 1..a-1 : \A j \in i+1..a-1 : j \in 1..x BY <1>1
<1>6. \A e \in a..x-1 : e \in 1..x /\ (\A i \in a..e-1 : i \in 1..x) /\ (\A i \in e+1..x-1 : i \in 1..x)
  BY <1>1
<1>7. Subscribed(t1, a - 1) = Subscribed(t, a - 1) BY <1>1, <1>2, <1>3, <1>5 DEF Subscribed
<1>8. Covers(t1, n, s, a, x) = Covers(t, n, s, a, x) BY <1>1, <1>2, <1>4, <1>7 DEF Covers
<1>9. Exits(t1, n, a, x) = Exits(t, n, a, x) BY <1>1, <1>2, <1>6 DEF Exits
<1>10. /\ (t1[a].at >= n) = (t[a].at >= n)
       /\ (\A i \in 1..a-1 : t1[i].at < n) = (\A i \in 1..a-1 : t[i].at < n)
  BY <1>1, <1>2, <1>3
<1> QED BY <1>8, <1>9, <1>10 DEF Proves, t1

\* A row that completes a decision goes on completing it.
LEMMA ProvenKept ==
  ASSUME NEW t \in Seq(Receipts), NEW r \in Receipts, NEW n \in Nat, NEW x \in 1..Len(t), Proven(t, n, x)
  PROVE  Proven(Append(t, r), n, x)
<1>1. PICK a \in 1..x : Proves(t, n, a, a, x) BY DEF Proven
<1>2. a \in Nat \ {0} BY Lengthened
<1> QED BY <1>1, <1>2, ProvesKept DEF Proven

\* A decision begins at one row.
LEMMA OneBegins ==
  ASSUME NEW t \in Seq(Receipts), NEW n \in Nat, NEW b, Opens(t, n, b), NEW a \in 1..Len(t),
         t[a].at >= n, \A i \in 1..a-1 : t[i].at < n
  PROVE  a = b
<1>1. Len(t) \in Nat /\ \A i \in 1..Len(t) : t[i].at \in Nat BY RowTypes
<1>2. ~(a < b) BY <1>1 DEF Opens
<1>3. ~(b < a) BY <1>1 DEF Opens
<1> QED BY <1>1, <1>2, <1>3 DEF Opens

\* An outcome that no row completes stays so: the next row is too late, or behind the break.
LEMMA HopelessKept ==
  ASSUME NEW t \in Seq(Receipts), NEW r \in Receipts, NEW n \in Nat, NEW w \in Nat, r.at = w,
         Unproven(t, n), Hopeless(t, n, w)
  PROVE  Unproven(Append(t, r), n) /\ Hopeless(Append(t, r), n, w)
<1> DEFINE t1 == Append(t, r)
<1>1. /\ Len(t) \in Nat /\ Len(t1) = Len(t) + 1 /\ t1[Len(t) + 1] = r /\ t1 \in Seq(Receipts)
      /\ \A i \in 1..Len(t) : t1[i] = t[i] /\ Quiet(t1, 1, i) = Quiet(t, 1, i)
  BY Lengthened, QuietKept
<1>2. Stale \in Nat /\ Fill \in Nat /\ Hold \in Nat BY ReplayConstants
<1> HIDE DEF t1
<1>3. ASSUME NEW b \in 1..Len(t), Opens(t, n, b) PROVE Opens(t1, n, b)
  BY <1>3, OpensKept DEF t1
<1>4. ASSUME NEW b \in 1..Len(t), Torn(t, n, b, w) PROVE Torn(t1, n, b, w)
  <2>1. \A k \in b..Len(t) : k \in b..Len(t1) /\ k \in 1..Len(t) BY <1>1
  <2> QED BY <2>1, <1>1, <1>4 DEF Torn
<1>5. ASSUME NEW b \in 1..Len(t), Missed(t, n, b), w > n + Fill PROVE Missed(t1, n, b)
  <2>1. \A k \in b..Len(t1) : k = Len(t) + 1 \/ (k \in b..Len(t) /\ k \in 1..Len(t)) BY <1>1
  <2> QED BY <2>1, <1>1, <1>5 DEF Missed
<1>6. Hopeless(t1, n, w)
  <2>1. \A b \in 1..Len(t) : b \in 1..Len(t1) BY <1>1
  <2> QED BY <2>1, <1>3, <1>4, <1>5 DEF Hopeless
<1>7. ASSUME NEW x \in 1..Len(t1), NEW a \in 1..x, Proves(t1, n, 1, a, x) PROVE FALSE
  <2>1. x = Len(t) + 1
    <3>1. x \in 1..Len(t) \/ x = Len(t) + 1 BY <1>1
    <3>2. CASE x \in 1..Len(t) BY <3>2, <1>7, ProvesKept DEF Unproven, t1
    <3> QED BY <3>1, <3>2
  <2>2. t1[x].at = w BY <2>1, <1>1
  <2>3. ~(w > n + Hold) BY <2>2, <1>2, <1>7 DEF Proves, Exits
  <2>4. PICK b \in 1..Len(t) : Opens(t, n, b) /\ (Torn(t, n, b, w) \/ (w > n + Fill /\ Missed(t, n, b)))
    BY <2>3 DEF Hopeless
  <2>5. a \in 1..Len(t1) BY <1>1
  <2>6. a = b BY <2>4, <2>5, <1>1, <1>3, <1>7, OneBegins DEF Proves
  <2>7. CASE Torn(t, n, b, w)
    <3>1. \A k \in b..Len(t) : k \in a..x /\ k \in 1..Len(t) BY <2>1, <2>6, <1>1
    <3>2. t1[a] = t[b] BY <2>6, <1>1
    <3>3. t[b].at \in Nat BY RowTypes
    <3>4. ~(t[b].at - n > Stale) BY <3>2, <3>3, <1>2, <1>7 DEF Proves, Covers
    <3>5. PICK k \in b..Len(t) : t[k].kind = "gap" \/ Quiet(t, 1, k) BY <3>4, <2>7 DEF Torn
    <3>6. k \in a..x /\ k \in 1..Len(t) BY <3>1
    <3>7. t1[k].kind # "gap" /\ ~Quiet(t1, 1, k) BY <3>6, <1>7 DEF Proves, Covers
    <3> QED BY <3>5, <3>6, <3>7, <1>1
  <2>8. CASE w > n + Fill /\ Missed(t, n, b)
    <3>1. \A e \in a..x-1 : e \in b..Len(t) /\ e \in 1..Len(t) BY <2>1, <2>6, <1>1
    <3>2. \A e \in 1..Len(t) : t[e].at \in Nat BY RowTypes
    <3> QED BY <2>8, <3>1, <3>2, <1>1, <1>2, <1>7 DEF Missed, Proves, Exits
  <2> QED BY <2>4, <2>7, <2>8
<1> QED BY <1>6, <1>7 DEF Unproven, t1

-----------------------------------------------------------------------------
(* One row for a position.                                                   *)

\* Of the rows up to one, those before it and itself.
LEMMA RowsUpTo ==
  ASSUME NEW t \in Seq(Receipts), Ordered(t), NEW i \in 1..Len(t), NEW k \in 1..Len(t)
  PROVE  /\ Len(t) \in Nat /\ t[i].at \in Nat /\ t[k].at \in Nat
         /\ t[k].at <= t[i].at <=> k <= i
         /\ t[k].at = t[i].at <=> k = i
<1>1. Len(t) \in Nat /\ t[i].at \in Nat /\ t[k].at \in Nat BY RowTypes
<1>2. k < i => t[k].at < t[i].at BY DEF Ordered
<1>3. i < k => t[i].at < t[k].at BY DEF Ordered
<1> QED BY <1>1, <1>2, <1>3

\* The coverage of a position after row i, and the reason for a break of it.
LEMMA GapTracked ==
  ASSUME NEW t \in Seq(Receipts), Ordered(t), \A k \in 1..Len(t) : 0 < t[k].at,
         NEW n \in Nat, NEW p, NEW u \in Nat, NEW last \in Nat, NEW s, NEW h,
         NEW i \in 1..Len(t), NEW a \in 1..i, u < t[i].at, \A k \in a..i-1 : t[k].at <= u,
         Tracks(t, n, p, a, u, last, s, h), last <= u,
         last = 0 \/ \E k \in 1..Len(t) : IsTrade(t, k) /\ t[k].at = last,
         s => \A j \in 1..i-1 : IsTrade(t, j) => t[j].at <= last \/ t[j].at + Margin < n,
         NEW g \in BOOLEAN,
         g = (p.gap \/ t[i].kind = "gap" \/ (IsTrade(t, i) /\ last > 0 /\ t[i].at - last > Stale))
  PROVE  /\ ~g => Unbroken(t, n, a, t[i].at)
         /\ s /\ g => h \/ Torn(t, n, a, t[i].at)
<1>1. /\ Len(t) \in Nat /\ \A k \in 1..Len(t) : t[k].at \in Nat
      /\ a \in Nat /\ i \in Nat /\ a \in 1..Len(t)
  BY RowTypes
<1>2. Stale \in Nat /\ Margin \in Nat /\ Stale <= Margin BY ReplayConstants
<1>3. \A k \in a..Len(t) : k \in 1..Len(t) /\ (t[k].at <= t[i].at => k = i \/ k \in a..i-1)
  BY <1>1, RowsUpTo
<1>4. ASSUME ~g PROVE Unbroken(t, n, a, t[i].at)
  <2>1. Unbroken(t, n, a, u) BY <1>4 DEF Tracks
  <2>2. ASSUME Quiet(t, a, i) PROVE FALSE
    <3>1. PICK j \in a..i-1 : IsTrade(t, j) BY <2>2 DEF Quiet
    <3>2. j \in a..Len(t) /\ j \in 1..Len(t) BY <1>1
    <3>3. t[j].at <= last BY <3>1, <3>2 DEF Tracks
    <3>4. last > 0 BY <3>2, <3>3, <1>1
    <3>5. PICK k \in 1..Len(t) : IsTrade(t, k) /\ t[k].at = last BY <3>4
    <3>6. j <= k /\ k < i BY <3>2, <3>3, <3>5, <1>1, RowsUpTo
    <3>7. k \in a..i-1 BY <3>6, <1>1
    <3>8. t[i].at - last > Stale BY <3>5, <3>7, <2>2 DEF Quiet
    <3> QED BY <3>4, <3>8, <1>4, <2>2 DEF Quiet
  <2> QED BY <2>1, <2>2, <1>3, <1>4 DEF Unbroken
<1>5. ASSUME s, g PROVE h \/ Torn(t, n, a, t[i].at)
  <2>1. CASE p.gap
    <3>1. h \/ Torn(t, n, a, u) BY <1>5, <2>1 DEF Tracks
    <3>2. \A k \in a..Len(t) : t[k].at <= u => t[k].at <= t[i].at BY <1>1, <1>3
    <3> QED BY <3>1, <3>2 DEF Torn
  <2>2. i \in a..Len(t) /\ t[i].at <= t[i].at BY <1>1
  <2>3. CASE t[i].kind = "gap" BY <2>2, <2>3 DEF Torn
  <2>4. CASE IsTrade(t, i) /\ last > 0 /\ t[i].at - last > Stale
    <3>1. PICK k \in 1..Len(t) : IsTrade(t, k) /\ t[k].at = last BY <2>4
    <3>2. k \in 1..i-1 BY <3>1, <1>1, RowsUpTo
    <3>3. n <= t[i].at
      <4>1. t[a].at >= n BY DEF Tracks, Opens
      <4>2. t[a].at <= t[i].at BY <1>1, RowsUpTo
      <4> QED BY <4>1, <4>2, <1>1
    <3>4. ASSUME NEW j \in 1..i-1, IsTrade(t, j) PROVE t[i].at - t[j].at > Stale
      <4>1. j \in 1..Len(t) BY <1>1
      <4>2. t[j].at <= last \/ t[j].at + Margin < n BY <3>4, <1>5
      <4> QED BY SMTT(30), <4>1, <4>2, <3>3, <2>4, <1>1, <1>2
    <3>5. Quiet(t, 1, i) BY <3>1, <3>2, <3>4, <2>4 DEF Quiet
    <3> QED BY <3>5, <2>2 DEF Torn
  <2> QED BY <1>5, <2>1, <2>3, <2>4
<1> QED BY <1>4, <1>5

\* Entry, stay and exit of a position at row i.
LEMMA StateTracked ==
  ASSUME NEW t \in Seq(Receipts), Ordered(t), NEW n \in Nat, NEW u \in Nat,
         NEW i \in 1..Len(t), NEW a \in 1..i, u < t[i].at, \A k \in a..i-1 : t[k].at <= u
  PROVE  /\ Waits(t, n, a, u) /\ t[i].kind = "in" /\ t[i].at <= n + Fill => Holds(t, n, a, t[i].at)
         /\ Waits(t, n, a, u) /\ t[i].kind # "in" /\ ~(IsTrade(t, i) /\ t[i].at > n + Fill)
              => Waits(t, n, a, t[i].at)
         /\ Waits(t, n, a, u) /\ t[i].at > n + Fill => Missed(t, n, a)
         /\ Holds(t, n, a, u) /\ t[i].kind # "out" /\ ~(IsTrade(t, i) /\ t[i].at >= n + Hold)
              => Holds(t, n, a, t[i].at)
         /\ Holds(t, n, a, u) /\ IsTrade(t, i) /\ (t[i].kind = "out" \/ t[i].at >= n + Hold)
              /\ t[i].at <= n + Hold => Exits(t, n, a, i)
<1>1. /\ Len(t) \in Nat /\ \A k \in 1..Len(t) : t[k].at \in Nat
      /\ a \in Nat /\ i \in Nat /\ a \in 1..Len(t) /\ i \in a..Len(t)
  BY RowTypes
<1>2. Fill \in Nat /\ Hold \in Nat BY ReplayConstants
<1>3. \A k \in a..Len(t) : k \in 1..Len(t) /\ (t[k].at <= t[i].at <=> k <= i) /\ (k < i => t[k].at <= u)
  <2>1. \A k \in a..Len(t) : k \in 1..Len(t) /\ (k < i => k \in a..i-1) BY <1>1
  <2> QED BY <2>1, RowsUpTo
<1>4. ASSUME Waits(t, n, a, u), t[i].kind = "in", t[i].at <= n + Fill PROVE Holds(t, n, a, t[i].at)
  <2>1. \A k \in a..i-1 : k \in a..Len(t) /\ t[k].at <= u BY <1>1
  <2>2. Entry(t, n, a, i) BY <1>1, <1>4, <2>1 DEF Entry, Waits
  <2>3. \A k \in i+1..Len(t) : k \in a..Len(t) /\ ~(k <= i) BY <1>1
  <2>4. Stays(t, n, i, t[i].at) BY <2>3, <1>3 DEF Stays
  <2> QED BY <2>2, <2>4, <1>1 DEF Holds
<1>5. ASSUME Waits(t, n, a, u), t[i].kind # "in", ~(IsTrade(t, i) /\ t[i].at > n + Fill)
      PROVE  Waits(t, n, a, t[i].at)
  <2>1. \A k \in a..Len(t) : t[k].at <= t[i].at => k = i \/ k < i BY <1>1, <1>3
  <2> QED BY <2>1, <1>1, <1>2, <1>3, <1>5 DEF Waits
<1>6. ASSUME Waits(t, n, a, u), t[i].at > n + Fill PROVE Missed(t, n, a)
  <2>1. ASSUME NEW k \in a..Len(t), t[k].kind = "in" PROVE t[k].at > n + Fill
    <3>1. ~(k < i) BY <1>3, <1>6, <2>1 DEF Waits
    <3>2. t[i].at <= t[k].at BY <3>1, <1>1, <1>3, RowsUpTo
    <3> QED BY <3>2, <1>1, <1>2, <1>3, <1>6
  <2> QED BY <2>1 DEF Missed
<1>7. ASSUME Holds(t, n, a, u), t[i].kind # "out", ~(IsTrade(t, i) /\ t[i].at >= n + Hold)
      PROVE  Holds(t, n, a, t[i].at)
  <2>1. PICK e \in 1..Len(t) : Entry(t, n, a, e) /\ t[e].at <= u /\ Stays(t, n, e, u) BY <1>7 DEF Holds
  <2>2. e \in a..Len(t) BY <2>1 DEF Entry
  <2>3. ASSUME NEW k \in e+1..Len(t), t[k].at <= t[i].at
        PROVE  t[k].kind # "out" /\ (IsTrade(t, k) => t[k].at < n + Hold)
    <3>1. k \in a..Len(t) BY <2>2, <1>1
    <3>2. k = i \/ k < i BY <3>1, <2>3, <1>1, <1>3
    <3> QED BY <3>1, <3>2, <2>1, <1>1, <1>2, <1>3, <1>7 DEF Stays
  <2>4. t[e].at <= t[i].at BY <2>1, <2>2, <1>1, <1>3
  <2> QED BY <2>1, <2>3, <2>4 DEF Holds, Stays
<1>8. ASSUME Holds(t, n, a, u), IsTrade(t, i), t[i].kind = "out" \/ t[i].at >= n + Hold, t[i].at <= n + Hold
      PROVE  Exits(t, n, a, i)
  <2>1. PICK e \in 1..Len(t) : Entry(t, n, a, e) /\ t[e].at <= u /\ Stays(t, n, e, u) BY <1>8 DEF Holds
  <2>2. e \in a..Len(t) BY <2>1 DEF Entry
  <2>3. e < i BY <2>1, <2>2, <1>1, <1>3
  <2>4. e \in a..i-1 BY <2>2, <2>3, <1>1
  <2>5. \A k \in e+1..i-1 : t[k].kind # "out"
    <3>1. \A k \in e+1..i-1 : k \in e+1..Len(t) /\ k \in a..Len(t) /\ k < i BY <2>2, <1>1
    <3> QED BY <3>1, <2>1, <1>3 DEF Stays
  <2>6. t[i].kind = "out" \/ t[i].at = n + Hold
    <3>1. t[i].at \in Nat /\ n + Hold \in Nat BY <1>1, <1>2
    <3>2. (t[i].kind = "out" \/ t[i].at >= n + Hold) /\ t[i].at <= n + Hold BY <1>8
    <3> QED BY <3>1, <3>2
  <2> QED BY <2>1, <2>4, <2>5, <2>6, <1>8 DEF Exits, Entry
<1> QED BY <1>4, <1>5, <1>6, <1>7, <1>8

\* No row that a position has consumed completes it: it would be gone.
LEMMA NotYet ==
  ASSUME NEW t \in Seq(Receipts), Ordered(t), NEW n \in Nat, NEW u \in Nat, NEW a \in 1..Len(t),
         Waits(t, n, a, u) \/ Holds(t, n, a, u), NEW x \in a..Len(t), t[x].at <= u
  PROVE  ~Exits(t, n, a, x)
<1> SUFFICES ASSUME Exits(t, n, a, x) PROVE FALSE OBVIOUS
<1>1. /\ Len(t) \in Nat /\ \A k \in 1..Len(t) : t[k].at \in Nat
      /\ a \in Nat /\ x \in Nat /\ x \in 1..Len(t)
  BY RowTypes
<1>2. Fill \in Nat /\ Hold \in Nat BY ReplayConstants
<1>3. PICK e \in a..x-1 : /\ t[e].kind = "in" /\ t[e].at <= n + Fill
                          /\ \A k \in a..e-1 : t[k].kind # "in"
                          /\ \A k \in e+1..x-1 : t[k].kind # "out"
                          /\ t[x].kind = "out" \/ t[x].at = n + Hold
  BY DEF Exits
<1>4. e \in a..Len(t) /\ e \in 1..Len(t) /\ e <= x BY <1>1
<1>5. t[e].at <= u BY <1>1, <1>4, RowsUpTo
<1>6. ~Waits(t, n, a, u) BY <1>3, <1>4, <1>5 DEF Waits
<1>7. PICK f \in 1..Len(t) : Entry(t, n, a, f) /\ t[f].at <= u /\ Stays(t, n, f, u) BY <1>6 DEF Holds
<1>8. f = e
  <2>1. ~(f < e) BY <1>1, <1>3, <1>4, <1>7 DEF Entry
  <2>2. ~(e < f) BY <1>1, <1>3, <1>4, <1>7 DEF Entry
  <2> QED BY <2>1, <2>2, <1>1, <1>4
<1>9. x \in f+1..Len(t) BY <1>1, <1>3, <1>8
<1>10. t[x].kind # "out" /\ t[x].at < n + Hold BY <1>7, <1>9 DEF Stays, Exits
<1> QED BY <1>1, <1>2, <1>3, <1>10

\* Why no row completes a decision, on the whole tape.
LEMMA MissedUnproven ==
  ASSUME NEW t \in Seq(Receipts), NEW n \in Nat, NEW b, Opens(t, n, b), Missed(t, n, b)
  PROVE  Unproven(t, n)
<1> SUFFICES ASSUME NEW x \in 1..Len(t), NEW a \in 1..x, Proves(t, n, 1, a, x) PROVE FALSE
  BY DEF Unproven
<1>1. Len(t) \in Nat /\ \A k \in 1..Len(t) : t[k].at \in Nat BY RowTypes
<1>2. Fill \in Nat BY ReplayConstants
<1>3. a \in 1..Len(t) BY <1>1
<1>4. a = b BY <1>3, OneBegins DEF Proves
<1>5. \A e \in a..x-1 : e \in b..Len(t) /\ e \in 1..Len(t) BY <1>1, <1>4
<1> QED BY <1>1, <1>2, <1>5 DEF Missed, Proves, Exits

\* ... after the hold, without an exit in it
LEMMA EndedUnproven ==
  ASSUME NEW t \in Seq(Receipts), NEW n \in Nat, NEW b, Opens(t, n, b),
         \A x \in b..Len(t) : t[x].at > n + Hold \/ ~Exits(t, n, b, x)
  PROVE  Unproven(t, n)
<1> SUFFICES ASSUME NEW x \in 1..Len(t), NEW a \in 1..x, Proves(t, n, 1, a, x) PROVE FALSE
  BY DEF Unproven
<1>1. Len(t) \in Nat /\ \A k \in 1..Len(t) : t[k].at \in Nat BY RowTypes
<1>2. Hold \in Nat BY ReplayConstants
<1>3. a \in 1..Len(t) BY <1>1
<1>4. a = b BY <1>3, OneBegins DEF Proves
<1>5. x \in b..Len(t) BY <1>1, <1>4
<1> QED BY <1>1, <1>2, <1>4, <1>5 DEF Proves, Exits

\* ... behind a break of the tape
LEMMA TornUnproven ==
  ASSUME NEW t \in Seq(Receipts), Ordered(t), NEW n \in Nat, NEW b \in 1..Len(t), Opens(t, n, b), NEW u \in Nat,
         Torn(t, n, b, u), \A x \in b..Len(t) : t[x].at < u => ~Exits(t, n, b, x)
  PROVE  Unproven(t, n)
<1> SUFFICES ASSUME NEW x \in 1..Len(t), NEW a \in 1..x, Proves(t, n, 1, a, x) PROVE FALSE
  BY DEF Unproven
<1>1. Len(t) \in Nat /\ \A k \in 1..Len(t) : t[k].at \in Nat BY RowTypes
<1>2. Stale \in Nat BY ReplayConstants
<1>3. a \in 1..Len(t) BY <1>1
<1>4. a = b BY <1>3, OneBegins DEF Proves
<1>5. x \in b..Len(t) BY <1>1, <1>4
<1>6. ~(t[x].at < u) BY <1>4, <1>5 DEF Proves
<1>7. ~(t[b].at - n > Stale) BY <1>1, <1>2, <1>4 DEF Proves, Covers
<1>8. PICK k \in b..Len(t) : t[k].at <= u /\ (t[k].kind = "gap" \/ Quiet(t, 1, k)) BY <1>7 DEF Torn
<1>9. k \in 1..Len(t) /\ t[k].at <= t[x].at BY <1>1, <1>6, <1>8
<1>10. k \in a..x BY <1>1, <1>4, <1>9, RowsUpTo
<1> QED BY <1>8, <1>10 DEF Proves, Covers

\* What a row does to the coverage of a position, and to the position.
Break(p, r, last) ==
  IF r.kind = "gap" \/ (r.kind \in {"in", "out"} /\ last > 0 /\ r.at - last > Stale)
    THEN [p EXCEPT !.gap = TRUE] ELSE p
Turn(n, p, r) ==
  CASE p.state = "open" /\ r.kind = "in" /\ r.at <= n + Fill -> [p EXCEPT !.state = "entered"]
    [] p.state = "open" /\ r.kind \in {"in", "out"} /\ r.at > n + Fill ->
         [p EXCEPT !.state = "exited", !.exit = r.at, !.late = TRUE]
    [] p.state = "entered" /\ (r.kind = "out" \/ (r.kind \in {"in", "out"} /\ r.at >= n + Hold)) ->
         [p EXCEPT !.state = "exited", !.exit = r.at, !.late = @ \/ r.at > n + Hold]
    [] OTHER -> p

\* A break changes nothing else of a position.
LEMMA BreakFields ==
  ASSUME NEW p \in Places, NEW r \in Receipts, NEW last \in Nat
  PROVE  LET c == Break(p, r, last)
         IN /\ c \in Places /\ c.state = p.state /\ c.late = p.late /\ c.exit = p.exit
            /\ c.gap = (p.gap \/ r.kind = "gap"
                          \/ (r.kind \in {"in", "out"} /\ last > 0 /\ r.at - last > Stale))
BY DEF Break, Places

\* The ways a position turns.
LEMMA TurnWays ==
  ASSUME NEW p \in Places, p.state \in {"open", "entered"}, NEW r \in Receipts, NEW n \in Nat
  PROVE  LET w == Turn(n, p, r)
         IN /\ w \in Places /\ w.state \in {"open", "entered", "exited"} /\ w.gap = p.gap
            /\ p.late => w.late
            /\ w.state # "exited" => w.late = p.late
            /\ \/ /\ p.state = "open" /\ r.kind = "in" /\ r.at <= n + Fill
                  /\ w.state = "entered" /\ w.late = p.late
               \/ /\ p.state = "open" /\ r.kind \in {"in", "out"} /\ r.at > n + Fill
                  /\ w.state = "exited" /\ w.exit = r.at /\ w.late
               \/ /\ p.state = "entered" /\ r.kind \in {"in", "out"}
                  /\ r.kind = "out" \/ r.at >= n + Hold
                  /\ w.state = "exited" /\ w.exit = r.at /\ w.late = (p.late \/ r.at > n + Hold)
               \/ /\ p.state = "open" /\ r.kind # "in" /\ ~(r.kind \in {"in", "out"} /\ r.at > n + Fill)
                  /\ w = p
               \/ /\ p.state = "entered" /\ r.kind # "out" /\ ~(r.kind \in {"in", "out"} /\ r.at >= n + Hold)
                  /\ w = p
<1>1. Fill \in Nat /\ Hold \in Nat /\ r.at \in Nat BY ReplayConstants DEF Receipts
<1> DEFINE w == Turn(n, p, r)
<1>2. CASE p.state = "open" /\ r.kind = "in" /\ r.at <= n + Fill
  <2>1. w = [p EXCEPT !.state = "entered"] BY <1>1, <1>2 DEF Turn
  <2>2. w \in Places /\ w.state = "entered" /\ w.gap = p.gap /\ w.late = p.late BY <2>1 DEF Places
  <2> QED BY <1>2, <2>2
<1>3. CASE p.state = "open" /\ r.kind \in {"in", "out"} /\ r.at > n + Fill
  <2>1. w = [p EXCEPT !.state = "exited", !.exit = r.at, !.late = TRUE] BY <1>1, <1>3 DEF Turn
  <2>2. w \in Places /\ w.state = "exited" /\ w.gap = p.gap /\ w.late /\ w.exit = r.at
    BY <1>1, <2>1 DEF Places
  <2> QED BY <1>3, <2>2
<1>4. CASE p.state = "entered" /\ (r.kind = "out" \/ (r.kind \in {"in", "out"} /\ r.at >= n + Hold))
  <2>1. w = [p EXCEPT !.state = "exited", !.exit = r.at, !.late = @ \/ r.at > n + Hold]
    BY <1>4 DEF Turn
  <2>2. w \in Places /\ w.state = "exited" /\ w.gap = p.gap /\ w.exit = r.at
        /\ w.late = (p.late \/ r.at > n + Hold)
    BY <1>1, <2>1 DEF Places
  <2> QED BY <1>4, <2>2
<1>5. CASE /\ ~(p.state = "open" /\ r.kind = "in" /\ r.at <= n + Fill)
           /\ ~(p.state = "open" /\ r.kind \in {"in", "out"} /\ r.at > n + Fill)
           /\ ~(p.state = "entered" /\ (r.kind = "out" \/ (r.kind \in {"in", "out"} /\ r.at >= n + Hold)))
  <2>1. w = p BY <1>5 DEF Turn
  <2>2. p.state = "open" => r.kind # "in" BY <1>1, <1>5
  <2> QED BY <1>5, <2>1, <2>2
<1> QED BY <1>2, <1>3, <1>4, <1>5

\* A position q that follows the rows before row i; and what w, which row i makes of it, says.
Ready(t, n, q, u, last, s, h, i, a) ==
  /\ Ordered(t) /\ \A k \in 1..Len(t) : 0 < t[k].at
  /\ q.state \in {"open", "entered"} /\ ~q.late
  /\ u < t[i].at /\ \A k \in a..i-1 : t[k].at <= u
  /\ Tracks(t, n, q, a, u, last, s, h) /\ last <= u
  /\ last = 0 \/ \E k \in 1..Len(t) : IsTrade(t, k) /\ t[k].at = last
  /\ s => \A j \in 1..i-1 : IsTrade(t, j) => t[j].at <= last \/ t[j].at + Margin < n
Turned(t, n, w, a, i, next, s, h) ==
  /\ w \in Places /\ w.state \in {"open", "entered", "exited"}
  /\ w.state # "exited" => ~w.late /\ Tracks(t, n, w, a, t[i].at, next, s, h)
  /\ w.state = "exited" /\ ~w.gap /\ ~w.late
       => w.exit = t[i].at /\ Exits(t, n, a, i) /\ Unbroken(t, n, a, t[i].at)
  /\ /\ s /\ ~h /\ (w.state = "exited" \/ t[i].at > n + Hold)
     /\ w.state = "exited" => w.gap \/ w.late
     => /\ Unproven(t, n)
        /\ \/ t[i].at > n + Hold \/ Torn(t, n, a, t[i].at)
           \/ (t[i].at > n + Fill /\ Missed(t, n, a))

\* What a position says of the rows it goes on saying after row i, unless that row ends it:
\* then the row completes the decision, or nothing does.
LEMMA PositionTracked ==
  ASSUME NEW t \in Seq(Receipts), NEW n \in Nat, NEW q \in Places, NEW u \in Nat, NEW last \in Nat,
         NEW s \in BOOLEAN, NEW h \in BOOLEAN, NEW i \in 1..Len(t), NEW a \in 1..i,
         Ready(t, n, q, u, last, s, h, i, a),
         NEW w, w = Turn(n, Break(q, t[i], last), t[i]),
         NEW next, next = IF t[i].kind \in {"in", "out"} THEN t[i].at ELSE last
  PROVE  Turned(t, n, w, a, i, next, s, h)
<1> /\ Ordered(t) /\ \A k \in 1..Len(t) : 0 < t[k].at
    /\ q.state \in {"open", "entered"} /\ ~q.late
    /\ u < t[i].at /\ \A k \in a..i-1 : t[k].at <= u
    /\ Tracks(t, n, q, a, u, last, s, h) /\ last <= u
    /\ last = 0 \/ \E k \in 1..Len(t) : IsTrade(t, k) /\ t[k].at = last
    /\ s => \A j \in 1..i-1 : IsTrade(t, j) => t[j].at <= last \/ t[j].at + Margin < n
  BY DEF Ready
<1> DEFINE c == Break(q, t[i], last)
<1>1. /\ t[i] \in Receipts /\ t[i].at \in Nat /\ Len(t) \in Nat /\ \A k \in 1..Len(t) : t[k].at \in Nat
      /\ a \in Nat /\ i \in Nat /\ a \in 1..Len(t)
  BY RowTypes
<1>2. Fill \in Nat /\ Hold \in Nat BY ReplayConstants
<1>3. /\ c \in Places /\ c.state = q.state /\ ~c.late
      /\ c.gap = (q.gap \/ t[i].kind = "gap" \/ (IsTrade(t, i) /\ last > 0 /\ t[i].at - last > Stale))
  <2>1. /\ c \in Places /\ c.state = q.state /\ c.late = q.late
        /\ c.gap = (q.gap \/ t[i].kind = "gap"
                      \/ (t[i].kind \in {"in", "out"} /\ last > 0 /\ t[i].at - last > Stale))
    BY <1>1, BreakFields
  <2> QED BY <2>1 DEF IsTrade
<1>4. c.gap \in BOOLEAN BY <1>3 DEF Places
<1>5. (~c.gap => Unbroken(t, n, a, t[i].at)) /\ (s /\ c.gap => h \/ Torn(t, n, a, t[i].at))
  BY <1>3, <1>4, GapTracked
<1> HIDE DEF c
<1>6. (q.state = "open" => Waits(t, n, a, u)) /\ (q.state = "entered" => Holds(t, n, a, u)) BY DEF Tracks
<1>7. /\ w \in Places /\ w.state \in {"open", "entered", "exited"} /\ w.gap = c.gap
      /\ \/ /\ c.state = "open" /\ t[i].kind = "in" /\ t[i].at <= n + Fill
            /\ w.state = "entered" /\ w.late = c.late
         \/ /\ c.state = "open" /\ IsTrade(t, i) /\ t[i].at > n + Fill
            /\ w.state = "exited" /\ w.exit = t[i].at /\ w.late
         \/ /\ c.state = "entered" /\ IsTrade(t, i) /\ (t[i].kind = "out" \/ t[i].at >= n + Hold)
            /\ w.state = "exited" /\ w.exit = t[i].at /\ w.late = (c.late \/ t[i].at > n + Hold)
         \/ c.state = "open" /\ t[i].kind # "in" /\ ~(IsTrade(t, i) /\ t[i].at > n + Fill) /\ w = c
         \/ c.state = "entered" /\ t[i].kind # "out" /\ ~(IsTrade(t, i) /\ t[i].at >= n + Hold) /\ w = c
  <2>1. w = Turn(n, c, t[i]) /\ c.state \in {"open", "entered"} BY <1>3 DEF c
  <2> QED BY SMTT(30), <2>1, <1>1, <1>3, TurnWays DEF IsTrade
<1>8. ASSUME w.state # "exited" PROVE ~w.late /\ Tracks(t, n, w, a, t[i].at, next, s, h)
  <2>1. w.state = "open" => Waits(t, n, a, t[i].at)
    <3>1. ASSUME w.state = "open" PROVE c.state = "open" /\ t[i].kind # "in" /\ ~(IsTrade(t, i) /\ t[i].at > n + Fill)
      BY <1>7, <3>1
    <3> QED BY <3>1, <1>3, <1>6, StateTracked
  <2>2. w.state = "entered" => Holds(t, n, a, t[i].at)
    <3>1. ASSUME w.state = "entered"
          PROVE  \/ c.state = "open" /\ t[i].kind = "in" /\ t[i].at <= n + Fill
                 \/ c.state = "entered" /\ t[i].kind # "out" /\ ~(IsTrade(t, i) /\ t[i].at >= n + Hold)
      BY <1>7, <3>1
    <3> QED BY <3>1, <1>3, <1>6, StateTracked
  <2>3. \A k \in a..Len(t) : t[k].at <= t[i].at /\ IsTrade(t, k) => t[k].at <= next
    <3>1. ASSUME NEW k \in a..Len(t), t[k].at <= t[i].at, IsTrade(t, k) PROVE t[k].at <= next
      <4>1. k \in 1..Len(t) BY <1>1
      <4>2. k <= i BY <3>1, <4>1, RowsUpTo
      <4>3. CASE k = i BY <3>1, <4>3, <1>1 DEF IsTrade
      <4>4. CASE k < i
        <5>1. k \in a..i-1 BY <4>4, <1>1
        <5>2. t[k].at <= u BY <5>1
        <5>3. t[k].at <= last BY <3>1, <5>2 DEF Tracks
        <5> QED BY <5>3, <4>1, <1>1
      <4> QED BY <4>1, <4>2, <4>3, <4>4, <1>1
    <3> QED BY <3>1
  <2>4. Opens(t, n, a) BY DEF Tracks
  <2>5. ~w.late BY <1>3, <1>7, <1>8
  <2> QED BY <2>1, <2>2, <2>3, <2>4, <2>5, <1>5, <1>7 DEF Tracks
<1>9. ASSUME w.state = "exited", ~w.gap, ~w.late
      PROVE  w.exit = t[i].at /\ Exits(t, n, a, i) /\ Unbroken(t, n, a, t[i].at)
  <2>1. /\ c.state = "entered" /\ IsTrade(t, i) /\ (t[i].kind = "out" \/ t[i].at >= n + Hold)
        /\ w.exit = t[i].at /\ ~(t[i].at > n + Hold)
    BY <1>3, <1>7, <1>9
  <2>2. t[i].at <= n + Hold BY <2>1, <1>1, <1>2
  <2> QED BY <2>1, <2>2, <1>3, <1>5, <1>6, <1>7, <1>9, StateTracked
<1>10. ASSUME s, ~h, w.state = "exited" \/ t[i].at > n + Hold, w.state = "exited" => w.gap \/ w.late
       PROVE  /\ Unproven(t, n)
              /\ \/ t[i].at > n + Hold \/ Torn(t, n, a, t[i].at)
                 \/ (t[i].at > n + Fill /\ Missed(t, n, a))
  <2>1. Opens(t, n, a) BY DEF Tracks
  <2>2. ASSUME NEW x \in a..Len(t), t[x].at < t[i].at PROVE ~Exits(t, n, a, x)
    <3>1. x \in 1..Len(t) BY <1>1
    <3>2. x < i BY <2>2, <3>1, <1>1, RowsUpTo
    <3>3. x \in a..i-1 BY <3>2, <1>1
    <3> QED BY <3>3, <1>3, <1>6, NotYet
  <2>3. CASE w.gap
    <3>1. Torn(t, n, a, t[i].at) BY <2>3, <1>5, <1>7, <1>10
    <3> QED BY <3>1, <2>1, <2>2, <1>1, TornUnproven
  <2>4. CASE t[i].at > n + Hold
    <3>1. \A x \in a..Len(t) : t[x].at > n + Hold \/ ~Exits(t, n, a, x)
      <4>1. \A x \in a..Len(t) : x \in 1..Len(t) /\ t[x].at \in Nat BY <1>1
      <4> QED BY <4>1, <2>2, <2>4, <1>1, <1>2
    <3> QED BY <3>1, <2>1, <2>4, EndedUnproven
  <2>5. CASE c.state = "open" /\ t[i].at > n + Fill
    <3>1. Missed(t, n, a) BY <2>5, <1>3, <1>6, StateTracked
    <3> QED BY <3>1, <2>1, <2>5, MissedUnproven
  <2>6. w.gap \/ t[i].at > n + Hold \/ (c.state = "open" /\ t[i].at > n + Fill)
    BY <1>3, <1>7, <1>10
  <2> QED BY <2>3, <2>4, <2>5, <2>6
<1> QED BY <1>7, <1>8, <1>9, <1>10 DEF Turned

\* The feed was subscribed when the decision began.
LEMMA EntryCovered ==
  ASSUME NEW t \in Seq(Receipts), Ordered(t), NEW n \in Nat, NEW a, Opens(t, n, a), Entered(t, n)
  PROVE  Subscribed(t, a - 1)
<1>1. Len(t) \in Nat /\ \A k \in 1..Len(t) : t[k].at \in Nat BY RowTypes
<1>2. PICK s \in 1..Len(t) : /\ t[s].kind = "subscribed" /\ t[s].at < n
                             /\ \A k \in s+1..Len(t) : t[k].at < n => t[k].kind # "gap"
  BY DEF Entered
<1>3. a \in 1..Len(t) /\ t[a].at >= n /\ \A k \in 1..a-1 : t[k].at < n BY DEF Opens
<1>4. s < a BY <1>1, <1>2, <1>3, RowsUpTo
<1>5. s \in 1..a-1 BY <1>1, <1>3, <1>4
<1>6. \A k \in s+1..a-1 : k \in s+1..Len(t) /\ k \in 1..a-1 BY <1>1, <1>3
<1> QED BY <1>2, <1>3, <1>5, <1>6 DEF Subscribed

\* An exit without a break is one that the tape proves.
LEMMA ProvenHere ==
  ASSUME NEW t \in Seq(Receipts), Ordered(t), NEW n \in Nat, NEW i \in 1..Len(t), NEW a \in 1..i,
         Opens(t, n, a), Entered(t, n), Exits(t, n, a, i), Unbroken(t, n, a, t[i].at)
  PROVE  Proven(t, n, i)
<1>1. Len(t) \in Nat /\ \A k \in 1..Len(t) : t[k].at \in Nat BY RowTypes
<1>2. ASSUME NEW k \in a..i PROVE t[k].kind # "gap" /\ ~Quiet(t, a, k)
  <2>1. k \in a..Len(t) /\ k \in 1..Len(t) /\ k <= i BY <1>1
  <2>2. t[k].at <= t[i].at BY <2>1, RowsUpTo
  <2> QED BY <2>1, <2>2 DEF Unbroken
<1>3. Covers(t, n, a, a, i) BY <1>2, EntryCovered DEF Covers, Unbroken
<1> QED BY <1>3 DEF Proven, Proves, Opens

-----------------------------------------------------------------------------
(* The next row of a pass.                                                   *)
RowAhead ==
  /\ pass.pc = "walk" /\ pass.i <= pass.upto /\ pass.i \notin deleted
  /\ tape[pass.i].at > pass.from
NextRow == tape[pass.i]
Later == IF NextRow.kind \in {"in", "out"} THEN NextRow.at ELSE pass.last

\* The fields of a pass.
LEMMA PassFields ==
  ASSUME ReplayTypes
  PROVE  /\ pass.pc \in {"idle", "walk", "save"} /\ pass.resumes \in BOOLEAN /\ pass.from \in Nat
         /\ pass.upto \in Nat /\ pass.i \in Nat \ {0} /\ pass.until \in Nat /\ pass.at \in Nat
         /\ pass.pending \subseteq Labels!Decisions /\ pass.subscribed \in BOOLEAN
         /\ pass.last \in Nat /\ pass.open \in [Labels!Decisions -> Places]
         /\ \A d \in Labels!Decisions : pass.open[d] \in Places
BY DEF ReplayTypes

\* The fields of a checkpoint.
LEMMA CheckpointFields ==
  ASSUME ReplayTypes
  PROVE  /\ checkpoint.cursor \in Nat /\ checkpoint.saved \in Nat /\ checkpoint.subscribed \in BOOLEAN
         /\ checkpoint.last \in Nat /\ checkpoint.open \in [Labels!Decisions -> Places]
         /\ \A d \in Labels!Decisions : checkpoint.open[d] \in Places
BY DEF ReplayTypes

\* The rows of the tape, and the instants of the decisions.
LEMMA TapeFields ==
  ASSUME ReplayTypes, Receipted
  PROVE  /\ tape \in Seq(Receipts) /\ Len(tape) \in Nat /\ Ordered(tape) /\ clock \in Nat
         /\ published \in 0..Len(tape) /\ deleted \subseteq 1..published /\ deleted \subseteq 1..Len(tape)
         /\ \A k \in 1..Len(tape) : /\ tape[k] \in Receipts /\ tape[k].at \in Nat /\ 0 < tape[k].at
                                    /\ tape[k].at <= clock /\ (k > published => tape[k].at = clock)
         /\ \A d \in Labels!Decisions : decided[d] \in Nat
<1>1. tape \in Seq(Receipts) /\ clock \in Nat BY DEF ReplayTypes
<1>2. Len(tape) \in Nat /\ \A k \in 1..Len(tape) : tape[k] \in Receipts /\ tape[k].at \in Nat
  BY <1>1, RowTypes
<1> QED BY <1>1, <1>2 DEF ReplayTypes, Receipted

\* Where a pass stands when it meets its next row.
LEMMA RowFacts ==
  ASSUME ReplayInv, RowAhead
  PROVE  /\ Under /\ Walking /\ pass.i \in 1..Len(tape) /\ pass.i > 0 /\ pass.at < NextRow.at
         /\ pass.from <= pass.at /\ NextRow \in Receipts /\ NextRow.at \in Nat /\ NextRow.at <= clock
         /\ \A k \in 1..pass.i-1 : tape[k].at <= pass.at \/ k \in deleted
         /\ \A k \in 1..Len(tape) : tape[k].at <= pass.at => k < pass.i
<1>1. Under BY DEF ReplayInv, RowAhead, Passing
<1>2. Walking BY <1>1 DEF Under, RowAhead
<1>3. ReplayTypes /\ Receipted BY DEF ReplayInv
<1>4. pass.i \in 1..Len(tape) BY <1>2, <1>3, PassFields, TapeFields DEF Walking, RowAhead
<1>5. pass.at < NextRow.at
  <2>1. CASE pass.at = pass.from BY <2>1 DEF RowAhead, NextRow
  <2>2. CASE \E k \in 1..pass.i-1 : k <= Len(tape) /\ tape[k].at = pass.at
    <3>1. PICK k \in 1..pass.i-1 : k <= Len(tape) /\ tape[k].at = pass.at BY <2>2
    <3>2. k \in 1..Len(tape) /\ k < pass.i BY <1>3, <1>4, TapeFields, <3>1
    <3> QED BY <3>1, <3>2, <1>3, <1>4, TapeFields DEF NextRow, Ordered
  <2> QED BY <1>2, <2>1, <2>2 DEF Walking
<1>6. NextRow \in Receipts /\ NextRow.at \in Nat /\ NextRow.at <= clock BY <1>3, <1>4, TapeFields DEF NextRow
<1>7. ASSUME NEW k \in 1..Len(tape), tape[k].at <= pass.at PROVE k < pass.i
  <2>1. pass.at \in Nat BY <1>3, PassFields
  <2>2. ~(NextRow.at <= tape[k].at) BY <1>3, <1>5, <1>6, <1>7, <2>1, TapeFields
  <2> QED BY <2>2, <1>3, <1>4, TapeFields, RowsUpTo DEF NextRow
<1> QED BY <1>1, <1>2, <1>4, <1>5, <1>6, <1>7 DEF Walking, Under

\* Rows that cleanup removed and no replay met do not matter to what is unresolved.
LEMMA GoneBefore ==
  ASSUME ReplayInv, pass.pc # "idle", pass.resumes, NEW d \in Labels!Decisions, Labels!Unlabelled(d),
         NEW j \in deleted, tape[j].at > pass.at
  PROVE  tape[j].at + Margin < decided[d]
<1>1. Under BY DEF ReplayInv, Passing
<1>2. ReplayTypes /\ Receipted BY DEF ReplayInv
<1>3. pass.from = checkpoint.cursor /\ pass.from <= pass.at BY <1>1 DEF Under
<1>4. tape[j].at \in Nat /\ decided[d] \in Nat BY <1>2, TapeFields
<1>5. Margin \in Nat /\ pass.at \in Nat /\ checkpoint.cursor \in Nat
  BY <1>2, ReplayConstants, PassFields, CheckpointFields
<1>6. ~(tape[j].at + Margin < checkpoint.cursor) BY <1>3, <1>4, <1>5
<1> QED BY <1>6 DEF ReplayInv, Needless

\* No row between the beginning of a position and the next row was missed.
LEMMA RowsMet ==
  ASSUME ReplayInv, RowAhead, NEW d \in Labels!Decisions, Labels!Unlabelled(d), NEW a \in 1..pass.i,
         tape[a].at >= decided[d], pass.resumes \/ pass.at > pass.from
  PROVE  \A k \in a..pass.i-1 : tape[k].at <= pass.at
<1> SUFFICES ASSUME NEW k \in a..pass.i-1, ~(tape[k].at <= pass.at) PROVE FALSE OBVIOUS
<1>1. ReplayTypes /\ Receipted BY DEF ReplayInv
<1>2. pass.i \in 1..Len(tape) BY RowFacts
<1>3. k \in 1..pass.i-1 /\ k \in 1..Len(tape) /\ a \in 1..Len(tape) BY <1>1, <1>2, TapeFields
<1>4. k \in deleted BY <1>3, RowFacts
<1>5. tape[k].at \in Nat /\ pass.at \in Nat /\ tape[a].at \in Nat /\ decided[d] \in Nat /\ Margin \in Nat
  BY <1>1, <1>3, TapeFields, PassFields, ReplayConstants
<1>6. CASE pass.resumes
  <2>1. tape[k].at + Margin < decided[d] BY <1>4, <1>5, <1>6, GoneBefore DEF RowAhead
  <2>2. tape[a].at <= tape[k].at BY <1>1, <1>3, TapeFields, RowsUpTo
  <2> QED BY <2>1, <2>2, <1>5
<1>7. CASE pass.at > pass.from BY <1>4, <1>7, RowFacts DEF Under
<1> QED BY <1>6, <1>7

\* No print of the position before the next row was missed.
LEMMA PrintsMet ==
  ASSUME ReplayInv, RowAhead, pass.resumes, NEW d \in Labels!Decisions, Labels!Unlabelled(d)
  PROVE  \A j \in 1..pass.i-1 : IsTrade(tape, j) => tape[j].at <= pass.last \/ tape[j].at + Margin < decided[d]
<1> SUFFICES ASSUME NEW j \in 1..pass.i-1, IsTrade(tape, j), ~(tape[j].at <= pass.last)
             PROVE  tape[j].at + Margin < decided[d]
  OBVIOUS
<1>1. ReplayTypes /\ Receipted BY DEF ReplayInv
<1>2. j \in 1..Len(tape) BY <1>1, RowFacts, TapeFields
<1>3. tape[j].at \in Nat /\ pass.at \in Nat BY <1>1, <1>2, TapeFields, PassFields
<1>4. CASE tape[j].at <= pass.at
  <2>1. Passed(pass.at, pass.last) BY RowFacts DEF Under, Carried
  <2> QED BY <2>1, <1>2, <1>4 DEF Passed
<1>5. CASE tape[j].at > pass.at
  <2>1. j \in deleted BY <1>3, <1>5, RowFacts
  <2> QED BY <2>1, <1>5, GoneBefore DEF RowAhead
<1> QED BY <1>3, <1>4, <1>5

\* A decision that the row activates begins at it, for a pass that follows the tape.
LEMMA RowBegins ==
  ASSUME ReplayInv, RowAhead, NEW d \in pass.pending, decided[d] <= NextRow.at,
         pass.resumes \/ pass.at > pass.from
  PROVE  Opens(tape, decided[d], pass.i)
<1>1. ReplayTypes /\ Receipted BY DEF ReplayInv
<1>2. d \in Labels!Decisions BY <1>1, PassFields
<1>3. Labels!Unlabelled(d) /\ decided[d] > pass.at BY RowFacts DEF Walking
<1>4. ASSUME NEW k \in 1..pass.i-1 PROVE tape[k].at < decided[d]
  <2>1. k \in 1..Len(tape) BY <1>1, RowFacts, TapeFields
  <2>2. tape[k].at \in Nat /\ pass.at \in Nat /\ decided[d] \in Nat /\ Margin \in Nat
    BY <1>1, <1>2, <2>1, TapeFields, PassFields, ReplayConstants
  <2>3. CASE tape[k].at <= pass.at BY <2>2, <2>3, <1>3
  <2>4. CASE tape[k].at > pass.at
    <3>1. k \in deleted BY <2>2, <2>4, RowFacts
    <3>2. pass.resumes BY <3>1, <2>2, <2>4, RowFacts DEF Under
    <3>3. tape[k].at + Margin < decided[d] BY <1>2, <1>3, <2>4, <3>1, <3>2, GoneBefore DEF RowAhead
    <3> QED BY <3>3, <2>2
  <2> QED BY <2>2, <2>3, <2>4
<1> QED BY <1>4, RowFacts DEF Opens, NextRow

\* The pass knows that the feed was subscribed when the decision began, or a control is gone.
LEMMA SubscribedBy ==
  ASSUME ReplayInv, RowAhead, pass.resumes, ~holed, NEW d \in pass.pending, decided[d] <= NextRow.at
  PROVE  pass.subscribed
<1>1. ReplayTypes /\ Receipted BY DEF ReplayInv
<1>2. d \in Labels!Decisions BY <1>1, PassFields
<1>3. Labels!Unlabelled(d) /\ decided[d] > pass.at BY RowFacts DEF Walking
<1>4. decided[d] \in Nat /\ pass.at \in Nat BY <1>1, <1>2, TapeFields, PassFields
<1>5. Entered(tape, decided[d]) BY <1>2, <1>3 DEF ReplayInv, Captured, Labels!Unlabelled
<1>6. PICK s \in 1..Len(tape) : /\ tape[s].kind = "subscribed" /\ tape[s].at < decided[d]
                                /\ \A k \in s+1..Len(tape) : tape[k].at < decided[d] => tape[k].kind # "gap"
  BY <1>5 DEF Entered
<1>7. tape[s].at <= pass.at
  <2>1. tape[s].at \in Nat /\ tape[s].at < NextRow.at BY <1>1, <1>4, <1>6, TapeFields, RowFacts
  <2>2. s < pass.i BY <2>1, <1>1, RowFacts, TapeFields, RowsUpTo DEF NextRow
  <2>3. ASSUME ~(tape[s].at <= pass.at) PROVE FALSE
    <3>1. s \in 1..pass.i-1 BY <2>2, <1>1, RowFacts, PassFields, TapeFields
    <3>2. s \in deleted BY <2>3, <3>1, RowFacts
    <3>3. tape[s].at <= checkpoint.cursor \/ IsTrade(tape, s) BY <3>2 DEF ReplayInv, Whole
    <3>4. checkpoint.cursor = pass.from /\ pass.from <= pass.at BY RowFacts DEF Under
    <3>5. ~IsTrade(tape, s) BY <1>6 DEF IsTrade
    <3> QED BY <3>3, <3>4, <3>5, <2>1, <2>3, <1>1, <1>4, CheckpointFields
  <2> QED BY <2>3
<1>8. \A k \in s+1..Len(tape) : tape[k].at <= pass.at => tape[k].kind # "gap"
  <2>1. \A k \in s+1..Len(tape) : k \in 1..Len(tape) BY <1>1, TapeFields
  <2>2. \A k \in s+1..Len(tape) : tape[k].at \in Nat BY <2>1, <1>1, TapeFields
  <2> QED BY <2>2, <1>3, <1>4, <1>6
<1>9. Acknowledged(tape, pass.at) BY <1>6, <1>7, <1>8 DEF Acknowledged
<1> QED BY <1>9, RowFacts DEF Under, Carried

\* No position is a place as well.
LEMMA EmptyPlace ==
  /\ Labels!NoPosition \in Places /\ Labels!NoPosition.state = "none"
  /\ Labels!NoPosition = [state |-> "none", gap |-> FALSE, late |-> FALSE, exit |-> 0]
  /\ \A gap, lag \in BOOLEAN : LET o == Labels!Opened(gap, lag)
                                IN o \in Places /\ o # Labels!NoPosition /\ o.state = "open"
                                   /\ o.gap = gap /\ o.late = lag
<1>1. Labels!NoPosition \in Places /\ Labels!NoPosition.state = "none"
  BY DEF Labels!NoPosition, Places
<1>2. ASSUME NEW gap \in BOOLEAN, NEW lag \in BOOLEAN
      PROVE  LET o == Labels!Opened(gap, lag)
             IN o \in Places /\ o # Labels!NoPosition /\ o.state = "open" /\ o.gap = gap /\ o.late = lag
  BY <1>1 DEF Labels!Opened, Places
<1> QED BY <1>1, <1>2 DEF Labels!NoPosition

\* The position as the row finds it, with what it knows.
LEMMA RowFound ==
  ASSUME ReplayInv, RowAhead, NEW d \in Labels!Decisions, NEW q,
         q = Labels!Activated(d, pass.open[d], NextRow), q # Labels!NoPosition
  PROVE  /\ q \in Places /\ q.state \in {"open", "entered"} /\ decided[d] > 0
         /\ Labels!Unlabelled(d) /\ (q.late => d \in lagged)
         /\ ~q.late /\ (pass.resumes \/ ~q.gap) =>
              \E a \in 1..pass.i : /\ Tracks(tape, decided[d], q, a, pass.at, pass.last, pass.resumes, holed)
                                   /\ \A k \in a..pass.i-1 : tape[k].at <= pass.at
<1>1. ReplayTypes /\ Receipted /\ Captured BY DEF ReplayInv
<1>2. pass.open[d] \in Places /\ pass.at \in Nat /\ decided[d] \in Nat /\ NextRow.at \in Nat
      /\ pass.subscribed \in BOOLEAN /\ pass.resumes \in BOOLEAN /\ Len(tape) \in Nat /\ Stale \in Nat
  BY <1>1, PassFields, TapeFields, RowFacts, ReplayConstants
<1>3. CASE q = pass.open[d]
  <2>1. Labels!Unlabelled(d) /\ Position(d, q, pass.at, pass.last, pass.resumes)
    BY <1>3, RowFacts DEF Under
  <2>2. /\ q.state \in {"open", "entered"} /\ decided[d] > 0 /\ (q.late => d \in lagged)
        /\ ~q.late /\ (pass.resumes \/ ~q.gap) =>
             Follows(tape, decided[d], q, pass.at, pass.last, pass.resumes, holed)
    BY <2>1 DEF Position
  <2>3. ASSUME ~q.late, pass.resumes \/ ~q.gap
        PROVE  \E a \in 1..pass.i : /\ Tracks(tape, decided[d], q, a, pass.at, pass.last, pass.resumes, holed)
                                    /\ \A k \in a..pass.i-1 : tape[k].at <= pass.at
    <3>1. PICK a \in 1..Len(tape) :
            tape[a].at <= pass.at /\ Tracks(tape, decided[d], q, a, pass.at, pass.last, pass.resumes, holed)
      BY <2>2, <2>3 DEF Follows
    <3>2. a < pass.i BY <3>1, RowFacts
    <3>3. a \in 1..pass.i /\ tape[a].at >= decided[d] BY <3>1, <3>2, <1>1, RowFacts, TapeFields DEF Tracks, Opens
    <3>4. pass.resumes \/ pass.at > pass.from BY <1>3, RowFacts DEF Walking
    <3>5. \A k \in a..pass.i-1 : tape[k].at <= pass.at BY <2>1, <3>3, <3>4, RowsMet
    <3> QED BY <3>1, <3>3, <3>5
  <2> QED BY <2>1, <2>2, <2>3, <1>2, <1>3
<1>4. CASE /\ q = Labels!Opened(~pass.subscribed \/ NextRow.at - decided[d] > Stale, FALSE)
           /\ d \in pass.pending /\ decided[d] <= NextRow.at
  <2> DEFINE gap == ~pass.subscribed \/ NextRow.at - decided[d] > Stale
  <2>1. q \in Places /\ q.state = "open" /\ q.gap = gap /\ ~q.late BY <1>4, <1>2, EmptyPlace
  <2>2. Labels!Unlabelled(d) /\ decided[d] > pass.at BY <1>4, RowFacts DEF Walking
  <2>3. ASSUME pass.resumes \/ ~q.gap
        PROVE  \E a \in 1..pass.i : /\ Tracks(tape, decided[d], q, a, pass.at, pass.last, pass.resumes, holed)
                                    /\ \A k \in a..pass.i-1 : tape[k].at <= pass.at
    <3>1. pass.resumes \/ pass.at > pass.from
      <4>1. ~pass.resumes => pass.subscribed BY <2>1, <2>3
      <4> QED BY <4>1, RowFacts DEF Walking
    <3>2. Opens(tape, decided[d], pass.i) BY <1>4, <3>1, RowBegins
    <3>3. pass.i \in 1..pass.i /\ \A k \in pass.i..pass.i-1 : tape[k].at <= pass.at
      BY <1>1, PassFields
    <3>4. \A k \in pass.i..Len(tape) : ~(tape[k].at <= pass.at)
      <4>1. \A k \in pass.i..Len(tape) : k \in 1..Len(tape) /\ ~(k < pass.i) BY <1>1, PassFields, TapeFields
      <4> QED BY <4>1, RowFacts
    <3>5. ~q.gap => Unbroken(tape, decided[d], pass.i, pass.at)
      <4>1. ~q.gap => ~(NextRow.at - decided[d] > Stale) BY <2>1
      <4> QED BY <4>1, <3>4, <1>2 DEF Unbroken, NextRow
    <3>6. pass.resumes /\ q.gap => holed \/ Torn(tape, decided[d], pass.i, pass.at)
      <4>1. pass.resumes /\ ~holed => pass.subscribed BY <1>4, SubscribedBy
      <4> QED BY <4>1, <2>1 DEF Torn, NextRow
    <3>7. Tracks(tape, decided[d], q, pass.i, pass.at, pass.last, pass.resumes, holed)
      BY <2>1, <3>2, <3>4, <3>5, <3>6 DEF Tracks, Waits
    <3> QED BY <3>3, <3>7
  <2>4. decided[d] > 0 BY <2>2 DEF Labels!Unlabelled
  <2> QED BY <2>1, <2>2, <2>3, <2>4
<1> QED BY <1>3, <1>4 DEF Labels!Activated

\* A row activates, breaks and turns a position, in this order.
LEMMA WalkedTurns ==
  ASSUME NEW d, NEW r
  PROVE  LET q == Labels!Activated(d, pass.open[d], r)
         IN /\ q # Labels!NoPosition => Labels!Walked(d, r) = Turn(decided[d], Break(q, r, pass.last), r)
            /\ q = Labels!NoPosition => Labels!Walked(d, r) = Labels!NoPosition
<1> DEFINE q == Labels!Activated(d, pass.open[d], r)
<1>1. Labels!Walked(d, r) = Labels!Traded(d, Labels!Continuity(q, r), r) BY DEF Labels!Walked
<1>2. \A p : Labels!Traded(d, p, r) = Turn(decided[d], p, r)
  BY DEF Labels!Traded, Turn, Labels!Trades
<1>3. q # Labels!NoPosition => Labels!Continuity(q, r) = Break(q, r, pass.last)
  BY DEF Labels!Continuity, Break, Labels!Trades
<1>4. q = Labels!NoPosition => Labels!Continuity(q, r) = q BY DEF Labels!Continuity
<1>5. Turn(decided[d], Labels!NoPosition, r) = Labels!NoPosition BY EmptyPlace DEF Turn
<1> QED BY <1>1, <1>2, <1>3, <1>4, <1>5

\* What a row makes of the position of a decision.
LEMMA RowWalked ==
  ASSUME ReplayInv, RowAhead, NEW d \in Labels!Decisions, NEW w, w = Labels!Walked(d, NextRow)
  PROVE  /\ w \in Places
         /\ w = Labels!NoPosition <=> pass.open[d] = Labels!NoPosition
                                        /\ ~(d \in pass.pending /\ decided[d] <= NextRow.at)
         /\ w # Labels!NoPosition => /\ Labels!Unlabelled(d) /\ decided[d] > 0
                                     /\ w.state \in {"open", "entered", "exited"}
         /\ w # Labels!NoPosition /\ w.state # "exited" =>
              /\ w.late => d \in lagged
              /\ ~w.late /\ (pass.resumes \/ ~w.gap) =>
                   Follows(tape, decided[d], w, NextRow.at, Later, pass.resumes, holed)
         /\ w.state = "exited" /\ ~w.gap /\ ~w.late =>
              w.exit = NextRow.at /\ Proven(tape, decided[d], pass.i)
         /\ /\ w # Labels!NoPosition /\ pass.resumes /\ d \notin lagged /\ ~holed
            /\ w.state = "exited" \/ NextRow.at > decided[d] + Hold
            /\ w.state = "exited" => w.gap \/ w.late
            => Unproven(tape, decided[d]) /\ Hopeless(tape, decided[d], clock)
<1>1. ReplayTypes /\ Receipted /\ Captured BY DEF ReplayInv
<1>2. PICK q : q = Labels!Activated(d, pass.open[d], NextRow) OBVIOUS
<1>3. /\ q # Labels!NoPosition => w = Turn(decided[d], Break(q, NextRow, pass.last), NextRow)
      /\ q = Labels!NoPosition => w = Labels!NoPosition
  BY <1>2, WalkedTurns
<1>4. q = Labels!NoPosition <=> pass.open[d] = Labels!NoPosition
                                  /\ ~(d \in pass.pending /\ decided[d] <= NextRow.at)
  <2>1. \A b \in BOOLEAN : Labels!Opened(b, FALSE) # Labels!NoPosition BY EmptyPlace
  <2>2. (~pass.subscribed \/ NextRow.at - decided[d] > Stale) \in BOOLEAN OBVIOUS
  <2>3. d \in pass.pending => outcome[d] = Labels!NoLabel BY RowFacts DEF Walking, Labels!Unlabelled
  <2> QED BY <1>2, <2>1, <2>2, <2>3 DEF Labels!Activated
<1>5. CASE q = Labels!NoPosition BY <1>3, <1>4, <1>5, EmptyPlace
<1>6. CASE q # Labels!NoPosition
  <2>1. /\ q \in Places /\ q.state \in {"open", "entered"} /\ decided[d] > 0
        /\ Labels!Unlabelled(d) /\ (q.late => d \in lagged)
        /\ ~q.late /\ (pass.resumes \/ ~q.gap) =>
             \E a \in 1..pass.i : /\ Tracks(tape, decided[d], q, a, pass.at, pass.last, pass.resumes, holed)
                                  /\ \A k \in a..pass.i-1 : tape[k].at <= pass.at
    BY <1>2, <1>6, RowFound
  <2>2. /\ NextRow \in Receipts /\ NextRow.at \in Nat /\ pass.last \in Nat /\ pass.at \in Nat
        /\ decided[d] \in Nat /\ pass.i \in 1..Len(tape) /\ pass.resumes \in BOOLEAN /\ holed \in BOOLEAN
        /\ tape \in Seq(Receipts) /\ Ordered(tape) /\ (\A k \in 1..Len(tape) : 0 < tape[k].at)
        /\ pass.at < tape[pass.i].at /\ clock \in Nat /\ NextRow.at <= clock /\ Len(tape) \in Nat
    BY <1>1, RowFacts, PassFields, TapeFields DEF NextRow, ReplayTypes
  <2>3. PICK c : c = Break(q, NextRow, pass.last) OBVIOUS
  <2>4. c \in Places /\ c.state = q.state /\ c.late = q.late /\ (q.gap => c.gap)
    BY <2>1, <2>2, <2>3, BreakFields
  <2>5. w = Turn(decided[d], c, NextRow) BY <1>3, <1>6, <2>3
  <2>6. /\ w \in Places /\ w.state \in {"open", "entered", "exited"} /\ w.gap = c.gap
        /\ c.late => w.late
    BY <2>1, <2>2, <2>4, <2>5, TurnWays
  <2>7. w # Labels!NoPosition BY <2>6, EmptyPlace
  <2>8. CASE q.late
    <3>1. w.late /\ d \in lagged BY <2>1, <2>4, <2>6, <2>8
    <3> QED BY <3>1, <1>4, <1>6, <2>1, <2>6, <2>7
  <2>9. CASE q.gap /\ ~pass.resumes
    <3>1. w.gap BY <2>4, <2>6, <2>9
    <3>2. w.late /\ w.state # "exited" => d \in lagged
      <4>1. w.state # "exited" => w.late = c.late BY <2>1, <2>2, <2>4, <2>5, TurnWays
      <4> QED BY <4>1, <2>1, <2>4
    <3> QED BY <3>1, <3>2, <1>4, <1>6, <2>1, <2>6, <2>7, <2>9
  <2>10. CASE ~q.late /\ (pass.resumes \/ ~q.gap)
    <3>1. PICK a \in 1..pass.i : /\ Tracks(tape, decided[d], q, a, pass.at, pass.last, pass.resumes, holed)
                                 /\ \A k \in a..pass.i-1 : tape[k].at <= pass.at
      BY <2>1, <2>10
    <3>2. pass.last <= pass.at /\ (pass.last = 0 \/ \E k \in 1..Len(tape) : IsTrade(tape, k) /\ tape[k].at = pass.last)
      BY RowFacts DEF Under, Heard
    <3>3. pass.resumes => \A j \in 1..pass.i-1 :
            IsTrade(tape, j) => tape[j].at <= pass.last \/ tape[j].at + Margin < decided[d]
      BY <2>1, PrintsMet
    <3>4. w = Turn(decided[d], Break(q, tape[pass.i], pass.last), tape[pass.i]) BY <2>3, <2>5 DEF NextRow
    <3>5. Later = IF tape[pass.i].kind \in {"in", "out"} THEN tape[pass.i].at ELSE pass.last
      BY DEF Later, NextRow
    <3>6. /\ w.state # "exited" =>
               ~w.late /\ Tracks(tape, decided[d], w, a, tape[pass.i].at, Later, pass.resumes, holed)
          /\ w.state = "exited" /\ ~w.gap /\ ~w.late =>
               /\ w.exit = tape[pass.i].at /\ Exits(tape, decided[d], a, pass.i)
               /\ Unbroken(tape, decided[d], a, tape[pass.i].at)
          /\ /\ pass.resumes /\ ~holed /\ (w.state = "exited" \/ tape[pass.i].at > decided[d] + Hold)
             /\ w.state = "exited" => w.gap \/ w.late
             => /\ Unproven(tape, decided[d])
                /\ \/ tape[pass.i].at > decided[d] + Hold \/ Torn(tape, decided[d], a, tape[pass.i].at)
                   \/ (tape[pass.i].at > decided[d] + Fill /\ Missed(tape, decided[d], a))
      <4>1. PICK t, n, u, last, s, h, i, next :
              /\ t = tape /\ n = decided[d] /\ u = pass.at /\ last = pass.last
              /\ s = pass.resumes /\ h = holed /\ i = pass.i /\ next = Later
        OBVIOUS
      <4>2. /\ t \in Seq(Receipts) /\ n \in Nat /\ u \in Nat /\ last \in Nat
            /\ s \in BOOLEAN /\ h \in BOOLEAN /\ i \in 1..Len(t) /\ a \in 1..i /\ q \in Places
        BY <4>1, <3>1, <2>1, <2>2
      <4>3. Ready(t, n, q, u, last, s, h, i, a)
        BY <4>1, <3>1, <3>2, <3>3, <2>1, <2>2, <2>10 DEF Ready
      <4>4. /\ w = Turn(n, Break(q, t[i], last), t[i])
            /\ next = IF t[i].kind \in {"in", "out"} THEN t[i].at ELSE last
        BY <4>1, <3>4, <3>5
      <4>5. Turned(t, n, w, a, i, next, s, h) BY <4>2, <4>3, <4>4, PositionTracked
      <4> HIDE DEF Later
      <4>6. Turned(tape, decided[d], w, a, pass.i, Later, pass.resumes, holed) BY <4>1, <4>5
      <4> QED BY <4>6 DEF Turned
    <3>7. Opens(tape, decided[d], a) /\ a \in 1..Len(tape) BY <3>1, <2>2 DEF Tracks
    <3>8. w.state # "exited" => Follows(tape, decided[d], w, NextRow.at, Later, pass.resumes, holed)
      <4>1. tape[a].at <= tape[pass.i].at
        <5>1. a <= pass.i BY <3>1, <2>2
        <5> QED BY <5>1, <2>2, <3>7, RowsUpTo
      <4> QED BY <4>1, <3>6, <3>7 DEF Follows, NextRow
    <3>9. w.state = "exited" /\ ~w.gap /\ ~w.late =>
            w.exit = NextRow.at /\ Proven(tape, decided[d], pass.i)
      <4>1. Entered(tape, decided[d]) BY <1>1, <2>1 DEF Captured
      <4> QED BY <4>1, <3>6, <3>7, <2>2, ProvenHere DEF NextRow
    <3>10. ASSUME tape[pass.i].at > decided[d] + Hold \/ Torn(tape, decided[d], a, tape[pass.i].at)
                  \/ (tape[pass.i].at > decided[d] + Fill /\ Missed(tape, decided[d], a))
           PROVE  Hopeless(tape, decided[d], clock)
      <4>1. Fill \in Nat /\ Hold \in Nat /\ tape[pass.i].at <= clock /\ tape[pass.i].at \in Nat
        BY <2>2, ReplayConstants DEF NextRow
      <4>2. CASE tape[pass.i].at > decided[d] + Hold BY <4>1, <4>2, <2>2 DEF Hopeless
      <4>3. CASE Torn(tape, decided[d], a, tape[pass.i].at)
        <5>1. \A k \in a..Len(tape) : tape[k].at <= clock
          <6>1. \A k \in a..Len(tape) : k \in 1..Len(tape) BY <3>7, <2>2
          <6> QED BY <6>1, <1>1, TapeFields
        <5>2. Torn(tape, decided[d], a, clock) BY <4>3, <5>1 DEF Torn
        <5> QED BY <5>2, <3>7 DEF Hopeless
      <4>4. CASE tape[pass.i].at > decided[d] + Fill /\ Missed(tape, decided[d], a)
        BY <4>1, <4>4, <3>7, <2>2 DEF Hopeless
      <4> QED BY <3>10, <4>2, <4>3, <4>4
    <3> QED BY <3>6, <3>8, <3>9, <3>10, <1>4, <1>6, <2>1, <2>6, <2>7 DEF NextRow
  <2> QED BY <2>8, <2>9, <2>10, <2>1, <2>2
<1> QED BY <1>5, <1>6

-----------------------------------------------------------------------------
(* The steps around a pass.                                                  *)
\* Nothing is recorded, decided or labelled at first.
LEMMA ReplayStarts == Labels!Init \/ ReplayRests => ReplayInv
<1> SUFFICES ASSUME Labels!Init \/ ReplayRests PROVE ReplayInv OBVIOUS
<1>0. clock \in Nat /\ 1 <= clock
  <2>1. MaxClock \in Nat /\ 1 <= MaxClock BY ResearchAssumption DEF Labels!PrimaryLabelsAssumption
  <2> QED BY <2>1 DEF Labels!Init, ReplayRests
<1>1. /\ tape = <<[at |-> 1, kind |-> "subscribed"]>> /\ published = 1
      /\ deleted = {} /\ holed = FALSE /\ twins = FALSE /\ lagged = {} /\ whole = {}
      /\ decided = [d \in Labels!Decisions |-> 0]
      /\ outcome = [d \in Labels!Decisions |-> Labels!NoLabel]
      /\ checkpoint = Labels!NoCheckpoint /\ pass = Labels!NoPass
  BY DEF Labels!Init, ReplayRests, Labels!Blank
<1>2. /\ tape \in Seq(Receipts) /\ Len(tape) = 1 /\ tape[1].at = 1 /\ tape[1].kind = "subscribed"
  BY <1>1 DEF Receipts, Labels!Kinds
<1>3. \A d \in Labels!Decisions : decided[d] = 0 /\ outcome[d] = Labels!NoLabel BY <1>1
<1>4. /\ checkpoint \in [cursor : Nat, saved : Nat, subscribed : BOOLEAN, last : Nat,
                         open : [Labels!Decisions -> Places]]
      /\ checkpoint.cursor = 0 /\ checkpoint.last = 0
      /\ \A d \in Labels!Decisions : checkpoint.open[d] = Labels!NoPosition
  BY <1>1, EmptyPlace DEF Labels!NoCheckpoint
<1>5. /\ pass \in [pc : {"idle", "walk", "save"}, resumes : BOOLEAN, from : Nat, upto : Nat, i : Nat \ {0},
                   until : Nat, at : Nat, pending : SUBSET Labels!Decisions, subscribed : BOOLEAN,
                   last : Nat, open : [Labels!Decisions -> Places]]
      /\ pass.pc = "idle"
  BY <1>1, EmptyPlace DEF Labels!NoPass
<1>6. outcome \in [Labels!Decisions ->
                     [kind : {"none", "complete", "incomplete", "duplicate"}, exit : Nat]]
      /\ Labels!NoLabel.kind = "none"
  BY <1>1 DEF Labels!NoLabel
<1>7. ReplayTypes
  <2>1. decided \in [Labels!Decisions -> Nat] BY <1>1
  <2>2. clock \in Nat /\ published \in 0..Len(tape) /\ deleted \subseteq 1..published
    BY <1>0, <1>1, <1>2
  <2>3. twins \in BOOLEAN /\ holed \in BOOLEAN /\ lagged \subseteq Labels!Decisions
        /\ whole \subseteq Labels!Decisions
    BY <1>1
  <2> QED BY <2>1, <2>2, <2>3, <1>2, <1>4, <1>5, <1>6 DEF ReplayTypes
<1>8. Receipted BY <1>0, <1>1, <1>2 DEF Receipted, Ordered
<1>9. Shortened /\ Needless /\ Whole BY <1>1 DEF Shortened, Needless, Whole
<1>10. Captured
  <2> SUFFICES ASSUME NEW d \in Labels!Decisions PROVE decided[d] = 0 /\ outcome[d] = Labels!NoLabel /\ 0 <= clock
    BY DEF Captured
  <2> QED BY <1>0, <1>3
<1>11. Checkpointed
  <2>1. ~Acknowledged(tape, 0) BY <1>2 DEF Acknowledged
  <2>2. Passed(0, 0) BY <1>2 DEF Passed
  <2>3. Instant(checkpoint.cursor) /\ Carried(checkpoint.cursor, checkpoint.last, checkpoint.subscribed)
    BY <2>1, <2>2, <1>4 DEF Instant, Carried, Heard
  <2>4. \A d \in Labels!Decisions : ~Labels!Unlabelled(d) /\ checkpoint.open[d] = Labels!NoPosition
    BY <1>3, <1>4 DEF Labels!Unlabelled
  <2>5. \A d \in Labels!Decisions :
          Position(d, checkpoint.open[d], checkpoint.cursor, checkpoint.last, TRUE)
    BY <2>4 DEF Position
  <2> QED BY <2>3, <2>4, <2>5 DEF Checkpointed
<1>12. Passing BY <1>1, <1>5 DEF Passing
<1>13. Labelled BY <1>3, <1>6 DEF Labelled
<1> QED BY <1>7, <1>8, <1>9, <1>10, <1>11, <1>12, <1>13 DEF ReplayInv

\* A pass that is over leaves nothing.
LEMMA IdlePass ==
  Labels!NoPass.pc = "idle" /\ (ReplayInv => ((pass = Labels!NoPass) = (pass.pc = "idle")))
<1>1. Labels!NoPass.pc = "idle" BY DEF Labels!NoPass
<1> QED BY <1>1 DEF ReplayInv, Passing

\* What is hopeless now is so later.
LEMMA HopelessLater ==
  ASSUME NEW t \in Seq(Receipts), NEW n \in Nat, NEW w \in Nat, NEW v \in Nat, w <= v, Hopeless(t, n, w)
  PROVE  Hopeless(t, n, v)
<1>1. Fill \in Nat /\ Hold \in Nat BY ReplayConstants
<1>2. CASE w > n + Hold BY <1>1, <1>2 DEF Hopeless
<1>3. CASE \E a \in 1..Len(t) : Opens(t, n, a) /\ (Torn(t, n, a, w) \/ (w > n + Fill /\ Missed(t, n, a)))
  <2>1. PICK a \in 1..Len(t) : Opens(t, n, a) /\ (Torn(t, n, a, w) \/ (w > n + Fill /\ Missed(t, n, a)))
    BY <1>3
  <2>2. CASE Torn(t, n, a, w)
    <3>1. \A k \in a..Len(t) : t[k].at <= w => t[k].at <= v
      <4>1. \A k \in a..Len(t) : k \in 1..Len(t) BY RowTypes
      <4> QED BY <4>1, RowTypes
    <3>2. Torn(t, n, a, v) BY <2>2, <3>1 DEF Torn
    <3> QED BY <3>2, <2>1 DEF Hopeless
  <2>3. CASE w > n + Fill /\ Missed(t, n, a)
    <3>1. v > n + Fill BY <2>3, <1>1
    <3> QED BY <2>1, <2>3, <3>1 DEF Hopeless
  <2> QED BY <2>1, <2>2, <2>3
<1> QED BY <1>2, <1>3 DEF Hopeless

\* Time passes: what was published late is late, and windows close.
LEMMA ReplayTicks == ReplayInv /\ Labels!Tick => ReplayInv'
<1> SUFFICES ASSUME ReplayInv, Labels!Tick PROVE ReplayInv' OBVIOUS
<1>1. /\ pass = Labels!NoPass /\ published = Len(tape) /\ clock' = clock + 1
      /\ UNCHANGED <<tape, published, deleted, holed, decided, twins, outcome, lagged, whole, checkpoint, pass>>
  BY DEF Labels!Tick, Labels!Between, Labels!tapes, Labels!labels
<1>2. ReplayTypes /\ Receipted BY DEF ReplayInv
<1>3. clock \in Nat /\ clock' \in Nat /\ clock <= clock' BY <1>1, <1>2, TapeFields
<1>4. ReplayTypes' BY <1>1, <1>2, <1>3 DEF ReplayTypes
<1>5. Receipted'
  <2>1. \A i \in 1..Len(tape) : i <= published /\ 0 < tape[i].at /\ tape[i].at <= clock' /\ tape[i].at \in Nat
    BY <1>1, <1>2, <1>3, TapeFields
  <2> QED BY <2>1, <1>1, <1>2, <1>3, TapeFields DEF Receipted
<1>6. Shortened'
  <2>1. \A i \in deleted : tape[i].at \in Nat BY <1>2, TapeFields
  <2> QED BY <2>1, <1>1, <1>3, ReplayConstants DEF ReplayInv, Shortened
<1>7. Captured'
  <2>1. \A d \in Labels!Decisions : decided[d] \in Nat BY <1>2, TapeFields
  <2> QED BY <2>1, <1>1, <1>3 DEF ReplayInv, Captured
<1>8. Checkpointed' BY <1>1 DEF ReplayInv, Checkpointed, Instant, Carried, Heard, Passed, Position, Labels!Unlabelled
<1>9. Needless' /\ Whole' BY <1>1 DEF ReplayInv, Needless, Whole, Labels!Unlabelled
<1>10. Passing' BY <1>1, IdlePass DEF Passing
<1>11. Labelled'
  <2>1. \A d \in Labels!Decisions : Hopeless(tape, decided[d], clock) => Hopeless(tape, decided[d], clock')
    BY <1>2, <1>3, TapeFields, HopelessLater
  <2> QED BY <2>1, <1>1 DEF ReplayInv, Labelled
<1> QED BY <1>4, <1>5, <1>6, <1>7, <1>8, <1>9, <1>10, <1>11 DEF ReplayInv

\* Rows are published: the pass that runs goes on with those it began with.
LEMMA ReplayPublishes == ReplayInv /\ Labels!Publish => ReplayInv'
<1> SUFFICES ASSUME ReplayInv, Labels!Publish PROVE ReplayInv' OBVIOUS
<1>1. /\ pass = Labels!NoPass /\ published < Len(tape) /\ published' = Len(tape)
      /\ UNCHANGED <<clock, tape, deleted, holed, decided, twins, outcome, lagged, whole, checkpoint, pass>>
  BY DEF Labels!Publish, Labels!Between, Labels!tapes, Labels!labels
<1>2. ReplayTypes /\ Receipted BY DEF ReplayInv
<1>3. published' \in 0..Len(tape) /\ deleted \subseteq 1..published' BY <1>1, <1>2, TapeFields
<1>4. ReplayTypes' BY <1>1, <1>2, <1>3 DEF ReplayTypes
<1>5. Receipted'
  <2>1. \A i \in 1..Len(tape) : ~(i > published') BY <1>1, <1>2, TapeFields
  <2> QED BY <2>1, <1>1, <1>2 DEF Receipted
<1>6. Shortened' /\ Captured' BY <1>1 DEF ReplayInv, Shortened, Captured
<1>7. Checkpointed' BY <1>1 DEF ReplayInv, Checkpointed, Instant, Carried, Heard, Passed, Position, Labels!Unlabelled
<1>8. Needless' /\ Whole' BY <1>1 DEF ReplayInv, Needless, Whole, Labels!Unlabelled
<1>9. Passing' BY <1>1, IdlePass DEF Passing
<1>10. Labelled' BY <1>1 DEF ReplayInv, Labelled
<1> QED BY <1>4, <1>5, <1>6, <1>7, <1>8, <1>9, <1>10 DEF ReplayInv

\* Whatever a checkpoint has consumed was received before a row of now.
LEMMA BeforeNow ==
  ASSUME ReplayInv, \A i \in 1..Len(tape) : tape[i].at < clock, NEW u, Instant(u)
  PROVE  u \in Nat /\ u < clock
<1>1. ReplayTypes /\ Receipted BY DEF ReplayInv
<1>2. 0 < clock BY <1>1 DEF Receipted
<1> QED BY <1>1, <1>2, TapeFields DEF Instant

\* A row is received: it is later than all that any pass or checkpoint has consumed.
LEMMA ReplayAdmits == ReplayInv /\ Labels!Admit => ReplayInv'
<1> SUFFICES ASSUME ReplayInv, Labels!Admit PROVE ReplayInv' OBVIOUS
<1>1. PICK kind \in Labels!Kinds : tape' = Append(tape, [at |-> clock, kind |-> kind]) BY DEF Labels!Admit
<1>2. /\ pass = Labels!NoPass /\ \A i \in 1..Len(tape) : tape[i].at < clock
      /\ UNCHANGED <<clock, published, deleted, holed, decided, twins, outcome, lagged, whole, checkpoint, pass>>
  BY DEF Labels!Admit, Labels!Between, Labels!labels
<1>3. ReplayTypes /\ Receipted BY DEF ReplayInv
<1>4. /\ tape \in Seq(Receipts) /\ Len(tape) \in Nat /\ Ordered(tape) /\ clock \in Nat
      /\ published \in 0..Len(tape) /\ deleted \subseteq 1..published /\ deleted \subseteq 1..Len(tape)
      /\ \A k \in 1..Len(tape) : /\ tape[k] \in Receipts /\ tape[k].at \in Nat /\ 0 < tape[k].at
                                 /\ tape[k].at <= clock /\ (k > published => tape[k].at = clock)
      /\ \A d \in Labels!Decisions : decided[d] \in Nat
  BY <1>3, TapeFields
<1>5. PICK r : r = [at |-> clock, kind |-> kind] OBVIOUS
<1>6. r \in Receipts /\ r.at = clock BY <1>4, <1>5 DEF Receipts
<1>7. tape' = Append(tape, r) BY <1>1, <1>5
<1>8. /\ tape' \in Seq(Receipts) /\ Len(tape') = Len(tape) + 1 /\ tape'[Len(tape) + 1] = r
      /\ \A i \in 1..Len(tape) : tape'[i] = tape[i]
  BY <1>4, <1>6, <1>7, Lengthened
<1>9. \A i \in 1..Len(tape) : i \in 1..Len(tape') /\ IsTrade(tape', i) = IsTrade(tape, i)
  BY <1>4, <1>8 DEF IsTrade
<1>10. \A i \in 1..Len(tape') : i \in 1..Len(tape) \/ i = Len(tape) + 1 BY <1>4, <1>8
<1>11. ReplayTypes' BY <1>2, <1>3, <1>4, <1>8 DEF ReplayTypes
<1>12. Receipted'
  <2>1. Ordered(tape') BY <1>2, <1>4, <1>6, <1>7, OrderKept
  <2>2. 0 < clock BY <1>3 DEF Receipted
  <2> QED BY <2>1, <2>2, <1>2, <1>4, <1>6, <1>8, <1>10 DEF Receipted
<1>13. Shortened' BY <1>2, <1>4, <1>8 DEF ReplayInv, Shortened
<1>14. Captured'
  <2>1. ASSUME NEW d \in Labels!Decisions, decided[d] > 0 PROVE Entered(tape', decided[d])
    BY <2>1, <1>4, <1>6, <1>7, EnteredKept DEF ReplayInv, Captured
  <2> QED BY <2>1, <1>2 DEF ReplayInv, Captured
<1>15. Checkpointed'
  <2> DEFINE u == checkpoint.cursor
             l == checkpoint.last
  <2>1. Instant(u) /\ Carried(u, l, checkpoint.subscribed) BY DEF ReplayInv, Checkpointed
  <2>2. u \in Nat /\ u < r.at BY <1>2, <1>6, <2>1, BeforeNow
  <2>3. Instant(u)' BY <2>1, <1>2, <1>8, <1>9 DEF Instant
  <2>4. Heard(l)' BY <2>1, <1>2, <1>8, <1>9 DEF Carried, Heard
  <2>5. Passed(u, l)'
    <3>1. \A j \in 1..Len(tape') : tape'[j].at <= u => j \in 1..Len(tape)
      <4>1. ~(tape'[Len(tape) + 1].at <= u) BY <2>2, <1>4, <1>6, <1>8
      <4> QED BY <4>1, <1>10
    <3> QED BY <3>1, <2>1, <1>2, <1>8, <1>9 DEF Carried, Passed, Labels!Unlabelled
  <2>6. Acknowledged(tape', u) => Acknowledged(tape, u) BY <2>2, <1>4, <1>6, <1>7, AcknowledgedBefore
  <2>7. Carried(u, l, checkpoint.subscribed)' BY <2>1, <2>4, <2>5, <2>6, <1>2 DEF Carried
  <2>8. ASSUME NEW d \in Labels!Decisions PROVE Position(d, checkpoint.open[d], u, l, TRUE)'
    <3>1. Position(d, checkpoint.open[d], u, l, TRUE) BY DEF ReplayInv, Checkpointed
    <3>2. Follows(tape, decided[d], checkpoint.open[d], u, l, TRUE, holed)
            => Follows(tape', decided[d], checkpoint.open[d], u, l, TRUE, holed)
      BY <2>2, <1>4, <1>6, <1>7, FollowsKept
    <3> QED BY <3>1, <3>2, <1>2 DEF Position
  <2> QED BY <2>3, <2>7, <2>8, <1>2 DEF ReplayInv, Checkpointed, Labels!Unlabelled
<1>16. Needless' /\ Whole' BY <1>2, <1>4, <1>8, <1>9 DEF ReplayInv, Needless, Whole, Labels!Unlabelled
<1>17. Passing' BY <1>2, IdlePass DEF Passing
<1>18. Labelled'
  <2>1. ASSUME NEW d \in Labels!Decisions, outcome[d].kind = "complete"
        PROVE  \E x \in 1..Len(tape') : tape'[x].at = outcome[d].exit /\ Proven(tape', decided[d], x)
    <3>1. PICK x \in 1..Len(tape) : tape[x].at = outcome[d].exit /\ Proven(tape, decided[d], x)
      BY <2>1 DEF ReplayInv, Labelled
    <3>2. Proven(tape', decided[d], x) BY <3>1, <1>4, <1>6, <1>7, ProvenKept
    <3> QED BY <3>1, <3>2, <1>8, <1>9
  <2>2. ASSUME NEW d \in Labels!Decisions, Unproven(tape, decided[d]), Hopeless(tape, decided[d], clock)
        PROVE  Unproven(tape', decided[d]) /\ Hopeless(tape', decided[d], clock)
    BY <2>2, <1>4, <1>6, <1>7, HopelessKept
  <2> QED BY <2>1, <2>2, <1>2 DEF ReplayInv, Labelled
<1> QED BY <1>11, <1>12, <1>13, <1>14, <1>15, <1>16, <1>17, <1>18 DEF ReplayInv

\* A decision is taken now: no checkpoint has passed it.
LEMMA ReplayCaptures ==
  ASSUME NEW d \in Labels!Decisions, ReplayInv, Labels!Capture(d)
  PROVE  ReplayInv'
<1>1. /\ pass = Labels!NoPass /\ decided[d] = 0 /\ \A i \in 1..Len(tape) : tape[i].at < clock
      /\ decided' = [decided EXCEPT ![d] = clock] /\ Labels!Live
      /\ twins' \in IF d = 2 THEN BOOLEAN ELSE {twins}
      /\ UNCHANGED <<clock, tape, published, deleted, holed, outcome, lagged, whole, checkpoint, pass>>
  BY DEF Labels!Capture, Labels!Between, Labels!tapes, Labels!labels
<1>2. ReplayTypes /\ Receipted BY DEF ReplayInv
<1>3. /\ tape \in Seq(Receipts) /\ Len(tape) \in Nat /\ clock \in Nat /\ deleted \subseteq 1..Len(tape)
      /\ decided \in [Labels!Decisions -> Nat]
      /\ \A k \in 1..Len(tape) : tape[k].at \in Nat
  BY <1>2, TapeFields DEF ReplayTypes
<1>4. 0 < clock BY <1>2 DEF Receipted
<1>5. decided' \in [Labels!Decisions -> Nat] /\ decided'[d] = clock
      /\ \A e \in Labels!Decisions : e # d => decided'[e] = decided[e]
  BY <1>1, <1>3
<1>6. outcome[d] = Labels!NoLabel BY <1>1 DEF ReplayInv, Captured
<1>7. checkpoint.open[d] = Labels!NoPosition
  <2>1. Position(d, checkpoint.open[d], checkpoint.cursor, checkpoint.last, TRUE)
    BY DEF ReplayInv, Checkpointed
  <2>2. ~(decided[d] > 0) BY <1>1
  <2> QED BY <2>1, <2>2 DEF Position
<1>8. \A e \in Labels!Decisions : e # d => (Labels!Unlabelled(e)' = Labels!Unlabelled(e))
  BY <1>1, <1>5 DEF Labels!Unlabelled
<1>9. \A j \in deleted : tape[j].at + Margin < decided'[d] BY <1>5 DEF ReplayInv, Shortened
<1>10. ReplayTypes'
  <2>1. twins' \in BOOLEAN BY <1>1, <1>2 DEF ReplayTypes
  <2> QED BY <2>1, <1>1, <1>2, <1>5 DEF ReplayTypes
<1>11. Receipted' /\ Shortened' BY <1>1 DEF ReplayInv, Receipted, Shortened
<1>12. Captured'
  <2>1. PICK s \in 1..Len(tape) : tape[s].kind = "subscribed" /\ \A j \in s+1..Len(tape) : tape[j].kind # "gap"
    BY <1>1 DEF Labels!Live, Labels!SubscribedAfter
  <2>2. Entered(tape, clock) BY <2>1, <1>1 DEF Entered
  <2>3. ASSUME NEW e \in Labels!Decisions
        PROVE  /\ decided'[e] <= clock /\ (outcome[e] # Labels!NoLabel => decided'[e] > 0)
               /\ decided'[e] > 0 => Entered(tape, decided'[e])
    <3>1. CASE e = d BY <3>1, <2>2, <1>3, <1>4, <1>5
    <3>2. CASE e # d BY <3>2, <1>5 DEF ReplayInv, Captured
    <3> QED BY <3>1, <3>2
  <2> QED BY <2>3, <1>1 DEF Captured
<1>13. Checkpointed'
  <2> DEFINE u == checkpoint.cursor
             l == checkpoint.last
  <2>1. Instant(u) /\ Carried(u, l, checkpoint.subscribed) BY DEF ReplayInv, Checkpointed
  <2>2. u \in Nat /\ u < clock BY <1>1, <2>1, BeforeNow
  <2>3. Passed(u, l)'
    <3>1. ASSUME NEW j \in deleted, \A e \in Labels!Decisions : Labels!Unlabelled(e) => tape[j].at + Margin < decided[e],
                 NEW e \in Labels!Decisions, Labels!Unlabelled(e)'
          PROVE  tape[j].at + Margin < decided'[e]
      BY <3>1, <1>5, <1>8, <1>9
    <3> QED BY <3>1, <2>1, <1>1 DEF Carried, Passed
  <2>4. Instant(u)' /\ Carried(u, l, checkpoint.subscribed)' BY <2>1, <2>3, <1>1 DEF Instant, Carried, Heard
  <2>5. ASSUME NEW e \in Labels!Decisions
        PROVE  /\ Position(e, checkpoint.open[e], u, l, TRUE)'
               /\ Labels!Unlabelled(e)' /\ checkpoint.open[e] = Labels!NoPosition => decided'[e] > u
    <3>1. CASE e = d BY <3>1, <2>2, <1>1, <1>5, <1>7 DEF Position
    <3>2. CASE e # d
      <4>1. /\ Position(e, checkpoint.open[e], u, l, TRUE)
            /\ Labels!Unlabelled(e) /\ checkpoint.open[e] = Labels!NoPosition => decided[e] > u
        BY DEF ReplayInv, Checkpointed
      <4>2. decided'[e] = decided[e] BY <3>2, <1>5
      <4> QED BY <4>1, <4>2, <3>2, <1>1, <1>8 DEF Position
    <3> QED BY <3>1, <3>2
  <2> QED BY <2>4, <2>5, <1>1 DEF Checkpointed
<1>14. Needless'
  <2>1. ASSUME NEW j \in deleted, NEW e \in Labels!Decisions, Labels!Unlabelled(e)'
        PROVE  \/ tape[j].at + Margin < decided'[e]
               \/ checkpoint.open[e] # Labels!NoPosition /\ tape[j].at + Margin < checkpoint.cursor
    <3>1. CASE e = d BY <3>1, <1>9
    <3>2. CASE e # d BY <2>1, <3>2, <1>5, <1>8 DEF ReplayInv, Needless
    <3> QED BY <3>1, <3>2
  <2> QED BY <2>1, <1>1 DEF Needless
<1>15. Whole' BY <1>1 DEF ReplayInv, Whole
<1>16. Passing' BY <1>1, IdlePass DEF Passing
<1>17. Labelled'
  <2>1. Labels!NoLabel.kind = "none" BY DEF Labels!NoLabel
  <2>2. ASSUME NEW e \in Labels!Decisions, outcome[e].kind # "none" PROVE decided'[e] = decided[e]
    BY <2>1, <2>2, <1>5, <1>6
  <2> QED BY <2>2, <1>1 DEF ReplayInv, Labelled
<1> QED BY <1>10, <1>11, <1>12, <1>13, <1>14, <1>15, <1>16, <1>17 DEF ReplayInv

\* A label less to find is a bound less to keep.
LEMMA ReplayResumes == ReplayInv /\ Labels!Resume => ReplayInv'
<1> SUFFICES ASSUME ReplayInv, Labels!Resume PROVE ReplayInv' OBVIOUS
<1>1. /\ pass = Labels!NoPass /\ outcome' = Labels!Excluded
      /\ pass' = [pc |-> "walk", resumes |-> TRUE, from |-> checkpoint.cursor, upto |-> published,
                  i |-> 1, until |-> clock, at |-> checkpoint.cursor,
                  pending |-> {d \in Labels!Decisions : decided[d] > 0 /\ Labels!Excluded[d] = Labels!NoLabel
                                                          /\ checkpoint.open[d] = Labels!NoPosition},
                  subscribed |-> checkpoint.subscribed, last |-> checkpoint.last, open |-> Labels!Restored]
      /\ UNCHANGED <<clock, tape, published, deleted, holed, decided, twins, lagged, whole, checkpoint>>
  BY DEF Labels!Resume, Labels!tapes
<1>2. ReplayTypes /\ Receipted BY DEF ReplayInv
<1>3. /\ checkpoint.cursor \in Nat /\ checkpoint.subscribed \in BOOLEAN /\ checkpoint.last \in Nat
      /\ \A d \in Labels!Decisions : checkpoint.open[d] \in Places
      /\ clock \in Nat /\ published \in Nat
      /\ outcome \in [Labels!Decisions -> [kind : {"none", "complete", "incomplete", "duplicate"}, exit : Nat]]
  BY <1>2, CheckpointFields, TapeFields DEF ReplayTypes
<1>4. ASSUME NEW d \in Labels!Decisions
      PROVE  /\ outcome'[d] = outcome[d] \/ (outcome'[d].kind = "duplicate" /\ Labels!Unlabelled(d))
             /\ outcome'[d] \in [kind : {"none", "complete", "incomplete", "duplicate"}, exit : Nat]
             /\ Labels!Unlabelled(d)' => Labels!Unlabelled(d)
  <2>1. outcome'[d] = IF d \in Labels!Duplicates THEN [kind |-> "duplicate", exit |-> 0] ELSE outcome[d]
    BY <1>1 DEF Labels!Excluded
  <2>2. CASE d \in Labels!Duplicates
    <3>1. Labels!Unlabelled(d) BY <2>2 DEF Labels!Duplicates
    <3> QED BY <2>1, <2>2, <3>1
  <2>3. CASE d \notin Labels!Duplicates BY <2>1, <2>3, <1>1, <1>3 DEF Labels!Unlabelled
  <2> QED BY <2>2, <2>3
<1>5. outcome' \in [Labels!Decisions -> [kind : {"none", "complete", "incomplete", "duplicate"}, exit : Nat]]
  <2>1. \E f : outcome' = [d \in Labels!Decisions |-> f[d]]
    <3>1. outcome' = [d \in Labels!Decisions |-> outcome'[d]] BY <1>1 DEF Labels!Excluded
    <3> QED BY <3>1
  <2> QED BY <2>1, <1>4
<1>6. /\ pass'.pc = "walk" /\ pass'.resumes = TRUE /\ pass'.from = checkpoint.cursor /\ pass'.upto = published
      /\ pass'.i = 1 /\ pass'.until = clock /\ pass'.at = checkpoint.cursor
      /\ pass'.subscribed = checkpoint.subscribed /\ pass'.last = checkpoint.last
      /\ pass'.pending = {d \in Labels!Decisions : decided[d] > 0 /\ outcome'[d] = Labels!NoLabel
                                                     /\ checkpoint.open[d] = Labels!NoPosition}
      /\ \A d \in Labels!Decisions :
           pass'.open[d] = IF outcome'[d] = Labels!NoLabel THEN checkpoint.open[d] ELSE Labels!NoPosition
  BY <1>1 DEF Labels!Restored
<1>7. ReplayTypes'
  <2>1. \A d \in Labels!Decisions : pass'.open[d] \in Places BY <1>3, <1>6, EmptyPlace
  <2>2. Labels!Restored \in [Labels!Decisions -> Places]
    <3>1. \A d \in Labels!Decisions : Labels!Restored[d] \in Places BY <2>1, <1>1
    <3> QED BY <3>1 DEF Labels!Restored
  <2>3. pass' \in [pc : {"idle", "walk", "save"}, resumes : BOOLEAN, from : Nat, upto : Nat, i : Nat \ {0},
                   until : Nat, at : Nat, pending : SUBSET Labels!Decisions, subscribed : BOOLEAN,
                   last : Nat, open : [Labels!Decisions -> Places]]
    BY <2>2, <1>1, <1>3
  <2> QED BY <2>3, <1>1, <1>2, <1>5 DEF ReplayTypes
<1>8. Receipted' /\ Shortened' /\ Whole' BY <1>1 DEF ReplayInv, Receipted, Shortened, Whole
<1>9. Captured'
  <2>1. \A d \in Labels!Decisions : outcome'[d] # Labels!NoLabel => decided[d] > 0
    BY <1>4 DEF ReplayInv, Captured, Labels!Unlabelled
  <2> QED BY <2>1, <1>1 DEF ReplayInv, Captured
<1>10. Instant(checkpoint.cursor)' /\ Carried(checkpoint.cursor, checkpoint.last, checkpoint.subscribed)'
  <2>1. /\ Instant(checkpoint.cursor)
        /\ Carried(checkpoint.cursor, checkpoint.last, checkpoint.subscribed)
    BY DEF ReplayInv, Checkpointed
  <2>2. Passed(checkpoint.cursor, checkpoint.last)' BY <2>1, <1>1, <1>4 DEF Carried, Passed
  <2> QED BY <2>1, <2>2, <1>1 DEF Instant, Carried, Heard
<1>11. ASSUME NEW d \in Labels!Decisions
       PROVE  /\ Position(d, checkpoint.open[d], checkpoint.cursor, checkpoint.last, TRUE)
              /\ Position(d, checkpoint.open[d], checkpoint.cursor, checkpoint.last, TRUE)'
  BY <1>1 DEF ReplayInv, Checkpointed, Position
<1>12. Checkpointed'
  <2>1. \A d \in Labels!Decisions :
          Labels!Unlabelled(d)' /\ checkpoint.open[d] = Labels!NoPosition => decided[d] > checkpoint.cursor
    BY <1>4 DEF ReplayInv, Checkpointed
  <2> QED BY <2>1, <1>1, <1>10, <1>11 DEF Checkpointed
<1>13. Needless' BY <1>1, <1>4 DEF ReplayInv, Needless
<1>14. Passing'
  <2>1. ASSUME NEW d \in Labels!Decisions
        PROVE  /\ pass'.open[d] # Labels!NoPosition => Labels!Unlabelled(d)'
               /\ Position(d, pass.open[d], pass.at, pass.last, pass.resumes)'
               /\ Labels!Unlabelled(d)' => d \in pass'.pending \/ pass'.open[d] # Labels!NoPosition
    <3>1. CASE outcome'[d] # Labels!NoLabel
      BY <3>1, <1>6 DEF Position, Labels!Unlabelled
    <3>2. CASE outcome'[d] = Labels!NoLabel
      <4>1. pass'.open[d] = checkpoint.open[d] BY <3>2, <1>6
      <4>2. checkpoint.open[d] # Labels!NoPosition => decided[d] > 0 BY <1>11 DEF Position
      <4>3. Position(d, pass.open[d], pass.at, pass.last, pass.resumes)'
        BY <4>1, <1>1, <1>6, <1>11 DEF Position
      <4> QED BY <4>1, <4>2, <4>3, <3>2, <1>1, <1>6 DEF Labels!Unlabelled
    <3> QED BY <3>1, <3>2
  <2>2. Carried(pass.at, pass.last, pass.subscribed)' /\ Instant(pass.at)' /\ Heard(pass.last)'
        /\ pass'.last <= pass'.at
    BY <1>1, <1>6, <1>10 DEF Carried, Instant, Heard, Passed
  <2>3. Walking'
    <3>1. ASSUME NEW d \in pass'.pending
          PROVE  /\ Labels!Unlabelled(d)' /\ decided'[d] > pass'.at /\ pass'.open[d] = Labels!NoPosition
                 /\ checkpoint'.open[d] = Labels!NoPosition
      <4>1. d \in Labels!Decisions /\ decided[d] > 0 /\ outcome'[d] = Labels!NoLabel
            /\ checkpoint.open[d] = Labels!NoPosition
        BY <1>6
      <4>2. Labels!Unlabelled(d)' BY <4>1, <1>1 DEF Labels!Unlabelled
      <4>3. decided'[d] > pass'.at BY <4>1, <4>2, <1>1, <1>6, <1>12 DEF Checkpointed
      <4> QED BY <4>1, <4>2, <4>3, <1>1, <1>6
    <3> QED BY <3>1, <1>1, <1>3, <1>6 DEF Walking
  <2>4. Under'
    <3>1. pass'.from <= pass'.at /\ ~(pass'.at > pass'.from) /\ pass'.from = checkpoint'.cursor BY <1>1, <1>3, <1>6
    <3> QED BY <2>1, <2>2, <2>3, <3>1, <1>6 DEF Under
  <2> QED BY <2>4, <1>6 DEF Passing
<1>15. Labelled'
  <2>1. \A d \in Labels!Decisions : outcome'[d].kind \in {"complete", "incomplete"} => outcome'[d] = outcome[d]
    BY <1>4
  <2> QED BY <2>1, <1>1 DEF ReplayInv, Labelled
<1> QED BY <1>7, <1>8, <1>9, <1>12, <1>13, <1>14, <1>15 DEF ReplayInv

\* A pass that repeats the replay of a decision: no position, from before the decision.
LEMMA ReplayReworks == ReplayInv /\ Labels!Rework => ReplayInv'
<1> SUFFICES ASSUME ReplayInv, Labels!Rework PROVE ReplayInv' OBVIOUS
<1> DEFINE open == {d \in Labels!Decisions : Labels!Unlabelled(d)}
<1>1. PICK first \in open :
        LET from == Labels!Less(decided[first], Margin)
        IN /\ \A d \in open : decided[first] <= decided[d]
           /\ pass' = [Labels!NoPass EXCEPT !.pc = "walk", !.resumes = FALSE, !.from = from,
                                            !.upto = published, !.at = from, !.pending = open]
  BY DEF Labels!Rework
<1>2. /\ pass = Labels!NoPass
      /\ UNCHANGED <<clock, tape, published, deleted, holed, decided, twins, outcome, lagged, whole, checkpoint>>
  BY DEF Labels!Rework, Labels!tapes, Labels!labels
<1>3. ReplayTypes /\ Receipted BY DEF ReplayInv
<1>4. \A d \in Labels!Decisions : decided[d] \in Nat BY <1>3, TapeFields
<1>5. PICK from : from = Labels!Less(decided[first], Margin) OBVIOUS
<1>6. from \in Nat /\ from < decided[first]
  <2>1. decided[first] \in Nat /\ decided[first] > 0 /\ Margin \in Nat /\ 0 < Margin
    BY <1>4, ReplayConstants DEF Labels!Unlabelled
  <2> QED BY <2>1, <1>5 DEF Labels!Less
<1>7. pass' = [pc |-> "walk", resumes |-> FALSE, from |-> from, upto |-> published, i |-> 1, until |-> 0,
               at |-> from, pending |-> open, subscribed |-> FALSE, last |-> 0,
               open |-> [d \in Labels!Decisions |-> Labels!NoPosition]]
  BY <1>1, <1>5 DEF Labels!NoPass
<1>8. /\ pass'.pc = "walk" /\ pass'.resumes = FALSE /\ pass'.from = from /\ pass'.upto = published
      /\ pass'.i = 1 /\ pass'.at = from /\ pass'.pending = open /\ pass'.subscribed = FALSE /\ pass'.last = 0
      /\ \A d \in Labels!Decisions : pass'.open[d] = Labels!NoPosition
  BY <1>7
<1>9. ReplayTypes'
  <2>1. published \in Nat BY <1>3, TapeFields
  <2>2. [d \in Labels!Decisions |-> Labels!NoPosition] \in [Labels!Decisions -> Places] BY EmptyPlace
  <2>3. pass' \in [pc : {"idle", "walk", "save"}, resumes : BOOLEAN, from : Nat, upto : Nat, i : Nat \ {0},
                   until : Nat, at : Nat, pending : SUBSET Labels!Decisions, subscribed : BOOLEAN,
                   last : Nat, open : [Labels!Decisions -> Places]]
    BY <2>1, <2>2, <1>6, <1>7
  <2> QED BY <2>3, <1>2, <1>3 DEF ReplayTypes
<1>10. Receipted' /\ Shortened' /\ Captured' BY <1>2 DEF ReplayInv, Receipted, Shortened, Captured
<1>11. Checkpointed' BY <1>2 DEF ReplayInv, Checkpointed, Instant, Carried, Heard, Passed, Position, Labels!Unlabelled
<1>12. Needless' /\ Whole' BY <1>2 DEF ReplayInv, Needless, Whole, Labels!Unlabelled
<1>13. Walking'
  <2>1. \A d \in open : Labels!Unlabelled(d)' /\ decided[d] > from BY <1>1, <1>2, <1>4, <1>6 DEF Labels!Unlabelled
  <2>2. published \in Nat BY <1>3, TapeFields
  <2> QED BY <2>1, <2>2, <1>2, <1>8 DEF Walking
<1>14. Under'
  <2>1. from <= from /\ ~(from > from) BY <1>6
  <2>2. pass'.last <= pass'.at /\ Heard(pass.last)' BY <1>6, <1>8 DEF Heard
  <2>3. \A d \in Labels!Decisions : Position(d, pass.open[d], pass.at, pass.last, pass.resumes)'
    BY <1>8 DEF Position
  <2> QED BY <2>1, <2>2, <2>3, <1>8, <1>13 DEF Under
<1>15. Passing' BY <1>8, <1>14 DEF Passing
<1>16. Labelled' BY <1>2 DEF ReplayInv, Labelled
<1> QED BY <1>9, <1>10, <1>11, <1>12, <1>15, <1>16 DEF ReplayInv

\* A pass dies: its labels stay, the checkpoint is the one before it.
LEMMA ReplayDies == ReplayInv /\ Labels!Die => ReplayInv'
<1> SUFFICES ASSUME ReplayInv, Labels!Die PROVE ReplayInv' OBVIOUS
<1>1. /\ pass' = Labels!NoPass
      /\ UNCHANGED <<clock, tape, published, deleted, holed, decided, twins, outcome, lagged, whole, checkpoint>>
  BY DEF Labels!Die, Labels!tapes, Labels!labels
<1>2. ReplayTypes'
  <2>1. Labels!NoPass \in
          [pc : {"idle", "walk", "save"}, resumes : BOOLEAN, from : Nat, upto : Nat, i : Nat \ {0},
           until : Nat, at : Nat, pending : SUBSET Labels!Decisions, subscribed : BOOLEAN,
           last : Nat, open : [Labels!Decisions -> Places]]
    BY EmptyPlace DEF Labels!NoPass
  <2> QED BY <2>1, <1>1 DEF ReplayInv, ReplayTypes
<1>3. Receipted' /\ Shortened' /\ Captured' BY <1>1 DEF ReplayInv, Receipted, Shortened, Captured
<1>4. Checkpointed' BY <1>1 DEF ReplayInv, Checkpointed, Instant, Carried, Heard, Passed, Position, Labels!Unlabelled
<1>5. Needless' /\ Whole' BY <1>1 DEF ReplayInv, Needless, Whole, Labels!Unlabelled
<1>6. Passing' BY <1>1, IdlePass DEF Passing
<1>7. Labelled' BY <1>1 DEF ReplayInv, Labelled
<1> QED BY <1>2, <1>3, <1>4, <1>5, <1>6, <1>7 DEF ReplayInv

\* The checkpoint takes what the pass consumed, and every outcome that is not resolved is one
\* of its positions.
LEMMA ReplaySaves == ReplayInv /\ Labels!Save => ReplayInv'
<1> SUFFICES ASSUME ReplayInv, Labels!Save PROVE ReplayInv' OBVIOUS
<1>1. /\ pass.pc = "save" /\ pass' = Labels!NoPass
      /\ checkpoint' = [cursor |-> pass.at, saved |-> clock, subscribed |-> pass.subscribed,
                        last |-> pass.last, open |-> pass.open]
      /\ UNCHANGED <<clock, tape, published, deleted, holed, decided, twins, outcome, lagged, whole>>
  BY DEF Labels!Save, Labels!tapes, Labels!labels
<1>2. ReplayTypes /\ Receipted /\ Under /\ pass.resumes /\ pass.pending = {}
  BY <1>1 DEF ReplayInv, Passing, Under
<1>3. /\ checkpoint'.cursor = pass.at /\ checkpoint'.subscribed = pass.subscribed
      /\ checkpoint'.last = pass.last /\ checkpoint'.open = pass.open
  BY <1>1
<1>4. ReplayTypes'
  <2>1. Labels!NoPass \in
          [pc : {"idle", "walk", "save"}, resumes : BOOLEAN, from : Nat, upto : Nat, i : Nat \ {0},
           until : Nat, at : Nat, pending : SUBSET Labels!Decisions, subscribed : BOOLEAN,
           last : Nat, open : [Labels!Decisions -> Places]]
    BY EmptyPlace DEF Labels!NoPass
  <2>2. checkpoint' \in [cursor : Nat, saved : Nat, subscribed : BOOLEAN, last : Nat,
                         open : [Labels!Decisions -> Places]]
    BY <1>1, <1>2, PassFields, TapeFields
  <2> QED BY <2>1, <2>2, <1>1 DEF ReplayInv, ReplayTypes
<1>5. Receipted' /\ Shortened' /\ Captured' BY <1>1 DEF ReplayInv, Receipted, Shortened, Captured
<1>6. Checkpointed'
  <2>1. Instant(checkpoint.cursor)' /\ Carried(checkpoint.cursor, checkpoint.last, checkpoint.subscribed)'
    <3>1. Instant(pass.at) /\ Carried(pass.at, pass.last, pass.subscribed) BY <1>2 DEF Under
    <3> QED BY <3>1, <1>1, <1>3 DEF Instant, Carried, Heard, Passed, Labels!Unlabelled
  <2>2. ASSUME NEW d \in Labels!Decisions
        PROVE  /\ Position(d, checkpoint.open[d], checkpoint.cursor, checkpoint.last, TRUE)'
               /\ Labels!Unlabelled(d)' => checkpoint'.open[d] # Labels!NoPosition
    <3>1. Position(d, pass.open[d], pass.at, pass.last, pass.resumes) BY <1>2 DEF Under
    <3>2. pass.resumes = TRUE BY <1>2, PassFields
    <3>3. Position(d, pass.open[d], pass.at, pass.last, TRUE) BY <3>1, <3>2
    <3>4. Position(d, checkpoint.open[d], checkpoint.cursor, checkpoint.last, TRUE)'
      BY <3>3, <1>1, <1>3 DEF Position
    <3>5. Labels!Unlabelled(d) => pass.open[d] # Labels!NoPosition BY <1>2 DEF Under
    <3> QED BY <3>4, <3>5, <1>1, <1>3 DEF Labels!Unlabelled
  <2> QED BY <2>1, <2>2 DEF Checkpointed
<1>7. pass.from = checkpoint.cursor /\ pass.from <= pass.at /\ checkpoint.cursor \in Nat /\ pass.at \in Nat
  BY <1>2, PassFields, CheckpointFields DEF Under
<1>8. \A j \in deleted : tape[j].at \in Nat BY <1>2, TapeFields
<1>9. Needless'
  <2>1. ASSUME NEW j \in deleted, NEW d \in Labels!Decisions, Labels!Unlabelled(d)
        PROVE  \/ tape[j].at + Margin < decided[d]
               \/ pass.open[d] # Labels!NoPosition /\ tape[j].at + Margin < pass.at
    <3>1. pass.open[d] # Labels!NoPosition BY <1>2, <2>1 DEF Under
    <3>2. \/ tape[j].at + Margin < decided[d] \/ tape[j].at + Margin < checkpoint.cursor
      BY <2>1 DEF ReplayInv, Needless
    <3> QED BY <3>1, <3>2, <1>7, <1>8, ReplayConstants
  <2> QED BY <2>1, <1>1, <1>3 DEF Needless, Labels!Unlabelled
<1>10. Whole' BY <1>1, <1>3, <1>7, <1>8 DEF ReplayInv, Whole
<1>11. Passing' BY <1>1, IdlePass DEF Passing
<1>12. Labelled' BY <1>1 DEF ReplayInv, Labelled
<1> QED BY <1>4, <1>5, <1>6, <1>9, <1>10, <1>11, <1>12 DEF ReplayInv

\* What cleanup may remove.
LEMMA Removed ==
  ASSUME ReplayInv, NEW j \in 1..published, ~Labels!Protected(j)
  PROVE  /\ tape[j].at \in Nat /\ tape[j].at + Margin < clock
         /\ pass # Labels!NoPass => tape[j].at < pass.from
         /\ \A d \in Labels!Decisions : Labels!Unlabelled(d) =>
              \/ tape[j].at + Margin < decided[d]
              \/ checkpoint.open[d] # Labels!NoPosition /\ tape[j].at + Margin < checkpoint.cursor
<1>1. ReplayTypes /\ Receipted BY DEF ReplayInv
<1>2. /\ tape[j].at \in Nat /\ clock \in Nat /\ Margin \in Nat /\ pass.from \in Nat /\ checkpoint.cursor \in Nat
      /\ \A d \in Labels!Decisions : decided[d] \in Nat
  BY <1>1, TapeFields, PassFields, CheckpointFields, ReplayConstants
<1>3. ASSUME NEW n \in Nat, ~(tape[j].at >= Labels!Less(n, Margin)) PROVE tape[j].at + Margin < n
  BY <1>2, <1>3 DEF Labels!Less
<1>4. tape[j].at + Margin < clock BY <1>2, <1>3 DEF Labels!Protected
<1>5. pass # Labels!NoPass => tape[j].at < pass.from BY <1>2 DEF Labels!Protected
<1>6. ASSUME NEW d \in Labels!Decisions, Labels!Unlabelled(d)
      PROVE  \/ tape[j].at + Margin < decided[d]
             \/ checkpoint.open[d] # Labels!NoPosition /\ tape[j].at + Margin < checkpoint.cursor
  <2>1. ~(tape[j].at >= Labels!Less(IF Labels!Consumed(d) THEN checkpoint.cursor ELSE decided[d], Margin))
    BY <1>6 DEF Labels!Protected, Labels!ProtectedFrom
  <2>2. CASE Labels!Consumed(d)
    <3>1. checkpoint.open[d] # Labels!NoPosition BY <2>2 DEF Labels!Consumed
    <3> QED BY <2>1, <2>2, <3>1, <1>2, <1>3
  <2>3. CASE ~Labels!Consumed(d) BY <2>1, <2>3, <1>2, <1>3
  <2> QED BY <2>2, <2>3
<1> QED BY <1>2, <1>4, <1>5, <1>6

\* Cleanup: what it removes is needless for every decision that is not labelled.
LEMMA ReplayPrunes == ReplayInv /\ Labels!Prune => ReplayInv'
<1> SUFFICES ASSUME ReplayInv, Labels!Prune PROVE ReplayInv' OBVIOUS
<1>1. PICK gone \in SUBSET {k \in 1..published : ~Labels!Protected(k)} :
        /\ \A k \in gone : 1..k \subseteq gone
        /\ deleted' = deleted \cup gone
        /\ holed' = (holed \/ \E k \in gone \ deleted : tape[k].at > checkpoint.cursor /\ ~Labels!Trade(k))
  BY DEF Labels!Prune
<1>2. UNCHANGED <<clock, tape, published, decided, twins, outcome, lagged, whole, checkpoint, pass>>
  BY DEF Labels!Prune, Labels!labels
<1>3. ReplayTypes /\ Receipted BY DEF ReplayInv
<1>4. \A j \in gone : /\ j \in 1..published
                      /\ tape[j].at \in Nat /\ tape[j].at + Margin < clock
                      /\ pass # Labels!NoPass => tape[j].at < pass.from
                      /\ \A d \in Labels!Decisions : Labels!Unlabelled(d) =>
                           \/ tape[j].at + Margin < decided[d]
                           \/ checkpoint.open[d] # Labels!NoPosition /\ tape[j].at + Margin < checkpoint.cursor
  BY Removed
<1>5. holed \in BOOLEAN /\ holed' \in BOOLEAN /\ (holed => holed') BY <1>1, <1>3 DEF ReplayTypes
<1>6. ReplayTypes'
  <2>1. deleted' \subseteq 1..published BY <1>1, <1>4, <1>3, TapeFields
  <2> QED BY <2>1, <1>2, <1>3, <1>5 DEF ReplayTypes
<1>7. Receipted' /\ Captured' BY <1>2 DEF ReplayInv, Receipted, Captured
<1>8. Shortened'
  <2>1. ASSUME NEW k \in deleted' PROVE 1..k \subseteq deleted' /\ tape[k].at + Margin < clock
    <3>1. CASE k \in deleted BY <3>1, <1>1 DEF ReplayInv, Shortened
    <3>2. CASE k \in gone BY <3>2, <1>1, <1>4
    <3> QED BY <3>1, <3>2, <2>1, <1>1
  <2> QED BY <2>1, <1>2 DEF Shortened
<1>9. ASSUME NEW d \in Labels!Decisions, NEW p, NEW u, NEW l, NEW s, Position(d, p, u, l, s)
      PROVE  Position(d, p, u, l, s)'
  <2>1. Follows(tape, decided[d], p, u, l, s, holed) => Follows(tape, decided[d], p, u, l, s, holed')
    BY <1>5, FollowsHoled
  <2> QED BY <2>1, <1>2, <1>9 DEF Position
<1>10. ASSUME NEW u, NEW l, NEW s, Carried(u, l, s) PROVE Carried(u, l, s)'
  BY <1>1, <1>2, <1>5, <1>10 DEF Carried, Heard, Passed, Labels!Unlabelled
<1>11. Checkpointed'
  <2>1. Instant(checkpoint.cursor)' /\ Carried(checkpoint.cursor, checkpoint.last, checkpoint.subscribed)'
    <3>1. /\ Instant(checkpoint.cursor)
          /\ Carried(checkpoint.cursor, checkpoint.last, checkpoint.subscribed)
      BY DEF ReplayInv, Checkpointed
    <3>2. PICK u, l, s : u = checkpoint.cursor /\ l = checkpoint.last /\ s = checkpoint.subscribed OBVIOUS
    <3>3. Carried(u, l, s)' BY <3>1, <3>2, <1>10
    <3> QED BY <3>1, <3>2, <3>3, <1>2 DEF Instant, Carried, Heard, Passed
  <2>2. ASSUME NEW d \in Labels!Decisions
        PROVE  Position(d, checkpoint.open[d], checkpoint.cursor, checkpoint.last, TRUE)'
    <3>1. Position(d, checkpoint.open[d], checkpoint.cursor, checkpoint.last, TRUE)
      BY DEF ReplayInv, Checkpointed
    <3>2. PICK p, u, l : p = checkpoint.open[d] /\ u = checkpoint.cursor /\ l = checkpoint.last OBVIOUS
    <3>3. Position(d, p, u, l, TRUE)' BY <3>1, <3>2, <1>9
    <3> QED BY <3>2, <3>3, <1>2 DEF Position
  <2> QED BY <2>1, <2>2, <1>2 DEF ReplayInv, Checkpointed, Labels!Unlabelled
<1>12. Needless'
  <2>1. ASSUME NEW j \in deleted', NEW d \in Labels!Decisions, Labels!Unlabelled(d)
        PROVE  \/ tape[j].at + Margin < decided[d]
               \/ checkpoint.open[d] # Labels!NoPosition /\ tape[j].at + Margin < checkpoint.cursor
    <3>1. CASE j \in deleted BY <3>1, <2>1 DEF ReplayInv, Needless
    <3>2. CASE j \in gone BY <3>2, <2>1, <1>4
    <3> QED BY <3>1, <3>2, <1>1
  <2> QED BY <2>1, <1>2 DEF Needless, Labels!Unlabelled
<1>13. Whole'
  <2>1. ASSUME ~holed', NEW j \in deleted' PROVE tape[j].at <= checkpoint.cursor \/ IsTrade(tape, j)
    <3>1. CASE j \in deleted BY <3>1, <2>1, <1>5 DEF ReplayInv, Whole
    <3>2. CASE j \in gone \ deleted
      <4>1. ~(tape[j].at > checkpoint.cursor) \/ Labels!Trade(j) BY <3>2, <2>1, <1>1
      <4>2. tape[j].at \in Nat /\ checkpoint.cursor \in Nat BY <3>2, <1>4, <1>3, CheckpointFields
      <4> QED BY <4>1, <4>2 DEF IsTrade, Labels!Trade, Labels!Trades
    <3> QED BY <3>1, <3>2, <1>1
  <2> QED BY <2>1, <1>2 DEF Whole
<1>14. Passing'
  <2>1. CASE pass.pc = "idle" BY <2>1, <1>2 DEF ReplayInv, Passing
  <2>2. CASE pass.pc # "idle"
    <3>1. Under BY <2>2 DEF ReplayInv, Passing
    <3>2. pass # Labels!NoPass BY <2>2, IdlePass
    <3>3. ASSUME NEW j \in deleted', pass.at > pass.from PROVE tape[j].at <= pass.at
      <4>1. CASE j \in deleted BY <4>1, <3>1, <3>3 DEF Under
      <4>2. CASE j \in gone
        <5>1. tape[j].at < pass.from /\ tape[j].at \in Nat BY <4>2, <3>2, <1>4
        <5> QED BY <5>1, <3>1, <1>3, PassFields DEF Under
      <4> QED BY <4>1, <4>2, <1>1
    <3>4. ASSUME NEW d \in Labels!Decisions PROVE Position(d, pass.open[d], pass.at, pass.last, pass.resumes)'
      <4>1. Position(d, pass.open[d], pass.at, pass.last, pass.resumes) BY <3>1 DEF Under
      <4>2. PICK p, u, l, s : p = pass.open[d] /\ u = pass.at /\ l = pass.last /\ s = pass.resumes OBVIOUS
      <4>3. Position(d, p, u, l, s)' BY <4>1, <4>2, <1>9
      <4> QED BY <4>2, <4>3, <1>2 DEF Position
    <3>5. pass.resumes => Carried(pass.at, pass.last, pass.subscribed)'
      <4>1. pass.resumes => Carried(pass.at, pass.last, pass.subscribed) BY <3>1 DEF Under
      <4>2. PICK u, l, s : u = pass.at /\ l = pass.last /\ s = pass.subscribed OBVIOUS
      <4>3. pass.resumes => Carried(u, l, s)' BY <4>1, <4>2, <1>10
      <4> QED BY <4>2, <4>3, <1>2 DEF Carried, Heard, Passed
    <3>6. Walking => Walking'
      <4> SUFFICES ASSUME Walking PROVE Walking' OBVIOUS
      <4>1. \A k \in 1..pass.i-1 : tape[k].at <= pass.at \/ k \in deleted' BY <1>1 DEF Walking
      <4> QED BY <4>1, <1>2 DEF Walking, Labels!Unlabelled
    <3>7. Under' BY <3>1, <3>3, <3>4, <3>5, <3>6, <1>2 DEF Under, Heard, Instant, Labels!Unlabelled
    <3> QED BY <3>7, <2>2, <1>2 DEF Passing
  <2> QED BY <2>1, <2>2
<1>15. Labelled' BY <1>2, <1>5 DEF ReplayInv, Labelled
<1> QED BY <1>6, <1>7, <1>8, <1>11, <1>12, <1>13, <1>14, <1>15 DEF ReplayInv

\* A row that is gone, or that the pass need not read.
LEMMA ReplaySkips ==
  ReplayInv /\ Labels!Walk /\ (pass.i \in deleted \/ tape[pass.i].at <= pass.from) => ReplayInv'
<1> SUFFICES ASSUME ReplayInv, Labels!Walk, pass.i \in deleted \/ tape[pass.i].at <= pass.from
             PROVE  ReplayInv'
  OBVIOUS
<1>1. /\ pass.pc = "walk" /\ pass.i <= pass.upto /\ pass' = [pass EXCEPT !.i = @ + 1]
      /\ UNCHANGED <<clock, tape, published, deleted, holed, decided, twins, outcome, lagged, whole, checkpoint>>
  BY DEF Labels!Walk, Labels!tapes, Labels!labels
<1>2. ReplayTypes /\ Receipted /\ Under /\ Walking BY <1>1 DEF ReplayInv, Passing, Under
<1>3. /\ pass'.pc = pass.pc /\ pass'.resumes = pass.resumes /\ pass'.from = pass.from /\ pass'.upto = pass.upto
      /\ pass'.i = pass.i + 1 /\ pass'.until = pass.until /\ pass'.at = pass.at /\ pass'.pending = pass.pending
      /\ pass'.subscribed = pass.subscribed /\ pass'.last = pass.last /\ pass'.open = pass.open
  BY <1>1, <1>2 DEF ReplayTypes
<1>4. ReplayTypes'
  <2>1. pass.i + 1 \in Nat \ {0} BY <1>2, PassFields
  <2>2. pass' \in [pc : {"idle", "walk", "save"}, resumes : BOOLEAN, from : Nat, upto : Nat, i : Nat \ {0},
                   until : Nat, at : Nat, pending : SUBSET Labels!Decisions, subscribed : BOOLEAN,
                   last : Nat, open : [Labels!Decisions -> Places]]
    BY <2>1, <1>1, <1>2 DEF ReplayTypes
  <2> QED BY <2>2, <1>1, <1>2 DEF ReplayTypes
<1>5. Receipted' /\ Shortened' /\ Captured' BY <1>1 DEF ReplayInv, Receipted, Shortened, Captured
<1>6. Checkpointed' BY <1>1 DEF ReplayInv, Checkpointed, Instant, Carried, Heard, Passed, Position, Labels!Unlabelled
<1>7. Needless' /\ Whole' BY <1>1 DEF ReplayInv, Needless, Whole, Labels!Unlabelled
<1>8. pass.i \in Nat \ {0} /\ pass.upto \in Nat /\ pass.from \in Nat /\ pass.at \in Nat /\ published <= Len(tape)
      /\ Len(tape) \in Nat
  BY <1>2, PassFields, TapeFields
<1>9. Walking'
  <2>1. tape[pass.i].at <= pass.at \/ pass.i \in deleted
    <3>1. pass.i \in 1..Len(tape) BY <1>1, <1>2, <1>8 DEF Walking
    <3>2. tape[pass.i].at \in Nat BY <3>1, <1>2, TapeFields
    <3> QED BY <3>2, <1>2, <1>8 DEF Under
  <2>2. \A k \in 1..pass'.i-1 : k = pass.i \/ k \in 1..pass.i-1 BY <1>3, <1>8
  <2>3. \A k \in 1..pass.i-1 : k \in 1..pass'.i-1 BY <1>3, <1>8
  <2>4. pass'.at = pass'.from \/ \E k \in 1..pass'.i-1 : k <= Len(tape) /\ tape[k].at = pass'.at
    BY <2>3, <1>2, <1>3 DEF Walking
  <2>5. \A k \in 1..pass'.i-1 : tape[k].at <= pass'.at \/ k \in deleted BY <2>1, <2>2, <1>2, <1>3 DEF Walking
  <2>6. pass'.upto = published /\ pass'.i <= pass'.upto + 1 BY <1>1, <1>2, <1>3, <1>8 DEF Walking
  <2>7. \A d \in pass'.pending :
          /\ Labels!Unlabelled(d)' /\ decided'[d] > pass'.at /\ pass'.open[d] = Labels!NoPosition
          /\ pass'.resumes => checkpoint'.open[d] = Labels!NoPosition
    BY <1>1, <1>2, <1>3 DEF Walking, Labels!Unlabelled
  <2>8. /\ pass'.resumes => pass'.until = clock
        /\ ~pass'.resumes => /\ pass'.subscribed => pass'.at > pass'.from
                             /\ \A d \in Labels!Decisions : pass'.open[d] # Labels!NoPosition => pass'.at > pass'.from
    BY <1>2, <1>3 DEF Walking
  <2> QED BY <2>4, <2>5, <2>6, <2>7, <2>8, <1>1 DEF Walking
<1>10. Under'
  <2>1. \A d \in Labels!Decisions : Position(d, pass.open[d], pass.at, pass.last, pass.resumes)'
    BY <1>1, <1>2, <1>3 DEF Under, Position
  <2>2. pass'.resumes => Instant(pass.at)' /\ Carried(pass.at, pass.last, pass.subscribed)'
    BY <1>1, <1>2, <1>3 DEF Under, Instant, Carried, Heard, Passed, Labels!Unlabelled
  <2> QED BY <2>1, <2>2, <1>1, <1>2, <1>3, <1>9 DEF Under, Heard, Labels!Unlabelled
<1>11. Passing' BY <1>1, <1>3, <1>10 DEF Passing
<1>12. Labelled' BY <1>1 DEF ReplayInv, Labelled
<1> QED BY <1>4, <1>5, <1>6, <1>7, <1>11, <1>12 DEF ReplayInv

\* The outcome of a position is written as complete or incomplete.
LEMMA OutcomeWays ==
  ASSUME NEW p \in Places
  PROVE  LET o == Labels!Outcome(p)
         IN /\ o \in [kind : {"none", "complete", "incomplete", "duplicate"}, exit : Nat]
            /\ o # Labels!NoLabel
            /\ o.kind = "complete" => p.state = "exited" /\ ~p.gap /\ ~p.late /\ o.exit = p.exit
            /\ o.kind = "incomplete" => (p.state = "exited" => p.gap \/ p.late)
            /\ o.kind \in {"complete", "incomplete"}
<1>1. CASE p.state = "exited" /\ ~p.gap /\ ~p.late
  <2>1. Labels!Outcome(p) = [kind |-> "complete", exit |-> p.exit] BY <1>1 DEF Labels!Outcome
  <2> QED BY <2>1, <1>1 DEF Places, Labels!NoLabel
<1>2. CASE ~(p.state = "exited" /\ ~p.gap /\ ~p.late)
  <2>1. Labels!Outcome(p) = [kind |-> "incomplete", exit |-> 0] BY <1>2 DEF Labels!Outcome
  <2> QED BY <2>1, <1>2 DEF Labels!NoLabel
<1> QED BY <1>1, <1>2

\* What is written is written once.
LEMMA WrittenOnce ==
  ASSUME ReplayInv, NEW done \in SUBSET Labels!Decisions, NEW open,
         \A d \in done : open[d] \in Places, outcome' = Labels!Written(done, open), decided' = decided,
         NEW d \in Labels!Decisions
  PROVE  /\ outcome'[d] = IF d \in done /\ outcome[d] = Labels!NoLabel THEN Labels!Outcome(open[d]) ELSE outcome[d]
         /\ Labels!Unlabelled(d)' => Labels!Unlabelled(d) /\ d \notin done
         /\ Labels!Unlabelled(d) /\ d \notin done => Labels!Unlabelled(d)'
         /\ outcome' \in [Labels!Decisions -> [kind : {"none", "complete", "incomplete", "duplicate"}, exit : Nat]]
<1>1. outcome' = [e \in Labels!Decisions |->
                    IF e \in done /\ outcome[e] = Labels!NoLabel THEN Labels!Outcome(open[e]) ELSE outcome[e]]
  BY DEF Labels!Written
<1>2. \A e \in Labels!Decisions : outcome[e] \in [kind : {"none", "complete", "incomplete", "duplicate"}, exit : Nat]
  BY DEF ReplayInv, ReplayTypes
<1>3. outcome' \in [Labels!Decisions -> [kind : {"none", "complete", "incomplete", "duplicate"}, exit : Nat]]
  BY <1>1, <1>2, OutcomeWays
<1>4. outcome'[d] = IF d \in done /\ outcome[d] = Labels!NoLabel THEN Labels!Outcome(open[d]) ELSE outcome[d]
  BY <1>1
<1>5. d \in done => Labels!Outcome(open[d]) # Labels!NoLabel BY OutcomeWays
<1> QED BY <1>3, <1>4, <1>5 DEF Labels!Unlabelled

\* What the checkpoint and what is deleted need, they need still when less is to be found.
LEMMA WrittenKeeps ==
  ASSUME ReplayInv, \A d \in Labels!Decisions : Labels!Unlabelled(d)' => Labels!Unlabelled(d),
         NEW late1, late1 = lagged', lagged \subseteq late1,
         UNCHANGED <<clock, tape, published, deleted, holed, decided, checkpoint>>
  PROVE  Receipted' /\ Shortened' /\ Checkpointed' /\ Needless' /\ Whole'
<1>1. Receipted' /\ Shortened' /\ Whole' BY DEF ReplayInv, Receipted, Shortened, Whole
<1>2. Needless' BY DEF ReplayInv, Needless
<1>3. Checkpointed'
  <2>1. /\ Instant(checkpoint.cursor) /\ Heard(checkpoint.last) /\ checkpoint.last <= checkpoint.cursor
        /\ Passed(checkpoint.cursor, checkpoint.last)
        /\ ~holed /\ Acknowledged(tape, checkpoint.cursor) => checkpoint.subscribed
    BY DEF ReplayInv, Checkpointed, Carried
  <2>2. Passed(checkpoint.cursor, checkpoint.last)' BY <2>1 DEF Passed
  <2>3. Instant(checkpoint.cursor)' /\ Heard(checkpoint.last)' BY <2>1 DEF Instant, Heard
  <2>4. Carried(checkpoint.cursor, checkpoint.last, checkpoint.subscribed)' BY <2>1, <2>2, <2>3 DEF Carried
  <2>5. ASSUME NEW d \in Labels!Decisions
        PROVE  /\ Position(d, checkpoint.open[d], checkpoint.cursor, checkpoint.last, TRUE)'
               /\ Labels!Unlabelled(d)' /\ checkpoint'.open[d] = Labels!NoPosition => decided'[d] > checkpoint'.cursor
    <3>1. /\ Position(d, checkpoint.open[d], checkpoint.cursor, checkpoint.last, TRUE)
          /\ Labels!Unlabelled(d) /\ checkpoint.open[d] = Labels!NoPosition => decided[d] > checkpoint.cursor
      BY DEF ReplayInv, Checkpointed
    <3>2. Position(d, checkpoint.open[d], checkpoint.cursor, checkpoint.last, TRUE)' BY <3>1 DEF Position
    <3> QED BY <3>1, <3>2
  <2> QED BY <2>3, <2>4, <2>5 DEF Checkpointed
<1> QED BY <1>1, <1>2, <1>3

\* Cleanup took none of the rows from this one on.
LEMMA GoneFirst ==
  ASSUME ReplayInv, RowAhead, NEW j \in deleted
  PROVE  j < pass.i /\ tape[j].at < NextRow.at
<1>1. ReplayTypes /\ Receipted /\ pass.i \in 1..Len(tape) BY RowFacts DEF ReplayInv
<1>2. j \in 1..Len(tape) /\ Len(tape) \in Nat BY <1>1, TapeFields
<1>3. pass.i \notin 1..j
  <2>1. 1..j \subseteq deleted BY DEF ReplayInv, Shortened
  <2> QED BY <2>1 DEF RowAhead
<1>4. j < pass.i BY <1>1, <1>2, <1>3
<1> QED BY <1>1, <1>2, <1>4, TapeFields DEF Ordered, NextRow

\* What a pass that resumes carries after the row.
LEMMA RowCarried ==
  ASSUME ReplayInv, RowAhead, pass.resumes, \A d \in Labels!Decisions : Labels!Unlabelled(d)' => Labels!Unlabelled(d),
         UNCHANGED <<tape, deleted, decided, holed>>,
         NEW u, u = NextRow.at, NEW l, l = Later, NEW s,
         s = IF NextRow.kind = "gap" THEN FALSE ELSE pass.subscribed \/ NextRow.kind = "subscribed"
  PROVE  Carried(u, l, s)'
<1>1. ReplayTypes /\ Receipted /\ Under /\ pass.i \in 1..Len(tape) /\ pass.at < NextRow.at
  BY RowFacts DEF ReplayInv
<1>2. /\ NextRow.at \in Nat /\ pass.at \in Nat /\ pass.last \in Nat /\ pass.last <= pass.at
      /\ \A k \in 1..Len(tape) : tape[k].at \in Nat
  BY <1>1, RowFacts, PassFields, TapeFields DEF Under
<1>3. pass.last <= l /\ l <= u BY <1>1, <1>2 DEF Later
<1>4. Heard(l)'
  <2>1. CASE NextRow.kind \in {"in", "out"} BY <2>1, <1>1 DEF Later, NextRow, Heard, IsTrade
  <2>2. CASE NextRow.kind \notin {"in", "out"} BY <2>2, <1>1 DEF Later, Heard, Under
  <2> QED BY <2>1, <2>2
<1>5. Passed(u, l)'
  <2>1. ASSUME NEW j \in 1..Len(tape), IsTrade(tape, j), tape[j].at <= u, ~(tape[j].at <= l)
        PROVE  /\ j \in deleted
               /\ \A d \in Labels!Decisions : Labels!Unlabelled(d) => tape[j].at + Margin < decided[d]
    <3>1. j <= pass.i BY <2>1, <1>1, TapeFields, RowsUpTo DEF NextRow
    <3>2. j # pass.i BY <2>1, <1>2 DEF IsTrade, Later, NextRow
    <3>3. j \in 1..pass.i-1 BY <3>1, <3>2, <1>1, TapeFields
    <3>4. ~(tape[j].at <= pass.last)
      <4>1. l \in Nat BY <1>2 DEF Later
      <4> QED BY <4>1, <2>1, <1>2, <1>3
    <3>5. \A d \in Labels!Decisions : Labels!Unlabelled(d) => tape[j].at + Margin < decided[d]
      BY <2>1, <3>3, <3>4, PrintsMet
    <3>6. j \in deleted
      <4>1. CASE tape[j].at <= pass.at BY <4>1, <2>1, <3>4, <1>1 DEF Under, Carried, Passed
      <4>2. CASE ~(tape[j].at <= pass.at) BY <4>2, <3>3, RowFacts
      <4> QED BY <4>1, <4>2
    <3> QED BY <3>5, <3>6
  <2> QED BY <2>1 DEF Passed, IsTrade
<1>6. ASSUME ~holed, Acknowledged(tape, u) PROVE s
  <2>1. PICK b \in 1..Len(tape) : /\ tape[b].kind = "subscribed" /\ tape[b].at <= u
                                  /\ \A k \in b+1..Len(tape) : tape[k].at <= u => tape[k].kind # "gap"
    BY <1>6 DEF Acknowledged
  <2>2. b <= pass.i BY <2>1, <1>1, TapeFields, RowsUpTo DEF NextRow
  <2>3. CASE b = pass.i BY <2>1, <2>3 DEF NextRow
  <2>4. CASE b < pass.i
    <3>1. pass.i \in b+1..Len(tape) /\ b \in 1..pass.i-1 BY <2>4, <1>1, TapeFields
    <3>2. NextRow.kind # "gap" BY <2>1, <3>1, <1>2 DEF NextRow
    <3>3. tape[b].at <= pass.at
      <4>1. ASSUME ~(tape[b].at <= pass.at) PROVE FALSE
        <5>1. b \in deleted BY <4>1, <3>1, RowFacts
        <5>2. tape[b].at <= checkpoint.cursor \/ IsTrade(tape, b) BY <5>1, <1>6 DEF ReplayInv, Whole
        <5>3. ~IsTrade(tape, b) BY <2>1 DEF IsTrade
        <5>4. checkpoint.cursor <= pass.at /\ checkpoint.cursor \in Nat BY <1>1, CheckpointFields DEF Under
        <5> QED BY <5>2, <5>3, <5>4, <4>1, <1>2
      <4> QED BY <4>1
    <3>4. Acknowledged(tape, pass.at)
      <4>1. \A k \in b+1..Len(tape) : tape[k].at <= pass.at => tape[k].at <= u
        <5>1. \A k \in b+1..Len(tape) : k \in 1..Len(tape) BY <1>1, TapeFields
        <5> QED BY <5>1, <1>1, <1>2
      <4> QED BY <4>1, <2>1, <3>3 DEF Acknowledged
    <3>5. pass.subscribed BY <3>4, <1>1, <1>6 DEF Under, Carried
    <3> QED BY <3>2, <3>5
  <2> QED BY <2>2, <2>3, <2>4, <1>1, TapeFields
<1> QED BY <1>3, <1>4, <1>5, <1>6 DEF Carried

\* A pass meets a row: positions turn, and those that end are labelled.
LEMMA ReplayWalks == ReplayInv /\ Labels!Walk /\ RowAhead => ReplayInv'
<1> SUFFICES ASSUME ReplayInv, Labels!Walk, RowAhead PROVE ReplayInv' OBVIOUS
<1>1. ReplayTypes /\ Receipted /\ Under /\ Walking BY RowFacts DEF ReplayInv
<1>2. /\ pass.i \in 1..Len(tape) /\ pass.at < NextRow.at /\ pass.from <= pass.at
      /\ NextRow \in Receipts /\ NextRow.at \in Nat /\ NextRow.at <= clock
  BY RowFacts
<1>3. /\ pass.resumes \in BOOLEAN /\ pass.from \in Nat /\ pass.upto \in Nat /\ pass.i \in Nat \ {0}
      /\ pass.at \in Nat /\ pass.pending \subseteq Labels!Decisions /\ pass.subscribed \in BOOLEAN
      /\ pass.last \in Nat /\ Len(tape) \in Nat /\ published \in 0..Len(tape)
      /\ \A d \in Labels!Decisions : decided[d] \in Nat
      /\ \A k \in 1..Len(tape) : tape[k].at \in Nat
  BY <1>1, PassFields, TapeFields
<1>4. PICK o : o = [d \in Labels!Decisions |-> Labels!Walked(d, NextRow)] OBVIOUS
<1>5. PICK done : done = {d \in Labels!Decisions : o[d] # Labels!NoPosition
                                                    /\ (o[d].state = "exited" \/ Labels!Expired(d, NextRow.at))}
  OBVIOUS
<1>6. /\ outcome' = Labels!Written(done, o) /\ whole' = IF pass.resumes THEN whole ELSE whole \cup done
      /\ pass' = [pass EXCEPT !.i = @ + 1, !.at = NextRow.at, !.open = Labels!Without(done, o),
                    !.pending = @ \ {d \in @ : decided[d] <= NextRow.at},
                    !.subscribed = IF NextRow.kind = "gap" THEN FALSE ELSE @ \/ NextRow.kind = "subscribed",
                    !.last = IF NextRow.kind \in {"in", "out"} THEN NextRow.at ELSE @]
      /\ UNCHANGED <<clock, tape, published, deleted, holed, decided, twins, checkpoint, lagged>>
  <2>1. ~(pass.i \in deleted \/ tape[pass.i].at <= pass.from)
    BY <1>2, <1>3 DEF RowAhead, NextRow
  <2> QED BY <2>1, <1>4, <1>5 DEF Labels!Walk, Labels!tapes, Labels!Marked, Labels!Trades, NextRow
<1>7. /\ pass'.pc = pass.pc /\ pass'.resumes = pass.resumes /\ pass'.from = pass.from /\ pass'.upto = pass.upto
      /\ pass'.i = pass.i + 1 /\ pass'.until = pass.until /\ pass'.at = NextRow.at
      /\ pass'.pending = pass.pending \ {d \in pass.pending : decided[d] <= NextRow.at}
      /\ pass'.subscribed = (IF NextRow.kind = "gap" THEN FALSE ELSE pass.subscribed \/ NextRow.kind = "subscribed")
      /\ pass'.last = Later /\ pass'.open = Labels!Without(done, o)
  BY <1>1, <1>6 DEF ReplayTypes, Later
<1>8. ASSUME NEW d \in Labels!Decisions
      PROVE  /\ o[d] \in Places
             /\ o[d] = Labels!NoPosition <=> pass.open[d] = Labels!NoPosition
                                               /\ ~(d \in pass.pending /\ decided[d] <= NextRow.at)
             /\ o[d] # Labels!NoPosition => /\ Labels!Unlabelled(d) /\ decided[d] > 0
                                            /\ o[d].state \in {"open", "entered", "exited"}
             /\ o[d] # Labels!NoPosition /\ o[d].state # "exited" =>
                  /\ o[d].late => d \in lagged
                  /\ ~o[d].late /\ (pass.resumes \/ ~o[d].gap) =>
                       Follows(tape, decided[d], o[d], NextRow.at, Later, pass.resumes, holed)
             /\ o[d].state = "exited" /\ ~o[d].gap /\ ~o[d].late =>
                  o[d].exit = NextRow.at /\ Proven(tape, decided[d], pass.i)
             /\ /\ o[d] # Labels!NoPosition /\ pass.resumes /\ d \notin lagged /\ ~holed
                /\ o[d].state = "exited" \/ NextRow.at > decided[d] + Hold
                /\ o[d].state = "exited" => o[d].gap \/ o[d].late
                => Unproven(tape, decided[d]) /\ Hopeless(tape, decided[d], clock)
  <2>1. PICK w : w = Labels!Walked(d, NextRow) OBVIOUS
  <2>2. o[d] = w BY <2>1, <1>4
  <2> QED BY <2>1, <2>2, RowWalked
<1>9. /\ done \subseteq Labels!Decisions
      /\ \A d \in Labels!Decisions :
           d \in done <=> o[d] # Labels!NoPosition /\ (o[d].state = "exited" \/ NextRow.at > decided[d] + Hold)
  BY <1>5 DEF Labels!Expired
<1>10. ASSUME NEW d \in Labels!Decisions
       PROVE  /\ outcome'[d] = IF d \in done /\ outcome[d] = Labels!NoLabel THEN Labels!Outcome(o[d]) ELSE outcome[d]
              /\ Labels!Unlabelled(d)' => Labels!Unlabelled(d) /\ d \notin done
              /\ Labels!Unlabelled(d) /\ d \notin done => Labels!Unlabelled(d)'
              /\ outcome' \in [Labels!Decisions -> [kind : {"none", "complete", "incomplete", "duplicate"}, exit : Nat]]
  BY <1>6, <1>8, <1>9, WrittenOnce
<1>11. \A d \in Labels!Decisions :
         pass'.open[d] = IF d \in done THEN Labels!NoPosition ELSE o[d]
  BY <1>7 DEF Labels!Without
<1>12. ReplayTypes'
  <2>1. \A d \in Labels!Decisions : pass'.open[d] \in Places BY <1>8, <1>11, EmptyPlace
  <2>2. Labels!Without(done, o) \in [Labels!Decisions -> Places]
    <3>1. \A d \in Labels!Decisions : Labels!Without(done, o)[d] \in Places BY <2>1, <1>7
    <3> QED BY <3>1 DEF Labels!Without
  <2>3. pass.i + 1 \in Nat \ {0} /\ Later \in Nat BY <1>2, <1>3 DEF Later
  <2>4. /\ (IF NextRow.kind = "gap" THEN FALSE ELSE pass.subscribed \/ NextRow.kind = "subscribed") \in BOOLEAN
        /\ pass.pending \ {d \in pass.pending : decided[d] <= NextRow.at} \in SUBSET Labels!Decisions
    BY <1>3
  <2>5. pass' \in [pc : {"idle", "walk", "save"}, resumes : BOOLEAN, from : Nat, upto : Nat, i : Nat \ {0},
                   until : Nat, at : Nat, pending : SUBSET Labels!Decisions, subscribed : BOOLEAN,
                   last : Nat, open : [Labels!Decisions -> Places]]
    BY <2>2, <2>3, <2>4, <1>1, <1>2, <1>6 DEF ReplayTypes, Later
  <2>6. \E d : d \in Labels!Decisions BY DEF Labels!Decisions
  <2>7. outcome' \in [Labels!Decisions -> [kind : {"none", "complete", "incomplete", "duplicate"}, exit : Nat]]
    BY <2>6, <1>10
  <2>8. whole' \subseteq Labels!Decisions BY <1>1, <1>6, <1>9 DEF ReplayTypes
  <2> QED BY <2>5, <2>7, <2>8, <1>1, <1>6 DEF ReplayTypes
<1>13. Receipted' /\ Shortened' /\ Checkpointed' /\ Needless' /\ Whole'
  BY <1>6, <1>10, WrittenKeeps
<1>14. Captured'
  <2>1. \A d \in Labels!Decisions : outcome'[d] # Labels!NoLabel => decided[d] > 0
    BY <1>8, <1>9, <1>10 DEF ReplayInv, Captured
  <2> QED BY <2>1, <1>6 DEF ReplayInv, Captured
<1>15. NextRow.at > pass.from /\ tape[pass.i].at = NextRow.at BY <1>2, <1>3 DEF NextRow
<1>16. ASSUME NEW d \in Labels!Decisions PROVE Position(d, pass.open[d], pass.at, pass.last, pass.resumes)'
  <2>1. CASE pass'.open[d] = Labels!NoPosition BY <2>1 DEF Position
  <2>2. CASE pass'.open[d] # Labels!NoPosition
    <3>1. d \notin done /\ pass'.open[d] = o[d] BY <2>2, <1>11
    <3>2. o[d].state # "exited" BY <2>2, <3>1, <1>9
    <3>3. /\ o[d].state \in {"open", "entered"} /\ decided[d] > 0 /\ (o[d].late => d \in lagged)
          /\ ~o[d].late /\ (pass.resumes \/ ~o[d].gap) =>
               Follows(tape, decided[d], o[d], NextRow.at, Later, pass.resumes, holed)
      BY <2>2, <3>1, <3>2, <1>8
    <3> QED BY <3>1, <3>3, <1>6, <1>7 DEF Position
  <2> QED BY <2>1, <2>2
<1>17. Walking'
  <2>1. pass'.upto = published' /\ pass'.i <= pass'.upto + 1 BY <1>1, <1>3, <1>6, <1>7 DEF Walking, RowAhead
  <2>2. pass.i \in 1..pass'.i-1 /\ pass.i <= Len(tape) BY <1>2, <1>3, <1>7
  <2>3. \E k \in 1..pass'.i-1 : k <= Len(tape) /\ tape[k].at = pass'.at BY <2>2, <1>7, <1>15
  <2>4. \A k \in 1..pass'.i-1 : tape[k].at <= pass'.at
    <3>1. \A k \in 1..pass'.i-1 : k \in 1..Len(tape) /\ k <= pass.i BY <1>2, <1>3, <1>7
    <3> QED BY <3>1, <1>1, <1>2, <1>7, <1>15, TapeFields, RowsUpTo
  <2>5. ASSUME NEW d \in pass'.pending
        PROVE  /\ Labels!Unlabelled(d)' /\ decided'[d] > pass'.at /\ pass'.open[d] = Labels!NoPosition
               /\ pass'.resumes => checkpoint'.open[d] = Labels!NoPosition
    <3>1. d \in pass.pending /\ d \in Labels!Decisions /\ ~(decided[d] <= NextRow.at) BY <1>3, <1>7
    <3>2. /\ Labels!Unlabelled(d) /\ pass.open[d] = Labels!NoPosition
          /\ pass.resumes => checkpoint.open[d] = Labels!NoPosition
      BY <3>1, <1>1 DEF Walking
    <3>3. o[d] = Labels!NoPosition BY <3>1, <3>2, <1>8
    <3>4. d \notin done /\ pass'.open[d] = Labels!NoPosition BY <3>1, <3>3, <1>9, <1>11
    <3>5. decided'[d] > pass'.at BY <3>1, <1>2, <1>3, <1>6, <1>7
    <3> QED BY <3>1, <3>2, <3>4, <3>5, <1>6, <1>7, <1>10
  <2>6. pass'.resumes => pass'.until = clock' BY <1>1, <1>6, <1>7 DEF Walking
  <2>7. pass'.at > pass'.from BY <1>7, <1>15
  <2> QED BY <2>1, <2>3, <2>4, <2>5, <2>6, <2>7, <1>6 DEF Walking
<1>18. Under'
  <2>1. /\ pass'.from <= pass'.at /\ pass'.last <= pass'.at BY <1>1, <1>2, <1>3, <1>7, <1>15 DEF Later, Under
  <2>2. \A j \in deleted' : tape'[j].at <= pass'.at
    <3>1. \A j \in deleted : tape[j].at \in Nat /\ tape[j].at < NextRow.at BY <1>1, TapeFields, GoneFirst
    <3> QED BY <3>1, <1>2, <1>6, <1>7
  <2>3. Heard(pass.last)'
    <3>1. CASE NextRow.kind \in {"in", "out"} BY <3>1, <1>2, <1>6, <1>7 DEF Later, NextRow, Heard, IsTrade
    <3>2. CASE NextRow.kind \notin {"in", "out"} BY <3>2, <1>1, <1>6, <1>7 DEF Later, Heard, Under
    <3> QED BY <3>1, <3>2
  <2>4. \A d \in Labels!Decisions : pass'.open[d] # Labels!NoPosition => Labels!Unlabelled(d)'
    BY <1>8, <1>10, <1>11
  <2>5. ASSUME pass'.resumes
        PROVE  /\ pass'.from = checkpoint'.cursor /\ Instant(pass.at)'
               /\ Carried(pass.at, pass.last, pass.subscribed)'
               /\ \A d \in Labels!Decisions :
                    Labels!Unlabelled(d)' => d \in pass'.pending \/ pass'.open[d] # Labels!NoPosition
    <3>1. pass.resumes BY <2>5, <1>7
    <3>2. pass'.from = checkpoint'.cursor BY <3>1, <1>1, <1>6, <1>7 DEF Under
    <3>3. Instant(pass.at)' BY <1>2, <1>6, <1>7, <1>15 DEF Instant
    <3>4. Carried(pass.at, pass.last, pass.subscribed)'
      <4>1. PICK u, l, s : /\ u = NextRow.at /\ l = Later
                           /\ s = IF NextRow.kind = "gap" THEN FALSE ELSE pass.subscribed \/ NextRow.kind = "subscribed"
        OBVIOUS
      <4>2. Carried(u, l, s)' BY <3>1, <4>1, <1>6, <1>10, RowCarried
      <4>3. u = pass'.at /\ l = pass'.last /\ s = pass'.subscribed BY <4>1, <1>7
      <4> QED BY <4>2, <4>3 DEF Carried, Heard, Passed
    <3>5. ASSUME NEW d \in Labels!Decisions, Labels!Unlabelled(d)', d \notin pass'.pending
          PROVE  pass'.open[d] # Labels!NoPosition
      <4>1. Labels!Unlabelled(d) /\ d \notin done BY <3>5, <1>10
      <4>2. d \in pass.pending \/ pass.open[d] # Labels!NoPosition BY <3>1, <4>1, <1>1 DEF Under
      <4>3. d \in pass.pending => decided[d] <= NextRow.at BY <3>5, <1>7
      <4>4. o[d] # Labels!NoPosition BY <4>2, <4>3, <1>8
      <4> QED BY <4>1, <4>4, <1>11
    <3> QED BY <3>2, <3>3, <3>4, <3>5
  <2>6. pass'.pc # "save" BY <1>7 DEF RowAhead
  <2> QED BY <2>1, <2>2, <2>3, <2>4, <2>5, <2>6, <1>16, <1>17 DEF Under
<1>19. Passing' BY <1>7, <1>18 DEF Passing, RowAhead
<1>20. Labelled'
  <2>1. ASSUME NEW d \in Labels!Decisions
        PROVE  /\ outcome'[d].kind = "complete" =>
                    \E x \in 1..Len(tape) : tape[x].at = outcome'[d].exit /\ Proven(tape, decided[d], x)
               /\ outcome'[d].kind = "incomplete" /\ d \notin lagged \cup whole' /\ ~holed =>
                    Unproven(tape, decided[d]) /\ Hopeless(tape, decided[d], clock)
    <3>1. CASE outcome'[d] = outcome[d]
      <4>1. d \notin whole' => d \notin whole BY <1>6
      <4> QED BY <3>1, <4>1 DEF ReplayInv, Labelled
    <3>2. CASE d \in done /\ outcome'[d] = Labels!Outcome(o[d])
      <4>1. o[d] \in Places BY <1>8
      <4>2. ASSUME outcome'[d].kind = "complete"
            PROVE  \E x \in 1..Len(tape) : tape[x].at = outcome'[d].exit /\ Proven(tape, decided[d], x)
        <5>1. o[d].state = "exited" /\ ~o[d].gap /\ ~o[d].late /\ outcome'[d].exit = o[d].exit
          BY <3>2, <4>1, <4>2, OutcomeWays
        <5>2. o[d].exit = NextRow.at /\ Proven(tape, decided[d], pass.i) BY <5>1, <1>8
        <5> QED BY <5>1, <5>2, <1>2, <1>15
      <4>3. ASSUME outcome'[d].kind = "incomplete", d \notin lagged \cup whole', ~holed
            PROVE  Unproven(tape, decided[d]) /\ Hopeless(tape, decided[d], clock)
        <5>1. o[d].state = "exited" => o[d].gap \/ o[d].late BY <3>2, <4>1, <4>3, OutcomeWays
        <5>2. pass.resumes BY <3>2, <4>3, <1>6
        <5> QED BY <5>1, <5>2, <3>2, <4>3, <1>8, <1>9
      <4> QED BY <4>2, <4>3
    <3> QED BY <3>1, <3>2, <1>10
  <2> QED BY <2>1, <1>6 DEF Labelled
<1> QED BY <1>12, <1>13, <1>14, <1>19, <1>20 DEF ReplayInv

\* The pass is at its end: it has met every row that is published, or nothing unresolved needs it.
RowsOver == pass.pc = "walk" /\ pass.i > pass.upto

\* At the end of a pass, no row up to its last instant was missed.
LEMMA AllMet ==
  ASSUME ReplayInv, RowsOver, pass.resumes, NEW d \in Labels!Decisions, Labels!Unlabelled(d),
         NEW x \in 1..Len(tape), tape[x].at >= decided[d], tape[x].at < clock
  PROVE  tape[x].at <= pass.at
<1>1. ReplayTypes /\ Receipted /\ Under /\ Walking BY DEF ReplayInv, Passing, Under, RowsOver
<1>2. /\ tape[x].at \in Nat /\ decided[d] \in Nat /\ clock \in Nat /\ Margin \in Nat /\ pass.at \in Nat
      /\ pass.i \in Nat /\ published \in Nat /\ Len(tape) \in Nat
  BY <1>1, TapeFields, PassFields, ReplayConstants
<1>3. x <= published BY <1>1, <1>2, TapeFields
<1>4. x \in 1..pass.i-1 BY <1>1, <1>2, <1>3 DEF Walking, RowsOver
<1>5. tape[x].at <= pass.at \/ x \in deleted BY <1>1, <1>4 DEF Walking
<1>6. CASE x \in deleted /\ ~(tape[x].at <= pass.at)
  <2>1. tape[x].at + Margin < decided[d] BY <1>2, <1>6, GoneBefore DEF RowsOver
  <2> QED BY <2>1, <1>2
<1> QED BY <1>5, <1>6

\* What the end of a pass makes of the position of a decision.
LEMMA RowsEnded ==
  ASSUME ReplayInv, RowsOver, NEW d \in Labels!Decisions, NEW w, w = Labels!Ending(d),
         NEW at, at = IF pass.until > pass.at THEN pass.until ELSE pass.at
  PROVE  /\ w \in Places
         /\ w = Labels!NoPosition <=> pass.open[d] = Labels!NoPosition /\ ~(d \in pass.pending /\ pass.resumes)
         /\ w # Labels!NoPosition => /\ Labels!Unlabelled(d) /\ decided[d] > 0
                                     /\ w.state \in {"open", "entered"}
         /\ w # Labels!NoPosition /\ ~(at > decided[d] + Hold) =>
              /\ w.late => d \in lagged \/ (pass.resumes /\ d \in pass.pending)
              /\ ~w.late /\ (pass.resumes \/ ~w.gap) =>
                   Follows(tape, decided[d], w, pass.at, pass.last, pass.resumes, holed)
         /\ /\ w # Labels!NoPosition /\ pass.resumes /\ d \notin lagged \cup pass.pending /\ ~holed
            /\ w.gap \/ at > decided[d] + Hold
            => Unproven(tape, decided[d]) /\ Hopeless(tape, decided[d], clock)
<1>1. ReplayTypes /\ Receipted /\ Captured /\ Under /\ Walking
  BY DEF ReplayInv, Passing, Under, RowsOver
<1>2. /\ tape \in Seq(Receipts) /\ Ordered(tape) /\ Len(tape) \in Nat /\ clock \in Nat /\ decided[d] \in Nat
      /\ pass.at \in Nat /\ pass.until \in Nat /\ pass.resumes \in BOOLEAN /\ pass.open[d] \in Places
      /\ \A k \in 1..Len(tape) : tape[k].at \in Nat /\ tape[k].at <= clock
      /\ Fill \in Nat /\ Hold \in Nat
  BY <1>1, TapeFields, PassFields, ReplayConstants
<1>3. pass.resumes => at = clock /\ pass.at <= clock
  <2>1. pass.resumes => Instant(pass.at) /\ pass.until = clock BY <1>1 DEF Under, Walking
  <2>2. Instant(pass.at) => pass.at <= clock BY <1>2 DEF Instant
  <2> QED BY <2>1, <2>2, <1>2
<1>4. CASE pass.open[d] # Labels!NoPosition
  <2>1. PICK p : p = pass.open[d] OBVIOUS
  <2>2. w = [p EXCEPT !.late = p.late \/ (pass.resumes /\ Labels!Expired(d, pass.until))]
    <3>1. w = [pass.open[d] EXCEPT !.late = @ \/ (pass.resumes /\ Labels!Expired(d, pass.until))]
      <4>1. d \notin pass.pending BY <1>1, <1>4 DEF Walking
      <4> QED BY <4>1, <1>4 DEF Labels!Ending
    <3> QED BY <3>1, <2>1, Zenon
  <2>3. /\ Labels!Unlabelled(d) /\ p.state \in {"open", "entered"} /\ decided[d] > 0
        /\ p.late => d \in lagged
        /\ ~p.late /\ (pass.resumes \/ ~p.gap) =>
             Follows(tape, decided[d], p, pass.at, pass.last, pass.resumes, holed)
    BY <1>1, <1>4, <2>1 DEF Under, Position
  <2>4. (p.late \/ (pass.resumes /\ Labels!Expired(d, pass.until))) \in BOOLEAN BY <1>2, <2>1 DEF Places
  <2>5. /\ w \in Places /\ w.state = p.state /\ w.gap = p.gap
        /\ w.late = (p.late \/ (pass.resumes /\ Labels!Expired(d, pass.until)))
    BY <1>2, <2>1, <2>2, <2>4 DEF Places
  <2>6. w # Labels!NoPosition BY <2>3, <2>5, EmptyPlace
  <2>7. ASSUME ~(at > decided[d] + Hold)
        PROVE  /\ w.late => d \in lagged
               /\ ~w.late /\ (pass.resumes \/ ~w.gap) =>
                    Follows(tape, decided[d], w, pass.at, pass.last, pass.resumes, holed)
    <3>1. ~(pass.resumes /\ Labels!Expired(d, pass.until)) BY <2>7, <1>2, <1>3 DEF Labels!Expired
    <3>2. w = p BY <2>2, <3>1, <1>2, <2>1 DEF Places
    <3> QED BY <2>3, <3>2
  <2>8. ASSUME pass.resumes, d \notin lagged, ~holed, w.gap \/ at > decided[d] + Hold
        PROVE  Unproven(tape, decided[d]) /\ Hopeless(tape, decided[d], clock)
    <3>1. Follows(tape, decided[d], p, pass.at, pass.last, pass.resumes, holed) BY <2>3, <2>8
    <3>2. PICK a \in 1..Len(tape) :
            tape[a].at <= pass.at /\ Tracks(tape, decided[d], p, a, pass.at, pass.last, pass.resumes, holed)
      BY <3>1 DEF Follows
    <3>3. /\ Opens(tape, decided[d], a)
          /\ Waits(tape, decided[d], a, pass.at) \/ Holds(tape, decided[d], a, pass.at)
          /\ p.gap => Torn(tape, decided[d], a, pass.at)
      BY <2>3, <2>8, <3>2 DEF Tracks
    <3>4. ASSUME NEW x \in a..Len(tape), tape[x].at <= pass.at PROVE ~Exits(tape, decided[d], a, x)
      <4>1. PICK n, u : n = decided[d] /\ u = pass.at OBVIOUS
      <4>2. ~Exits(tape, n, a, x) BY <4>1, <3>3, <3>4, <1>2, NotYet
      <4> QED BY <4>1, <4>2
    <3>5. CASE p.gap
      <4>1. \A x \in a..Len(tape) : x \in 1..Len(tape) BY <1>2
      <4>2. \A x \in a..Len(tape) : tape[x].at < pass.at => ~Exits(tape, decided[d], a, x)
        BY <4>1, <3>4, <1>2
      <4>3. PICK n, u : n = decided[d] /\ u = pass.at OBVIOUS
      <4>4. Unproven(tape, n) BY <4>2, <4>3, <3>3, <3>5, <1>2, TornUnproven
      <4>5. Hopeless(tape, n, u) BY <4>3, <3>3, <3>5 DEF Hopeless
      <4>6. Hopeless(tape, n, clock) BY <4>3, <4>5, <1>2, <1>3, <2>8, HopelessLater
      <4> QED BY <4>3, <4>4, <4>6
    <3>6. CASE at > decided[d] + Hold
      <4>1. clock > decided[d] + Hold BY <3>6, <1>3, <2>8
      <4>2. ASSUME NEW x \in a..Len(tape) PROVE tape[x].at > decided[d] + Hold \/ ~Exits(tape, decided[d], a, x)
        <5>1. x \in 1..Len(tape) /\ a <= x BY <1>2
        <5>2. tape[x].at >= decided[d]
          <6>1. tape[a].at >= decided[d] BY <3>3 DEF Opens
          <6>2. tape[a].at <= tape[x].at BY <5>1, <1>2, RowsUpTo
          <6> QED BY <6>1, <6>2, <5>1, <1>2
        <5>3. CASE tape[x].at < clock
          <6>1. tape[x].at <= pass.at BY <5>1, <5>2, <5>3, <2>3, <2>8, AllMet
          <6> QED BY <6>1, <3>4
        <5> QED BY <5>1, <5>3, <4>1, <1>2
      <4>3. PICK n : n = decided[d] OBVIOUS
      <4>4. Unproven(tape, n) BY <4>2, <4>3, <3>3, <1>2, EndedUnproven
      <4> QED BY <4>1, <4>3, <4>4 DEF Hopeless
    <3> QED BY <3>5, <3>6, <2>5, <2>8
  <2> QED BY <1>4, <2>3, <2>5, <2>6, <2>7, <2>8
<1>5. CASE pass.open[d] = Labels!NoPosition /\ d \in pass.pending /\ pass.resumes
  <2>1. w = Labels!Opened(FALSE, TRUE) BY <1>5 DEF Labels!Ending
  <2>2. w \in Places /\ w # Labels!NoPosition /\ w.state = "open" /\ w.late BY <2>1, EmptyPlace
  <2>3. Labels!Unlabelled(d) BY <1>1, <1>5 DEF Walking
  <2> QED BY <2>2, <2>3, <1>5 DEF Labels!Unlabelled
<1>6. CASE pass.open[d] = Labels!NoPosition /\ ~(d \in pass.pending /\ pass.resumes)
  <2>1. w = Labels!NoPosition BY <1>6 DEF Labels!Ending
  <2> QED BY <2>1, <1>6, EmptyPlace
<1> QED BY <1>4, <1>5, <1>6

\* The end of a pass: decisions without a row, duplicates and expired positions are labelled.
LEMMA ReplayEnds == ReplayInv /\ Labels!WalkEnds => ReplayInv'
<1> SUFFICES ASSUME ReplayInv, Labels!WalkEnds PROVE ReplayInv' OBVIOUS
<1>1. RowsOver BY DEF Labels!WalkEnds, RowsOver
<1>2. ReplayTypes /\ Receipted /\ Under /\ Walking BY <1>1 DEF ReplayInv, Passing, Under, RowsOver
<1>3. PICK o : o = [d \in Labels!Decisions |-> Labels!Ending(d)] OBVIOUS
<1>4. PICK at : at = IF pass.until > pass.at THEN pass.until ELSE pass.at OBVIOUS
<1>5. PICK done : done = {d \in Labels!Decisions : o[d] # Labels!NoPosition /\ Labels!Settled(d, o[d], at)}
  OBVIOUS
<1>6. /\ outcome' = Labels!Written(done, o) /\ whole' = IF pass.resumes THEN whole ELSE whole \cup done
      /\ lagged' = IF pass.resumes THEN lagged \cup pass.pending ELSE lagged
      /\ pass' = IF pass.resumes
                   THEN [pass EXCEPT !.pc = "save", !.i = 1, !.upto = 0, !.open = Labels!Without(done, o),
                                     !.pending = {}]
                   ELSE Labels!NoPass
      /\ UNCHANGED <<clock, tape, published, deleted, holed, decided, twins, checkpoint>>
  BY <1>3, <1>4, <1>5 DEF Labels!WalkEnds, Labels!tapes, Labels!Marked
<1>7. ASSUME NEW d \in Labels!Decisions
      PROVE  /\ o[d] \in Places
             /\ o[d] = Labels!NoPosition <=>
                  pass.open[d] = Labels!NoPosition /\ ~(d \in pass.pending /\ pass.resumes)
             /\ o[d] # Labels!NoPosition => /\ Labels!Unlabelled(d) /\ decided[d] > 0
                                            /\ o[d].state \in {"open", "entered"}
             /\ o[d] # Labels!NoPosition /\ ~(at > decided[d] + Hold) =>
                  /\ o[d].late => d \in lagged \/ (pass.resumes /\ d \in pass.pending)
                  /\ ~o[d].late /\ (pass.resumes \/ ~o[d].gap) =>
                       Follows(tape, decided[d], o[d], pass.at, pass.last, pass.resumes, holed)
             /\ /\ o[d] # Labels!NoPosition /\ pass.resumes /\ d \notin lagged \cup pass.pending /\ ~holed
                /\ o[d].gap \/ at > decided[d] + Hold
                => Unproven(tape, decided[d]) /\ Hopeless(tape, decided[d], clock)
  <2>1. PICK w : w = Labels!Ending(d) OBVIOUS
  <2>2. o[d] = w BY <2>1, <1>3
  <2> QED BY <2>1, <2>2, <1>1, <1>4, RowsEnded
<1>8. /\ done \subseteq Labels!Decisions
      /\ \A d \in Labels!Decisions :
           d \in done <=> o[d] # Labels!NoPosition
                            /\ (o[d].gap \/ o[d].state = "exited" \/ at > decided[d] + Hold)
  BY <1>5 DEF Labels!Settled, Labels!Expired
<1>9. ASSUME NEW d \in Labels!Decisions
      PROVE  /\ outcome'[d] = IF d \in done /\ outcome[d] = Labels!NoLabel THEN Labels!Outcome(o[d]) ELSE outcome[d]
             /\ Labels!Unlabelled(d)' => Labels!Unlabelled(d) /\ d \notin done
             /\ Labels!Unlabelled(d) /\ d \notin done => Labels!Unlabelled(d)'
             /\ outcome' \in [Labels!Decisions -> [kind : {"none", "complete", "incomplete", "duplicate"}, exit : Nat]]
  BY <1>6, <1>7, <1>8, WrittenOnce
<1>10. lagged' \subseteq Labels!Decisions /\ lagged \subseteq lagged' /\ whole' \subseteq Labels!Decisions
  BY <1>2, <1>6, <1>8, PassFields DEF ReplayTypes
<1>11. pass.resumes =>
         /\ pass'.pc = "save" /\ pass'.resumes = pass.resumes /\ pass'.from = pass.from /\ pass'.at = pass.at
         /\ pass'.subscribed = pass.subscribed /\ pass'.last = pass.last /\ pass'.pending = {}
         /\ pass'.open = Labels!Without(done, o)
         /\ \A d \in Labels!Decisions : pass'.open[d] = IF d \in done THEN Labels!NoPosition ELSE o[d]
  BY <1>2, <1>6 DEF ReplayTypes, Labels!Without
<1>12. ReplayTypes'
  <2>1. Labels!Without(done, o) \in [Labels!Decisions -> Places]
    <3>1. \A d \in Labels!Decisions : (IF d \in done THEN Labels!NoPosition ELSE o[d]) \in Places
      BY <1>7, EmptyPlace
    <3> QED BY <3>1 DEF Labels!Without
  <2>2. Labels!NoPass \in
          [pc : {"idle", "walk", "save"}, resumes : BOOLEAN, from : Nat, upto : Nat, i : Nat \ {0},
           until : Nat, at : Nat, pending : SUBSET Labels!Decisions, subscribed : BOOLEAN,
           last : Nat, open : [Labels!Decisions -> Places]]
    BY EmptyPlace DEF Labels!NoPass
  <2>3. pass' \in [pc : {"idle", "walk", "save"}, resumes : BOOLEAN, from : Nat, upto : Nat, i : Nat \ {0},
                   until : Nat, at : Nat, pending : SUBSET Labels!Decisions, subscribed : BOOLEAN,
                   last : Nat, open : [Labels!Decisions -> Places]]
    <3>1. CASE pass.resumes
      <4>1. PICK f : f = Labels!Without(done, o) OBVIOUS
      <4>2. pass' = [pass EXCEPT !.pc = "save", !.i = 1, !.upto = 0, !.open = f, !.pending = {}]
        BY <3>1, <4>1, <1>6
      <4>3. f \in [Labels!Decisions -> Places] /\ {} \in SUBSET Labels!Decisions
            /\ 1 \in Nat \ {0} /\ 0 \in Nat
        BY <2>1, <4>1
      <4> QED BY <4>2, <4>3, <1>2 DEF ReplayTypes
    <3>2. CASE ~pass.resumes BY <3>2, <2>2, <1>6
    <3> QED BY <3>1, <3>2
  <2>4. \E d : d \in Labels!Decisions BY DEF Labels!Decisions
  <2>5. outcome' \in [Labels!Decisions -> [kind : {"none", "complete", "incomplete", "duplicate"}, exit : Nat]]
    BY <2>4, <1>9
  <2> QED BY <2>3, <2>5, <1>2, <1>6, <1>10 DEF ReplayTypes
<1>13. Receipted' /\ Shortened' /\ Checkpointed' /\ Needless' /\ Whole'
  BY <1>6, <1>9, <1>10, WrittenKeeps
<1>14. Captured'
  <2>1. \A d \in Labels!Decisions : outcome'[d] # Labels!NoLabel => decided[d] > 0
    BY <1>7, <1>8, <1>9 DEF ReplayInv, Captured
  <2> QED BY <2>1, <1>6 DEF ReplayInv, Captured
<1>15. ASSUME pass.resumes PROVE Under'
  <2>1. /\ pass'.from <= pass'.at /\ pass'.last <= pass'.at /\ Heard(pass.last)'
        /\ pass'.at > pass'.from => \A j \in deleted' : tape'[j].at <= pass'.at
    BY <1>2, <1>6, <1>11, <1>15 DEF Under, Heard
  <2>2. ASSUME NEW d \in Labels!Decisions
        PROVE  /\ pass'.open[d] # Labels!NoPosition => Labels!Unlabelled(d)'
               /\ Position(d, pass.open[d], pass.at, pass.last, pass.resumes)'
               /\ Labels!Unlabelled(d)' => pass'.open[d] # Labels!NoPosition
    <3>1. pass'.open[d] # Labels!NoPosition => d \notin done /\ pass'.open[d] = o[d] BY <1>11, <1>15
    <3>2. pass'.open[d] # Labels!NoPosition => Labels!Unlabelled(d)' BY <3>1, <1>7, <1>9
    <3>3. ASSUME pass'.open[d] # Labels!NoPosition
          PROVE  /\ o[d].state \in {"open", "entered"} /\ decided[d] > 0
                 /\ o[d].late => d \in lagged'
                 /\ ~o[d].late => Follows(tape, decided[d], o[d], pass.at, pass.last, pass.resumes, holed)
      BY <3>1, <3>3, <1>6, <1>7, <1>8, <1>15
    <3>4. Position(d, pass.open[d], pass.at, pass.last, pass.resumes)'
      BY <3>1, <3>3, <1>6, <1>11, <1>15 DEF Position
    <3>5. ASSUME Labels!Unlabelled(d)' PROVE pass'.open[d] # Labels!NoPosition
      <4>1. Labels!Unlabelled(d) /\ d \notin done BY <3>5, <1>9
      <4>2. d \in pass.pending \/ pass.open[d] # Labels!NoPosition BY <4>1, <1>2, <1>15 DEF Under
      <4> QED BY <4>1, <4>2, <1>7, <1>11, <1>15
    <3> QED BY <3>2, <3>4, <3>5
  <2>3. Instant(pass.at)' /\ Carried(pass.at, pass.last, pass.subscribed)'
    <3>1. /\ Instant(pass.at) /\ Heard(pass.last) /\ pass.last <= pass.at
          /\ Passed(pass.at, pass.last)
          /\ ~holed /\ Acknowledged(tape, pass.at) => pass.subscribed
      BY <1>2, <1>15 DEF Under, Carried
    <3>2. Passed(pass.at, pass.last)' BY <3>1, <1>6, <1>9, <1>11, <1>15 DEF Passed
    <3>3. Instant(pass.at)' /\ Heard(pass.last)' BY <3>1, <1>6, <1>11, <1>15 DEF Instant, Heard
    <3> QED BY <3>1, <3>2, <3>3, <1>6, <1>11, <1>15 DEF Carried
  <2>4. pass'.from = checkpoint'.cursor BY <1>2, <1>6, <1>11, <1>15 DEF Under
  <2>5. pass'.pc = "save" /\ pass'.resumes /\ pass'.pending = {} BY <1>11, <1>15
  <2> QED BY <2>1, <2>2, <2>3, <2>4, <2>5 DEF Under
<1>16. Passing'
  <2>1. CASE pass.resumes BY <2>1, <1>11, <1>15 DEF Passing
  <2>2. CASE ~pass.resumes BY <2>2, <1>6, IdlePass DEF Passing
  <2> QED BY <2>1, <2>2
<1>17. Labelled'
  <2>1. ASSUME NEW d \in Labels!Decisions
        PROVE  /\ outcome'[d].kind = "complete" =>
                    \E x \in 1..Len(tape) : tape[x].at = outcome'[d].exit /\ Proven(tape, decided[d], x)
               /\ outcome'[d].kind = "incomplete" /\ d \notin lagged' \cup whole' /\ ~holed =>
                    Unproven(tape, decided[d]) /\ Hopeless(tape, decided[d], clock)
    <3>1. CASE outcome'[d] = outcome[d]
      <4>1. d \notin lagged' \cup whole' => d \notin lagged \cup whole BY <1>6, <1>10
      <4> QED BY <3>1, <4>1 DEF ReplayInv, Labelled
    <3>2. CASE d \in done /\ outcome'[d] = Labels!Outcome(o[d])
      <4>1. o[d] \in Places /\ o[d].state \in {"open", "entered"} /\ o[d] # Labels!NoPosition
        BY <3>2, <1>7, <1>8
      <4>2. outcome'[d].kind # "complete" BY <3>2, <4>1, OutcomeWays
      <4>3. ASSUME d \notin lagged' \cup whole', ~holed
            PROVE  Unproven(tape, decided[d]) /\ Hopeless(tape, decided[d], clock)
        <5>1. pass.resumes BY <3>2, <4>3, <1>6
        <5>2. d \notin lagged \cup pass.pending BY <4>3, <5>1, <1>6
        <5>3. o[d].gap \/ at > decided[d] + Hold BY <3>2, <4>1, <1>8
        <5> QED BY <5>1, <5>2, <5>3, <4>1, <4>3, <1>7
      <4> QED BY <4>2, <4>3
    <3> QED BY <3>1, <3>2, <1>9
  <2> QED BY <2>1, <1>6 DEF Labelled
<1> QED BY <1>12, <1>13, <1>14, <1>16, <1>17 DEF ReplayInv

-----------------------------------------------------------------------------
(* The specification.                                                        *)
\* The parts that run beside the replay keep its state.
LEMMA ReplayKept ==
  ReplayInv /\ UNCHANGED <<clock, tape, published, deleted, decided, twins, outcome, checkpoint, pass,
                           lagged, holed, whole>> => ReplayInv'
<1> SUFFICES ASSUME ReplayInv,
                    UNCHANGED <<clock, tape, published, deleted, decided, twins, outcome, checkpoint, pass,
                                lagged, holed, whole>>
             PROVE  ReplayInv'
  OBVIOUS
<1>1. /\ ReplayTypes' /\ Receipted' /\ Shortened' /\ Captured' /\ Whole' /\ Labelled'
  BY DEF ReplayInv, ReplayTypes, Receipted, Shortened, Captured, Whole, Labelled
<1>2. Checkpointed' /\ Needless'
  BY DEF ReplayInv, Checkpointed, Needless, Instant, Carried, Heard, Passed, Position, Labels!Unlabelled
<1>3. Passing'
  BY DEF ReplayInv, Passing, Under, Walking, Instant, Carried, Heard, Passed, Position, Labels!Unlabelled
<1> QED BY <1>1, <1>2, <1>3 DEF ReplayInv

\* Every step of the replay keeps the invariant.
LEMMA ReplaySteps == ReplayInv /\ Labels!Next => ReplayInv'
<1> SUFFICES ASSUME ReplayInv, Labels!Next PROVE ReplayInv' OBVIOUS
<1>1. CASE Labels!Tick BY <1>1, ReplayTicks
<1>2. CASE Labels!Admit BY <1>2, ReplayAdmits
<1>3. CASE Labels!Publish BY <1>3, ReplayPublishes
<1>4. ASSUME NEW d \in Labels!Decisions, Labels!Capture(d) PROVE ReplayInv' BY <1>4, ReplayCaptures
<1>5. CASE Labels!Resume BY <1>5, ReplayResumes
<1>6. CASE Labels!Rework BY <1>6, ReplayReworks
<1>7. CASE Labels!Walk
  <2>1. CASE pass.i \in deleted \/ tape[pass.i].at <= pass.from BY <1>7, <2>1, ReplaySkips
  <2>2. CASE ~(pass.i \in deleted \/ tape[pass.i].at <= pass.from)
    <3>1. pass.pc = "walk" /\ pass.i <= pass.upto BY <1>7 DEF Labels!Walk
    <3>2. ReplayTypes /\ Receipted /\ Walking BY <3>1 DEF ReplayInv, Passing, Under
    <3>3. pass.i \in 1..Len(tape) BY <3>1, <3>2, PassFields, TapeFields DEF Walking
    <3>4. tape[pass.i].at \in Nat /\ pass.from \in Nat BY <3>2, <3>3, PassFields, TapeFields
    <3>5. RowAhead BY <2>2, <3>1, <3>4 DEF RowAhead
    <3> QED BY <1>7, <3>5, ReplayWalks
  <2> QED BY <2>1, <2>2
<1>8. CASE Labels!WalkEnds BY <1>8, ReplayEnds
<1>9. CASE Labels!Save BY <1>9, ReplaySaves
<1>10. CASE Labels!Die BY <1>10, ReplayDies
<1>11. CASE Labels!Prune BY <1>11, ReplayPrunes
<1> QED
  BY <1>1, <1>2, <1>3, <1>4, <1>5, <1>6, <1>7, <1>8, <1>9, <1>10, <1>11 DEF Labels!Next

\* The invariant says of each label what the tape says of its decision.
LEMMA ReplayExact == ReplayInv => LabelsExact
<1> SUFFICES ASSUME ReplayInv PROVE Labels!CompleteIsEarned /\ Labels!ExcludedIsUnproven
  BY DEF LabelsExact, Labels!LabelsExact
<1>1. \A s, i : Labels!Silent(s, i) = Quiet(tape, s, i)
  BY DEF Labels!Silent, Quiet, Labels!Trade, Labels!Trades, IsTrade
<1>2. \A d, s, a, x : Labels!Covered(s, a, x, d) = Covers(tape, decided[d], s, a, x)
  BY <1>1 DEF Labels!Covered, Covers, Labels!SubscribedAfter, Subscribed
<1>3. \A d, a, x : Labels!Completed(a, x, d) = Exits(tape, decided[d], a, x)
  BY DEF Labels!Completed, Exits, Labels!Trade, Labels!Trades, IsTrade
<1>4. \A d, s, a, x : /\ Labels!Begins(a, d) /\ Labels!Covered(s, a, x, d) /\ Labels!Completed(a, x, d)
                           => Proves(tape, decided[d], s, a, x)
                      /\ Proves(tape, decided[d], s, a, x)
                           => Labels!Begins(a, d) /\ Labels!Covered(s, a, x, d) /\ Labels!Completed(a, x, d)
  BY <1>2, <1>3 DEF Labels!Begins, Proves
<1>5. ASSUME NEW d \in Labels!Decisions, outcome[d].kind = "complete"
      PROVE  \E x \in 1..Len(tape) : \E a \in 1..x :
               /\ tape[x].at = outcome[d].exit /\ Labels!Begins(a, d)
               /\ Labels!Covered(a, a, x, d) /\ Labels!Completed(a, x, d)
  <2>1. PICK x \in 1..Len(tape) : tape[x].at = outcome[d].exit /\ Proven(tape, decided[d], x)
    BY <1>5 DEF ReplayInv, Labelled
  <2>2. PICK a \in 1..x : Proves(tape, decided[d], a, a, x) BY <2>1 DEF Proven
  <2> QED BY <2>1, <2>2, <1>4
<1>6. ASSUME NEW d \in Labels!Decisions,
             outcome[d].kind = "incomplete" /\ d \notin lagged \cup whole /\ ~holed,
             NEW x \in 1..Len(tape), NEW a \in 1..x
      PROVE  ~(Labels!Begins(a, d) /\ Labels!Covered(1, a, x, d) /\ Labels!Completed(a, x, d))
  <2>1. Unproven(tape, decided[d]) BY <1>6 DEF ReplayInv, Labelled
  <2>2. ~Proves(tape, decided[d], 1, a, x) BY <2>1 DEF Unproven
  <2> QED BY <2>2, <1>4
<1> QED BY <1>5, <1>6 DEF Labels!CompleteIsEarned, Labels!ExcludedIsUnproven

\* The invariant of the replay holds of the composition: no other part touches it.
THEOREM ReplayHolds == PartsSpec => []ReplayInv
<1>1. PartsInit => ReplayInv
  BY ReplayStarts DEF PartsInit
<1>2. ReplayInv /\ [PartsNext]_partsVars => ReplayInv'
  <2> SUFFICES ASSUME ReplayInv, [PartsNext]_partsVars PROVE ReplayInv' OBVIOUS
  <2>1. CASE UNCHANGED replay BY <2>1, ReplayKept DEF replay
  <2>2. CASE Labels!Next BY <2>2, ReplaySteps
  <2> QED BY <2>1, <2>2 DEF PartsNext, partsVars
<1> QED BY <1>1, <1>2, PTL DEF PartsSpec

\* Whatever dies, is published late or deleted, and however often the replay is resumed or
\* repeated: a complete outcome is what the rows from the decision on give, at the row that
\* gives it, and no outcome is excluded that the whole tape completes, unless the decision was
\* met behind the published tape, by a replay that did not resume, or a control is gone
\* (ml/labels.py, ml/checkpoint.py, retention.py).
THEOREM OutcomesExact == PartsSpec => []LabelsExact
<1>1. ReplayInv => LabelsExact BY ReplayExact
<1> QED BY <1>1, ReplayHolds, PTL

\* Cleanup removes no row that an unresolved outcome has not consumed: at a deletion the rows
\* behind every bound are needless, and later decisions are later than what is gone
\* (retention.py, protection_ranges; docs/PRIMARY_COMPLETENESS.md on retention loss).
THEOREM NeededRowsKept == PartsSpec => []Labels!UnconsumedHeld
<1>1. ReplayInv => Labels!UnconsumedHeld
  <2> SUFFICES ASSUME ReplayInv, NEW d \in Labels!Decisions, Labels!Unlabelled(d), NEW i \in deleted
               PROVE  tape[i].at < decided[d]
                      \/ (checkpoint.open[d] # Labels!NoPosition /\ tape[i].at <= checkpoint.cursor)
    BY DEF Labels!UnconsumedHeld
  <2>1. /\ tape[i].at \in Nat /\ decided[d] \in Nat /\ Margin \in Nat /\ checkpoint.cursor \in Nat
    BY TapeFields, CheckpointFields, ReplayConstants DEF ReplayInv
  <2>2. \/ tape[i].at + Margin < decided[d]
        \/ checkpoint.open[d] # Labels!NoPosition /\ tape[i].at + Margin < checkpoint.cursor
    BY DEF ReplayInv, Needless
  <2> QED BY <2>1, <2>2
<1> QED BY <1>1, ReplayHolds, PTL

-----------------------------------------------------------------------------
(* Induction: over the numbers up to a bound, and recursion up to it.      *)

\* A set of numbers has a least one.
LEMMA LeastNumber ==
  ASSUME NEW S, S \subseteq Nat, S # {}
  PROVE  \E n \in S : \A m \in S : n <= m
<1>1. PICK b \in S : TRUE OBVIOUS
<1> DEFINE T == {m \in S : m <= b}
           B == {{m \in T : m < n} : n \in T}
<1>2. IsFiniteSet(T)
  <2>1. T \in SUBSET Nat /\ b \in Nat /\ \A m \in T : m <= b BY <1>1
  <2> QED BY <2>1, FS_BoundedSetOfNaturals
<1>3. B \subseteq FiniteSubsetsOf(T)
  <2> SUFFICES ASSUME NEW n \in T PROVE {m \in T : m < n} \in FiniteSubsetsOf(T) OBVIOUS
  <2>1. {m \in T : m < n} \in SUBSET T OBVIOUS
  <2> QED BY <1>2, <2>1, FS_Subset DEF FiniteSubsetsOf
<1>4. B # {}
  <2>1. {m \in T : m < b} \in B BY <1>1
  <2> QED BY <2>1
<1>5. IsWellFoundedOn(StrictSubsetOrdering(T), FiniteSubsetsOf(T))
  BY <1>2, FS_StrictSubsetOrderingWellFounded
<1>6. PICK U \in B : \A V \in B : <<V, U>> \notin StrictSubsetOrdering(T)
  BY <1>3, <1>4, <1>5, WFMin
<1>7. PICK n \in T : U = {m \in T : m < n} OBVIOUS
<1>8. ASSUME NEW m \in T, m < n PROVE FALSE
  <2> DEFINE V == {k \in T : k < m}
  <2>1. V \in B OBVIOUS
  <2>2. n \in Nat /\ m \in Nat /\ \A k \in T : k \in Nat OBVIOUS
  <2>3. V \subseteq U
    <3> SUFFICES ASSUME NEW k \in T, k < m PROVE k < n BY <1>7
    <3> QED BY <1>8, <2>2
  <2>4. m \in U /\ m \notin V BY <1>7, <1>8, <2>2
  <2>5. <<V, U>> \in StrictSubsetOrdering(T) BY <1>7, <2>3, <2>4 DEF StrictSubsetOrdering
  <2> QED BY <1>6, <2>1, <2>5
<1>9. ASSUME NEW m \in S PROVE n <= m
  <2>1. n \in Nat /\ m \in Nat /\ b \in Nat /\ n <= b BY <1>1
  <2>2. CASE m <= b BY <1>8, <2>1, <2>2
  <2>3. CASE ~(m <= b) BY <2>1, <2>3
  <2> QED BY <2>2, <2>3
<1> QED BY <1>9

LEMMA Stepwise ==
  ASSUME NEW N \in Nat, NEW T, 0 \in T, \A n \in 1..N : n - 1 \in T => n \in T
  PROVE  \A n \in 0..N : n \in T
<1> SUFFICES ASSUME \E n \in 0..N : n \notin T PROVE FALSE OBVIOUS
<1> DEFINE S == {n \in 0..N : n \notin T}
<1>1. S \subseteq Nat /\ S # {} OBVIOUS
<1>2. PICK n \in S : \A m \in S : n <= m
  <2> HIDE DEF S
  <2> QED BY <1>1, LeastNumber
<1>3. n # 0 OBVIOUS
<1>4. n \in 1..N /\ n - 1 \in 0..N BY <1>3
<1>5. n - 1 \in T BY <1>2, <1>4
<1> QED BY <1>4, <1>5

\* A recursion of N steps over the values S, and a function that follows it.
IsStepping(N, S, base, step) == N \in Nat /\ base \in S /\ step \in [1..N -> [S -> S]]
Follow(f, N, S, base, step) ==
  f \in [0..N -> S] /\ f[0] = base /\ \A n \in 1..N : f[n] = step[n][f[n - 1]]
LEMMA Recursion ==
  ASSUME NEW N, NEW S, NEW base, NEW step, IsStepping(N, S, base, step)
  PROVE  \E f : Follow(f, N, S, base, step)
<1> USE DEF IsStepping
<1> DEFINE Upto(n) == {f \in [0..n -> S] : f[0] = base /\ \A k \in 1..n : f[k] = step[k][f[k - 1]]}
           T == {n \in 0..N : Upto(n) # {}}
<1>1. 0 \in T
  <2>1. [k \in 0..0 |-> base] \in Upto(0) OBVIOUS
  <2> QED BY <2>1
<1>2. ASSUME NEW n \in 1..N, n - 1 \in T PROVE n \in T
  <2>1. PICK f \in Upto(n - 1) : TRUE BY <1>2
  <2> DEFINE g == [k \in 0..n |-> IF k = n THEN step[n][f[n - 1]] ELSE f[k]]
  <2>2. n - 1 \in 0..(n - 1) /\ f[n - 1] \in S BY <2>1
  <2>3. step[n][f[n - 1]] \in S BY <2>2
  <2>4. \A k \in 0..n : k # n => k \in 0..(n - 1) OBVIOUS
  <2>5. g \in [0..n -> S] BY <2>1, <2>3, <2>4
  <2>6. g[0] = base BY <2>1
  <2>7. ASSUME NEW k \in 1..n PROVE g[k] = step[k][g[k - 1]]
    <3>1. k - 1 \in 0..n /\ k - 1 # n /\ k \in 0..n OBVIOUS
    <3>2. g[k - 1] = f[k - 1] BY <3>1
    <3>3. CASE k = n BY <3>1, <3>2, <3>3
    <3>4. CASE k # n
      <4>1. k \in 1..(n - 1) BY <3>4
      <4> QED BY <2>1, <3>1, <3>2, <3>4, <4>1
    <3> QED BY <3>3, <3>4
  <2>8. g \in Upto(n) BY <2>5, <2>6, <2>7
  <2>9. n \in 0..N OBVIOUS
  <2> HIDE DEF Upto, g
  <2> QED BY <2>8, <2>9
<1>3. N \in T
  <2>1. N \in 0..N OBVIOUS
  <2> HIDE DEF T
  <2> QED BY <1>1, <1>2, <2>1, Stepwise
<1> QED BY <1>3 DEF Follow

-----------------------------------------------------------------------------
(* The queue of the research loop (ResearchQueue).                         *)

\* The members taken out of a sequence are members of it.
LEMMA ThoseFacts ==
  ASSUME NEW T, NEW S, NEW s \in Seq(T)
  PROVE  Queue!Those(s, S) \in Seq(T) /\ Queue!Elems(Queue!Those(s, S)) \subseteq Queue!Elems(s)
<1> DEFINE N == Len(s)
           E == Queue!Elems(s)
           V == Seq(E)
           Q(q, n) == IF s[n] \in S THEN Append(q, s[n]) ELSE q
           step == [n \in 1..N |-> [q \in V |-> Q(q, n)]]
           IsThose(g) == g = [n \in 0..N |-> IF n = 0 THEN <<>> ELSE Q(g[n - 1], n)]
           those == CHOOSE g : IsThose(g)
<1>1. N \in Nat /\ \A n \in 1..N : s[n] \in E /\ s[n] \in T
  BY DEF Queue!Elems
<1>2. <<>> \in V OBVIOUS
<1>3. \A n \in 1..N : \A q \in V : Q(q, n) \in V
  <2> SUFFICES ASSUME NEW n \in 1..N, NEW q \in V PROVE Q(q, n) \in V OBVIOUS
  <2>1. s[n] \in E BY <1>1
  <2> HIDE DEF E
  <2> QED BY <2>1
<1> HIDE DEF E, Q, V
<1>4. step \in [1..N -> [V -> V]] BY <1>3
<1>5. PICK f : Follow(f, N, V, <<>>, step)
  <2>1. IsStepping(N, V, <<>>, step) BY <1>1, <1>2, <1>4 DEF IsStepping
  <2> QED BY <2>1, Recursion
<1> USE DEF Follow
<1>6. ASSUME NEW n \in 1..N PROVE f[n] = Q(f[n - 1], n)
  <2>1. n - 1 \in 0..N /\ f[n - 1] \in V BY <1>1, <1>5
  <2> QED BY <1>5, <2>1
<1>7. IsThose(f)
  <2>1. \A n \in 0..N : n # 0 => n \in 1..N BY <1>1
  <2>2. \A n \in 0..N : f[n] = IF n = 0 THEN <<>> ELSE Q(f[n - 1], n)
    BY <1>5, <1>6, <2>1
  <2> QED BY <1>5, <2>2
<1>8. IsThose(those) BY <1>7
<1> HIDE DEF IsThose
<1>9. Queue!Those(s, S) = those[N]
  BY DEF Queue!Those, IsThose, Q
<1> HIDE DEF those
<1> USE DEF IsThose
<1>10. those[N] \in V
  <2> DEFINE K == {k \in 0..N : those[k] \in V}
  <2>1. 0 \in K BY <1>1, <1>2, <1>8
  <2>2. ASSUME NEW k \in 1..N, k - 1 \in K PROVE k \in K
    <3>1. those[k] = Q(those[k - 1], k) BY <1>1, <1>8
    <3> QED BY <1>1, <1>3, <2>2, <3>1
  <2>3. N \in 0..N BY <1>1
  <2>4. N \in K
    <3> HIDE DEF K, N, IsThose
    <3> QED BY <1>1, <2>1, <2>2, <2>3, Stepwise
  <2> QED BY <2>4
<1>11. \A q \in Seq(E) : Queue!Elems(q) \subseteq E
  <2> SUFFICES ASSUME NEW q \in Seq(E), NEW i \in DOMAIN q PROVE q[i] \in E
    BY DEF Queue!Elems
  <2> QED OBVIOUS
<1>12. \A q \in Seq(E) : q \in Seq(T)
  <2>1. E \subseteq T BY <1>1 DEF E, Queue!Elems
  <2> QED BY <2>1
<1> QED BY <1>9, <1>10, <1>11, <1>12 DEF E, V

\* A path that a selection has met: its stage was swept, or the sweep missed it.
Met(p) ==
  /\ plan[p] # None
  /\ plan[p].kind \in {"delivery", "forward"} => swept[p] # None \/ p \in missed

Rounds == [at : {"idle", "late", "paths", "ingest"}, todo : Seq(Queue!Path), done : Nat]
QueueTypes ==
  /\ plan \in [Parent -> {None} \cup UNION {PathsOf[p] : p \in Parent}]
  /\ swept \in [Parent -> {None, "stage", "not_enrolled"}]
  /\ due \in Seq(Queue!Path) /\ later \in Seq(Queue!Path)
  /\ round \in Rounds

\* What waits has a plan; what was selected, and so what is labelled, was met before.
QueueInv ==
  /\ QueueTypes
  /\ \A j \in Queue!Elems(due) \cup Queue!Elems(later) : plan[j[1]] # None
  /\ \A j \in Queue!Elems(round.todo) : Met(j[1])
  /\ \A p \in Parent : Queue!Own(p) \in labels => Met(p)
  /\ late \subseteq missed

LEMMA QueueConstants ==
  /\ IsFiniteSet(Parent) /\ Picked \in Nat \ {0}
  /\ None \notin UNION {PathsOf[p] : p \in Parent} /\ None \notin {"stage", "not_enrolled"}
BY ResearchAssumption DEF Queue!QueueAssumption, Queue!IsFiniteSet, IsFiniteSet

LEMMA SameCount == \A S : Queue!Cardinality(S) = Cardinality(S)
BY DEF Queue!Cardinality, Cardinality

\* The members of two sequences after each other.
LEMMA ElemsJoined ==
  ASSUME NEW T, NEW q \in Seq(T), NEW r \in Seq(T)
  PROVE  /\ q \o r \in Seq(T)
         /\ Queue!Elems(q \o r) \subseteq Queue!Elems(q) \cup Queue!Elems(r)
<1>1. q \o r \in Seq(T) OBVIOUS
<1>2. ASSUME NEW i \in DOMAIN (q \o r)
      PROVE  (q \o r)[i] \in Queue!Elems(q) \cup Queue!Elems(r)
  <2>1. i \in 1..(Len(q) + Len(r)) OBVIOUS
  <2>2. CASE i <= Len(q)
    <3>1. i \in DOMAIN q /\ (q \o r)[i] = q[i] BY <2>1, <2>2
    <3> QED BY <3>1 DEF Queue!Elems
  <2>3. CASE i > Len(q)
    <3>1. i - Len(q) \in DOMAIN r /\ (q \o r)[i] = r[i - Len(q)] BY <2>1, <2>3
    <3> QED BY <3>1 DEF Queue!Elems
  <2> QED BY <2>1, <2>2, <2>3
<1> QED BY <1>1, <1>2 DEF Queue!Elems

LEMMA OldestFacts ==
  ASSUME NEW T, NEW q \in Seq(T)
  PROVE  Queue!Oldest(q) \in Seq(T) /\ Queue!Elems(Queue!Oldest(q)) \subseteq Queue!Elems(q)
<1> DEFINE n == IF Len(q) < Picked THEN Len(q) ELSE Picked
<1>1. n \in 0..Len(q) BY QueueConstants
<1> HIDE DEF n
<1>2. SubSeq(q, 1, n) \in Seq(T) /\ \A i \in DOMAIN SubSeq(q, 1, n) : i \in DOMAIN q /\ SubSeq(q, 1, n)[i] = q[i]
  BY <1>1
<1>3. Queue!Oldest(q) = SubSeq(q, 1, n) BY DEF Queue!Oldest, n
<1> QED BY <1>2, <1>3 DEF Queue!Elems

\* A parent that was met stays so, whatever is saved and swept beside it.
LEMMA MetKept ==
  ASSUME NEW p \in Parent, Met(p), plan'[p] = plan[p], missed \subseteq missed',
         swept[p] # None => swept'[p] # None
  PROVE  Met(p)'
BY DEF Met

LEMMA QueueStart == Queue!Init => QueueInv
<1> SUFFICES ASSUME Queue!Init PROVE QueueInv OBVIOUS
<1>1. /\ plan = [p \in Parent |-> None] /\ due = <<>> /\ later = <<>> /\ labels = {} /\ late = {}
      /\ round = [at |-> "idle", todo |-> <<>>, done |-> 0]
      /\ swept = [p \in Parent |-> None] /\ missed = {}
  BY DEF Queue!Init, Queue!Idle
<1>2. QueueTypes
  <2>1. <<>> \in Seq(Queue!Path) OBVIOUS
  <2>2. /\ plan \in [Parent -> {None} \cup UNION {PathsOf[p] : p \in Parent}]
        /\ swept \in [Parent -> {None, "stage", "not_enrolled"}]
    BY <1>1
  <2>3. round \in Rounds BY <1>1, <2>1 DEF Rounds
  <2> QED BY <1>1, <2>1, <2>2, <2>3 DEF QueueTypes
<1>3. Queue!Elems(<<>>) = {} BY DEF Queue!Elems
<1> QED BY <1>1, <1>2, <1>3 DEF QueueInv

LEMMA QueueSaves ==
  ASSUME QueueInv, NEW p \in Parent, NEW n \in 1..MaxLeft, NEW c \in PathsOf[p], Queue!Save(p, c, n)
  PROVE  QueueInv'
<1>1. /\ plan[p] = None /\ plan' = [plan EXCEPT ![p] = c] /\ due' = Append(due, Queue!Own(p))
      /\ UNCHANGED <<later, swept, labels, round, missed, late>>
  BY DEF Queue!Save
<1>2. c \in UNION {PathsOf[q] : q \in Parent} /\ c # None BY QueueConstants
<1>3. Queue!Own(p) \in Queue!Path BY DEF Queue!Own, Queue!Path
<1>4. QueueTypes' BY <1>1, <1>2, <1>3 DEF QueueInv, QueueTypes
<1>5. plan'[p] = c /\ \A q \in Parent : q # p => plan'[q] = plan[q]
  BY <1>1 DEF QueueInv, QueueTypes
<1>6. \A j \in Queue!Path : j[1] \in Parent BY DEF Queue!Path
<1>7. ASSUME NEW j \in Queue!Elems(due') \cup Queue!Elems(later') PROVE plan'[j[1]] # None
  <2>1. CASE j \in Queue!Elems(due) \cup Queue!Elems(later)
    <3>1. plan[j[1]] # None BY <2>1 DEF QueueInv
    <3>2. j \in Queue!Path BY <2>1 DEF QueueInv, QueueTypes, Queue!Elems
    <3> QED BY <1>1, <1>5, <1>6, <3>1, <3>2
  <2>2. CASE j \notin Queue!Elems(due) \cup Queue!Elems(later)
    <3>1. PICK i \in DOMAIN due' : j = due'[i] BY <1>1, <1>7, <2>2 DEF Queue!Elems
    <3>2. i \in 1..(Len(due) + 1) /\ (i <= Len(due) => i \in DOMAIN due /\ due'[i] = due[i])
      BY <1>1, <3>1 DEF QueueInv, QueueTypes
    <3>3. i = Len(due) + 1 BY <2>2, <3>1, <3>2 DEF Queue!Elems, QueueInv, QueueTypes
    <3>4. j = Queue!Own(p) BY <1>1, <3>1, <3>3 DEF QueueInv, QueueTypes
    <3> QED BY <1>2, <1>5, <3>4 DEF Queue!Own
  <2> QED BY <2>1, <2>2
<1>8. ASSUME NEW q \in Parent, Met(q) PROVE Met(q)'
  <2>1. q # p BY <1>1, <1>8 DEF Met
  <2> QED BY <1>1, <1>5, <1>8, <2>1, MetKept
<1>9. \A j \in Queue!Elems(round'.todo) : Met(j[1])'
  <2>1. \A j \in Queue!Elems(round.todo) : j \in Queue!Path
    <3>1. round.todo \in Seq(Queue!Path) BY DEF QueueInv, QueueTypes, Rounds
    <3> QED BY <3>1 DEF Queue!Elems
  <2> QED BY <1>1, <1>6, <1>8, <2>1 DEF QueueInv
<1> QED BY <1>1, <1>4, <1>7, <1>8, <1>9 DEF QueueInv

\* A step that leaves plans and sweeps, and brings no new member anywhere.
LEMMA QueueTurns ==
  ASSUME QueueInv, UNCHANGED <<plan, swept, missed, late>>,
         due' \in Seq(Queue!Path), later' \in Seq(Queue!Path),
         round' \in Rounds,
         Queue!Elems(due') \cup Queue!Elems(later') \subseteq
           Queue!Elems(due) \cup Queue!Elems(later) \cup Queue!Elems(round.todo),
         Queue!Elems(round'.todo) \subseteq Queue!Elems(round.todo),
         labels' \subseteq labels \cup Queue!Elems(round.todo)
  PROVE  QueueInv'
<1>1. \A p : Met(p) => Met(p)' BY DEF Met
<1>2. \A j \in Queue!Elems(round.todo) : plan[j[1]] # None BY DEF QueueInv, Met
<1>3. QueueTypes' BY DEF QueueInv, QueueTypes
<1>4. \A j \in Queue!Elems(due') \cup Queue!Elems(later') : plan'[j[1]] # None BY <1>2 DEF QueueInv
<1>5. \A j \in Queue!Elems(round'.todo) : Met(j[1])' BY <1>1 DEF QueueInv
<1>6. ASSUME NEW p \in Parent, Queue!Own(p) \in labels' PROVE Met(p)'
  <2>1. CASE Queue!Own(p) \in labels BY <1>1, <2>1 DEF QueueInv
  <2>2. CASE Queue!Own(p) \in Queue!Elems(round.todo)
    <3>1. Queue!Own(p)[1] = p BY DEF Queue!Own
    <3> QED BY <1>1, <2>2, <3>1 DEF QueueInv
  <2> QED BY <1>6, <2>1, <2>2
<1>7. late' \subseteq missed' BY DEF QueueInv
<1> QED BY <1>3, <1>4, <1>5, <1>6, <1>7 DEF QueueInv

\* Everything that waits at the selection was swept in this step, or is counted as missed.
LEMMA QueueSweeps ==
  ASSUME QueueInv, NEW fails \in BOOLEAN, NEW n \in 1..MaxLeft, Queue!SweepAndSelect(fails, n)
  PROVE  QueueInv'
<1> DEFINE All == Queue!Unswept("delivery") \cup Queue!Unswept("forward")
<1>1. PICK d \in Queue!Taken(Queue!Unswept("delivery")), f \in Queue!Taken(Queue!Unswept("forward")) :
        LET taken == IF fails THEN {} ELSE d \cup f
        IN /\ \E staged \in SUBSET taken : Queue!Enroll(taken, staged, n)
           /\ missed' = missed \cup (All \ taken)
  BY DEF Queue!SweepAndSelect
<1> DEFINE taken == IF fails THEN {} ELSE d \cup f
<1>2. PICK staged \in SUBSET taken : Queue!Enroll(taken, staged, n) BY <1>1
<1>3. missed' = missed \cup (All \ taken) BY <1>1
<1>4. taken \subseteq All BY DEF Queue!Taken
<1>5. \A p \in All : /\ p \in Parent /\ plan[p] # None /\ swept[p] = None
                     /\ plan[p].kind \in {"delivery", "forward"}
  BY DEF Queue!Unswept
<1>6. \A p \in Parent : (plan[p] # None /\ plan[p].kind \in {"delivery", "forward"} /\ swept[p] = None) => p \in All
  BY DEF Queue!Unswept
<1> HIDE DEF All, taken
<1>7. /\ round' = [at |-> "paths", todo |-> Queue!Oldest(due'), done |-> 0]
      /\ UNCHANGED <<plan, later, labels>>
  BY DEF Queue!SweepAndSelect
<1>8. /\ swept' = [p \in Parent |-> IF p \notin taken THEN swept[p]
                                    ELSE IF p \in staged THEN "stage" ELSE "not_enrolled"]
      /\ late' = late \cup {p \in staged : Queue!Own(p) \in labels}
  BY <1>2 DEF Queue!Enroll
<1>9. PICK new \in [1..Cardinality(staged) -> {Queue!Stage(p) : p \in staged}] :
        due' = due \o new
  BY <1>2, SameCount DEF Queue!Enroll
<1>10. staged \subseteq Parent /\ Cardinality(staged) \in Nat
  <2>1. staged \subseteq Parent BY <1>4, <1>5
  <2>2. IsFiniteSet(staged) BY <2>1, QueueConstants, FS_Subset
  <2> QED BY <2>1, <2>2, FS_CardinalityType
<1>11. new \in Seq(Queue!Path) /\ \A j \in Queue!Elems(new) : plan[j[1]] # None
  <2>1. {Queue!Stage(p) : p \in staged} \subseteq Queue!Path
    BY <1>10 DEF Queue!Stage, Queue!Path
  <2>2. new \in [1..Cardinality(staged) -> Queue!Path] BY <2>1
  <2>3. new \in Seq(Queue!Path) BY <1>10, <2>2
  <2>4. ASSUME NEW i \in DOMAIN new PROVE plan[new[i][1]] # None
    <3>1. PICK p \in staged : new[i] = Queue!Stage(p) OBVIOUS
    <3> QED BY <1>4, <1>5, <3>1 DEF Queue!Stage
  <2> QED BY <2>3, <2>4 DEF Queue!Elems
<1>12. /\ due' \in Seq(Queue!Path)
       /\ Queue!Elems(due') \subseteq Queue!Elems(due) \cup Queue!Elems(new)
  BY <1>9, <1>11, ElemsJoined DEF QueueInv, QueueTypes
<1>13. /\ Queue!Oldest(due') \in Seq(Queue!Path)
       /\ Queue!Elems(Queue!Oldest(due')) \subseteq Queue!Elems(due')
  <2>1. PICK q \in Seq(Queue!Path) : q = due' BY <1>12
  <2>2. /\ Queue!Oldest(q) \in Seq(Queue!Path)
        /\ Queue!Elems(Queue!Oldest(q)) \subseteq Queue!Elems(q)
    BY <2>1, OldestFacts
  <2> QED BY <2>1, <2>2
<1>14. QueueTypes'
  <2>1. swept' \in [Parent -> {None, "stage", "not_enrolled"}]
    BY <1>8 DEF QueueInv, QueueTypes
  <2>2. round' \in Rounds BY <1>7, <1>13 DEF Rounds
  <2> QED BY <1>7, <1>12, <2>1, <2>2 DEF QueueInv, QueueTypes
<1>15. \A j \in Queue!Elems(due') \cup Queue!Elems(later') : plan'[j[1]] # None
  BY <1>7, <1>11, <1>12 DEF QueueInv
<1>16. ASSUME NEW p \in Parent, plan[p] # None PROVE Met(p)'
  <2>1. CASE plan[p].kind \notin {"delivery", "forward"} BY <1>7, <1>16, <2>1 DEF Met
  <2>2. CASE swept[p] # None
    <3>1. swept'[p] # None BY <1>4, <1>5, <1>8, <2>2
    <3> QED BY <1>7, <1>16, <3>1 DEF Met
  <2>3. CASE plan[p].kind \in {"delivery", "forward"} /\ swept[p] = None
    <3>1. p \in All BY <1>6, <1>16, <2>3
    <3>2. p \in taken => swept'[p] # None BY <1>8, QueueConstants
    <3>3. p \notin taken => p \in missed' BY <1>3, <3>1
    <3> QED BY <1>7, <1>16, <3>2, <3>3 DEF Met
  <2> QED BY <2>1, <2>2, <2>3
<1>17. \A j \in Queue!Elems(round'.todo) : Met(j[1])'
  <2>1. \A j \in Queue!Elems(due') : j \in Queue!Path BY <1>12 DEF Queue!Elems
  <2>2. \A j \in Queue!Path : j[1] \in Parent BY DEF Queue!Path
  <2> QED BY <1>7, <1>13, <1>15, <1>16, <2>1, <2>2
<1>18. \A p \in Parent : Queue!Own(p) \in labels' => Met(p)'
  BY <1>7, <1>16 DEF QueueInv, Met
<1>19. late' \subseteq missed'
  <2> SUFFICES ASSUME NEW p \in staged, Queue!Own(p) \in labels PROVE p \in missed
    BY <1>3, <1>8 DEF QueueInv
  <2>1. Met(p) BY <1>10 DEF QueueInv
  <2>2. swept[p] = None /\ plan[p].kind \in {"delivery", "forward"} BY <1>4, <1>5
  <2> QED BY <2>1, <2>2 DEF Met
<1> QED BY <1>14, <1>15, <1>17, <1>18, <1>19 DEF QueueInv

LEMMA QueueAdvances ==
  ASSUME QueueInv, NEW m \in Market, Queue!Advance(m)
  PROVE  QueueInv'
<1> DEFINE G == Queue!Group
           rest == Queue!Those(due, Queue!Elems(due) \ Queue!Elems(G))
           again == Queue!Those(G, {j \in Queue!Elems(G) : left'[j] # 0})
           todo == Queue!Those(round.todo, Queue!Elems(round.todo) \ Queue!OfFirst(round.todo))
<1>1. /\ labels' = labels \cup {j \in Queue!Elems(G) : left'[j] = 0}
      /\ due' = rest /\ later' = later \o again
      /\ round' = [round EXCEPT !.todo = todo, !.done = @ + 1]
      /\ UNCHANGED <<plan, swept, missed, late>>
  BY DEF Queue!Advance, Queue!Requeued
<1>2. due \in Seq(Queue!Path) /\ later \in Seq(Queue!Path) /\ round.todo \in Seq(Queue!Path)
  BY DEF QueueInv, QueueTypes, Rounds
<1>3. G \in Seq(Queue!Path) /\ Queue!Elems(G) \subseteq Queue!Elems(round.todo)
  BY <1>2, ThoseFacts DEF Queue!Group
<1> HIDE DEF G
<1>4. rest \in Seq(Queue!Path) /\ Queue!Elems(rest) \subseteq Queue!Elems(due)
  BY <1>2, ThoseFacts
<1>5. again \in Seq(Queue!Path) /\ Queue!Elems(again) \subseteq Queue!Elems(G)
  <2>1. \A L : Queue!Those(G, L) \in Seq(Queue!Path) /\ Queue!Elems(Queue!Those(G, L)) \subseteq Queue!Elems(G)
    BY <1>3, ThoseFacts
  <2> QED BY <2>1
<1>6. todo \in Seq(Queue!Path) /\ Queue!Elems(todo) \subseteq Queue!Elems(round.todo)
  BY <1>2, ThoseFacts
<1> HIDE DEF rest, again, todo
<1>7. PICK q \in Seq(Queue!Path) : q = again BY <1>5
<1>8. /\ later \o q \in Seq(Queue!Path)
      /\ Queue!Elems(later \o q) \subseteq Queue!Elems(later) \cup Queue!Elems(q)
  BY <1>2, ElemsJoined
<1>9. later' \in Seq(Queue!Path) /\ due' \in Seq(Queue!Path) BY <1>1, <1>4, <1>7, <1>8
<1>10. Queue!Elems(due') \cup Queue!Elems(later') \subseteq
         Queue!Elems(due) \cup Queue!Elems(later) \cup Queue!Elems(round.todo)
  BY <1>1, <1>3, <1>4, <1>5, <1>7, <1>8
<1>11. round' \in Rounds /\ round'.todo = todo
  <2>1. PICK t \in Seq(Queue!Path) : t = todo BY <1>6
  <2>2. round \in Rounds /\ round' = [round EXCEPT !.todo = t, !.done = @ + 1]
    BY <1>1, <2>1 DEF QueueInv, QueueTypes
  <2>3. round' \in Rounds /\ round'.todo = t
    <3>1. PICK a \in {"idle", "late", "paths", "ingest"}, q0 \in Seq(Queue!Path), n \in Nat :
            round = [at |-> a, todo |-> q0, done |-> n]
      BY <2>2 DEF Rounds
    <3>2. round' = [at |-> a, todo |-> t, done |-> n + 1] BY <2>2, <3>1
    <3> QED BY <3>2 DEF Rounds
  <2> QED BY <2>1, <2>3
<1> QED BY <1>1, <1>3, <1>6, <1>9, <1>10, <1>11, QueueTurns

LEMMA QueueBegins == QueueInv /\ Queue!Begin => QueueInv'
<1> SUFFICES ASSUME QueueInv, Queue!Begin PROVE QueueInv' OBVIOUS
<1>1. /\ round' = [at |-> "late", todo |-> <<>>, done |-> 0]
      /\ due' = due \o later /\ later' = <<>> /\ UNCHANGED <<plan, swept, labels, missed, late>>
  BY DEF Queue!Begin, Queue!Idle
<1>2. due \in Seq(Queue!Path) /\ later \in Seq(Queue!Path) BY DEF QueueInv, QueueTypes
<1>3. /\ due' \in Seq(Queue!Path)
      /\ Queue!Elems(due') \subseteq Queue!Elems(due) \cup Queue!Elems(later)
  BY <1>1, <1>2, ElemsJoined
<1>4. Queue!Elems(<<>>) = {} BY DEF Queue!Elems
<1>5. round' \in Rounds BY <1>1 DEF Rounds
<1>6. later' \in Seq(Queue!Path) BY <1>1
<1> QED BY <1>1, <1>3, <1>4, <1>5, <1>6, QueueTurns

\* The ends of a round: only how far it is changes.
LEMMA QueueRounds ==
  QueueInv /\ (Queue!RequestsEnd \/ Queue!Ingest \/ Queue!RoundFails) => QueueInv'
<1> SUFFICES ASSUME QueueInv, Queue!RequestsEnd \/ Queue!Ingest \/ Queue!RoundFails PROVE QueueInv'
  OBVIOUS
<1>1. UNCHANGED <<plan, due, later, swept, labels, missed, late>>
  BY DEF Queue!RequestsEnd, Queue!Ingest, Queue!RoundFails
<1>2. \E a \in {"idle", "ingest"} : round' = [at |-> a, todo |-> <<>>, done |-> 0]
  BY DEF Queue!RequestsEnd, Queue!Ingest, Queue!RoundFails, Queue!Idle
<1>3. round' \in Rounds /\ round'.todo = <<>> BY <1>2 DEF Rounds
<1>4. due' \in Seq(Queue!Path) /\ later' \in Seq(Queue!Path) BY <1>1 DEF QueueInv, QueueTypes
<1>5. Queue!Elems(<<>>) = {} BY DEF Queue!Elems
<1> QED BY <1>1, <1>3, <1>4, <1>5, QueueTurns

LEMMA QueueSteps == QueueInv /\ Queue!Next => QueueInv'
<1> SUFFICES ASSUME QueueInv, Queue!Next PROVE QueueInv' OBVIOUS
<1>1. ASSUME NEW p \in Parent, NEW n \in 1..MaxLeft, NEW c \in PathsOf[p], Queue!Save(p, c, n)
      PROVE  QueueInv'
  BY <1>1, QueueSaves
<1>2. ASSUME NEW fails \in BOOLEAN, NEW n \in 1..MaxLeft, Queue!SweepAndSelect(fails, n)
      PROVE  QueueInv'
  BY <1>2, QueueSweeps
<1>3. ASSUME NEW m \in Market, Queue!Advance(m) PROVE QueueInv' BY <1>3, QueueAdvances
<1>4. CASE Queue!Begin BY <1>4, QueueBegins
<1>5. CASE Queue!RequestsEnd \/ Queue!Ingest \/ Queue!RoundFails BY <1>5, QueueRounds
<1> QED BY <1>1, <1>2, <1>3, <1>4, <1>5 DEF Queue!Next

\* The part that runs, and the rest of it in the other parts.
LEMMA QueueAlways == PartsSpec => [](IF part = "queue" THEN QueueInv ELSE late = {})
<1> DEFINE I == IF part = "queue" THEN QueueInv ELSE late = {}
<1>1. PartsInit => I
  BY QueueStart DEF PartsInit, QueueRests
<1>2. I /\ [PartsNext]_partsVars => I'
  <2> SUFFICES ASSUME I, [PartsNext]_partsVars PROVE I' OBVIOUS
  <2>1. part' = part BY DEF PartsNext, partsVars
  <2>2. CASE UNCHANGED queue
    <3>1. UNCHANGED <<plan, due, later, swept, labels, round, missed, late>> BY <2>2 DEF queue
    <3> QED BY <2>1, <3>1 DEF QueueInv, QueueTypes, Met, Queue!Elems
  <2>3. CASE part = "queue" /\ Queue!Next
    <3>1. QueueInv' BY <2>3, QueueSteps
    <3> QED BY <2>1, <2>3, <3>1
  <2> QED BY <2>2, <2>3 DEF PartsNext, partsVars
<1> QED BY <1>1, <1>2, PTL DEF PartsSpec

\* A stage is enrolled before its parent has an outcome, for any setups, markets and sizes of
\* a round, whatever fails: unless a selection came before its sweep (scanner_research.py,
\* "paired research stages enroll before any advance can finish their parents").
THEOREM StagesBlind == PartsSpec => []EnrolledBlind
<1>1. (IF part = "queue" THEN QueueInv ELSE late = {}) => EnrolledBlind
  BY DEF QueueInv, EnrolledBlind, Queue!EnrolledBlind
<1> QED BY <1>1, QueueAlways, PTL

=============================================================================
