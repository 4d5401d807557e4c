------------------------- MODULE StreamSync_proofs -------------------------
(***************************************************************************)
(* Theorems about StreamSync, for any number of symbols, trades, updates,  *)
(* rotations and faults.                                                   *)
(*                                                                         *)
(* A valid book is exact because of what is under way to it: the messages  *)
(* of a connection are a chain.  Each delta in the queue has the number    *)
(* after that of the message about its symbol before it, or after the      *)
(* book's when there is none (Chain), and the last message about a         *)
(* subscribed symbol, or its book, is where the venue stands (Current).    *)
(*                                                                         *)
(* A tape is honest, and a selected symbol subscribed, because of what has *)
(* been asked for: answering the requests in the queue ends in what is     *)
(* selected (Predict), and for each selected symbol either an answer that  *)
(* empties its tape is due, or its tape misses nothing (Covered).          *)
(***************************************************************************)
EXTENDS StreamSync, FiniteSetTheorems, TLAPS

-----------------------------------------------------------------------------
(* Queues.                                                                 *)

LEMMA TailAt ==
  ASSUME NEW S, NEW q \in Seq(S), q # <<>>
  PROVE  /\ Tail(q) \in Seq(S) /\ Len(Tail(q)) = Len(q) - 1 /\ Len(q) \in Nat \ {0}
         /\ DOMAIN q = 1 .. Len(q) /\ DOMAIN Tail(q) = 1 .. Len(q) - 1
         /\ Head(q) = q[1] /\ Head(q) \in S
         /\ \A k \in 1 .. Len(q) - 1 : Tail(q)[k] = q[k + 1]
  OBVIOUS

LEMMA AppendAt ==
  ASSUME NEW S, NEW q \in Seq(S), NEW m \in S
  PROVE  /\ Append(q, m) \in Seq(S) /\ Len(Append(q, m)) = Len(q) + 1 /\ Len(q) \in Nat
         /\ DOMAIN Append(q, m) = 1 .. Len(q) + 1
         /\ Append(q, m)[Len(q) + 1] = m
         /\ \A k \in 1 .. Len(q) : Append(q, m)[k] = q[k]
  OBVIOUS

LEMMA ConcatAt ==
  ASSUME NEW S, NEW p \in Seq(S), NEW q \in Seq(S)
  PROVE  /\ p \o q \in Seq(S) /\ Len(p \o q) = Len(p) + Len(q)
         /\ Len(p) \in Nat /\ Len(q) \in Nat
         /\ \A k \in 1 .. Len(p) : (p \o q)[k] = p[k]
         /\ \A k \in 1 .. Len(q) : (p \o q)[Len(p) + k] = q[k]
  OBVIOUS

Trades == [kind : {"trade"}, sym : Syms, n : Nat]
Updates == [kind : {"delta", "snap"}, sym : Syms, n : Nat]
Msgs == Trades \cup Updates \cup [kind : {"ack"}, req : Nat] \cup [kind : {"nack"}]
Requests == [op : {"sub"}, syms : SUBSET Syms, req : Nat] \cup [op : {"unsub"}, syms : SUBSET Syms]

\* The snapshots of a set of symbols name each of them once.
LEMMA SnapshotsAt ==
  ASSUME NEW S \in SUBSET Syms, depth \in [Syms -> Nat]
  PROVE  /\ Snapshots(S) \in Seq(Updates)
         /\ \A k \in 1 .. Len(Snapshots(S)) :
              LET m == Snapshots(S)[k] IN m.kind = "snap" /\ m.sym \in S /\ m.n = depth[m.sym]
         /\ \A s \in S : \E j \in 1 .. Len(Snapshots(S)) :
              /\ Snapshots(S)[j].sym = s
              /\ \A i \in 1 .. Len(Snapshots(S)) : i # j => Snapshots(S)[i].sym # s
<1> DEFINE order == SetToSeq(S)
           C == Cardinality(S)
<1>1. IsFiniteSet(S) /\ C \in Nat /\ ExistsBijection(1..C, S)
  BY StreamAssumption, FS_Subset, FS_CardinalityType
<1>2. order \in [1..C -> S] /\ IsInjective(order)
  <2>1. PICK f \in Bijection(1..C, S) : TRUE
    BY <1>1 DEF ExistsBijection
  <2>2. f \in [1..C -> S] /\ IsInjective(f)
    BY <2>1 DEF Bijection, Injection, IsInjective
  <2> QED
    BY <2>2 DEF SetToSeq
<1>3. \A s \in S : \E j \in 1..C : order[j] = s
  <2>1. order \in Injection(1..C, S)
    BY <1>2 DEF Injection, IsInjective
  <2>2. Cardinality(1..C) = C /\ IsFiniteSet(1..C)
    BY <1>1, FS_Interval
  <2>3. order \in Surjection(1..C, S)
    BY <1>1, <2>1, <2>2, FS_Injection
  <2> QED
    BY <2>3 DEF Surjection
<1>4. \A i, j \in 1..C : order[i] = order[j] => i = j
  BY <1>2 DEF IsInjective
<1> HIDE DEF order, C
<1>5. /\ Snapshots(S) = [k \in 1..C |-> [kind |-> "snap", sym |-> order[k], n |-> depth[order[k]]]]
      /\ order \in [1..C -> S]
  BY <1>2 DEF Snapshots, order
<1>6. Snapshots(S) \in Seq(Updates) /\ Len(Snapshots(S)) = C
  BY <1>1, <1>5 DEF Updates
<1>7. \A k \in 1 .. C : /\ Snapshots(S)[k].kind = "snap" /\ Snapshots(S)[k].sym = order[k]
                        /\ Snapshots(S)[k].n = depth[order[k]] /\ order[k] \in S
  BY <1>5
<1> QED
  BY <1>3, <1>4, <1>6, <1>7

-----------------------------------------------------------------------------
(* Where the venue stands, as the messages of a queue tell it.             *)

About(m, s) == m.kind \in {"delta", "snap"} /\ m.sym = s

Silent(q, s, k) == \A j \in 1 .. k - 1 : ~About(q[j], s)
Latest(q, s, k, n) ==
  \E j \in 1 .. k - 1 : /\ About(q[j], s) /\ q[j].n = n
                        /\ \A i \in j + 1 .. k - 1 : ~About(q[i], s)

\* Whoever reads the book b and then q up to its k-th message is at update n of s,
\* unless the book is not valid and q does not tell.
Reaches(q, s, k, b, n) == Latest(q, s, k, n) \/ (Silent(q, s, k) /\ (b.valid => b.at = n))

LEMMA ReachesTail ==
  ASSUME NEW q \in Seq(Msgs), q # <<>>, NEW s, NEW k \in 2 .. Len(q) + 1, NEW b, NEW c, NEW n,
         Reaches(q, s, k, b, n),
         c.valid => \/ About(Head(q), s) /\ c.at = Head(q).n
                    \/ ~About(Head(q), s) /\ b.valid /\ c.at = b.at
  PROVE  Reaches(Tail(q), s, k - 1, c, n)
<1>1. /\ Len(q) \in Nat /\ Head(q) = q[1] /\ k \in Nat
      /\ \A i \in 1 .. Len(q) - 1 : Tail(q)[i] = q[i + 1]
  BY TailAt
<1>2. ASSUME NEW j \in 2 .. k - 1, About(q[j], s), q[j].n = n,
             \A i \in j + 1 .. k - 1 : ~About(q[i], s)
      PROVE  Latest(Tail(q), s, k - 1, n)
  <2>1. j - 1 \in 1 .. (k - 1) - 1 /\ Tail(q)[j - 1] = q[j]
    BY <1>1
  <2>2. \A i \in (j - 1) + 1 .. (k - 1) - 1 : Tail(q)[i] = q[i + 1] /\ i + 1 \in j + 1 .. k - 1
    BY <1>1
  <2> QED
    BY <1>2, <2>1, <2>2 DEF Latest
<1>3. ASSUME \A i \in 2 .. k - 1 : ~About(q[i], s)
      PROVE  Silent(Tail(q), s, k - 1)
  <2>1. \A i \in 1 .. (k - 1) - 1 : Tail(q)[i] = q[i + 1] /\ i + 1 \in 2 .. k - 1
    BY <1>1
  <2> QED
    BY <1>3, <2>1 DEF Silent
<1>4. CASE Latest(q, s, k, n)
  <2>1. PICK j \in 1 .. k - 1 : /\ About(q[j], s) /\ q[j].n = n
                               /\ \A i \in j + 1 .. k - 1 : ~About(q[i], s)
    BY <1>4 DEF Latest
  <2>2. CASE j = 1
    BY <1>1, <1>3, <2>1, <2>2 DEF Reaches
  <2>3. CASE j # 1
    <3>1. j \in 2 .. k - 1
      BY <1>1, <2>1, <2>3
    <3> QED
      BY <1>2, <2>1, <3>1 DEF Reaches
  <2> QED
    BY <2>2, <2>3
<1>5. CASE Silent(q, s, k) /\ (b.valid => b.at = n)
  <2>1. ~About(q[1], s) /\ \A i \in 2 .. k - 1 : ~About(q[i], s)
    BY <1>1, <1>5 DEF Silent
  <2> QED
    BY <1>1, <1>3, <1>5, <2>1 DEF Reaches
<1> QED
  BY <1>4, <1>5 DEF Reaches

\* A longer queue, another book: what was reached is reached, as long as the book is
\* the same or no longer valid.
LEMMA ReachesMore ==
  ASSUME NEW q, NEW r, NEW s, NEW k \in Nat, NEW m \in Nat, k <= m, NEW b, NEW c, NEW n,
         Reaches(q, s, k, b, n), c.valid => b.valid /\ c.at = b.at,
         \A j \in 1 .. k - 1 : r[j] = q[j],
         \A j \in k .. m - 1 : ~About(r[j], s)
  PROVE  Reaches(r, s, m, c, n)
<1>1. CASE Latest(q, s, k, n)
  <2>1. PICK j \in 1 .. k - 1 : /\ About(q[j], s) /\ q[j].n = n
                               /\ \A i \in j + 1 .. k - 1 : ~About(q[i], s)
    BY <1>1 DEF Latest
  <2>2. j \in 1 .. m - 1 /\ About(r[j], s) /\ r[j].n = n
    BY <2>1
  <2>3. ASSUME NEW i \in j + 1 .. m - 1 PROVE ~About(r[i], s)
    <3>1. CASE i <= k - 1
      BY <2>1, <3>1
    <3>2. CASE i >= k
      BY <3>2
    <3> QED
      BY <3>1, <3>2
  <2> QED
    BY <2>2, <2>3 DEF Latest, Reaches
<1>2. CASE Silent(q, s, k) /\ (b.valid => b.at = n)
  <2>1. ASSUME NEW i \in 1 .. m - 1 PROVE ~About(r[i], s)
    <3>1. CASE i <= k - 1
      BY <1>2, <3>1 DEF Silent
    <3>2. CASE i >= k
      BY <3>2
    <3> QED
      BY <3>1, <3>2
  <2> QED
    BY <1>2, <2>1 DEF Silent, Reaches
<1> QED
  BY <1>1, <1>2 DEF Reaches

\* The last message decides.
LEMMA ReachesLast ==
  ASSUME NEW r, NEW s, NEW m \in Nat, NEW j \in 1 .. m - 1, NEW b,
         About(r[j], s), \A i \in j + 1 .. m - 1 : ~About(r[i], s)
  PROVE  Reaches(r, s, m, b, r[j].n)
  BY DEF Reaches, Latest

-----------------------------------------------------------------------------
(* Types.                                                                  *)

BookType == [valid : BOOLEAN, at : Nat, whole : BOOLEAN]
TapeType == [start : Instants, got : Seq(Nat)]

VenueT == clock \in Instants /\ trades \in [Syms -> Seq(Instants)] /\ depth \in [Syms -> Nat]

\* A message is of something that happened.
Happened(m) == /\ m.kind = "trade" => m.n \in 1 .. Len(trades[m.sym])
               /\ m.kind \in {"delta", "snap"} => m.n <= depth[m.sym]

Told(q) == q \in Seq(Msgs) /\ \A k \in 1 .. Len(q) : Happened(q[k])

WireT ==
  /\ subs \subseteq Syms /\ link \in {"none", "open", "cut"}
  /\ up \in Seq(Requests) /\ Told(down)

FeedT ==
  /\ book \in [Syms -> BookType] /\ tape \in [Syms -> TapeType]
  /\ \A s \in Syms :
       /\ book[s].at <= depth[s]
       /\ Len(tape[s].got) <= TapeLen
       /\ \A k \in 1 .. Len(tape[s].got) : tape[s].got[k] \in 1 .. Len(trades[s])

RunT == /\ runAt \in {"none", "top", "live"} /\ connected \in BOOLEAN /\ healthy \in BOOLEAN
        /\ changes \in [Instants -> SUBSET Syms] /\ faults \in 0 .. MaxFaults

\* What a rotation has still to send.
SelectT ==
  /\ selected \subseteq Syms /\ selAt \in {"idle", "unsub", "sub"}
  /\ adding \subseteq selected /\ removing \subseteq Syms \ selected
  /\ selAt = "idle" => adding = {}
  /\ selAt # "unsub" => removing = {}
  /\ selects \in 0 .. MaxSelects

Typed == VenueT /\ WireT /\ FeedT /\ RunT /\ SelectT

LEMMA Basics ==
  /\ MaxClock \in Nat /\ MaxFaults \in Nat /\ MaxSelects \in Nat /\ TapeLen \in Nat \ {0}
  /\ 0 \in Instants /\ Instants \subseteq Nat /\ NoReq \in Nat /\ NoReq \notin Instants
  /\ IsFiniteSet(Syms)
  BY StreamAssumption DEF Instants, NoReq

LEMMA NewFeeds ==
  /\ NewBook \in BookType /\ NewBook.at = 0 /\ ~NewBook.valid
  /\ NewTape \in TapeType /\ Len(NewTape.got) = 0
  /\ \A t \in Instants : EmptyTape(t) \in TapeType /\ Len(EmptyTape(t).got) = 0
  BY Basics DEF NewBook, NewTape, EmptyTape, BookType, TapeType

LEMMA TypedInit == Init => Typed
<1> SUFFICES ASSUME Init PROVE Typed
  OBVIOUS
<1>1. VenueT /\ WireT /\ RunT /\ SelectT
  BY Basics, StreamAssumption DEF Init, VenueT, WireT, RunT, SelectT, Told
<1>2. FeedT
  BY NewFeeds, Basics DEF Init, FeedT
<1> QED
  BY <1>1, <1>2 DEF Typed

LEMMA FaultTyped == RunT /\ Fault => faults' \in 0 .. MaxFaults
<1> SUFFICES ASSUME RunT, Fault PROVE faults' \in 0 .. MaxFaults
  OBVIOUS
<1>1. faults \in Nat /\ faults < MaxFaults /\ faults' = faults + 1 /\ MaxFaults \in Nat
  BY Basics DEF RunT, Fault
<1> QED
  BY <1>1

\* What the venue does leaves what has happened as it is.
Grows == /\ VenueT'
         /\ \A s \in Syms : depth[s] <= depth'[s] /\ Len(trades[s]) <= Len(trades'[s])

LEMMA FeedGrows ==
  ASSUME VenueT, FeedT, Grows, UNCHANGED feeds
  PROVE  FeedT'
<1>1. \A s \in Syms : /\ depth[s] \in Nat /\ depth'[s] \in Nat /\ book[s].at \in Nat
                      /\ Len(trades[s]) \in Nat /\ Len(trades'[s]) \in Nat
  BY DEF VenueT, FeedT, Grows, BookType
<1>2. book' = book /\ tape' = tape
  BY DEF feeds
<1>3. \A s \in Syms : book'[s].at <= depth'[s]
  BY <1>1, <1>2 DEF FeedT, Grows
<1>4. \A s \in Syms : \A k \in 1 .. Len(tape'[s].got) : tape'[s].got[k] \in 1 .. Len(trades'[s])
  <2> TAKE s \in Syms
  <2> TAKE k \in 1 .. Len(tape'[s].got)
  <2>1. tape[s].got[k] \in 1 .. Len(trades[s])
    BY <1>2 DEF FeedT
  <2> QED
    BY <1>1, <1>2, <2>1 DEF Grows
<1> QED
  BY <1>2, <1>3, <1>4 DEF FeedT

LEMMA MsgFields ==
  ASSUME NEW m \in Msgs
  PROVE  /\ m.kind \in {"trade", "delta", "snap", "ack", "nack"}
         /\ m.kind \in {"trade", "delta", "snap"} => m.sym \in Syms /\ m.n \in Nat
  BY DEF Msgs, Trades, Updates

LEMMA HappenedGrows ==
  ASSUME VenueT, Grows, NEW m \in Msgs, Happened(m)
  PROVE  Happened(m)'
<1>1. m.kind \in {"trade", "delta", "snap"} =>
        /\ depth[m.sym] \in Nat /\ depth'[m.sym] \in Nat /\ m.n \in Nat
        /\ Len(trades[m.sym]) \in Nat /\ Len(trades'[m.sym]) \in Nat
        /\ depth[m.sym] <= depth'[m.sym] /\ Len(trades[m.sym]) <= Len(trades'[m.sym])
  BY MsgFields DEF VenueT, Grows
<1> QED
  BY <1>1 DEF Happened

LEMMA ToldGrows ==
  ASSUME VenueT, Grows, NEW q, Told(q)
  PROVE  Told(q)'
<1>1. ASSUME NEW k \in 1 .. Len(q) PROVE Happened(q[k])'
  <2>1. Happened(q[k]) /\ q[k] \in Msgs
    BY <1>1 DEF Told
  <2> QED
    BY <2>1, HappenedGrows
<1> QED
  BY <1>1 DEF Told

LEMMA ToldAppend ==
  ASSUME NEW q, Told(q)', NEW m \in Msgs, Happened(m)'
  PROVE  Told(Append(q, m))'
<1>d. PICK d : d = Append(q, m)
  OBVIOUS
<1>1. /\ d \in Seq(Msgs) /\ Len(d) = Len(q) + 1 /\ Len(q) \in Nat
      /\ d[Len(q) + 1] = m /\ \A k \in 1 .. Len(q) : d[k] = q[k]
  BY <1>d, AppendAt DEF Told
<1>2. ASSUME NEW k \in 1 .. Len(d) PROVE Happened(d[k])'
  <2>1. CASE k = Len(q) + 1
    BY <1>1, <2>1
  <2>2. CASE k \in 1 .. Len(q)
    BY <1>1, <2>2 DEF Told
  <2> QED
    BY <1>1, <1>2, <2>1, <2>2
<1> QED
  BY <1>1, <1>2, <1>d DEF Told

LEMMA ToldConcat ==
  ASSUME NEW q, Told(q)', NEW p, Told(p)'
  PROVE  Told(q \o p)'
<1>d. PICK d : d = q \o p
  OBVIOUS
<1>1. /\ d \in Seq(Msgs) /\ Len(d) = Len(q) + Len(p) /\ Len(q) \in Nat /\ Len(p) \in Nat
      /\ \A k \in 1 .. Len(q) : d[k] = q[k]
      /\ \A k \in 1 .. Len(p) : d[Len(q) + k] = p[k]
  BY <1>d, ConcatAt DEF Told
<1>2. ASSUME NEW k \in 1 .. Len(d) PROVE Happened(d[k])'
  <2>1. CASE k <= Len(q)
    BY <1>1, <2>1 DEF Told
  <2>2. CASE k > Len(q)
    <3>1. k - Len(q) \in 1 .. Len(p) /\ k = Len(q) + (k - Len(q))
      BY <1>1, <2>2
    <3> QED
      BY <1>1, <3>1 DEF Told
  <2> QED
    BY <1>1, <2>1, <2>2
<1> QED
  BY <1>1, <1>2, <1>d DEF Told

\* The queue of answers and data: as it was, with a message more, or without its first.
LEMMA FedTyped ==
  ASSUME VenueT, WireT, Grows, NEW s, NEW m \in Msgs, Happened(m)', Feed(s, m)
  PROVE  Told(down)'
<1>q. PICK q : q = down
  OBVIOUS
<1>1. Told(q)'
  BY <1>q, ToldGrows DEF WireT
<1>2. Told(Append(q, m))'
  BY <1>1, ToldAppend
<1>3. CASE down' = q
  BY <1>1, <1>3 DEF Told
<1>4. CASE down' = Append(q, m)
  BY <1>2, <1>4 DEF Told
<1> QED
  BY <1>q, <1>3, <1>4 DEF Feed

LEMMA TookTyped ==
  ASSUME WireT, VenueT, UNCHANGED venue, down # <<>>, down' = Tail(down)
  PROVE  Told(down)' /\ Head(down) \in Msgs /\ Happened(Head(down))
<1>q. PICK q, r : q = down /\ r = Tail(down)
  OBVIOUS
<1>1. /\ r \in Seq(Msgs) /\ Len(r) = Len(q) - 1 /\ Len(q) \in Nat \ {0}
      /\ Head(q) \in Msgs /\ Head(q) = q[1]
      /\ \A k \in 1 .. Len(q) - 1 : r[k] = q[k + 1]
  BY <1>q, TailAt DEF WireT, Told
<1>2. Told(q)' /\ Told(q)
  BY <1>q DEF Told, Happened, WireT, venue
<1>3. ASSUME NEW k \in 1 .. Len(r) PROVE Happened(r[k])'
  <2>1. k + 1 \in 1 .. Len(q) /\ r[k] = q[k + 1]
    BY <1>1, <1>3
  <2> QED
    BY <1>2, <2>1 DEF Told
<1>4. Told(r)' /\ Happened(q[1])
  BY <1>1, <1>2, <1>3 DEF Told
<1> QED
  BY <1>1, <1>4, <1>q DEF Told

LEMMA TypedVenue ==
  ASSUME Typed, Tick \/ Venue
  PROVE  Typed'
<1> USE DEF feeds, selecting
<1>0. VenueT /\ WireT /\ FeedT /\ RunT /\ SelectT
  BY DEF Typed
<1>1. ASSUME WireT', Grows, UNCHANGED <<runAt, connected, healthy, changes, selected, feeds, selecting>>,
             faults' \in 0 .. MaxFaults
      PROVE  Typed'
  <2>1. FeedT'
    BY <1>0, <1>1, FeedGrows
  <2> QED
    BY <1>0, <1>1, <2>1 DEF Typed, Grows, RunT, SelectT
<1>2. CASE Tick
  <2>1. clock' \in Instants
    BY <1>0, <1>2, Basics DEF Tick, VenueT, Instants
  <2>2. Grows
    BY <1>0, <1>2, <2>1 DEF Tick, VenueT, Grows
  <2>3. WireT'
    BY <1>0, <1>2 DEF Tick, wire, WireT, Told, Happened
  <2> QED
    BY <1>0, <1>1, <1>2, <2>2, <2>3 DEF Tick, RunT
<1>3. ASSUME NEW s \in Moving, VenueTrades(s)
      PROVE  Typed'
  <2>1. s \in Syms
    BY StreamAssumption
  <2>2. trades' = [trades EXCEPT ![s] = Append(@, clock)] /\ UNCHANGED <<clock, depth>>
    BY <1>3 DEF VenueTrades
  <2>3. /\ trades' \in [Syms -> Seq(Instants)] /\ trades'[s] = Append(trades[s], clock)
        /\ Len(trades'[s]) = Len(trades[s]) + 1 /\ Len(trades[s]) \in Nat
        /\ \A u \in Syms \ {s} : trades'[u] = trades[u]
    BY <1>0, <2>1, <2>2 DEF VenueT
  <2>4. Grows
    BY <1>0, <2>2, <2>3 DEF VenueT, Grows
  <2>m. PICK m : m = [kind |-> "trade", sym |-> s, n |-> Len(trades[s]) + 1]
    OBVIOUS
  <2>5. m \in Msgs /\ Happened(m)' /\ Feed(s, m)
    BY <1>3, <2>1, <2>3, <2>m DEF VenueTrades, Msgs, Trades, Happened
  <2>6. WireT'
    BY <1>0, <1>3, <2>4, <2>5, FedTyped DEF VenueTrades, WireT
  <2> QED
    BY <1>0, <1>1, <1>3, <2>4, <2>6 DEF VenueTrades, RunT
<1>4. ASSUME NEW s \in Syms, VenueUpdates(s)
      PROVE  Typed'
  <2>2. depth' = [depth EXCEPT ![s] = @ + 1] /\ UNCHANGED <<clock, trades>>
    BY <1>4 DEF VenueUpdates
  <2>3. /\ depth' \in [Syms -> Nat] /\ depth'[s] = depth[s] + 1 /\ depth[s] \in Nat
        /\ \A u \in Syms \ {s} : depth'[u] = depth[u]
    BY <1>0, <2>2 DEF VenueT
  <2>4. Grows
    BY <1>0, <2>2, <2>3 DEF VenueT, Grows
  <2>m. PICK m : m = [kind |-> "delta", sym |-> s, n |-> depth[s] + 1]
    OBVIOUS
  <2>5. m \in Msgs /\ Happened(m)' /\ Feed(s, m)
    BY <1>4, <2>3, <2>m DEF VenueUpdates, Msgs, Updates, Happened
  <2>6. WireT'
    BY <1>0, <1>4, <2>4, <2>5, FedTyped DEF VenueUpdates, WireT
  <2> QED
    BY <1>0, <1>1, <1>4, <2>4, <2>6 DEF VenueUpdates, RunT
<1>5. ASSUME UNCHANGED venue
      PROVE  Grows
  BY <1>0, <1>5 DEF Grows, VenueT, venue
<1>6. ASSUME NEW s \in Syms, VenueRestates(s)
      PROVE  Typed'
  <2>m. PICK m : m = [kind |-> "snap", sym |-> s, n |-> depth[s]]
    OBVIOUS
  <2>1. m \in Msgs /\ Happened(m)' /\ Feed(s, m)
    BY <1>0, <1>6, <2>m DEF VenueRestates, Msgs, Updates, Happened, VenueT, venue
  <2>2. WireT'
    BY <1>0, <1>5, <1>6, <2>1, FedTyped DEF VenueRestates, WireT
  <2> QED
    BY <1>0, <1>1, <1>5, <1>6, <2>2, FaultTyped DEF VenueRestates
<1>7. CASE VenueAnswers
  <2>1. /\ up' \in Seq(Requests) /\ Head(up) \in Requests /\ Head(up).syms \subseteq Syms
        /\ Head(up).op = "sub" => Head(up).req \in Nat
    BY <1>0, <1>7, TailAt DEF VenueAnswers, WireT, Requests
  <2>q. PICK q : q = down
    OBVIOUS
  <2>2. Told(q)'
    BY <1>0, <1>5, <1>7, <2>q, ToldGrows DEF VenueAnswers, WireT
  <2>3. ASSUME NEW S \in SUBSET Syms, NEW p, p = Snapshots(S)
        PROVE  Told(p)'
    <3>1. /\ p \in Seq(Updates)
          /\ \A k \in 1 .. Len(p) : p[k].kind = "snap" /\ p[k].sym \in S /\ p[k].n = depth[p[k].sym]
      BY <1>0, <2>3, SnapshotsAt DEF VenueT
    <3>2. p \in Seq(Msgs)
      BY <3>1 DEF Msgs
    <3>3. UNCHANGED <<trades, depth>> /\ \A s \in Syms : depth[s] \in Nat
      BY <1>0, <1>7 DEF VenueAnswers, venue, VenueT
    <3> QED
      BY <3>1, <3>2, <3>3 DEF Told, Happened
  <2>4. Told(down)'
    <3>1. CASE down' = q
      BY <2>2, <3>1 DEF Told
    <3>2. CASE Head(up).op = "sub" /\ down' = Append(q, [kind |-> "ack", req |-> Head(up).req])
                                              \o Snapshots(Head(up).syms)
      <4>m. PICK m, p : m = [kind |-> "ack", req |-> Head(up).req] /\ p = Snapshots(Head(up).syms)
        OBVIOUS
      <4>1. m \in Msgs /\ Happened(m)'
        BY <2>1, <3>2, <4>m DEF Msgs, Happened
      <4>2. Told(p)' /\ Told(Append(q, m))'
        BY <2>1, <2>2, <2>3, <4>1, <4>m, ToldAppend
      <4>3. Told(Append(q, m) \o p)' /\ down' = Append(q, m) \o p
        BY <3>2, <4>2, <4>m, ToldConcat
      <4> QED
        BY <4>3 DEF Told
    <3>3. CASE down' = Append(q, [kind |-> "nack"])
      <4>m. PICK m : m = [kind |-> "nack"]
        OBVIOUS
      <4>1. m \in Msgs /\ Happened(m)'
        BY <4>m DEF Msgs, Happened
      <4>2. Told(Append(q, m))' /\ down' = Append(q, m)
        BY <2>2, <3>3, <4>1, <4>m, ToldAppend
      <4> QED
        BY <4>2 DEF Told
    <3> QED
      BY <1>7, <2>q, <3>1, <3>2, <3>3 DEF VenueAnswers
  <2>5. subs' \subseteq Syms
    BY <1>0, <1>7, <2>1 DEF VenueAnswers, WireT
  <2>6. WireT'
    BY <1>0, <1>7, <2>1, <2>4, <2>5 DEF VenueAnswers, WireT
  <2> QED
    BY <1>0, <1>1, <1>5, <1>7, <2>6 DEF VenueAnswers, RunT
<1>8. CASE Cut
  <2>1. WireT'
    BY <1>0, <1>8 DEF Cut, WireT, Told, Happened, venue
  <2> QED
    BY <1>0, <1>1, <1>5, <1>8, <2>1, FaultTyped DEF Cut
<1> QED
  BY <1>2, <1>3, <1>4, <1>6, <1>7, <1>8 DEF Venue

\* Books and tapes when some are emptied, and one is written.
LEMMA FeedWritten ==
  ASSUME VenueT, FeedT, UNCHANGED venue,
         book' \in [Syms -> BookType], tape' \in [Syms -> TapeType],
         \A s \in Syms : \/ book'[s] = book[s] \/ book'[s] = NewBook
                         \/ book'[s].at <= depth[s],
         \A s \in Syms : \/ tape'[s] = tape[s] \/ Len(tape'[s].got) = 0
                         \/ /\ Len(tape'[s].got) <= TapeLen
                            /\ \A k \in 1 .. Len(tape'[s].got) : tape'[s].got[k] \in 1 .. Len(trades[s])
  PROVE  FeedT'
<1>1. ASSUME NEW s \in Syms PROVE book'[s].at <= depth[s]
  <2>1. depth[s] \in Nat /\ book[s].at <= depth[s]
    BY DEF FeedT, VenueT
  <2>2. CASE book'[s] = NewBook
    BY <2>1, <2>2, NewFeeds
  <2> QED
    BY <2>1, <2>2
<1>2. ASSUME NEW s \in Syms
      PROVE  /\ Len(tape'[s].got) <= TapeLen
             /\ \A k \in 1 .. Len(tape'[s].got) : tape'[s].got[k] \in 1 .. Len(trades[s])
  <2>1. CASE tape'[s] = tape[s]
    BY <2>1 DEF FeedT
  <2>2. CASE Len(tape'[s].got) = 0
    BY <2>2, Basics
  <2> QED
    BY <1>2, <2>1, <2>2
<1> QED
  BY <1>1, <1>2 DEF FeedT, venue

LEMMA InvalidateTyped ==
  ASSUME VenueT, FeedT, UNCHANGED venue, Invalidate
  PROVE  FeedT' /\ connected' \in BOOLEAN
<1>1. clock \in Instants
  BY DEF VenueT
<1>2. book' \in [Syms -> BookType] /\ \A s \in Syms : book'[s] = book[s] \/ book'[s] = NewBook
  BY NewFeeds DEF Invalidate, FeedT
<1>3. tape' \in [Syms -> TapeType] /\ \A s \in Syms : tape'[s] = tape[s] \/ Len(tape'[s].got) = 0
  BY <1>1, NewFeeds DEF Invalidate, FeedT
<1>4. connected' \in BOOLEAN
  BY DEF Invalidate
<1> QED
  BY <1>2, <1>3, <1>4, FeedWritten

LEMMA NoLinkTyped == NoLink => WireT'
<1> SUFFICES ASSUME NoLink PROVE WireT'
  OBVIOUS
<1>1. <<>> \in Seq(Msgs) /\ <<>> \in Seq(Requests) /\ Len(<<>>) = 0
  OBVIOUS
<1>2. down' = <<>> /\ up' = <<>> /\ subs' = {} /\ link' = "none"
  BY DEF NoLink
<1>3. Told(down)'
  BY <1>1, <1>2 DEF Told
<1> QED
  BY <1>1, <1>2, <1>3 DEF WireT

LEMMA RaisedTyped ==
  ASSUME Typed, Raised, healthy' \in BOOLEAN, faults' \in 0 .. MaxFaults
  PROVE  Typed'
<1>1. UNCHANGED <<venue, selected, changes, selecting>> /\ runAt' = "top"
  BY DEF Raised
<1>2. FeedT' /\ connected' \in BOOLEAN /\ WireT'
  BY InvalidateTyped, NoLinkTyped DEF Raised, Typed
<1>3. VenueT'
  BY <1>1 DEF Typed, VenueT, venue
<1>4. SelectT'
  BY <1>1 DEF Typed, SelectT, selecting
<1>5. RunT'
  BY <1>1, <1>2 DEF Typed, RunT
<1> QED
  BY <1>2, <1>3, <1>4, <1>5 DEF Typed

LEMMA ReceivedTyped ==
  ASSUME Typed, NEW kinds, Receives(kinds), UNCHANGED venue
  PROVE  /\ WireT' /\ Head(down) \in Msgs /\ Happened(Head(down)) /\ Head(down).kind \in kinds
  BY TookTyped DEF Receives, Typed, WireT

LEMMA TypedRun ==
  ASSUME Typed, Run
  PROVE  Typed'
<1> USE DEF feeds, selecting
<1>0. VenueT /\ WireT /\ FeedT /\ RunT /\ SelectT
  BY DEF Typed
<1>v. UNCHANGED venue => VenueT' /\ (UNCHANGED <<book, tape>> => FeedT')
  BY <1>0 DEF VenueT, venue, FeedT
<1>s. UNCHANGED <<selected, selecting>> => SelectT'
  BY <1>0 DEF SelectT
<1>1. CASE GiveUp
  BY <1>0, <1>1, <1>v, <1>s, InvalidateTyped DEF GiveUp, Typed, RunT, wire, WireT, Told, Happened, venue
<1>2. CASE Connect
  <2>1. up' = <<[op |-> "sub", syms |-> selected, req |-> NoReq]>> /\ down' = <<>>
        /\ subs' = {} /\ link' = "open"
    BY <1>2 DEF Connect
  <2>2. up' \in Seq(Requests)
    BY <1>0, <2>1, Basics DEF Requests, SelectT
  <2>3. Told(down)'
    BY <2>1 DEF Told
  <2>4. WireT'
    BY <2>1, <2>2, <2>3 DEF WireT
  <2>5. changes' \in [Instants -> SUBSET Syms]
    BY <1>2 DEF Connect
  <2> QED
    BY <1>0, <1>2, <1>v, <1>s, <2>4, <2>5, InvalidateTyped DEF Connect, Typed, RunT
<1>3. CASE Interrupted \/ Nack \/ DeltaGap
  BY <1>0, <1>3, RaisedTyped DEF Interrupted, Nack, DeltaGap, RunT
<1>4. CASE BackedUp
  BY <1>0, <1>4, RaisedTyped, FaultTyped DEF BackedUp, RunT
<1>5. CASE Ack
  <2>1. WireT' /\ UNCHANGED <<venue, runAt, selected, book, healthy, selecting, faults>> /\ connected' = TRUE
    BY <1>5, ReceivedTyped DEF Ack
  <2>2. changes' \in [Instants -> SUBSET Syms]
    <3>1. PICK req : changes' = [r \in Instants |-> IF r = req THEN {} ELSE changes[r]]
      BY <1>5 DEF Ack
    <3> QED
      BY <1>0, <3>1 DEF RunT
  <2>3. PICK confirmed : tape' = [s \in Syms |->
                            IF s \in confirmed \cap selected THEN EmptyTape(clock) ELSE tape[s]]
    BY <1>5 DEF Ack
  <2>4. clock \in Instants
    BY <1>0 DEF VenueT
  <2>5. tape' \in [Syms -> TapeType] /\ \A s \in Syms : tape'[s] = tape[s] \/ Len(tape'[s].got) = 0
    BY <1>0, <2>3, <2>4, NewFeeds DEF FeedT
  <2>6. FeedT'
    BY <1>0, <2>1, <2>5, FeedWritten DEF FeedT
  <2> QED
    BY <1>0, <1>v, <1>s, <2>1, <2>2, <2>6 DEF Typed, RunT
<1>6. CASE Ignored
  <2>1. WireT'
    BY <1>6, ReceivedTyped DEF Ignored
  <2> QED
    BY <1>0, <1>6, <1>v, <1>s, <2>1 DEF Ignored, Typed, RunT
<1>7. CASE Shed
  <2>1. WireT' /\ faults' \in 0 .. MaxFaults /\ UNCHANGED venue
    BY <1>0, <1>7, ReceivedTyped, FaultTyped DEF Shed
  <2>2. /\ book' = [book EXCEPT ![Head(down).sym] = NewBook]
        /\ tape' = [tape EXCEPT ![Head(down).sym] = EmptyTape(clock)]
    BY <1>7 DEF Shed
  <2>3. clock \in Instants
    BY <1>0 DEF VenueT
  <2>4. /\ book' \in [Syms -> BookType] /\ tape' \in [Syms -> TapeType]
        /\ \A s \in Syms : book'[s] = book[s] \/ book'[s] = NewBook
        /\ \A s \in Syms : tape'[s] = tape[s] \/ Len(tape'[s].got) = 0
    BY <1>0, <2>2, <2>3, NewFeeds DEF FeedT
  <2>5. FeedT'
    BY <1>0, <2>1, <2>4, FeedWritten
  <2> QED
    BY <1>0, <1>7, <1>v, <1>s, <2>1, <2>5 DEF Shed, Typed, RunT
<1>8. CASE Snapshot \/ Delta
  <2>m. PICK m : m = Head(down)
    OBVIOUS
  <2>1. WireT' /\ m \in Msgs /\ Happened(m) /\ m.kind \in {"snap", "delta"} /\ UNCHANGED <<venue, tape>>
    BY <1>8, <2>m, ReceivedTyped DEF Snapshot, Delta
  <2>2. m.n \in Nat /\ m.n <= depth[m.sym] /\ m.sym \in Syms
    BY <2>1, MsgFields DEF Happened
  <2>3. PICK whole \in BOOLEAN :
          book' = [book EXCEPT ![m.sym] = [valid |-> TRUE, at |-> m.n, whole |-> whole]]
    <3>1. book[m.sym].whole \in BOOLEAN
      BY <1>0, <2>2 DEF FeedT, BookType
    <3>2. CASE Snapshot
      BY <2>m, <3>2 DEF Snapshot
    <3>3. CASE Delta
      BY <2>m, <3>1, <3>3 DEF Delta
    <3> QED
      BY <1>8, <3>2, <3>3
  <2>4. /\ book' \in [Syms -> BookType]
        /\ \A s \in Syms : book'[s] = book[s] \/ book'[s].at <= depth[s]
    BY <1>0, <2>2, <2>3 DEF FeedT, BookType
  <2>5. FeedT'
    BY <1>0, <2>1, <2>4, FeedWritten DEF FeedT
  <2> QED
    BY <1>0, <1>8, <1>v, <1>s, <2>1, <2>5 DEF Snapshot, Delta, Typed, RunT
<1>9. CASE Trade
  <2>m. PICK m, s : m = Head(down) /\ s = m.sym
    OBVIOUS
  <2>1. /\ WireT' /\ m \in Msgs /\ Happened(m) /\ m.kind = "trade" /\ UNCHANGED <<venue, book>>
        /\ tape' = [tape EXCEPT ![s] = Added(s, m.n)] /\ Arrived
    BY <1>9, <2>m, ReceivedTyped DEF Trade, Receives
  <2>2. m.n \in 1 .. Len(trades[s]) /\ s \in Syms
    BY <2>1, <2>m, MsgFields DEF Happened
  <2>t. PICK t : t = tape[s]
    OBVIOUS
  <2>3. /\ t.start \in Instants /\ t.got \in Seq(Nat) /\ Len(t.got) <= TapeLen
        /\ \A k \in 1 .. Len(t.got) : t.got[k] \in 1 .. Len(trades[s])
        /\ trades[s] \in Seq(Instants) /\ TapeLen \in Nat \ {0} /\ t \in TapeType
    BY <1>0, <2>2, <2>t, Basics DEF FeedT, TapeType, VenueT
  <2>f. PICK past : past = trades[s][Head(t.got)] + 1
    OBVIOUS
  <2>4. Len(t.got) = TapeLen => past \in Instants
    <3>1. SUFFICES ASSUME Len(t.got) = TapeLen PROVE past \in Instants
      OBVIOUS
    <3>2. Head(t.got) \in 1 .. Len(trades[s])
      <4>1. Len(t.got) \in Nat \ {0} /\ 1 \in 1 .. Len(t.got)
        BY <2>3, <3>1
      <4>2. Head(t.got) = t.got[1]
        BY <2>3, <4>1
      <4> QED
        BY <2>3, <4>1, <4>2
    <3>3. trades[s][Head(t.got)] \in Instants /\ trades[s][Head(t.got)] < clock
      BY <2>1, <2>2, <2>3, <3>2 DEF Arrived
    <3>4. clock \in 0 .. MaxClock /\ MaxClock \in Nat
      BY <1>0, Basics DEF VenueT, Instants
    <3> QED
      BY <2>f, <3>3, <3>4 DEF Instants
  <2>g. PICK base : base = IF Len(t.got) = TapeLen THEN Tail(t.got) ELSE t.got
    OBVIOUS
  <2>5. /\ base \in Seq(Nat) /\ Len(base) + 1 <= TapeLen
        /\ \A k \in 1 .. Len(base) : base[k] \in 1 .. Len(trades[s])
    <3>1. CASE Len(t.got) = TapeLen
      <4>1. t.got # <<>>
        BY <2>3, <3>1
      <4>2. /\ Tail(t.got) \in Seq(Nat) /\ Len(Tail(t.got)) = Len(t.got) - 1 /\ Len(t.got) \in Nat
            /\ \A k \in 1 .. Len(t.got) - 1 : Tail(t.got)[k] = t.got[k + 1]
        BY <2>3, <4>1, TailAt
      <4>3. \A k \in 1 .. Len(t.got) - 1 : k + 1 \in 1 .. Len(t.got)
        BY <4>2
      <4> QED
        BY <2>3, <2>g, <3>1, <4>2, <4>3
    <3>2. CASE Len(t.got) # TapeLen
      <4>1. base = t.got /\ Len(t.got) \in Nat /\ Len(t.got) < TapeLen /\ TapeLen \in Nat
        BY <2>3, <2>g, <3>2
      <4> QED
        BY <2>3, <4>1
    <3> QED
      BY <3>1, <3>2
  <2>a. PICK got : got = Append(base, m.n)
    OBVIOUS
  <2>6. /\ got \in Seq(Nat) /\ Len(got) <= TapeLen
        /\ \A k \in 1 .. Len(got) : got[k] \in 1 .. Len(trades[s])
    <3>1. m.n \in Nat
      BY <2>1, MsgFields
    <3>2. /\ got \in Seq(Nat) /\ Len(got) = Len(base) + 1 /\ Len(base) \in Nat
          /\ got[Len(base) + 1] = m.n /\ \A k \in 1 .. Len(base) : got[k] = base[k]
      BY <2>5, <2>a, <3>1, AppendAt
    <3> QED
      BY SMTT(30), <2>2, <2>5, <3>2
  <2>7. PICK start \in Instants : Added(s, m.n) = [start |-> start, got |-> got]
    BY <2>3, <2>4, <2>t, <2>f, <2>g, <2>a DEF Added
  <2>8. tape'[s] = [start |-> start, got |-> got] /\ \A u \in Syms \ {s} : tape'[u] = tape[u]
    BY <1>0, <2>1, <2>2, <2>7 DEF FeedT
  <2>9. tape' \in [Syms -> TapeType]
    <3>1. [start |-> start, got |-> got] \in TapeType
      BY <2>6, <2>7 DEF TapeType
    <3> QED
      BY <1>0, <2>1, <2>7, <3>1 DEF FeedT
  <2>10. FeedT'
    <3>1. tape'[s].got = got
      BY <2>8
    <3> QED
      BY <1>0, <2>1, <2>6, <2>8, <2>9, <3>1, FeedWritten DEF FeedT
  <2> QED
    BY <1>0, <1>9, <1>v, <1>s, <2>1, <2>10 DEF Trade, Typed, RunT
<1> QED
  BY <1>1, <1>2, <1>3, <1>4, <1>5, <1>6, <1>7, <1>8, <1>9 DEF Run

LEMMA SentTyped ==
  ASSUME Typed, NEW r \in Requests, Sends(r), UNCHANGED venue
  PROVE  WireT'
<1>1. up' \in Seq(Requests)
  BY AppendAt DEF Sends, Typed, WireT
<1> QED
  BY <1>1 DEF Sends, Typed, WireT, Told, Happened, venue

LEMMA StartsTyped ==
  ASSUME Typed, NEW goal \in SUBSET Syms, StartOver(goal), UNCHANGED venue,
         changes' \in [Instants -> SUBSET Syms], healthy' \in BOOLEAN, faults' \in 0 .. MaxFaults,
         selects' \in 0 .. MaxSelects
  PROVE  Typed'
<1>0. VenueT /\ FeedT
  BY DEF Typed
<1>1. WireT'
  BY NoLinkTyped DEF StartOver
<1>2. book' = [s \in Syms |-> NewBook] /\ tape' = [s \in Syms |-> NewTape]
  BY DEF StartOver
<1>3. FeedT'
  BY <1>0, <1>2, NewFeeds, FeedWritten
<1>4. SelectT' /\ RunT'
  BY DEF StartOver, SelectT, RunT
<1> QED
  BY <1>0, <1>1, <1>3, <1>4 DEF Typed, VenueT, venue

LEMMA TypedSelecting ==
  ASSUME Typed, Selecting \/ RecorderFails \/ RecorderHeals
  PROVE  Typed'
<1> USE DEF feeds, selecting
<1>0. VenueT /\ WireT /\ FeedT /\ RunT /\ SelectT
  BY DEF Typed
<1>v. UNCHANGED venue => VenueT' /\ (UNCHANGED <<book, tape>> => FeedT')
  BY <1>0 DEF VenueT, venue, FeedT
<1>w. UNCHANGED <<venue, wire>> => WireT'
  BY <1>0 DEF WireT, wire, Told, Happened, venue
<1>1. CASE RecorderFails \/ RecorderHeals
  <2>1. faults' \in 0 .. MaxFaults
    BY <1>0, <1>1, FaultTyped DEF RecorderFails, RecorderHeals, RunT
  <2> QED
    BY <1>0, <1>1, <1>v, <1>w, <2>1 DEF RecorderFails, RecorderHeals, Typed, RunT, SelectT
<1>2. ASSUME NEW goal \in SUBSET Syms, Select(goal) PROVE Typed'
  <2>1. UNCHANGED <<venue, changes, healthy, faults>> /\ adding = {} /\ removing = {} /\ selAt = "idle"
    BY <1>0, <1>2 DEF Select, SelectT
  <2>2. selects' \in 0 .. MaxSelects
    <3>1. selects \in Nat /\ selects <= MaxSelects /\ MaxSelects \in Nat
      BY <1>0, Basics DEF SelectT
    <3>2. selects' = selects \/ (selects < MaxSelects /\ selects' = selects + 1)
      BY <1>2 DEF Select
    <3> QED
      BY <3>1, <3>2
  <2>3. CASE StartOver(goal)
    BY <1>0, <2>1, <2>2, <2>3, StartsTyped DEF RunT
  <2>4. CASE Rotate(goal)
    <3>1. SelectT'
      BY <1>0, <2>2, <2>4 DEF Rotate, SelectT
    <3>2. /\ book' \in [Syms -> BookType] /\ tape' \in [Syms -> TapeType]
          /\ \A s \in Syms : book'[s] = book[s] \/ book'[s] = NewBook
          /\ \A s \in Syms : tape'[s] = tape[s] \/ Len(tape'[s].got) = 0
      BY <1>0, <2>4, NewFeeds DEF Rotate, FeedT
    <3>3. FeedT'
      BY <1>0, <2>1, <3>2, FeedWritten
    <3> QED
      BY <1>0, <1>v, <1>w, <2>1, <2>4, <3>1, <3>3 DEF Rotate, Typed, RunT
  <2> QED
    BY <1>2, <2>3, <2>4 DEF Select
<1>3. CASE SendUnsub
  <2>r. PICK r : r = [op |-> "unsub", syms |-> removing]
    OBVIOUS
  <2>1. r \in Requests /\ Sends(r) /\ UNCHANGED venue
    BY <1>0, <1>3, <2>r DEF SendUnsub, Requests, SelectT
  <2>2. WireT'
    BY <2>1, SentTyped
  <2>3. SelectT'
    BY <1>0, <1>3 DEF SendUnsub, SelectT
  <2> QED
    BY <1>0, <1>3, <1>v, <2>2, <2>3 DEF SendUnsub, Typed, RunT
<1>4. ASSUME changes' = [changes EXCEPT ![clock] = adding]
      PROVE  changes' \in [Instants -> SUBSET Syms]
  BY <1>0, <1>4 DEF RunT, SelectT, VenueT
<1>5. CASE SendSub
  <2>r. PICK r : r = [op |-> "sub", syms |-> adding, req |-> clock]
    OBVIOUS
  <2>1. r \in Requests /\ Sends(r) /\ UNCHANGED venue
    BY <1>0, <1>5, <2>r, Basics DEF SendSub, Requests, SelectT, VenueT
  <2>2. WireT'
    BY <2>1, SentTyped
  <2>3. SelectT'
    BY <1>0, <1>5 DEF SendSub, SelectT
  <2> QED
    BY <1>0, <1>4, <1>5, <1>v, <2>2, <2>3 DEF SendSub, Typed, RunT
<1>6. CASE SendFails
  <2>1. changes' \in [Instants -> SUBSET Syms]
    BY <1>0, <1>4, <1>6 DEF SendFails, RunT
  <2>2. healthy' \in BOOLEAN /\ faults' \in 0 .. MaxFaults
    BY <1>0, <1>6, FaultTyped DEF SendFails, RunT
  <2>3. StartOver(selected) /\ UNCHANGED <<venue, selects>> /\ selected \in SUBSET Syms
    BY <1>0, <1>6 DEF SendFails, SelectT
  <2> QED
    BY <1>0, <2>1, <2>2, <2>3, StartsTyped DEF SelectT
<1> QED
  BY <1>1, <1>2, <1>3, <1>5, <1>6 DEF Selecting

LEMMA TypedStep == ASSUME Typed, [Next]_vars PROVE Typed'
<1>1. CASE UNCHANGED vars
  BY <1>1 DEF vars, venue, wire, feeds, selecting, Typed, VenueT, WireT, FeedT, RunT, SelectT, Told, Happened
<1> QED
  BY <1>1, TypedVenue, TypedRun, TypedSelecting DEF Next

LEMMA TypedImplies == Typed => TypeOK
<1> SUFFICES ASSUME Typed PROVE TypeOK
  OBVIOUS
<1>0. VenueT /\ WireT /\ FeedT /\ RunT /\ SelectT
  BY DEF Typed
<1>1. ASSUME NEW s \in Syms
      PROVE  /\ book[s].at \in 0 .. depth[s]
             /\ tape[s].start \in Instants /\ Len(tape[s].got) <= TapeLen
             /\ \A k \in DOMAIN tape[s].got : tape[s].got[k] \in DOMAIN trades[s]
  <2>1. /\ book[s].at \in Nat /\ book[s].at <= depth[s] /\ depth[s] \in Nat
        /\ tape[s].start \in Instants /\ tape[s].got \in Seq(Nat)
        /\ trades[s] \in Seq(Instants)
    BY <1>0, <1>1 DEF FeedT, BookType, TapeType, VenueT
  <2>2. DOMAIN tape[s].got = 1 .. Len(tape[s].got) /\ DOMAIN trades[s] = 1 .. Len(trades[s])
    BY <2>1
  <2> QED
    BY <1>0, <1>1, <2>1, <2>2 DEF FeedT
<1> QED
  BY <1>0, <1>1 DEF TypeOK, VenueT, WireT, RunT, SelectT

\* The types hold: no tape longer than it may be, and nothing received that the venue did
\* not send (Tape.add, Book.apply).
THEOREM TypeCorrect == Spec => []TypeOK
  BY TypedInit, TypedStep, TypedImplies, PTL DEF Spec

-----------------------------------------------------------------------------
(* Books.                                                                  *)

ChainOf(q, s, b) ==
  \A k \in 1 .. Len(q) :
    q[k].kind = "delta" /\ q[k].sym = s => Reaches(q, s, k, b, q[k].n - 1)
EndOf(q, s, b, n) == Reaches(q, s, Len(q) + 1, b, n)

Chain == \A s \in Syms : ChainOf(down, s, book[s])
Current == \A s \in subs : EndOf(down, s, book[s], depth[s])

\* A valid book is selected and fed by the task, and has missed nothing.
Valid == \A s \in Syms : book[s].valid => s \in selected /\ book[s].whole /\ runAt = "live"
Linked == (subs # {} \/ up # <<>> => link = "open") /\ (connected => runAt = "live")

BookInv == Chain /\ Current /\ Valid /\ Linked

\* The same queue, with books that are the same or no longer valid.
LEMMA ChainWeaker ==
  ASSUME NEW q \in Seq(Msgs), NEW s, NEW b, NEW c, c.valid => b.valid /\ c.at = b.at
  PROVE  /\ ChainOf(q, s, b) => ChainOf(q, s, c)
         /\ \A n : EndOf(q, s, b, n) => EndOf(q, s, c, n)
<1>0. Len(q) \in Nat
  OBVIOUS
<1>1. ASSUME ChainOf(q, s, b), NEW k \in 1 .. Len(q), q[k].kind = "delta", q[k].sym = s
      PROVE  Reaches(q, s, k, c, q[k].n - 1)
  <2>1. Reaches(q, s, k, b, q[k].n - 1) /\ k \in Nat
    BY <1>0, <1>1 DEF ChainOf
  <2>2. \A j \in k .. k - 1 : FALSE
    BY <2>1
  <2> QED
    BY <2>1, <2>2, ReachesMore
<1>2. ASSUME NEW n, EndOf(q, s, b, n) PROVE EndOf(q, s, c, n)
  <2>1. Reaches(q, s, Len(q) + 1, b, n) /\ Len(q) + 1 \in Nat
    BY <1>0, <1>2 DEF EndOf
  <2>2. \A j \in Len(q) + 1 .. (Len(q) + 1) - 1 : FALSE
    BY <1>0
  <2> QED
    BY <2>1, <2>2, ReachesMore DEF EndOf
<1> QED
  BY <1>1, <1>2 DEF ChainOf

\* A message is taken from the queue, and applied to the book it is about.
LEMMA ChainTail ==
  ASSUME NEW q \in Seq(Msgs), q # <<>>, NEW s, NEW b, NEW c,
         c.valid => \/ About(Head(q), s) /\ c.at = Head(q).n
                    \/ ~About(Head(q), s) /\ b.valid /\ c.at = b.at
  PROVE  /\ ChainOf(q, s, b) => ChainOf(Tail(q), s, c)
         /\ \A n : EndOf(q, s, b, n) => EndOf(Tail(q), s, c, n)
<1>0. /\ Len(q) \in Nat \ {0} /\ Len(Tail(q)) = Len(q) - 1
      /\ \A k \in 1 .. Len(q) - 1 : Tail(q)[k] = q[k + 1]
  BY TailAt
<1>1. ASSUME ChainOf(q, s, b), NEW k \in 1 .. Len(Tail(q)),
             Tail(q)[k].kind = "delta", Tail(q)[k].sym = s
      PROVE  Reaches(Tail(q), s, k, c, Tail(q)[k].n - 1)
  <2>1. k + 1 \in 2 .. Len(q) + 1 /\ k + 1 \in 1 .. Len(q) /\ Tail(q)[k] = q[k + 1] /\ (k + 1) - 1 = k
    BY <1>0, <1>1
  <2>2. Reaches(q, s, k + 1, b, q[k + 1].n - 1)
    BY <1>1, <2>1 DEF ChainOf
  <2>3. Reaches(Tail(q), s, (k + 1) - 1, c, q[k + 1].n - 1)
    BY <2>1, <2>2, ReachesTail
  <2> QED
    BY <2>1, <2>3
<1>2. ASSUME NEW n, EndOf(q, s, b, n) PROVE EndOf(Tail(q), s, c, n)
  <2>1. Len(q) + 1 \in 2 .. Len(q) + 1 /\ (Len(q) + 1) - 1 = Len(Tail(q)) + 1
    BY <1>0
  <2>2. Reaches(Tail(q), s, (Len(q) + 1) - 1, c, n)
    BY <1>2, <2>1, ReachesTail DEF EndOf
  <2> QED
    BY <2>1, <2>2 DEF EndOf
<1> QED
  BY <1>1, <1>2 DEF ChainOf

\* A message is added to the queue.
LEMMA ChainAppend ==
  ASSUME NEW q \in Seq(Msgs), NEW m \in Msgs, NEW s, NEW b, ChainOf(q, s, b)
  PROVE  /\ (m.kind = "delta" /\ m.sym = s => EndOf(q, s, b, m.n - 1)) => ChainOf(Append(q, m), s, b)
         /\ About(m, s) => EndOf(Append(q, m), s, b, m.n)
         /\ \A n : EndOf(q, s, b, n) /\ ~About(m, s) => EndOf(Append(q, m), s, b, n)
<1>r. PICK r : r = Append(q, m)
  OBVIOUS
<1>0. /\ Len(q) \in Nat /\ Len(r) = Len(q) + 1 /\ r[Len(q) + 1] = m
      /\ \A k \in 1 .. Len(q) : r[k] = q[k]
  BY <1>r, AppendAt
<1>1. ASSUME NEW k \in 1 .. Len(q) + 1, NEW n, Reaches(q, s, k, b, n)
      PROVE  Reaches(r, s, k, b, n)
  <2>1. k \in Nat /\ (\A j \in 1 .. k - 1 : r[j] = q[j]) /\ \A j \in k .. k - 1 : FALSE
    BY <1>0, <1>1
  <2> QED
    BY <1>1, <2>1, ReachesMore
<1>2. ASSUME m.kind = "delta" /\ m.sym = s => EndOf(q, s, b, m.n - 1),
             NEW k \in 1 .. Len(r), r[k].kind = "delta", r[k].sym = s
      PROVE  Reaches(r, s, k, b, r[k].n - 1)
  <2>1. CASE k = Len(q) + 1
    <3>1. Reaches(q, s, Len(q) + 1, b, m.n - 1) /\ Len(q) + 1 \in 1 .. Len(q) + 1
      BY <1>0, <1>2, <2>1 DEF EndOf
    <3> QED
      BY <1>0, <1>1, <2>1, <3>1
  <2>2. CASE k \in 1 .. Len(q)
    <3>1. Reaches(q, s, k, b, q[k].n - 1) /\ k \in 1 .. Len(q) + 1
      BY <1>0, <1>2, <2>2 DEF ChainOf
    <3> QED
      BY <1>0, <1>1, <2>2, <3>1
  <2> QED
    BY <1>0, <1>2, <2>1, <2>2
<1>3. ASSUME About(m, s) PROVE EndOf(r, s, b, m.n)
  <2>1. /\ Len(r) + 1 \in Nat /\ Len(q) + 1 \in 1 .. (Len(r) + 1) - 1
        /\ \A i \in (Len(q) + 1) + 1 .. (Len(r) + 1) - 1 : FALSE
    BY <1>0
  <2>2. Reaches(r, s, Len(r) + 1, b, r[Len(q) + 1].n)
    BY <1>0, <1>3, <2>1, ReachesLast
  <2> QED
    BY <1>0, <2>2 DEF EndOf
<1>4. ASSUME NEW n, EndOf(q, s, b, n), ~About(m, s) PROVE EndOf(r, s, b, n)
  <2>1. /\ Len(q) + 1 \in Nat /\ Len(r) + 1 \in Nat /\ Len(q) + 1 <= Len(r) + 1
        /\ \A j \in 1 .. (Len(q) + 1) - 1 : r[j] = q[j]
        /\ \A j \in Len(q) + 1 .. (Len(r) + 1) - 1 : j = Len(q) + 1
    BY <1>0
  <2> QED
    BY <1>0, <1>4, <2>1, ReachesMore DEF EndOf
<1> QED
  BY <1>2, <1>3, <1>4, <1>r DEF ChainOf

\* Snapshots are added to the queue, one of each of the symbols of S.
LEMMA ChainSnapshots ==
  ASSUME NEW q \in Seq(Msgs), NEW S \in SUBSET Syms, depth \in [Syms -> Nat],
         NEW s \in Syms, NEW b, ChainOf(q, s, b)
  PROVE  /\ ChainOf(q \o Snapshots(S), s, b)
         /\ s \in S => EndOf(q \o Snapshots(S), s, b, depth[s])
         /\ s \notin S => \A n : EndOf(q, s, b, n) => EndOf(q \o Snapshots(S), s, b, n)
<1>p. PICK p, r : p = Snapshots(S) /\ r = q \o p
  OBVIOUS
<1>0. /\ p \in Seq(Msgs) /\ Len(p) \in Nat /\ Len(q) \in Nat /\ Len(r) = Len(q) + Len(p)
      /\ \A k \in 1 .. Len(q) : r[k] = q[k]
      /\ \A k \in 1 .. Len(p) : r[Len(q) + k] = p[k]
  <2>1. p \in Seq(Msgs)
    BY <1>p, SnapshotsAt DEF Msgs
  <2> QED
    BY <1>p, <2>1, ConcatAt
<1>1. \A k \in 1 .. Len(p) : p[k].kind = "snap" /\ p[k].sym \in S /\ p[k].n = depth[p[k].sym]
  <2>1. \A k \in 1 .. Len(Snapshots(S)) :
          LET m == Snapshots(S)[k] IN m.kind = "snap" /\ m.sym \in S /\ m.n = depth[m.sym]
    BY SnapshotsAt
  <2> QED
    BY <1>p, <2>1
<1>2. \A k \in Len(q) + 1 .. Len(r) :
        r[k].kind = "snap" /\ r[k].sym \in S /\ r[k] = p[k - Len(q)] /\ k - Len(q) \in 1 .. Len(p)
  <2> TAKE k \in Len(q) + 1 .. Len(r)
  <2>1. k - Len(q) \in 1 .. Len(p) /\ Len(q) + (k - Len(q)) = k
    BY <1>0
  <2> QED
    BY <1>0, <1>1, <2>1
<1>3. ASSUME NEW k \in 1 .. Len(r), r[k].kind = "delta", r[k].sym = s
      PROVE  Reaches(r, s, k, b, r[k].n - 1)
  <2>1. k \in 1 .. Len(q)
    <3>1. ~(k \in Len(q) + 1 .. Len(r))
      BY <1>2, <1>3
    <3> QED
      BY <1>0, <3>1
  <2>2. Reaches(q, s, k, b, r[k].n - 1)
    BY <1>0, <1>3, <2>1 DEF ChainOf
  <2>3. k \in Nat /\ (\A j \in 1 .. k - 1 : r[j] = q[j]) /\ \A j \in k .. k - 1 : FALSE
    BY <1>0, <2>1
  <2> QED
    BY <2>2, <2>3, ReachesMore
<1>4. ASSUME s \in S PROVE EndOf(r, s, b, depth[s])
  <2>1. PICK j \in 1 .. Len(p) : p[j].sym = s /\ \A i \in 1 .. Len(p) : i # j => p[i].sym # s
    <3>1. \E j \in 1 .. Len(Snapshots(S)) :
            /\ Snapshots(S)[j].sym = s
            /\ \A i \in 1 .. Len(Snapshots(S)) : i # j => Snapshots(S)[i].sym # s
      BY <1>4, SnapshotsAt
    <3> QED
      BY <1>p, <3>1
  <2>2. /\ Len(r) + 1 \in Nat /\ Len(q) + j \in 1 .. (Len(r) + 1) - 1
        /\ r[Len(q) + j] = p[j] /\ p[j].kind = "snap" /\ p[j].n = depth[s]
    BY <1>0, <1>1, <2>1
  <2>3. ASSUME NEW i \in (Len(q) + j) + 1 .. (Len(r) + 1) - 1
        PROVE  ~About(r[i], s)
    <3>1. i \in Len(q) + 1 .. Len(r) /\ i - Len(q) # j
      BY <1>0, <2>1
    <3> QED
      BY <1>2, <2>1, <3>1 DEF About
  <2>4. About(r[Len(q) + j], s)
    BY <2>1, <2>2 DEF About
  <2>5. Reaches(r, s, Len(r) + 1, b, r[Len(q) + j].n)
    BY <2>2, <2>3, <2>4, ReachesLast
  <2> QED
    BY <2>2, <2>5 DEF EndOf
<1>5. ASSUME s \notin S, NEW n, EndOf(q, s, b, n) PROVE EndOf(r, s, b, n)
  <2>1. /\ Len(q) + 1 \in Nat /\ Len(r) + 1 \in Nat /\ Len(q) + 1 <= Len(r) + 1
        /\ \A j \in 1 .. (Len(q) + 1) - 1 : r[j] = q[j]
        /\ \A j \in Len(q) + 1 .. (Len(r) + 1) - 1 : j \in Len(q) + 1 .. Len(r)
    BY <1>0
  <2>2. \A j \in Len(q) + 1 .. (Len(r) + 1) - 1 : ~About(r[j], s)
    BY <1>2, <1>5, <2>1 DEF About
  <2> QED
    BY <1>5, <2>1, <2>2, ReachesMore DEF EndOf
<1> QED
  BY <1>3, <1>4, <1>5, <1>p DEF ChainOf

LEMMA BookInit == Init => BookInv
<1> SUFFICES ASSUME Init PROVE BookInv
  OBVIOUS
<1>1. Len(<<>>) = 0
  OBVIOUS
<1>2. Chain
  BY <1>1 DEF Init, Chain, ChainOf
<1>3. Current /\ Valid /\ Linked
  BY NewFeeds DEF Init, Current, Valid, Linked
<1> QED
  BY <1>2, <1>3 DEF BookInv

\* The queue and the books as they are, or no longer valid.
LEMMA BookKeeps ==
  ASSUME Typed, BookInv, UNCHANGED <<down, depth>>, subs' \subseteq subs,
         \A s \in Syms : book'[s].valid => book[s].valid /\ book'[s].at = book[s].at
  PROVE  Chain' /\ Current'
<1>1. down \in Seq(Msgs) /\ subs \subseteq Syms
  BY DEF Typed, WireT, Told
<1>2. ASSUME NEW s \in Syms PROVE ChainOf(down, s, book'[s])
  BY <1>1, ChainWeaker DEF BookInv, Chain
<1>3. ASSUME NEW s \in subs' PROVE EndOf(down, s, book'[s], depth[s])
  BY <1>1, ChainWeaker DEF BookInv, Current
<1> QED
  BY <1>2, <1>3 DEF Chain, Current

\* Everything is given up with the connection.
LEMMA BookEmpty ==
  ASSUME down' = <<>>, subs' = {}, up' = <<>> \/ link' = "open", \A s \in Syms : ~book'[s].valid,
         connected' => runAt' = "live"
  PROVE  BookInv'
<1>1. Len(<<>>) = 0
  OBVIOUS
<1>2. Chain'
  BY <1>1 DEF Chain, ChainOf
<1>3. Current' /\ Valid' /\ Linked'
  BY DEF Current, Valid, Linked
<1> QED
  BY <1>2, <1>3 DEF BookInv

LEMMA Invalidated ==
  ASSUME Typed, BookInv, Invalidate
  PROVE  (\A s \in Syms : ~book'[s].valid) /\ ~connected'
<1>1. ASSUME NEW s \in Syms PROVE ~book'[s].valid
  <2>1. book'[s] = IF s \in selected THEN NewBook ELSE book[s]
    BY DEF Invalidate
  <2> QED
    BY <2>1, NewFeeds DEF BookInv, Valid
<1> QED
  BY <1>1 DEF Invalidate

LEMMA BookRaised == ASSUME Typed, BookInv, Raised PROVE BookInv'
<1>1. (\A s \in Syms : ~book'[s].valid) /\ ~connected'
  BY Invalidated DEF Raised
<1> QED
  BY <1>1, BookEmpty DEF Raised, NoLink

\* The first message of the queue is taken; the books follow it, or are given up.
LEMMA BookTakes ==
  ASSUME Typed, BookInv, NEW kinds, Receives(kinds), UNCHANGED depth,
         \A s \in Syms : book'[s].valid => \/ About(Head(down), s) /\ book'[s].at = Head(down).n
                                           \/ ~About(Head(down), s) /\ book[s].valid /\ book'[s].at = book[s].at
  PROVE  Chain' /\ Current'
<1>1. down \in Seq(Msgs) /\ down # <<>> /\ down' = Tail(down) /\ subs' = subs /\ subs \subseteq Syms
  BY DEF Typed, WireT, Told, Receives
<1>2. ASSUME NEW s \in Syms PROVE ChainOf(Tail(down), s, book'[s])
  BY <1>1, ChainTail DEF BookInv, Chain
<1>3. ASSUME NEW s \in subs PROVE EndOf(Tail(down), s, book'[s], depth[s])
  BY <1>1, ChainTail DEF BookInv, Current
<1> QED
  BY <1>1, <1>2, <1>3 DEF Chain, Current

\* The venue sends a message, of the next update when it is a delta.
LEMMA BookFed ==
  ASSUME Typed, BookInv, NEW u \in Syms, NEW m \in Msgs, Feed(u, m), book' = book, subs' = subs,
         m.kind = "delta" => m.n - 1 = depth[m.sym],
         m.kind \in {"trade", "delta", "snap"} => m.sym = u,
         m.kind \in {"delta", "snap"} => m.n = depth'[u],
         \A s \in Syms : depth'[s] = depth[s] \/ About(m, s)
  PROVE  Chain' /\ Current'
<1>1. down \in Seq(Msgs) /\ subs \subseteq Syms
  BY DEF Typed, WireT, Told
<1>2. CASE u \in subs
  <2>1. down' = Append(down, m)
    BY <1>2 DEF Feed, BookInv, Linked
  <2>2. ASSUME NEW s \in Syms PROVE ChainOf(Append(down, m), s, book[s])
    <3>1. m.kind = "delta" /\ m.sym = s => EndOf(down, s, book[s], m.n - 1)
      BY <1>2 DEF BookInv, Current
    <3> QED
      BY <1>1, <3>1, ChainAppend DEF BookInv, Chain
  <2>3. ASSUME NEW s \in subs PROVE EndOf(Append(down, m), s, book[s], depth'[s])
    <3>1. ChainOf(down, s, book[s]) /\ EndOf(down, s, book[s], depth[s])
      BY <1>1, <2>3 DEF BookInv, Chain, Current
    <3>2. CASE About(m, s)
      <4>1. m.n = depth'[s]
        BY <3>2 DEF About
      <4> QED
        BY <1>1, <3>1, <3>2, <4>1, ChainAppend
    <3>3. CASE ~About(m, s)
      <4>1. depth'[s] = depth[s]
        BY <1>1, <2>3, <3>3
      <4> QED
        BY <1>1, <3>1, <3>3, <4>1, ChainAppend
    <3> QED
      BY <3>2, <3>3
  <2> QED
    BY <2>1, <2>2, <2>3 DEF Chain, Current
<1>3. CASE u \notin subs
  <2>1. down' = down
    BY <1>3 DEF Feed
  <2>2. \A s \in subs : depth'[s] = depth[s]
    BY <1>1, <1>3 DEF About
  <2> QED
    BY <2>1, <2>2 DEF Chain, Current, BookInv
<1> QED
  BY <1>2, <1>3

LEMMA BookVenue == ASSUME Typed, BookInv, Tick \/ Venue PROVE BookInv'
<1> USE DEF feeds
<1>0. /\ depth \in [Syms -> Nat] /\ down \in Seq(Msgs) /\ up \in Seq(Requests) /\ subs \subseteq Syms
      /\ trades \in [Syms -> Seq(Instants)]
  BY DEF Typed, VenueT, WireT, Told
<1>1. ASSUME UNCHANGED <<book, selected, runAt, connected>> PROVE Valid'
  BY <1>1 DEF BookInv, Valid
<1>2. CASE Tick
  BY <1>2, <1>1, BookKeeps DEF Tick, wire, BookInv, Linked
<1>3. ASSUME NEW s \in Moving, VenueTrades(s) PROVE BookInv'
  <2>m. PICK m : m = [kind |-> "trade", sym |-> s, n |-> Len(trades[s]) + 1]
    OBVIOUS
  <2>1. s \in Syms /\ Len(trades[s]) + 1 \in Nat
    BY <1>0, StreamAssumption
  <2>2. m \in Msgs /\ m.kind = "trade" /\ m.sym = s
    BY <2>1, <2>m DEF Msgs, Trades
  <2>3. Feed(s, m) /\ UNCHANGED <<depth, book, subs, link, up, selected, runAt, connected>>
    BY <1>3, <2>m DEF VenueTrades
  <2>4. Chain' /\ Current'
    BY <2>1, <2>2, <2>3, BookFed
  <2> QED
    BY <1>1, <2>3, <2>4 DEF BookInv, Linked
<1>4. ASSUME NEW s \in Syms, VenueUpdates(s) PROVE BookInv'
  <2>m. PICK m : m = [kind |-> "delta", sym |-> s, n |-> depth[s] + 1]
    OBVIOUS
  <2>1. m \in Msgs /\ m.kind = "delta" /\ m.sym = s /\ m.n = depth[s] + 1 /\ m.n - 1 = depth[s]
    <3>1. depth[s] \in Nat
      BY <1>0
    <3>2. m.kind = "delta" /\ m.sym = s /\ m.n = depth[s] + 1
      BY <2>m
    <3>3. m \in Updates
      BY <2>m, <3>1 DEF Updates
    <3> QED
      BY <3>1, <3>2, <3>3 DEF Msgs
  <2>2. Feed(s, m) /\ UNCHANGED <<book, subs, link, up, selected, runAt, connected>>
        /\ depth' = [depth EXCEPT ![s] = @ + 1]
    BY <1>4, <2>m DEF VenueUpdates
  <2>3. depth'[s] = m.n /\ \A u \in Syms : depth'[u] = depth[u] \/ About(m, u)
    BY <1>0, <2>1, <2>2 DEF About
  <2>4. Chain' /\ Current'
    BY <2>1, <2>2, <2>3, BookFed
  <2> QED
    BY <1>1, <2>2, <2>4 DEF BookInv, Linked
<1>5. ASSUME NEW s \in Syms, VenueRestates(s) PROVE BookInv'
  <2>m. PICK m : m = [kind |-> "snap", sym |-> s, n |-> depth[s]]
    OBVIOUS
  <2>1. m \in Msgs /\ m.kind = "snap" /\ m.sym = s /\ m.n = depth[s]
    BY <1>0, <2>m DEF Msgs, Updates
  <2>2. Feed(s, m) /\ UNCHANGED <<depth, book, subs, link, up, selected, runAt, connected>>
    BY <1>5, <2>m DEF VenueRestates, venue
  <2>4. Chain' /\ Current'
    BY <2>1, <2>2, BookFed
  <2> QED
    BY <1>1, <2>2, <2>4 DEF BookInv, Linked
<1>6. CASE VenueAnswers
  <2>1. /\ up # <<>> /\ UNCHANGED <<depth, book, link, selected, runAt, connected>>
        /\ Head(up).syms \in SUBSET Syms
        /\ Head(up).op = "sub" => Head(up).req \in Nat
    <3>1. Head(up) \in Requests
      BY <1>0, <1>6, TailAt DEF VenueAnswers
    <3> QED
      BY <1>6, <3>1 DEF VenueAnswers, Requests, venue
  <2>2. CASE down' = down /\ subs' \subseteq subs
    <3>1. Chain' /\ Current'
      BY <2>1, <2>2, BookKeeps
    <3> QED
      BY <1>1, <2>1, <2>2, <3>1 DEF BookInv, Linked
  <2>3. ASSUME NEW S \in SUBSET Syms, NEW req \in Nat, link = "open", subs' = subs \cup S,
               down' = Append(down, [kind |-> "ack", req |-> req]) \o Snapshots(S)
        PROVE  BookInv'
    <3>m. PICK m, q : m = [kind |-> "ack", req |-> req] /\ q = Append(down, m)
      OBVIOUS
    <3>1. m \in Msgs /\ m.kind = "ack"
      BY <2>3, <3>m DEF Msgs
    <3>2. q \in Seq(Msgs)
      BY <1>0, <3>1, <3>m, AppendAt
    <3>3. ASSUME NEW s \in Syms
          PROVE  /\ ChainOf(q, s, book[s])
                 /\ \A n : EndOf(down, s, book[s], n) => EndOf(q, s, book[s], n)
      <4>1. ChainOf(down, s, book[s]) /\ ~About(m, s)
        BY <3>1 DEF BookInv, Chain, About
      <4> QED
        BY <1>0, <3>1, <3>m, <4>1, ChainAppend
    <3>4. ASSUME NEW s \in Syms PROVE ChainOf(q \o Snapshots(S), s, book[s])
      BY <1>0, <3>2, <3>3, ChainSnapshots
    <3>5. ASSUME NEW s \in subs \cup S PROVE EndOf(q \o Snapshots(S), s, book[s], depth[s])
      <4>1. s \in Syms /\ ChainOf(q, s, book[s])
        BY <1>0, <3>3
      <4>2. CASE s \in S
        BY <1>0, <3>2, <4>1, <4>2, ChainSnapshots
      <4>3. CASE s \notin S
        <5>1. EndOf(q, s, book[s], depth[s])
          BY <3>3, <3>5, <4>1, <4>3 DEF BookInv, Current
        <5> QED
          BY <1>0, <3>2, <4>1, <4>3, <5>1, ChainSnapshots
      <4> QED
        BY <4>2, <4>3
    <3>6. down' = q \o Snapshots(S)
      BY <2>3, <3>m
    <3>7. Chain' /\ Current'
      BY <2>1, <2>3, <3>4, <3>5, <3>6 DEF Chain, Current
    <3> QED
      BY <1>1, <2>1, <2>3, <3>7 DEF BookInv, Linked
  <2>4. CASE Head(up).op = "sub" /\ subs' = subs \cup Head(up).syms
             /\ down' = Append(down, [kind |-> "ack", req |-> Head(up).req]) \o Snapshots(Head(up).syms)
    <3>1. link = "open"
      BY <2>1 DEF BookInv, Linked
    <3> QED
      BY <2>1, <2>3, <2>4, <3>1
  <2>5. CASE down' = Append(down, [kind |-> "nack"]) /\ subs' = subs
    <3>m. PICK m : m = [kind |-> "nack"]
      OBVIOUS
    <3>1. m \in Msgs /\ m.kind = "nack"
      BY <3>m DEF Msgs
    <3>2. ASSUME NEW s \in Syms
          PROVE  /\ ChainOf(Append(down, m), s, book[s])
                 /\ \A n : EndOf(down, s, book[s], n) => EndOf(Append(down, m), s, book[s], n)
      <4>1. ChainOf(down, s, book[s]) /\ ~About(m, s)
        BY <3>1 DEF BookInv, Chain, About
      <4> QED
        BY <1>0, <3>1, <4>1, ChainAppend
    <3>3. Chain' /\ Current'
      BY <1>0, <2>1, <2>5, <3>m, <3>2 DEF Chain, Current, BookInv
    <3> QED
      BY <1>1, <2>1, <2>5, <3>3 DEF BookInv, Linked
  <2> QED
    BY <1>6, <2>2, <2>4, <2>5 DEF VenueAnswers
<1>7. CASE Cut
  <2>1. Chain' /\ Current'
    BY <1>7, BookKeeps DEF Cut, venue
  <2> QED
    BY <1>1, <1>7, <2>1 DEF Cut, BookInv, Linked
<1> QED
  BY <1>2, <1>3, <1>4, <1>5, <1>6, <1>7 DEF Venue

LEMMA BookRun == ASSUME Typed, BookInv, Run PROVE BookInv'
<1> USE DEF feeds
<1>0. /\ depth \in [Syms -> Nat] /\ down \in Seq(Msgs) /\ book \in [Syms -> BookType]
      /\ tape \in [Syms -> TapeType]
  BY DEF Typed, VenueT, WireT, Told, FeedT
<1>1. CASE GiveUp
  <2>1. (\A s \in Syms : ~book'[s].valid) /\ ~connected'
    BY <1>1, Invalidated DEF GiveUp
  <2>2. Chain' /\ Current'
    BY <1>1, <2>1, BookKeeps DEF GiveUp, wire, venue
  <2> QED
    BY <1>1, <2>1, <2>2 DEF GiveUp, wire, BookInv, Valid, Linked
<1>2. CASE Connect
  <2>1. (\A s \in Syms : ~book'[s].valid) /\ ~connected'
    BY <1>2, Invalidated DEF Connect
  <2> QED
    BY <1>2, <2>1, BookEmpty DEF Connect
<1>3. CASE Interrupted \/ BackedUp \/ Nack \/ DeltaGap
  BY <1>3, BookRaised DEF Interrupted, BackedUp, Nack, DeltaGap
<1>4. ASSUME NEW kinds, Receives(kinds) PROVE subs' = subs /\ link' = link /\ up' = up /\ runAt = "live"
             /\ Head(down) \in Msgs /\ Head(down).kind \in kinds
  BY <1>0, <1>4, TailAt DEF Receives
<1>5. CASE Ack
  <2>1. Receives({"ack"}) /\ UNCHANGED <<venue, runAt, selected, book>>
    BY <1>5 DEF Ack
  <2>2. \A s \in Syms : ~About(Head(down), s)
    BY <1>4, <2>1 DEF About
  <2>3. Chain' /\ Current'
    BY <2>1, <2>2, BookTakes DEF venue
  <2> QED
    BY <1>4, <2>1, <2>3 DEF BookInv, Valid, Linked
<1>6. CASE Ignored
  <2>1. Receives({"trade", "delta", "snap"}) /\ UNCHANGED <<venue, runAt, selected, book, connected>>
        /\ Head(down).sym \notin selected
    BY <1>6 DEF Ignored
  <2>2. \A s \in Syms : book[s].valid => ~About(Head(down), s)
    BY <2>1 DEF About, BookInv, Valid
  <2>3. Chain' /\ Current'
    BY <2>1, <2>2, BookTakes DEF venue
  <2> QED
    BY <1>4, <2>1, <2>3 DEF BookInv, Valid, Linked
<1>7. CASE Shed
  <2>1. Receives({"trade", "delta", "snap"}) /\ UNCHANGED <<venue, runAt, selected, connected>>
        /\ book' = [book EXCEPT ![Head(down).sym] = NewBook]
    BY <1>7 DEF Shed
  <2>2. \A s \in Syms : book'[s].valid => s # Head(down).sym /\ book'[s] = book[s]
    BY <1>0, <2>1, NewFeeds
  <2>3. Chain' /\ Current'
    BY <2>1, <2>2, BookTakes DEF venue, About
  <2> QED
    BY <1>4, <2>1, <2>2, <2>3 DEF BookInv, Valid, Linked
<1>8. CASE Snapshot
  <2>m. PICK m : m = Head(down)
    OBVIOUS
  <2>1. /\ Receives({"snap"}) /\ UNCHANGED <<venue, runAt, selected, connected>>
        /\ m.sym \in selected /\ m.kind = "snap" /\ m \in Msgs
        /\ book' = [book EXCEPT ![m.sym] = [valid |-> TRUE, at |-> m.n, whole |-> TRUE]]
    BY <1>4, <1>8, <2>m DEF Snapshot
  <2>2. m.sym \in Syms
    BY <2>1, MsgFields
  <2>3. /\ book'[m.sym] = [valid |-> TRUE, at |-> m.n, whole |-> TRUE]
        /\ \A s \in Syms \ {m.sym} : book'[s] = book[s]
    BY <1>0, <2>1, <2>2
  <2>4. Chain' /\ Current'
    BY <2>1, <2>3, <2>m, BookTakes DEF venue, About
  <2>5. Valid'
    BY <1>4, <2>1, <2>3 DEF BookInv, Valid
  <2> QED
    BY <1>4, <2>1, <2>4, <2>5 DEF BookInv, Linked
<1>9. CASE Delta
  <2>m. PICK m : m = Head(down)
    OBVIOUS
  <2>1. /\ Receives({"delta"}) /\ UNCHANGED <<venue, runAt, selected, connected>>
        /\ m.sym \in selected /\ m.kind = "delta" /\ m \in Msgs /\ book[m.sym].valid
        /\ book' = [book EXCEPT ![m.sym] = [valid |-> TRUE, at |-> m.n,
                                            whole |-> book[m.sym].whole /\ m.n = book[m.sym].at + 1]]
    BY <1>4, <1>9, <2>m DEF Delta, Applies
  <2>2. m.sym \in Syms /\ m.n \in Nat /\ book[m.sym].at \in Nat
    BY <1>0, <2>1, MsgFields DEF BookType
  <2>3. /\ book'[m.sym] = [valid |-> TRUE, at |-> m.n,
                           whole |-> book[m.sym].whole /\ m.n = book[m.sym].at + 1]
        /\ \A s \in Syms \ {m.sym} : book'[s] = book[s]
    BY <1>0, <2>1, <2>2
  <2>4. Chain' /\ Current'
    BY <2>1, <2>3, <2>m, BookTakes DEF venue, About
  <2>5. book[m.sym].whole /\ m.n = book[m.sym].at + 1
    <3>1. book[m.sym].whole
      BY <2>1, <2>2 DEF BookInv, Valid
    <3>2. down # <<>> /\ down[1] = m /\ 1 \in 1 .. Len(down)
      BY <1>0, <2>1, <2>m, TailAt DEF Receives
    <3>3. Reaches(down, m.sym, 1, book[m.sym], m.n - 1)
      <4>1. ChainOf(down, m.sym, book[m.sym])
        BY <2>2 DEF BookInv, Chain
      <4> QED
        BY <2>1, <3>2, <4>1 DEF ChainOf
    <3>4. book[m.sym].at = m.n - 1
      BY <2>1, <3>3 DEF Reaches, Latest
    <3> QED
      BY <2>2, <3>1, <3>4
  <2>6. book'[m.sym].whole
    <3>1. book'[m.sym].whole = (book[m.sym].whole /\ m.n = book[m.sym].at + 1)
      BY <2>3
    <3> QED
      BY <2>5, <3>1
  <2>7. Valid'
    BY <1>4, <2>1, <2>3, <2>6 DEF BookInv, Valid
  <2> QED
    BY <1>4, <2>1, <2>4, <2>7 DEF BookInv, Linked
<1>10. CASE Trade
  <2>1. Receives({"trade"}) /\ UNCHANGED <<venue, runAt, selected, book, connected>>
    BY <1>10 DEF Trade
  <2>2. \A s \in Syms : ~About(Head(down), s)
    BY <1>4, <2>1 DEF About
  <2>3. Chain' /\ Current'
    BY <2>1, <2>2, BookTakes DEF venue
  <2> QED
    BY <1>4, <2>1, <2>3 DEF BookInv, Valid, Linked
<1> QED
  BY <1>1, <1>2, <1>3, <1>5, <1>6, <1>7, <1>8, <1>9, <1>10 DEF Run

LEMMA BookSelecting ==
  ASSUME Typed, BookInv, Selecting \/ RecorderFails \/ RecorderHeals
  PROVE  BookInv'
<1> USE DEF feeds
<1>0. book \in [Syms -> BookType] /\ up \in Seq(Requests)
  BY DEF Typed, FeedT, WireT
<1>1. CASE RecorderFails \/ RecorderHeals
  <2>1. Chain' /\ Current'
    BY <1>1, BookKeeps DEF RecorderFails, RecorderHeals, wire, venue
  <2> QED
    BY <1>1, <2>1 DEF RecorderFails, RecorderHeals, wire, BookInv, Valid, Linked
<1>2. ASSUME NEW goal \in SUBSET Syms, StartOver(goal) PROVE BookInv'
  <2>1. \A s \in Syms : ~book'[s].valid
    BY <1>2, NewFeeds DEF StartOver
  <2> QED
    BY <1>2, <2>1, BookEmpty DEF StartOver, NoLink
<1>3. ASSUME NEW goal \in SUBSET Syms, Rotate(goal), UNCHANGED venue PROVE BookInv'
  <2>1. \A s \in Syms : book'[s].valid => s \in selected \cap goal /\ book'[s] = book[s]
    BY <1>3, NewFeeds DEF Rotate
  <2>2. Chain' /\ Current'
    BY <1>3, <2>1, BookKeeps DEF Rotate, wire, venue
  <2> QED
    BY <1>3, <2>1, <2>2 DEF Rotate, wire, BookInv, Valid, Linked
<1>4. ASSUME NEW goal \in SUBSET Syms, Select(goal) PROVE BookInv'
  BY <1>2, <1>3, <1>4 DEF Select
<1>5. CASE SendUnsub \/ SendSub
  <2>1. PICK r : Sends(r) /\ UNCHANGED <<venue, runAt, connected, selected, feeds>>
    BY <1>5 DEF SendUnsub, SendSub
  <2>2. Chain' /\ Current'
    BY <2>1, BookKeeps DEF Sends, venue
  <2> QED
    BY <1>0, <2>1, <2>2 DEF Sends, BookInv, Valid, Linked
<1>6. CASE SendFails
  BY <1>2, <1>6 DEF SendFails, Typed, SelectT
<1> QED
  BY <1>1, <1>4, <1>5, <1>6 DEF Selecting

LEMMA BookStep == ASSUME Typed, BookInv, [Next]_vars PROVE BookInv'
<1>1. CASE UNCHANGED vars
  BY <1>1 DEF vars, venue, wire, feeds, BookInv, Chain, Current, Valid, Linked
<1> QED
  BY <1>1, BookVenue, BookRun, BookSelecting DEF Next

\* A valid book is the venue's book at its update, and fed by a connection: whatever the
\* rotations, shed rows, repeated snapshots and reconnections (Book.apply, Streams.process).
THEOREM BooksExact == Spec => []BookExact
<1>1. Typed /\ BookInv => BookExact
  BY DEF Typed, SelectT, BookInv, Valid, BookExact
<1> QED
  BY <1>1, TypedInit, TypedStep, BookInit, BookStep, PTL DEF Spec

-----------------------------------------------------------------------------
(* Coverage.                                                               *)
(*                                                                         *)
(* A tape is honest once its subscription is acknowledged, so the proof    *)
(* follows the requests.  What is subscribed after the first k requests in *)
(* the queue q, with S subscribed now:                                     *)

Off(q, s, i) == q[i].op = "unsub" /\ s \in q[i].syms
Puts(q, s, i) == q[i].op = "sub" /\ s \in q[i].syms
On(q, S, s, k) ==
  \/ \E j \in 1 .. k : Puts(q, s, j) /\ \A i \in j + 1 .. k : ~Off(q, s, i)
  \/ s \in S /\ \A i \in 1 .. k : ~Off(q, s, i)
Kept(q, s, k) == \A i \in k + 1 .. Len(q) : ~Off(q, s, i)

\* T is what is subscribed when the first request has been answered.
Served(q, S, T) == \A s \in Syms : s \in T <=> Puts(q, s, 1) \/ (s \in S /\ ~Off(q, s, 1))

LEMMA OnServed ==
  ASSUME NEW q \in Seq(Requests), q # <<>>, NEW S, NEW T, Served(q, S, T), NEW s \in Syms
  PROVE  /\ \A k \in 1 .. Len(q) : On(q, S, s, k) <=> On(Tail(q), T, s, k - 1)
         /\ \A k \in 1 .. Len(q) : Kept(q, s, k) => Kept(Tail(q), s, k - 1)
         /\ Kept(q, s, 0) => Kept(Tail(q), s, 0) /\ (s \in S => s \in T)
<1>p. PICK p : p = Tail(q)
  OBVIOUS
<1>0. /\ Len(q) \in Nat \ {0} /\ Len(p) = Len(q) - 1
      /\ \A i \in 1 .. Len(q) - 1 : p[i] = q[i + 1]
  BY <1>p, TailAt
<1>1. \A i \in 2 .. Len(q) : p[i - 1] = q[i]
  BY <1>0
<1>2. \A i \in 2 .. Len(q) : /\ Off(p, s, i - 1) <=> Off(q, s, i)
                             /\ Puts(p, s, i - 1) <=> Puts(q, s, i)
  BY <1>1 DEF Off, Puts
<1>t. \A i \in 1 .. Len(q) - 1 : Off(p, s, i) <=> Off(q, s, i + 1)
  BY <1>0 DEF Off
<1>3. s \in T <=> Puts(q, s, 1) \/ (s \in S /\ ~Off(q, s, 1))
  BY DEF Served
<1>4. ASSUME NEW k \in 1 .. Len(q), On(q, S, s, k) PROVE On(p, T, s, k - 1)
  <2>1. \A i \in 1 .. k - 1 : i \in 1 .. Len(q) - 1
    BY <1>0
  <2>2. CASE s \in S /\ \A i \in 1 .. k : ~Off(q, s, i)
    <3>1. ~Off(q, s, 1) /\ \A i \in 1 .. k - 1 : ~Off(q, s, i + 1)
      BY <1>0, <2>2
    <3> QED
      BY <1>t, <1>3, <2>1, <2>2, <3>1 DEF On
  <2>3. ASSUME NEW j \in 1 .. k, Puts(q, s, j), \A i \in j + 1 .. k : ~Off(q, s, i)
        PROVE  On(p, T, s, k - 1)
    <3>1. CASE j = 1
      <4>1. s \in T /\ \A i \in 1 .. k - 1 : ~Off(q, s, i + 1)
        BY <1>0, <1>3, <2>3, <3>1
      <4> QED
        BY <1>t, <2>1, <4>1 DEF On
    <3>2. CASE j # 1
      <4>1. j - 1 \in 1 .. k - 1 /\ Puts(p, s, j - 1)
        BY <1>0, <1>2, <2>3, <3>2
      <4>2. \A i \in (j - 1) + 1 .. k - 1 : ~Off(q, s, i + 1) /\ i \in 1 .. k - 1
        BY <1>0, <2>3, <3>2
      <4>3. \A i \in (j - 1) + 1 .. k - 1 : ~Off(p, s, i)
        BY <1>t, <2>1, <4>2
      <4> QED
        BY <4>1, <4>3 DEF On
    <3> QED
      BY <3>1, <3>2
  <2> QED
    BY <1>4, <2>2, <2>3 DEF On
<1>5. ASSUME NEW k \in 1 .. Len(q), On(p, T, s, k - 1) PROVE On(q, S, s, k)
  <2>1. ASSUME NEW n \in 1 .. k, \A i \in n .. k - 1 : ~Off(p, s, i)
        PROVE  \A i \in n + 1 .. k : ~Off(q, s, i)
    <3> SUFFICES ASSUME NEW i \in n + 1 .. k PROVE ~Off(q, s, i)
      OBVIOUS
    <3>1. i - 1 \in n .. k - 1 /\ i \in 2 .. Len(q)
      BY <1>0
    <3> QED
      BY <1>2, <2>1, <3>1
  <2>2. CASE s \in T /\ \A i \in 1 .. k - 1 : ~Off(p, s, i)
    <3>1. \A i \in 1 + 1 .. k : ~Off(q, s, i)
      <4>1. 1 \in 1 .. k
        BY <1>0
      <4> QED
        BY <2>1, <2>2, <4>1
    <3>2. CASE Puts(q, s, 1)
      BY <1>0, <3>1, <3>2 DEF On
    <3>3. CASE s \in S /\ ~Off(q, s, 1)
      <4>1. \A i \in 1 .. k : i = 1 \/ i \in 1 + 1 .. k
        BY <1>0
      <4> QED
        BY <3>1, <3>3, <4>1 DEF On
    <3> QED
      BY <1>3, <2>2, <3>2, <3>3
  <2>3. ASSUME NEW j \in 1 .. k - 1, Puts(p, s, j), \A i \in j + 1 .. k - 1 : ~Off(p, s, i)
        PROVE  On(q, S, s, k)
    <3>1. j + 1 \in 2 .. Len(q) /\ (j + 1) - 1 = j /\ j + 1 \in 1 .. k
      BY <1>0
    <3>2. Puts(q, s, j + 1)
      BY <1>2, <2>3, <3>1
    <3>3. \A i \in (j + 1) + 1 .. k : ~Off(q, s, i)
      BY <2>1, <2>3, <3>1
    <3> QED
      BY <3>1, <3>2, <3>3 DEF On
  <2> QED
    BY <1>5, <2>2, <2>3 DEF On
<1>6. ASSUME NEW k \in 1 .. Len(q), Kept(q, s, k) PROVE Kept(p, s, k - 1)
  <2> SUFFICES ASSUME NEW i \in (k - 1) + 1 .. Len(p) PROVE ~Off(p, s, i)
    BY DEF Kept
  <2>1. i + 1 \in k + 1 .. Len(q) /\ i + 1 \in 2 .. Len(q) /\ (i + 1) - 1 = i
    BY <1>0
  <2> QED
    BY <1>2, <1>6, <2>1 DEF Kept
<1>7. ASSUME Kept(q, s, 0) PROVE Kept(p, s, 0) /\ (s \in S => s \in T)
  <2>1. 1 \in 0 + 1 .. Len(q) /\ 1 \in 1 .. Len(q) /\ 1 - 1 = 0
    BY <1>0
  <2>2. Kept(q, s, 1)
    BY <1>0, <1>7 DEF Kept
  <2>3. Kept(p, s, 1 - 1) /\ ~Off(q, s, 1)
    BY <1>6, <1>7, <2>1, <2>2 DEF Kept
  <2> QED
    BY <1>3, <2>1, <2>3
<1> QED
  BY <1>p, <1>4, <1>5, <1>6, <1>7

\* A request is sent.
LEMMA OnSent ==
  ASSUME NEW q \in Seq(Requests), NEW r \in Requests, NEW S, NEW s
  PROVE  LET p == Append(q, r) IN
         /\ \A k \in 0 .. Len(q) : On(p, S, s, k) <=> On(q, S, s, k)
         /\ On(p, S, s, Len(q) + 1) <=>
              \/ r.op = "sub" /\ s \in r.syms
              \/ On(q, S, s, Len(q)) /\ ~(r.op = "unsub" /\ s \in r.syms)
         /\ \A k \in 0 .. Len(q) : Kept(q, s, k) /\ ~(r.op = "unsub" /\ s \in r.syms) => Kept(p, s, k)
         /\ Kept(p, s, Len(q) + 1)
<1>p. PICK p : p = Append(q, r)
  OBVIOUS
<1>0. /\ Len(q) \in Nat /\ Len(p) = Len(q) + 1 /\ p[Len(q) + 1] = r
      /\ \A i \in 1 .. Len(q) : p[i] = q[i]
  BY <1>p, AppendAt
<1>1. \A i \in 1 .. Len(q) : (Off(p, s, i) <=> Off(q, s, i)) /\ (Puts(p, s, i) <=> Puts(q, s, i))
  BY <1>0 DEF Off, Puts
<1>2. /\ Off(p, s, Len(q) + 1) <=> r.op = "unsub" /\ s \in r.syms
      /\ Puts(p, s, Len(q) + 1) <=> r.op = "sub" /\ s \in r.syms
  BY <1>0 DEF Off, Puts
<1>3. ASSUME NEW k \in 0 .. Len(q) PROVE On(p, S, s, k) <=> On(q, S, s, k)
  <2>1. \A i \in 1 .. k : i \in 1 .. Len(q)
    BY <1>0
  <2>2. \A j \in 1 .. k : \A i \in j + 1 .. k : i \in 1 .. k
    OBVIOUS
  <2> QED
    BY <1>1, <2>1, <2>2 DEF On
<1>4. ASSUME On(p, S, s, Len(q) + 1), ~(r.op = "sub" /\ s \in r.syms)
      PROVE  On(q, S, s, Len(q)) /\ ~(r.op = "unsub" /\ s \in r.syms)
  <2>1. CASE s \in S /\ \A i \in 1 .. Len(q) + 1 : ~Off(p, s, i)
    BY <1>0, <1>1, <1>2, <2>1 DEF On
  <2>2. ASSUME NEW j \in 1 .. Len(q) + 1, Puts(p, s, j), \A i \in j + 1 .. Len(q) + 1 : ~Off(p, s, i)
        PROVE  On(q, S, s, Len(q)) /\ ~Off(p, s, Len(q) + 1)
    <3>1. j \in 1 .. Len(q) /\ Len(q) + 1 \in j + 1 .. Len(q) + 1
      BY <1>0, <1>2, <1>4, <2>2
    <3>2. \A i \in j + 1 .. Len(q) : i \in 1 .. Len(q) /\ i \in j + 1 .. Len(q) + 1
      BY <1>0, <3>1
    <3> QED
      BY <1>1, <2>2, <3>1, <3>2 DEF On
  <2> QED
    BY <1>2, <1>4, <2>1, <2>2 DEF On
<1>5. ASSUME r.op = "sub" /\ s \in r.syms PROVE On(p, S, s, Len(q) + 1)
  BY <1>0, <1>2, <1>5 DEF On
<1>6. ASSUME On(q, S, s, Len(q)), ~(r.op = "unsub" /\ s \in r.syms) PROVE On(p, S, s, Len(q) + 1)
  <2>1. \A i \in 1 .. Len(q) + 1 : i \in 1 .. Len(q) \/ i = Len(q) + 1
    BY <1>0
  <2>2. CASE s \in S /\ \A i \in 1 .. Len(q) : ~Off(q, s, i)
    BY <1>1, <1>2, <1>6, <2>1, <2>2 DEF On
  <2>3. ASSUME NEW j \in 1 .. Len(q), Puts(q, s, j), \A i \in j + 1 .. Len(q) : ~Off(q, s, i)
        PROVE  On(p, S, s, Len(q) + 1)
    <3>1. j \in 1 .. Len(q) + 1 /\ Puts(p, s, j)
      BY <1>0, <1>1, <2>3
    <3>2. \A i \in j + 1 .. Len(q) + 1 : i = Len(q) + 1 \/ (i \in j + 1 .. Len(q) /\ i \in 1 .. Len(q))
      BY <1>0
    <3> QED
      BY <1>1, <1>2, <1>6, <2>3, <3>1, <3>2 DEF On
  <2> QED
    BY <1>6, <2>2, <2>3 DEF On
<1>7. ASSUME NEW k \in 0 .. Len(q), Kept(q, s, k), ~(r.op = "unsub" /\ s \in r.syms) PROVE Kept(p, s, k)
  <2>1. \A i \in k + 1 .. Len(p) : i = Len(q) + 1 \/ (i \in k + 1 .. Len(q) /\ i \in 1 .. Len(q))
    BY <1>0
  <2> QED
    BY <1>1, <1>2, <1>7, <2>1 DEF Kept
<1>8. Kept(p, s, Len(q) + 1)
  BY <1>0 DEF Kept
<1> QED
  BY <1>p, <1>3, <1>4, <1>5, <1>6, <1>7, <1>8

\* What lasts is subscribed at the end.
LEMMA OnLasts ==
  ASSUME NEW q \in Seq(Requests), NEW S, NEW s, NEW k \in 0 .. Len(q), On(q, S, s, k), Kept(q, s, k)
  PROVE  On(q, S, s, Len(q))
<1>0. Len(q) \in Nat
  OBVIOUS
<1>1. \A j \in 1 .. k : \A i \in j + 1 .. Len(q) : i \in j + 1 .. k \/ i \in k + 1 .. Len(q)
  BY <1>0
<1>2. \A i \in 1 .. Len(q) : i \in 1 .. k \/ i \in k + 1 .. Len(q)
  BY <1>0
<1>3. CASE s \in S /\ \A i \in 1 .. k : ~Off(q, s, i)
  BY <1>2, <1>3 DEF On, Kept
<1>4. ASSUME NEW j \in 1 .. k, Puts(q, s, j), \A i \in j + 1 .. k : ~Off(q, s, i)
      PROVE  On(q, S, s, Len(q))
  <2>1. j \in 1 .. Len(q)
    BY <1>0
  <2> QED
    BY <1>1, <1>4, <2>1 DEF On, Kept
<1> QED
  BY <1>3, <1>4 DEF On

\* A request is fresh when none of its symbols is subscribed by then, or else asks again for
\* all of its symbols, and only then the venue may refuse it.
Fresh(q, S, k) == \A s \in q[k].syms : ~On(q, S, s, k - 1)
Again(q, S, k) == \A s \in q[k].syms : On(q, S, s, k - 1)
Uniform(q, S) == \A k \in 1 .. Len(q) : q[k].op = "sub" => Fresh(q, S, k) \/ Again(q, S, k)

AckAt(d, k, r) == d[k].kind = "ack" /\ d[k].req = r
SubAt(q, k, r) == q[k].op = "sub" /\ q[k].req = r

\* The answer to a request r tells of s: by the changes noted for it, or because another
\* request of the same instant is answered first, and takes the note.
Tells(c, s, r) == r \in Instants => s \in c[r] \/ c[r] = {}

Answer(d, c, s, k, r) == AckAt(d, k, r) /\ (Tells(c, s, r) \/ \E j \in 1 .. k - 1 : AckAt(d, j, r))
Answers(d, c, s) == \E r \in Nat : \E k \in 1 .. Len(d) : Answer(d, c, s, k, r)

Ask(q, S, d, c, s, k, r) ==
  /\ SubAt(q, k, r) /\ Fresh(q, S, k) /\ On(q, S, s, k) /\ Kept(q, s, k)
  /\ Tells(c, s, r) \/ (\E j \in 1 .. k - 1 : SubAt(q, j, r)) \/ \E j \in 1 .. Len(d) : AckAt(d, j, r)
Asks(q, S, d, c, s) == \E r \in Nat : \E k \in 1 .. Len(q) : Ask(q, S, d, c, s, k, r)

\* A refusal ends the connection, and is received before an answer that is awaited.
Vain(q, S, d) ==
  \E i \in 1 .. Len(d) :
    /\ d[i].kind = "nack"
    /\ \/ \E j \in i + 1 .. Len(d) : d[j].kind = "ack"
       \/ \E k \in 1 .. Len(q) : q[k].op = "sub" /\ Fresh(q, S, k)

\* Subscribed, and so it will remain.
Lasting(q, S, s) == s \in S /\ Kept(q, s, 0)

\* An answer will come that starts the tape of s anew while s is subscribed.
Due(q, S, d, c, s) ==
  Vain(q, S, d) \/ Asks(q, S, d, c, s) \/ (Lasting(q, S, s) /\ Answers(d, c, s))

LEMMA RequestFields ==
  ASSUME NEW r \in Requests
  PROVE  r.op \in {"sub", "unsub"} /\ r.syms \subseteq Syms /\ (r.op = "sub" => r.req \in Nat)
  BY DEF Requests

LEMMA FreshServed ==
  ASSUME NEW q \in Seq(Requests), q # <<>>, NEW S, NEW T, Served(q, S, T), NEW k \in 2 .. Len(q)
  PROVE  /\ Fresh(q, S, k) <=> Fresh(Tail(q), T, k - 1)
         /\ Again(q, S, k) <=> Again(Tail(q), T, k - 1)
<1>1. /\ Len(q) \in Nat /\ k - 1 \in 1 .. Len(q) /\ k - 1 \in 1 .. Len(q) - 1 /\ k \in 1 .. Len(q)
      /\ (k - 1) + 1 = k
  BY TailAt
<1>2. Tail(q)[k - 1] = q[k] /\ q[k].syms \subseteq Syms
  BY <1>1, TailAt, RequestFields
<1>3. \A s \in q[k].syms : On(q, S, s, k - 1) <=> On(Tail(q), T, s, (k - 1) - 1)
  BY <1>1, <1>2, OnServed
<1> QED
  BY <1>2, <1>3 DEF Fresh, Again

LEMMA UniformServed ==
  ASSUME NEW q \in Seq(Requests), q # <<>>, NEW S, NEW T, Served(q, S, T), Uniform(q, S)
  PROVE  Uniform(Tail(q), T)
<1> SUFFICES ASSUME NEW k \in 1 .. Len(Tail(q)), Tail(q)[k].op = "sub"
             PROVE  Fresh(Tail(q), T, k) \/ Again(Tail(q), T, k)
  BY DEF Uniform
<1>1. k + 1 \in 2 .. Len(q) /\ k + 1 \in 1 .. Len(q) /\ (k + 1) - 1 = k /\ Tail(q)[k] = q[k + 1]
  BY TailAt
<1>2. Fresh(q, S, k + 1) \/ Again(q, S, k + 1)
  BY <1>1 DEF Uniform
<1> QED
  BY <1>1, <1>2, FreshServed

LEMMA FreshSent ==
  ASSUME NEW q \in Seq(Requests), NEW r \in Requests, NEW S, NEW k \in 1 .. Len(q)
  PROVE  /\ Fresh(q, S, k) <=> Fresh(Append(q, r), S, k)
         /\ Again(q, S, k) <=> Again(Append(q, r), S, k)
<1>1. k - 1 \in 0 .. Len(q) /\ Append(q, r)[k] = q[k]
  BY AppendAt
<1>2. \A s : On(Append(q, r), S, s, k - 1) <=> On(q, S, s, k - 1)
  BY <1>1, OnSent
<1> QED
  BY <1>1, <1>2 DEF Fresh, Again

LEMMA UniformSent ==
  ASSUME NEW q \in Seq(Requests), NEW r \in Requests, NEW S, Uniform(q, S),
         r.op = "sub" => \/ \A s \in r.syms : On(q, S, s, Len(q))
                         \/ \A s \in r.syms : ~On(q, S, s, Len(q))
  PROVE  /\ Uniform(Append(q, r), S)
         /\ (\A s \in r.syms : ~On(q, S, s, Len(q))) => Fresh(Append(q, r), S, Len(q) + 1)
<1>p. PICK p : p = Append(q, r)
  OBVIOUS
<1>1. /\ Len(q) \in Nat /\ Len(p) = Len(q) + 1 /\ p[Len(q) + 1] = r
      /\ \A k \in 1 .. Len(q) : p[k] = q[k]
  BY <1>p, AppendAt
<1>2. \A s : On(p, S, s, (Len(q) + 1) - 1) <=> On(q, S, s, Len(q))
  <2>1. (Len(q) + 1) - 1 = Len(q) /\ Len(q) \in 0 .. Len(q)
    BY <1>1
  <2> QED
    BY <1>p, <2>1, OnSent
<1>3. r.op = "sub" => Fresh(p, S, Len(q) + 1) \/ Again(p, S, Len(q) + 1)
  BY <1>1, <1>2 DEF Fresh, Again
<1>4. ASSUME NEW k \in 1 .. Len(q), p[k].op = "sub" PROVE Fresh(p, S, k) \/ Again(p, S, k)
  BY <1>1, <1>4, <1>p, FreshSent DEF Uniform
<1>5. \A k \in 1 .. Len(p) : k \in 1 .. Len(q) \/ k = Len(q) + 1
  BY <1>1
<1>6. (\A s \in r.syms : ~On(q, S, s, Len(q))) => Fresh(p, S, Len(q) + 1)
  BY <1>1, <1>2 DEF Fresh
<1> QED
  BY <1>p, <1>1, <1>3, <1>4, <1>5, <1>6 DEF Uniform

LEMMA Tails ==
  ASSUME NEW S, NEW q \in Seq(S), q # <<>>, NEW k \in 2 .. Len(q)
  PROVE  k - 1 \in 1 .. Len(Tail(q)) /\ Tail(q)[k - 1] = q[k]
<1>1. k - 1 \in 1 .. Len(q) - 1 /\ (k - 1) + 1 = k
  BY TailAt
<1> QED
  BY <1>1, TailAt

\* What is due stays due when the venue answers one more request and sends more: what it
\* has not been asked yet, or has only now acknowledged.
LEMMA DueServed ==
  ASSUME NEW q \in Seq(Requests), q # <<>>, NEW S, NEW T, Served(q, S, T),
         NEW d \in Seq(Msgs), NEW e \in Seq(Msgs), Len(d) <= Len(e),
         \A k \in 1 .. Len(d) : e[k] = d[k],
         q[1].op = "sub" => \E j \in Len(d) + 1 .. Len(e) : AckAt(e, j, q[1].req),
         NEW c, NEW s \in Syms, Due(q, S, d, c, s)
  PROVE  Due(Tail(q), T, e, c, s)
<1>p. PICK p : p = Tail(q)
  OBVIOUS
<1>0. Len(q) \in Nat /\ Len(d) \in Nat /\ Len(e) \in Nat /\ \A k \in 1 .. Len(d) : k \in 1 .. Len(e)
  OBVIOUS
<1>1. \A k \in 2 .. Len(q) : k - 1 \in 1 .. Len(p) /\ p[k - 1] = q[k]
  BY <1>p, Tails
<1>2. \A k \in 2 .. Len(q) : Fresh(q, S, k) <=> Fresh(p, T, k - 1)
  BY <1>p, FreshServed
<1>3. \A k \in 1 .. Len(q) : k = 1 \/ k \in 2 .. Len(q)
  BY <1>0
<1>4. CASE Vain(q, S, d)
  <2>1. PICK i \in 1 .. Len(d) :
          /\ d[i].kind = "nack"
          /\ \/ \E j \in i + 1 .. Len(d) : d[j].kind = "ack"
             \/ \E k \in 1 .. Len(q) : q[k].op = "sub" /\ Fresh(q, S, k)
    BY <1>4 DEF Vain
  <2>2. i \in 1 .. Len(e) /\ e[i].kind = "nack"
    BY <1>0, <2>1
  <2>3. ASSUME NEW j \in i + 1 .. Len(d), d[j].kind = "ack" PROVE Vain(p, T, e)
    <3>1. j \in i + 1 .. Len(e) /\ e[j].kind = "ack"
      BY <1>0, <2>3
    <3> QED
      BY <2>2, <3>1 DEF Vain
  <2>4. ASSUME NEW k \in 2 .. Len(q), q[k].op = "sub", Fresh(q, S, k) PROVE Vain(p, T, e)
    BY <1>1, <1>2, <2>2, <2>4 DEF Vain
  <2>5. CASE q[1].op = "sub"
    <3>1. PICK j \in Len(d) + 1 .. Len(e) : AckAt(e, j, q[1].req)
      BY <2>5
    <3>2. j \in i + 1 .. Len(e) /\ e[j].kind = "ack"
      BY <1>0, <3>1 DEF AckAt
    <3> QED
      BY <1>p, <2>2, <3>2 DEF Vain, Due
  <2> QED
    BY <1>p, <1>3, <2>1, <2>3, <2>4, <2>5 DEF Due
<1>5. ASSUME NEW r \in Nat, NEW k \in 1 .. Len(q), Ask(q, S, d, c, s, k, r)
      PROVE  Due(p, T, e, c, s)
  <2>1. /\ SubAt(q, k, r) /\ Fresh(q, S, k) /\ On(q, S, s, k) /\ Kept(q, s, k)
        /\ Tells(c, s, r) \/ (\E j \in 1 .. k - 1 : SubAt(q, j, r)) \/ \E j \in 1 .. Len(d) : AckAt(d, j, r)
    BY <1>5 DEF Ask
  <2>2. On(p, T, s, k - 1) /\ Kept(p, s, k - 1)
    BY <1>p, <2>1, OnServed
  <2>3. ASSUME NEW j \in 1 .. Len(d), AckAt(d, j, r) PROVE j \in 1 .. Len(e) /\ AckAt(e, j, r)
    BY <1>0, <2>3 DEF AckAt
  <2>4. CASE k = 1
    <3>1. PICK n \in Len(d) + 1 .. Len(e) : AckAt(e, n, r)
      BY <2>1, <2>4 DEF SubAt
    <3>2. Tells(c, s, r) \/ \E j \in 1 .. Len(d) : AckAt(d, j, r)
      BY <2>1, <2>4
    <3>3. n \in 1 .. Len(e) /\ \A j \in 1 .. Len(d) : j \in 1 .. n - 1
      BY <1>0
    <3>4. Answer(e, c, s, n, r)
      BY <2>3, <3>1, <3>2, <3>3 DEF Answer
    <3>5. Lasting(p, T, s)
      <4>1. On(p, T, s, 0) /\ Kept(p, s, 0)
        BY <2>2, <2>4
      <4> QED
        BY <4>1 DEF On, Lasting
    <3> QED
      BY <3>3, <3>4, <3>5 DEF Answers, Due
  <2>5. CASE k # 1
    <3>1. k \in 2 .. Len(q) /\ k - 1 \in 1 .. Len(p) /\ p[k - 1] = q[k]
      BY <1>1, <1>3, <2>5
    <3>2. SubAt(p, k - 1, r) /\ Fresh(p, T, k - 1)
      BY <1>2, <2>1, <3>1 DEF SubAt
    <3>3. ASSUME NEW j \in 1 .. k - 1, SubAt(q, j, r)
          PROVE  (\E i \in 1 .. (k - 1) - 1 : SubAt(p, i, r)) \/ \E i \in 1 .. Len(e) : AckAt(e, i, r)
      <4>1. CASE j = 1
        <5>1. PICK n \in Len(d) + 1 .. Len(e) : AckAt(e, n, r)
          BY <3>3, <4>1 DEF SubAt
        <5> QED
          BY <1>0, <5>1
      <4>2. CASE j # 1
        <5>1. j \in 2 .. Len(q) /\ j - 1 \in 1 .. (k - 1) - 1
          BY <1>0, <3>1, <4>2
        <5>2. SubAt(p, j - 1, r)
          BY <1>1, <3>3, <5>1 DEF SubAt
        <5> QED
          BY <5>1, <5>2
      <4> QED
        BY <4>1, <4>2
    <3>4. Ask(p, T, e, c, s, k - 1, r)
      BY <2>1, <2>2, <2>3, <3>2, <3>3 DEF Ask
    <3> QED
      BY <3>1, <3>4 DEF Asks, Due
  <2> QED
    BY <2>4, <2>5
<1>6. CASE Lasting(q, S, s) /\ Answers(d, c, s)
  <2>1. Lasting(p, T, s)
    BY <1>6, <1>p, OnServed DEF Lasting
  <2>2. PICK r \in Nat, k \in 1 .. Len(d) : Answer(d, c, s, k, r)
    BY <1>6 DEF Answers
  <2>3. k \in 1 .. Len(e) /\ \A j \in 1 .. k - 1 : j \in 1 .. Len(d)
    BY <1>0
  <2>4. Answer(e, c, s, k, r)
    BY <2>2, <2>3 DEF Answer, AckAt
  <2> QED
    BY <1>p, <2>1, <2>2, <2>3, <2>4 DEF Answers, Due
<1> QED
  BY <1>p, <1>4, <1>5, <1>6 DEF Due, Asks

\* A refusal is in vain when something is due that was only asked for.
LEMMA DueRefused ==
  ASSUME NEW q \in Seq(Requests), q # <<>>, NEW S, Served(q, S, S), ~Fresh(q, S, 1),
         NEW d \in Seq(Msgs), NEW m \in Msgs, m.kind = "nack",
         NEW c, NEW s \in Syms, Due(q, S, d, c, s)
  PROVE  Due(Tail(q), S, Append(d, m), c, s)
<1>p. PICK p, e : p = Tail(q) /\ e = Append(d, m)
  OBVIOUS
<1>0. /\ Len(q) \in Nat /\ Len(d) \in Nat /\ Len(e) = Len(d) + 1
      /\ e[Len(d) + 1] = m /\ \A k \in 1 .. Len(d) : e[k] = d[k]
  BY <1>p, AppendAt
<1>1. \A k \in 2 .. Len(q) : k - 1 \in 1 .. Len(p) /\ p[k - 1] = q[k]
  BY <1>p, Tails
<1>2. \A k \in 2 .. Len(q) : Fresh(q, S, k) <=> Fresh(p, S, k - 1)
  BY <1>p, FreshServed
<1>3. \A k \in 1 .. Len(q) : Fresh(q, S, k) => k \in 2 .. Len(q)
  BY <1>0
<1>a. Len(d) + 1 \in 1 .. Len(e) /\ e[Len(d) + 1].kind = "nack"
  BY <1>0
<1>4. ASSUME NEW k \in 1 .. Len(q), q[k].op = "sub", Fresh(q, S, k) PROVE Vain(p, S, e)
  BY <1>1, <1>2, <1>3, <1>4, <1>a DEF Vain
<1>5. CASE Vain(q, S, d)
  <2>1. PICK i \in 1 .. Len(d) :
          /\ d[i].kind = "nack"
          /\ \/ \E j \in i + 1 .. Len(d) : d[j].kind = "ack"
             \/ \E k \in 1 .. Len(q) : q[k].op = "sub" /\ Fresh(q, S, k)
    BY <1>5 DEF Vain
  <2>2. ASSUME NEW j \in i + 1 .. Len(d), d[j].kind = "ack" PROVE Vain(p, S, e)
    <3>1. /\ i \in 1 .. Len(e) /\ e[i].kind = "nack"
          /\ j \in i + 1 .. Len(e) /\ e[j].kind = "ack"
      BY <1>0, <2>1, <2>2
    <3> QED
      BY <3>1 DEF Vain
  <2> QED
    BY <1>p, <1>4, <2>1, <2>2 DEF Due
<1>6. CASE Asks(q, S, d, c, s)
  BY <1>p, <1>4, <1>6 DEF Asks, Ask, SubAt, Due
<1>7. CASE Lasting(q, S, s) /\ Answers(d, c, s)
  <2>1. Lasting(p, S, s)
    BY <1>7, <1>p, OnServed DEF Lasting
  <2>2. PICK r \in Nat, k \in 1 .. Len(d) : Answer(d, c, s, k, r)
    BY <1>7 DEF Answers
  <2>3. k \in 1 .. Len(e) /\ \A j \in 1 .. k - 1 : j \in 1 .. Len(d)
    BY <1>0
  <2>4. Answer(e, c, s, k, r)
    BY <1>0, <2>2, <2>3 DEF Answer, AckAt
  <2> QED
    BY <1>p, <2>1, <2>2, <2>3, <2>4 DEF Answers, Due
<1> QED
  BY <1>p, <1>5, <1>6, <1>7 DEF Due

\* More data changes nothing.
LEMMA DueFed ==
  ASSUME NEW q, NEW S, NEW d \in Seq(Msgs), NEW m \in Msgs, NEW c, NEW s, Due(q, S, d, c, s)
  PROVE  Due(q, S, Append(d, m), c, s)
<1>p. PICK e : e = Append(d, m)
  OBVIOUS
<1>0. /\ Len(d) \in Nat /\ Len(e) = Len(d) + 1 /\ \A k \in 1 .. Len(d) : e[k] = d[k] /\ k \in 1 .. Len(e)
  BY <1>p, AppendAt
<1>1. \A r : \A k \in 1 .. Len(d) : AckAt(e, k, r) <=> AckAt(d, k, r)
  BY <1>0 DEF AckAt
<1>2. \A i \in 1 .. Len(d) : \A j \in i + 1 .. Len(d) : j \in 1 .. Len(d) /\ j \in i + 1 .. Len(e)
  BY <1>0
<1>3. \A i \in 1 .. Len(d) : \A j \in 1 .. i - 1 : j \in 1 .. Len(d)
  BY <1>0
<1>4. Vain(q, S, d) => Vain(q, S, e)
  BY <1>0, <1>2 DEF Vain
<1>5. ASSUME NEW r, NEW k, Ask(q, S, d, c, s, k, r) PROVE Ask(q, S, e, c, s, k, r)
  BY <1>0, <1>1, <1>5 DEF Ask
<1>6. Answers(d, c, s) => Answers(e, c, s)
  BY <1>0, <1>1, <1>3 DEF Answers, Answer
<1> QED
  BY <1>p, <1>4, <1>5, <1>6 DEF Due, Asks

\* A request more, which may note changes of its own.
LEMMA DueSent ==
  ASSUME NEW q \in Seq(Requests), NEW r \in Requests, NEW S, NEW d \in Seq(Msgs), NEW c, NEW b, NEW s,
         Due(q, S, d, c, s), ~(r.op = "unsub" /\ s \in r.syms),
         \A x \in Nat :
           \/ Tells(c, s, x) => Tells(b, s, x)
           \/ /\ SubAt(Append(q, r), Len(q) + 1, x)
              /\ Fresh(Append(q, r), S, Len(q) + 1) /\ On(Append(q, r), S, s, Len(q) + 1)
           \/ /\ \A k \in 1 .. Len(q) : ~SubAt(q, k, x)
              /\ \A k \in 1 .. Len(d) : ~AckAt(d, k, x)
  PROVE  Due(Append(q, r), S, d, b, s)
<1>p. PICK p : p = Append(q, r)
  OBVIOUS
<1>0. /\ Len(q) \in Nat /\ Len(p) = Len(q) + 1 /\ Len(q) + 1 \in 1 .. Len(p)
      /\ \A k \in 1 .. Len(q) : p[k] = q[k] /\ k \in 1 .. Len(p)
  BY <1>p, AppendAt
<1>1. \A k \in 1 .. Len(q) : Fresh(q, S, k) <=> Fresh(p, S, k)
  BY <1>p, FreshSent
<1>2. \A x : \A k \in 1 .. Len(q) : SubAt(p, k, x) <=> SubAt(q, k, x)
  BY <1>0 DEF SubAt
<1>3. Kept(p, s, Len(q) + 1)
  BY <1>p, OnSent
<1>4. CASE Vain(q, S, d)
  BY <1>0, <1>1, <1>4, <1>p DEF Vain, Due
<1>5. ASSUME NEW x \in Nat, NEW k \in 1 .. Len(q), Ask(q, S, d, c, s, k, x)
      PROVE  Asks(p, S, d, b, s)
  <2>1. /\ SubAt(q, k, x) /\ Fresh(q, S, k) /\ On(q, S, s, k) /\ Kept(q, s, k)
        /\ Tells(c, s, x) \/ (\E j \in 1 .. k - 1 : SubAt(q, j, x)) \/ \E j \in 1 .. Len(d) : AckAt(d, j, x)
    BY <1>5 DEF Ask
  <2>2. k \in 0 .. Len(q) /\ k \in 1 .. Len(p) /\ \A j \in 1 .. k - 1 : j \in 1 .. Len(q)
    BY <1>0
  <2>3. /\ SubAt(p, k, x) /\ Fresh(p, S, k) /\ On(p, S, s, k) /\ Kept(p, s, k)
        /\ (\E j \in 1 .. k - 1 : SubAt(q, j, x)) => \E j \in 1 .. k - 1 : SubAt(p, j, x)
    BY <1>1, <1>2, <1>p, <2>1, <2>2, OnSent
  <2>4. CASE Tells(c, s, x) => Tells(b, s, x)
    <3>1. Ask(p, S, d, b, s, k, x)
      BY <2>1, <2>3, <2>4 DEF Ask
    <3> QED
      BY <2>2, <3>1 DEF Asks
  <2>5. CASE SubAt(p, Len(q) + 1, x) /\ Fresh(p, S, Len(q) + 1) /\ On(p, S, s, Len(q) + 1)
    <3>1. k \in 1 .. (Len(q) + 1) - 1
      BY <1>0
    <3>2. Ask(p, S, d, b, s, Len(q) + 1, x)
      BY <1>3, <2>3, <2>5, <3>1 DEF Ask
    <3> QED
      BY <1>0, <3>2 DEF Asks
  <2> QED
    BY <1>p, <2>1, <2>4, <2>5
<1>6. ASSUME NEW x \in Nat, NEW k \in 1 .. Len(d), Answer(d, c, s, k, x), Lasting(q, S, s)
      PROVE  Due(p, S, d, b, s)
  <2>1. Lasting(p, S, s)
    <3>1. 0 \in 0 .. Len(q)
      BY <1>0
    <3> QED
      BY <1>6, <1>p, <3>1, OnSent DEF Lasting
  <2>2. AckAt(d, k, x) /\ (Tells(c, s, x) \/ \E j \in 1 .. k - 1 : AckAt(d, j, x))
    BY <1>6 DEF Answer
  <2>3. CASE Tells(c, s, x) => Tells(b, s, x)
    <3>1. Answer(d, b, s, k, x)
      BY <2>2, <2>3 DEF Answer
    <3> QED
      BY <2>1, <3>1 DEF Answers, Due
  <2>4. CASE SubAt(p, Len(q) + 1, x) /\ Fresh(p, S, Len(q) + 1) /\ On(p, S, s, Len(q) + 1)
    <3>1. Ask(p, S, d, b, s, Len(q) + 1, x)
      BY <1>3, <2>2, <2>4 DEF Ask
    <3> QED
      BY <1>0, <3>1 DEF Asks, Due
  <2> QED
    BY <1>p, <2>2, <2>3, <2>4
<1> QED
  BY <1>p, <1>4, <1>5, <1>6 DEF Due, Asks, Answers

\* A message is received: unless it is the answer itself, what is due stays due.
LEMMA DueTaken ==
  ASSUME NEW q, NEW S, NEW d \in Seq(Msgs), d # <<>>, Head(d).kind # "nack", NEW c, NEW b, NEW s,
         Due(q, S, d, c, s),
         \A x \in Nat : Tells(c, s, x) \/ AckAt(d, 1, x) => Tells(b, s, x)
  PROVE  \/ Due(q, S, Tail(d), b, s)
         \/ Lasting(q, S, s) /\ \E x \in Nat : AckAt(d, 1, x) /\ Tells(c, s, x)
<1>p. PICK e : e = Tail(d)
  OBVIOUS
<1>0. Len(d) \in Nat /\ Len(e) = Len(d) - 1 /\ d[1].kind # "nack"
  BY <1>p, TailAt
<1>1. \A k \in 2 .. Len(d) : k - 1 \in 1 .. Len(e) /\ e[k - 1] = d[k]
  BY <1>p, Tails
<1>2. \A x : \A k \in 2 .. Len(d) : AckAt(e, k - 1, x) <=> AckAt(d, k, x)
  BY <1>1 DEF AckAt
<1>3. \A k \in 1 .. Len(d) : k = 1 \/ k \in 2 .. Len(d)
  BY <1>0
<1>4. CASE Vain(q, S, d)
  <2>1. PICK i \in 1 .. Len(d) :
          /\ d[i].kind = "nack"
          /\ \/ \E j \in i + 1 .. Len(d) : d[j].kind = "ack"
             \/ \E k \in 1 .. Len(q) : q[k].op = "sub" /\ Fresh(q, S, k)
    BY <1>4 DEF Vain
  <2>2. i \in 2 .. Len(d)
    BY <1>0, <1>3, <2>1
  <2>3. i - 1 \in 1 .. Len(e) /\ e[i - 1].kind = "nack"
    BY <1>1, <2>1, <2>2
  <2>4. ASSUME NEW j \in i + 1 .. Len(d), d[j].kind = "ack"
        PROVE  \E n \in (i - 1) + 1 .. Len(e) : e[n].kind = "ack"
    <3>1. j \in 2 .. Len(d) /\ j - 1 \in (i - 1) + 1 .. Len(e)
      BY <1>0, <2>2
    <3> QED
      BY <1>1, <2>4, <3>1
  <2>5. Vain(q, S, e)
    BY <2>1, <2>3, <2>4 DEF Vain
  <2> QED
    BY <1>p, <2>5 DEF Due
<1>5. ASSUME NEW x \in Nat, NEW k \in 1 .. Len(q), Ask(q, S, d, c, s, k, x)
      PROVE  Ask(q, S, e, b, s, k, x)
  <2>1. ASSUME NEW j \in 1 .. Len(d), AckAt(d, j, x)
        PROVE  Tells(b, s, x) \/ \E i \in 1 .. Len(e) : AckAt(e, i, x)
    <3>1. CASE j = 1
      BY <2>1, <3>1
    <3>2. CASE j \in 2 .. Len(d)
      BY <1>1, <1>2, <2>1, <3>2
    <3> QED
      BY <1>3, <3>1, <3>2
  <2> QED
    BY <1>5, <2>1 DEF Ask
<1>6. ASSUME NEW x \in Nat, NEW k \in 1 .. Len(d), Answer(d, c, s, k, x), Lasting(q, S, s)
      PROVE  \/ Due(q, S, e, b, s)
             \/ AckAt(d, 1, x) /\ Tells(c, s, x)
  <2>1. AckAt(d, k, x) /\ (Tells(c, s, x) \/ \E j \in 1 .. k - 1 : AckAt(d, j, x))
    BY <1>6 DEF Answer
  <2>2. CASE k = 1
    BY <2>1, <2>2
  <2>3. CASE k \in 2 .. Len(d)
    <3>1. Tells(b, s, x) \/ \E i \in 1 .. (k - 1) - 1 : AckAt(e, i, x)
      <4>1. ASSUME NEW j \in 1 .. k - 1, AckAt(d, j, x)
            PROVE  Tells(b, s, x) \/ \E i \in 1 .. (k - 1) - 1 : AckAt(e, i, x)
        <5>1. CASE j = 1
          BY <4>1, <5>1
        <5>2. CASE j # 1
          <6>1. j \in 2 .. Len(d) /\ j - 1 \in 1 .. (k - 1) - 1
            BY <1>0, <5>2, <2>3
          <6> QED
            BY <1>2, <4>1, <6>1
        <5> QED
          BY <5>1, <5>2
      <4> QED
        BY <2>1, <4>1
    <3>2. k - 1 \in 1 .. Len(e) /\ AckAt(e, k - 1, x)
      BY <1>1, <1>2, <2>1, <2>3
    <3>3. Answer(e, b, s, k - 1, x)
      BY <3>1, <3>2 DEF Answer
    <3> QED
      BY <1>6, <3>2, <3>3 DEF Answers, Due
  <2> QED
    BY <1>3, <2>2, <2>3
<1> QED
  BY <1>p, <1>4, <1>5, <1>6 DEF Due, Asks, Answers

-----------------------------------------------------------------------------
(* The trades of a tape, and of the queue after it, are in order.          *)

IsTrade(m, s) == m.kind = "trade" /\ m.sym = s

OrderOf(g, q, s) ==
  /\ \A i, j \in 1 .. Len(g) : i < j => g[i] < g[j]
  /\ \A i \in 1 .. Len(g), k \in 1 .. Len(q) : IsTrade(q[k], s) => g[i] < q[k].n
  /\ \A i, j \in 1 .. Len(q) : i < j /\ IsTrade(q[i], s) /\ IsTrade(q[j], s) => q[i].n < q[j].n

LEMMA OrderEmptied ==
  ASSUME NEW g, NEW h, Len(h) = 0, NEW q, NEW s, OrderOf(g, q, s) \/ Len(q) = 0
  PROVE  OrderOf(h, q, s)
  BY DEF OrderOf

LEMMA OrderLonger ==
  ASSUME NEW g, NEW q \in Seq(Msgs), NEW p \in Seq(Msgs), NEW s, OrderOf(g, q, s), Len(q) <= Len(p),
         \A k \in 1 .. Len(q) : p[k] = q[k],
         \A k \in Len(q) + 1 .. Len(p) : IsTrade(p[k], s) =>
           /\ \A i \in 1 .. Len(g) : g[i] < p[k].n
           /\ \A i \in 1 .. k - 1 : IsTrade(p[i], s) => p[i].n < p[k].n
  PROVE  OrderOf(g, p, s)
<1>0. Len(q) \in Nat /\ Len(p) \in Nat
  OBVIOUS
<1>1. \A k \in 1 .. Len(p) : k \in 1 .. Len(q) \/ k \in Len(q) + 1 .. Len(p)
  BY <1>0
<1>2. ASSUME NEW i \in 1 .. Len(g), NEW k \in 1 .. Len(p), IsTrade(p[k], s) PROVE g[i] < p[k].n
  BY <1>1, <1>2 DEF OrderOf
<1>3. ASSUME NEW i \in 1 .. Len(p), NEW j \in 1 .. Len(p), i < j, IsTrade(p[i], s), IsTrade(p[j], s)
      PROVE  p[i].n < p[j].n
  <2>1. CASE j \in 1 .. Len(q)
    <3>1. i \in 1 .. Len(q)
      BY <1>3, <2>1
    <3> QED
      BY <1>3, <2>1, <3>1 DEF OrderOf
  <2>2. CASE j \in Len(q) + 1 .. Len(p)
    <3>1. i \in 1 .. j - 1
      BY <1>0, <1>3
    <3> QED
      BY <1>3, <2>2, <3>1
  <2> QED
    BY <1>1, <2>1, <2>2
<1>4. \A i, j \in 1 .. Len(g) : i < j => g[i] < g[j]
  BY DEF OrderOf
<1> QED
  BY <1>2, <1>3, <1>4 DEF OrderOf

LEMMA OrderTail ==
  ASSUME NEW g, NEW q \in Seq(Msgs), q # <<>>, NEW s, OrderOf(g, q, s)
  PROVE  OrderOf(g, Tail(q), s)
<1>p. PICK p : p = Tail(q)
  OBVIOUS
<1>1. Len(q) \in Nat /\ Len(p) = Len(q) - 1 /\ \A k \in 1 .. Len(q) - 1 : p[k] = q[k + 1]
  BY <1>p, TailAt
<1>2. \A k \in 1 .. Len(p) : k + 1 \in 1 .. Len(q) /\ p[k] = q[k + 1] /\ k \in Nat
  BY <1>1
<1>3. \A i, j \in 1 .. Len(p) : i < j => i + 1 < j + 1
  BY <1>2
<1>4. \A i \in 1 .. Len(g), k \in 1 .. Len(p) : IsTrade(p[k], s) => g[i] < p[k].n
  BY <1>2 DEF OrderOf
<1>5. ASSUME NEW i \in 1 .. Len(p), NEW j \in 1 .. Len(p), i < j, IsTrade(p[i], s), IsTrade(p[j], s)
      PROVE  p[i].n < p[j].n
  <2>1. /\ i + 1 \in 1 .. Len(q) /\ j + 1 \in 1 .. Len(q) /\ i + 1 < j + 1
        /\ p[i] = q[i + 1] /\ p[j] = q[j + 1]
    BY <1>2, <1>3, <1>5
  <2> QED
    BY <1>5, <2>1 DEF OrderOf
<1>6. \A i, j \in 1 .. Len(g) : i < j => g[i] < g[j]
  BY DEF OrderOf
<1> QED
  BY <1>p, <1>4, <1>5, <1>6 DEF OrderOf

\* The first trade of the queue goes to the tape.
LEMMA OrderMoves ==
  ASSUME NEW g \in Seq(Nat), NEW q \in Seq(Msgs), q # <<>>, NEW s, OrderOf(g, q, s), IsTrade(q[1], s)
  PROVE  OrderOf(Append(g, q[1].n), Tail(q), s)
<1>p. PICK p, h : p = Tail(q) /\ h = Append(g, q[1].n)
  OBVIOUS
<1>0. q[1] \in Msgs /\ Len(q) \in Nat \ {0} /\ 1 \in 1 .. Len(q)
  BY TailAt
<1>1. q[1].n \in Nat
  BY <1>0, MsgFields DEF IsTrade
<1>2. /\ Len(h) = Len(g) + 1 /\ Len(g) \in Nat /\ h[Len(g) + 1] = q[1].n
      /\ \A k \in 1 .. Len(g) : h[k] = g[k]
  BY <1>p, <1>1, AppendAt
<1>3. Len(p) = Len(q) - 1 /\ \A k \in 1 .. Len(q) - 1 : p[k] = q[k + 1]
  BY <1>p, TailAt
<1>4. \A k \in 1 .. Len(p) : k + 1 \in 1 .. Len(q) /\ p[k] = q[k + 1] /\ 1 < k + 1
  BY <1>0, <1>3
<1>5. \A i \in 1 .. Len(h) : i \in 1 .. Len(g) \/ i = Len(g) + 1
  BY <1>2
<1>6. OrderOf(g, p, s)
  BY <1>p, OrderTail
<1>7. ASSUME NEW i \in 1 .. Len(h), NEW j \in 1 .. Len(h), i < j PROVE h[i] < h[j]
  <2>1. i \in 1 .. Len(g)
    BY <1>2, <1>7
  <2>2. CASE j \in 1 .. Len(g)
    BY <1>2, <1>7, <2>1, <2>2 DEF OrderOf
  <2>3. CASE j = Len(g) + 1
    BY <1>0, <1>2, <2>1, <2>3 DEF OrderOf
  <2> QED
    BY <1>5, <2>2, <2>3
<1>8. ASSUME NEW i \in 1 .. Len(h), NEW k \in 1 .. Len(p), IsTrade(p[k], s) PROVE h[i] < p[k].n
  <2>1. CASE i \in 1 .. Len(g)
    BY <1>2, <1>6, <1>8, <2>1 DEF OrderOf
  <2>2. CASE i = Len(g) + 1
    BY <1>0, <1>2, <1>4, <1>8, <2>2 DEF OrderOf
  <2> QED
    BY <1>5, <2>1, <2>2
<1> QED
  BY <1>p, <1>6, <1>7, <1>8 DEF OrderOf

\* A full tape gives up its first.
LEMMA OrderDrops ==
  ASSUME NEW g \in Seq(Nat), g # <<>>, NEW q, NEW s, OrderOf(g, q, s)
  PROVE  OrderOf(Tail(g), q, s)
<1>p. PICK h : h = Tail(g)
  OBVIOUS
<1>1. Len(g) \in Nat /\ Len(h) = Len(g) - 1 /\ \A k \in 1 .. Len(g) - 1 : h[k] = g[k + 1]
  BY <1>p, TailAt
<1>2. \A k \in 1 .. Len(h) : k + 1 \in 1 .. Len(g) /\ h[k] = g[k + 1] /\ k \in Nat
  BY <1>1
<1>3. ASSUME NEW i \in 1 .. Len(h), NEW j \in 1 .. Len(h), i < j PROVE h[i] < h[j]
  <2>1. /\ i + 1 \in 1 .. Len(g) /\ j + 1 \in 1 .. Len(g) /\ i + 1 < j + 1
        /\ h[i] = g[i + 1] /\ h[j] = g[j + 1]
    BY <1>2, <1>3
  <2> QED
    BY <2>1 DEF OrderOf
<1>4. \A i \in 1 .. Len(h), k \in 1 .. Len(q) : IsTrade(q[k], s) => h[i] < q[k].n
  BY <1>2 DEF OrderOf
<1> QED
  BY <1>p, <1>3, <1>4 DEF OrderOf

-----------------------------------------------------------------------------
(* The invariant.                                                          *)

\* Subscribed once every request has been answered.
Ends(s) == On(up, subs, s, Len(up))

\* The connection was made after the rotation began, with what it was to select.
OnlyFirst ==
  /\ \A k \in 1 .. Len(up) : up[k].op = "sub" => up[k].req = NoReq
  /\ \A k \in 1 .. Len(down) : down[k].kind = "ack" => down[k].req = NoReq
Rejoined == OnlyFirst /\ \A s \in Syms : Ends(s) <=> s \in selected

\* The connection is the one that is rotated.
Rotating == \A s \in Syms : Ends(s) <=> s \in (selected \ adding) \cup removing

Predict ==
  IF selAt = "idle" THEN \A s \in Syms : Ends(s) <=> s \in selected ELSE Rejoined \/ Rotating

\* The trades the tape of s should hold are in it or on their way.
Held(s, n) == \/ \E k \in 1 .. Len(tape[s].got) : tape[s].got[k] = n
              \/ \E k \in 1 .. Len(down) : IsTrade(down[k], s) /\ down[k].n = n
Holds(s) == \A n \in 1 .. Len(trades[s]) : trades[s][n] >= tape[s].start => Held(s, n)

Covered(s) ==
  Ends(s) => Due(up, subs, down, changes, s) \/ (Lasting(up, subs, s) /\ Holds(s))

Order == \A s \in Syms : OrderOf(tape[s].got, down, s)

Asked == Uniform(up, subs) /\ Predict /\ \A s \in selected : Covered(s)

CovInv == /\ Order
          /\ link = "open" => Asked
          /\ link # "none" => runAt = "live"

LEMMA CovInit == Init => CovInv
<1> SUFFICES ASSUME Init PROVE CovInv
  OBVIOUS
<1>1. Len(<<>>) = 0
  OBVIOUS
<1>2. ASSUME NEW s \in Syms PROVE OrderOf(tape[s].got, down, s)
  BY <1>1, <1>2, NewFeeds, OrderEmptied DEF Init
<1> QED
  BY <1>2 DEF Init, CovInv, Order

\* Nothing that matters here.
LEMMA CovKeeps ==
  ASSUME CovInv, UNCHANGED <<trades, wire, runAt, selected, changes, tape, selAt, adding, removing>>
  PROVE  CovInv'
  BY DEF CovInv, Order, Asked, Predict, Rejoined, Rotating, OnlyFirst, Ends, Covered, Holds, Held, wire

\* The connection is gone, or goes on without the desk.
LEMMA CovGone ==
  ASSUME CovInv, link' # "open", link' # "none" => runAt' = "live",
         down' = down \/ down' = <<>>,
         \A s \in Syms : tape'[s] = tape[s] \/ Len(tape'[s].got) = 0
  PROVE  CovInv'
<1>1. Len(<<>>) = 0
  OBVIOUS
<1>2. ASSUME NEW s \in Syms PROVE OrderOf(tape'[s].got, down', s)
  <2>1. OrderOf(tape[s].got, down, s)
    BY DEF CovInv, Order
  <2>2. CASE down' = <<>>
    <3>1. OrderOf(tape'[s].got, <<>>, s)
      BY <1>1, <2>1 DEF OrderOf
    <3> QED
      BY <2>2, <3>1
  <2>3. CASE down' = down /\ tape'[s] = tape[s]
    BY <2>1, <2>3
  <2>4. CASE down' = down /\ Len(tape'[s].got) = 0
    BY <2>1, <2>4, OrderEmptied
  <2> QED
    BY <2>2, <2>3, <2>4
<1> QED
  BY <1>2 DEF CovInv, Order

LEMMA Emptied ==
  ASSUME Typed, Invalidate
  PROVE  \A s \in Syms : tape'[s] = tape[s] \/ Len(tape'[s].got) = 0
  BY NewFeeds DEF Typed, VenueT, Invalidate

LEMMA CovRaised == ASSUME Typed, CovInv, Raised PROVE CovInv'
  BY Emptied, CovGone DEF Raised, NoLink

LEMMA CovStarts == ASSUME Typed, CovInv, NEW goal, StartOver(goal) PROVE CovInv'
<1>1. \A s \in Syms : Len(tape'[s].got) = 0
  BY NewFeeds DEF StartOver
<1> QED
  BY <1>1, CovGone DEF StartOver, NoLink

\* A tape that starts now misses nothing.
LEMMA StartsWhole ==
  ASSUME Typed, Arrived, UNCHANGED trades, NEW s \in Syms, tape'[s] = EmptyTape(clock)
  PROVE  Holds(s)'
<1>1. /\ clock \in Nat /\ trades[s] \in Seq(Instants) /\ tape'[s].start = clock
      /\ \A k \in 1 .. Len(trades[s]) : trades[s][k] \in Nat
  <2>1. clock \in Instants /\ trades[s] \in Seq(Instants)
    BY DEF Typed, VenueT
  <2>2. \A k \in 1 .. Len(trades[s]) : trades[s][k] \in Instants
    BY <2>1
  <2>3. tape'[s].start = clock
    BY DEF EmptyTape
  <2>4. Instants \subseteq Nat
    BY Basics
  <2> QED
    BY <2>1, <2>2, <2>3, <2>4
<1>2. ASSUME NEW n \in 1 .. Len(trades[s]) PROVE ~(trades[s][n] >= clock)
  <2>1. n \in DOMAIN trades[s] /\ trades[s][n] \in Nat
    BY <1>1, <1>2
  <2> QED
    BY <1>1, <2>1 DEF Arrived
<1> QED
  BY <1>1, <1>2 DEF Holds

\* The venue sends a message of data.
LEMMA CovFed ==
  ASSUME Typed, CovInv, NEW u \in Syms, NEW m \in Msgs, Feed(u, m),
         m.kind \in {"trade", "delta", "snap"}, m.sym = u,
         UNCHANGED <<subs, link, up, runAt, selected, changes, tape, selAt, adding, removing>>,
         \A s \in Syms : /\ Len(trades[s]) <= Len(trades'[s])
                         /\ \A n \in 1 .. Len(trades[s]) : trades'[s][n] = trades[s][n],
         \A s \in Syms : Len(trades'[s]) = Len(trades[s]) \/ (m.kind = "trade" /\ s = u),
         m.kind = "trade" => m.n = Len(trades[u]) + 1 /\ Len(trades'[u]) = Len(trades[u]) + 1
  PROVE  CovInv'
<1>d. PICK d, e : d = down /\ e = Append(down, m)
  OBVIOUS
<1>0. /\ d \in Seq(Msgs) /\ Len(d) \in Nat /\ e \in Seq(Msgs) /\ Len(e) = Len(d) + 1
      /\ e[Len(d) + 1] = m /\ \A k \in 1 .. Len(d) : e[k] = d[k] /\ k \in 1 .. Len(e)
      /\ \A k \in Len(d) + 1 .. Len(e) : k = Len(d) + 1
      /\ \A k \in 1 .. Len(e) : k \in 1 .. Len(d) \/ k = Len(d) + 1
      /\ Len(d) + 1 \in 1 .. Len(e)
  <2>1. d \in Seq(Msgs)
    BY <1>d DEF Typed, WireT, Told
  <2>2. /\ Len(d) \in Nat /\ e \in Seq(Msgs) /\ Len(e) = Len(d) + 1
        /\ e[Len(d) + 1] = m /\ \A k \in 1 .. Len(d) : e[k] = d[k]
    BY <1>d, <2>1, AppendAt
  <2> QED
    BY <2>1, <2>2
<1>1. \A s \in Syms : Len(trades[s]) \in Nat /\ Len(trades'[s]) \in Nat
  <2>1. \A s \in Syms : Len(trades[s]) \in Nat
    BY DEF Typed, VenueT
  <2> QED
    BY <2>1
<1>2. ASSUME NEW s \in Syms PROVE OrderOf(tape[s].got, e, s)
  <2>1. OrderOf(tape[s].got, d, s)
    BY <1>d DEF CovInv, Order
  <2>2. ASSUME IsTrade(m, s)
        PROVE  /\ \A i \in 1 .. Len(tape[s].got) : tape[s].got[i] < m.n
               /\ \A i \in 1 .. Len(d) : IsTrade(d[i], s) => d[i].n < m.n
    <3>1. s = u /\ m.n = Len(trades[s]) + 1
      BY <2>2 DEF IsTrade
    <3>2. \A i \in 1 .. Len(tape[s].got) : tape[s].got[i] \in 1 .. Len(trades[s])
      BY DEF Typed, FeedT
    <3>3. \A i \in 1 .. Len(d) : IsTrade(d[i], s) => d[i].n \in 1 .. Len(trades[s])
      BY <1>d DEF Typed, WireT, Told, Happened, IsTrade
    <3> QED
      BY <1>1, <3>1, <3>2, <3>3
  <2>3. \A k \in Len(d) + 1 .. Len(e) : IsTrade(e[k], s) =>
           /\ \A i \in 1 .. Len(tape[s].got) : tape[s].got[i] < e[k].n
           /\ \A i \in 1 .. k - 1 : IsTrade(e[i], s) => e[i].n < e[k].n
    <3> SUFFICES ASSUME IsTrade(m, s)
                 PROVE  /\ \A i \in 1 .. Len(tape[s].got) : tape[s].got[i] < m.n
                        /\ \A i \in 1 .. (Len(d) + 1) - 1 : IsTrade(e[i], s) => e[i].n < m.n
      BY <1>0
    <3>1. (Len(d) + 1) - 1 = Len(d)
      BY <1>0
    <3> QED
      BY <1>0, <2>2, <3>1
  <2>4. Len(d) <= Len(e)
    BY <1>0
  <2> QED
    BY <1>0, <2>1, <2>3, <2>4, OrderLonger
<1>3. CASE down' = d
  <2>1. Order'
    BY <1>3, <1>d DEF CovInv, Order
  <2>2. ASSUME NEW s \in selected, link = "open", Lasting(up, subs, s), Holds(s) PROVE Holds(s)'
    <3>1. s \in subs /\ s \in Syms
      BY <2>2 DEF Lasting, Typed, SelectT
    <3>2. s # u
      BY <1>0, <1>3, <1>d, <2>2, <3>1 DEF Feed
    <3>3. Len(trades'[s]) = Len(trades[s]) /\ \A n \in 1 .. Len(trades[s]) : trades'[s][n] = trades[s][n]
      BY <3>1, <3>2
    <3> QED
      BY <1>3, <1>d, <2>2, <3>3 DEF Holds, Held
  <2>3. ASSUME link = "open" PROVE Asked'
    <3>1. Uniform(up, subs) /\ Predict /\ \A s \in selected : Covered(s)
      BY <2>3 DEF CovInv, Asked
    <3>2. Uniform(up, subs)' /\ Predict'
      BY <1>3, <1>d, <3>1 DEF Predict, Rejoined, Rotating, OnlyFirst, Ends
    <3>3. ASSUME NEW s \in selected PROVE Covered(s)'
      BY <1>3, <1>d, <2>2, <2>3, <3>1 DEF Covered, Ends
    <3> QED
      BY <3>2, <3>3 DEF Asked
  <2> QED
    BY <2>1, <2>3 DEF CovInv
<1>4. CASE down' = e
  <2>1. Order'
    BY <1>2, <1>4 DEF Order
  <2>2. ASSUME NEW s \in Syms, Holds(s) PROVE Holds(s)'
    <3>1. ASSUME NEW n \in 1 .. Len(trades'[s]), trades'[s][n] >= tape[s].start PROVE Held(s, n)'
      <4>1. CASE n \in 1 .. Len(trades[s])
        <5>1. Held(s, n)
          BY <2>2, <3>1, <4>1 DEF Holds
        <5>2. ASSUME NEW k \in 1 .. Len(d), IsTrade(d[k], s), d[k].n = n PROVE Held(s, n)'
          <6>1. k \in 1 .. Len(e) /\ IsTrade(e[k], s) /\ e[k].n = n
            BY <1>0, <5>2
          <6> QED
            BY <1>4, <6>1 DEF Held
        <5> QED
          BY <1>d, <5>1, <5>2 DEF Held
      <4>2. CASE n \notin 1 .. Len(trades[s])
        <5>1. m.kind = "trade" /\ s = u /\ n = Len(trades[u]) + 1
          BY <1>1, <3>1, <4>2
        <5>2. IsTrade(e[Len(d) + 1], s) /\ e[Len(d) + 1].n = n /\ Len(d) + 1 \in 1 .. Len(e)
          BY <1>0, <5>1 DEF IsTrade
        <5> QED
          BY <1>4, <5>2 DEF Held
      <4> QED
        BY <4>1, <4>2
    <3> QED
      BY <3>1 DEF Holds
  <2>3. ASSUME link = "open" PROVE Asked'
    <3>1. Uniform(up, subs) /\ Predict /\ \A s \in selected : Covered(s)
      BY <2>3 DEF CovInv, Asked
    <3>2. OnlyFirst => OnlyFirst'
      BY <1>0, <1>4, <1>d DEF OnlyFirst
    <3>3. Uniform(up, subs)' /\ Predict'
      BY <3>1, <3>2 DEF Predict, Rejoined, Rotating, Ends
    <3>4. ASSUME NEW s \in selected PROVE Covered(s)'
      <4>1. s \in Syms
        BY DEF Typed, SelectT
      <4>2. Due(up, subs, d, changes, s) => Due(up, subs, e, changes, s)
        BY <1>0, <1>d, DueFed
      <4> QED
        BY <1>4, <1>d, <2>2, <3>1, <4>1, <4>2 DEF Covered, Ends
    <3> QED
      BY <3>3, <3>4 DEF Asked
  <2> QED
    BY <2>1, <2>3 DEF CovInv
<1> QED
  BY <1>d, <1>3, <1>4 DEF Feed

\* The venue answers a request, whatever its answer is.
LEMMA CovServed ==
  ASSUME Typed, CovInv, up # <<>>, up' = Tail(up), NEW T, subs' = T, NEW e \in Seq(Msgs), down' = e,
         UNCHANGED <<link, runAt, selected, changes, tape, trades, selAt, adding, removing>>,
         Served(up, subs, T), Len(down) <= Len(e), \A k \in 1 .. Len(down) : e[k] = down[k],
         \A k \in Len(down) + 1 .. Len(e) :
           /\ e[k].kind # "trade"
           /\ e[k].kind = "ack" => up[1].op = "sub" /\ e[k].req = up[1].req,
         link = "open" => \A s \in Syms : Due(up, subs, down, changes, s) => Due(Tail(up), T, e, changes, s)
  PROVE  CovInv'
<1>q. PICK q, p, d, S : q = up /\ p = Tail(up) /\ d = down /\ S = subs
  OBVIOUS
<1>0. /\ q \in Seq(Requests) /\ q # <<>> /\ d \in Seq(Msgs) /\ Len(q) \in Nat \ {0} /\ Len(d) \in Nat
      /\ Len(p) = Len(q) - 1 /\ \A k \in 1 .. Len(p) : k + 1 \in 1 .. Len(q) /\ p[k] = q[k + 1]
  <2>1. q \in Seq(Requests) /\ q # <<>> /\ d \in Seq(Msgs)
    BY <1>q DEF Typed, WireT, Told
  <2>2. Len(q) \in Nat \ {0} /\ Len(p) = Len(q) - 1 /\ \A k \in 1 .. Len(q) - 1 : p[k] = q[k + 1]
    BY <1>q, <2>1, TailAt
  <2> QED
    BY <2>1, <2>2
<1>1. \A k \in 1 .. Len(d) : e[k] = d[k] /\ k \in 1 .. Len(e)
  BY <1>0, <1>q
<1>2. \A k \in 1 .. Len(e) : k \in 1 .. Len(d) \/ k \in Len(d) + 1 .. Len(e)
  BY <1>0
<1>3. Order'
  <2>1. ASSUME NEW s \in Syms PROVE OrderOf(tape[s].got, e, s)
    <3>1. OrderOf(tape[s].got, d, s)
      BY <1>q DEF CovInv, Order
    <3>2. \A k \in Len(d) + 1 .. Len(e) : ~IsTrade(e[k], s)
      BY <1>q DEF IsTrade
    <3>3. Len(d) <= Len(e)
      BY <1>q
    <3> QED
      BY <1>0, <1>1, <3>1, <3>2, <3>3, OrderLonger
  <2> QED
    BY <2>1 DEF Order
<1>4. ASSUME link = "open" PROVE Asked'
  <2>1. Uniform(q, S) /\ Predict /\ \A s \in selected : Covered(s)
    BY <1>4, <1>q DEF CovInv, Asked
  <2>2. Uniform(p, T)
    BY <1>0, <1>q, <2>1, UniformServed
  <2>3. \A s \in Syms : Ends(s)' <=> Ends(s)
    <3>1. Len(q) \in 1 .. Len(q)
      BY <1>0
    <3>2. \A s \in Syms : On(q, S, s, Len(q)) <=> On(p, T, s, Len(q) - 1)
      BY <1>0, <1>q, <3>1, OnServed
    <3>3. \A s \in Syms : (Ends(s)' <=> On(p, T, s, Len(p))) /\ (Ends(s) <=> On(q, S, s, Len(q)))
      BY <1>q DEF Ends
    <3> QED
      BY <1>0, <3>2, <3>3
  <2>4. ASSUME OnlyFirst PROVE OnlyFirst'
    <3>1. \A k \in 1 .. Len(q) : q[k].op = "sub" => q[k].req = NoReq
      BY <1>q, <2>4 DEF OnlyFirst
    <3>2. \A k \in 1 .. Len(d) : d[k].kind = "ack" => d[k].req = NoReq
      BY <1>q, <2>4 DEF OnlyFirst
    <3>3. \A k \in 1 .. Len(p) : p[k].op = "sub" => p[k].req = NoReq
      BY ZenonT(30), <1>0, <3>1
    <3>4. 1 \in 1 .. Len(q)
      BY <1>0
    <3>5. \A k \in 1 .. Len(e) : e[k].kind = "ack" => e[k].req = NoReq
      BY <1>1, <1>2, <1>q, <3>1, <3>2, <3>4
    <3> QED
      BY <1>q, <3>3, <3>5 DEF OnlyFirst
  <2>5. Predict'
    BY <2>1, <2>3, <2>4 DEF Predict, Rejoined, Rotating
  <2>6. ASSUME NEW s \in selected PROVE Covered(s)'
    <3>1. s \in Syms
      BY DEF Typed, SelectT
    <3>2. ASSUME Holds(s) PROVE Holds(s)'
      <4>1. \A n : Held(s, n) => Held(s, n)'
        BY <1>1, <1>q DEF Held
      <4> QED
        BY <3>2, <4>1 DEF Holds
    <3>3. Lasting(q, S, s) => Lasting(p, T, s)
      BY <1>0, <1>q, <3>1, OnServed DEF Lasting
    <3>4. Ends(s) => Due(q, S, d, changes, s) \/ (Lasting(q, S, s) /\ Holds(s))
      BY <1>q, <2>1 DEF Covered
    <3>5. Due(q, S, d, changes, s) => Due(p, T, e, changes, s)
      BY <1>4, <1>q, <3>1
    <3>6. Ends(s)' => Due(p, T, e, changes, s) \/ (Lasting(p, T, s) /\ Holds(s)')
      BY <2>3, <3>1, <3>2, <3>3, <3>4, <3>5
    <3> QED
      BY <1>q, <3>6 DEF Covered
  <2> QED
    BY <1>q, <2>2, <2>5, <2>6 DEF Asked
<1> QED
  BY <1>3, <1>4 DEF CovInv

LEMMA CovAnswered == ASSUME Typed, CovInv, VenueAnswers PROVE CovInv'
<1>q. PICK q, d, S : q = up /\ d = down /\ S = subs
  OBVIOUS
<1>h. PICK h : h = Head(up)
  OBVIOUS
<1>0. /\ q \in Seq(Requests) /\ q # <<>> /\ d \in Seq(Msgs) /\ S \subseteq Syms
      /\ h = q[1] /\ h \in Requests /\ 1 \in 1 .. Len(q) /\ Len(d) \in Nat
  <2>1. q \in Seq(Requests) /\ q # <<>> /\ d \in Seq(Msgs) /\ S \subseteq Syms
    BY <1>q DEF Typed, WireT, Told, VenueAnswers
  <2>2. h = q[1] /\ h \in Requests /\ Len(q) \in Nat \ {0}
    BY <1>q, <1>h, <2>1, TailAt
  <2> QED
    BY <2>1, <2>2
<1>1. /\ up # <<>> /\ up' = Tail(up)
      /\ UNCHANGED <<link, runAt, selected, changes, tape, trades, selAt, adding, removing>>
  BY DEF VenueAnswers, venue, feeds, selecting
<1>2. h.syms \subseteq Syms /\ (h.op = "sub" => h.req \in Nat)
  BY <1>0, RequestFields
<1>3. \A s : /\ Puts(q, s, 1) <=> h.op = "sub" /\ s \in h.syms
             /\ Off(q, s, 1) <=> h.op = "unsub" /\ s \in h.syms
  BY <1>0 DEF Puts, Off
<1>4. CASE h.op = "unsub" /\ subs' = subs \ h.syms /\ down' = down
  <2>1. Served(q, S, S \ h.syms)
    BY <1>3, <1>4 DEF Served
  <2>2. ASSUME NEW s \in Syms, Due(q, S, d, changes, s) PROVE Due(Tail(q), S \ h.syms, d, changes, s)
    BY <1>0, <1>4, <2>1, <2>2, DueServed
  <2>3. PICK e \in Seq(Msgs) : e = d
    BY <1>0
  <2>4. \A k \in Len(d) + 1 .. Len(e) : FALSE
    BY <1>0, <2>3
  <2>5. Len(d) <= Len(e) /\ down' = e /\ \A k \in 1 .. Len(d) : e[k] = d[k]
    BY <1>0, <1>4, <1>q, <2>3
  <2>6. \A s \in Syms : Due(q, S, d, changes, s) => Due(Tail(q), S \ h.syms, e, changes, s)
    BY <2>2, <2>3
  <2>7. subs' = S \ h.syms
    BY <1>4, <1>q
  <2> QED
    BY <1>1, <1>q, <2>1, <2>3, <2>4, <2>5, <2>6, <2>7, CovServed
<1>5. CASE /\ h.op = "sub" /\ subs' = subs \cup h.syms
           /\ down' = Append(down, [kind |-> "ack", req |-> h.req]) \o Snapshots(h.syms)
  <2>m. PICK m, z, w, e : /\ m = [kind |-> "ack", req |-> h.req] /\ z = Snapshots(h.syms)
                          /\ w = Append(d, m) /\ e = w \o z
    OBVIOUS
  <2>1. m \in Msgs /\ m.kind = "ack" /\ m.req = h.req
    BY <1>2, <1>5, <2>m DEF Msgs
  <2>2. z \in Seq(Msgs) /\ \A k \in 1 .. Len(z) : z[k].kind = "snap"
    <3>1. depth \in [Syms -> Nat] /\ h.syms \in SUBSET Syms
      BY <1>2 DEF Typed, VenueT
    <3>2. z \in Seq(Updates) /\ \A k \in 1 .. Len(z) : z[k].kind = "snap"
      BY <2>m, <3>1, SnapshotsAt
    <3>3. Updates \subseteq Msgs
      BY DEF Msgs
    <3> QED
      BY <3>2, <3>3
  <2>3. w \in Seq(Msgs) /\ Len(w) = Len(d) + 1 /\ w[Len(d) + 1] = m /\ \A k \in 1 .. Len(d) : w[k] = d[k]
    BY <1>0, <2>1, <2>m, AppendAt
  <2>4. /\ e \in Seq(Msgs) /\ Len(e) = Len(w) + Len(z) /\ Len(z) \in Nat
        /\ \A k \in 1 .. Len(w) : e[k] = w[k]
        /\ \A k \in 1 .. Len(z) : e[Len(w) + k] = z[k]
    BY <2>2, <2>3, <2>m, ConcatAt
  <2>5. \A k \in 1 .. Len(d) : e[k] = d[k]
    <3>1. \A k \in 1 .. Len(d) : k \in 1 .. Len(w)
      BY <1>0, <2>3
    <3> QED
      BY <2>3, <2>4, <3>1
  <2>6. e[Len(d) + 1] = m /\ Len(d) <= Len(e) /\ Len(d) + 1 \in Len(d) + 1 .. Len(e)
    <3>1. Len(d) + 1 \in 1 .. Len(w)
      BY <1>0, <2>3
    <3> QED
      BY <1>0, <2>3, <2>4, <3>1
  <2>7. ASSUME NEW k \in Len(d) + 1 .. Len(e)
        PROVE  e[k].kind # "trade" /\ (e[k].kind = "ack" => e[k].req = h.req)
    <3>1. CASE k = Len(d) + 1
      BY <2>1, <2>6, <3>1
    <3>2. CASE k # Len(d) + 1
      <4>1. k - Len(w) \in 1 .. Len(z) /\ k = Len(w) + (k - Len(w))
        BY <1>0, <2>3, <2>4, <3>2
      <4>2. e[k] = z[k - Len(w)]
        BY <2>4, <4>1
      <4> QED
        BY <2>2, <4>1, <4>2
    <3> QED
      BY <3>1, <3>2
  <2>8. Served(q, S, S \cup h.syms)
    BY <1>3, <1>5 DEF Served
  <2>9. ASSUME NEW s \in Syms, Due(q, S, d, changes, s) PROVE Due(Tail(q), S \cup h.syms, e, changes, s)
    <3>1. \E j \in Len(d) + 1 .. Len(e) : AckAt(e, j, q[1].req)
      BY <1>0, <2>1, <2>6 DEF AckAt
    <3> QED
      BY <1>0, <2>4, <2>5, <2>6, <2>8, <2>9, <3>1, DueServed
  <2>10. down' = e
    BY <1>5, <1>q, <2>m
  <2> QED
    BY <1>0, <1>1, <1>5, <1>q, <2>4, <2>5, <2>6, <2>7, <2>8, <2>9, <2>10, CovServed
<1>6. CASE /\ h.op = "sub" /\ h.syms \cap subs # {}
           /\ down' = Append(down, [kind |-> "nack"]) /\ subs' = subs
  <2>m. PICK m, e : m = [kind |-> "nack"] /\ e = Append(d, m)
    OBVIOUS
  <2>1. m \in Msgs /\ m.kind = "nack"
    BY <2>m DEF Msgs
  <2>2. e \in Seq(Msgs) /\ Len(e) = Len(d) + 1 /\ e[Len(d) + 1] = m /\ \A k \in 1 .. Len(d) : e[k] = d[k]
    BY <1>0, <2>1, <2>m, AppendAt
  <2>3. \A k \in Len(d) + 1 .. Len(e) : e[k].kind = "nack"
    BY <1>0, <2>1, <2>2
  <2>4. Len(d) <= Len(e) /\ down' = e
    BY <1>0, <1>6, <1>q, <2>2, <2>m
  <2>5. CASE link = "open"
    <3>1. \A s : On(q, S, s, 1 - 1) <=> s \in S
      BY DEF On
    <3>2. ~Fresh(q, S, 1)
      BY <1>0, <1>6, <1>q, <3>1 DEF Fresh
    <3>3. Again(q, S, 1)
      BY <1>0, <1>6, <1>q, <2>5, <3>2 DEF CovInv, Asked, Uniform
    <3>4. h.syms \subseteq S
      BY <1>0, <3>1, <3>3 DEF Again
    <3>5. Served(q, S, S)
      BY <1>3, <1>6, <3>4 DEF Served
    <3>6. ASSUME NEW s \in Syms, Due(q, S, d, changes, s) PROVE Due(Tail(q), S, e, changes, s)
      BY <1>0, <2>1, <2>m, <3>2, <3>5, <3>6, DueRefused
    <3> QED
      BY <1>0, <1>1, <1>6, <1>q, <2>2, <2>3, <2>4, <3>5, <3>6, CovServed
  <2>6. CASE link # "open"
    <3>1. ASSUME NEW s \in Syms PROVE OrderOf(tape[s].got, e, s)
      <4>1. OrderOf(tape[s].got, d, s)
        BY <1>q DEF CovInv, Order
      <4>2. \A k \in Len(d) + 1 .. Len(e) : ~IsTrade(e[k], s)
        BY <2>3 DEF IsTrade
      <4> QED
        BY <1>0, <2>2, <2>4, <4>1, <4>2, OrderLonger
    <3> QED
      BY <1>1, <2>4, <2>6, <3>1 DEF CovInv, Order
  <2> QED
    BY <2>5, <2>6
<1> QED
  BY <1>4, <1>5, <1>6, <1>h DEF VenueAnswers

LEMMA CovVenue == ASSUME Typed, CovInv, Tick \/ Venue PROVE CovInv'
<1> USE DEF feeds, selecting
<1>0. trades \in [Syms -> Seq(Instants)] /\ clock \in Instants /\ depth \in [Syms -> Nat]
  BY DEF Typed, VenueT
<1>1. CASE Tick
  BY <1>1, CovKeeps DEF Tick
<1>2. ASSUME NEW s \in Moving, VenueTrades(s) PROVE CovInv'
  <2>1. s \in Syms
    BY StreamAssumption
  <2>2. /\ trades'[s] = Append(trades[s], clock)
        /\ \A u \in Syms \ {s} : trades'[u] = trades[u]
    BY <1>0, <1>2, <2>1 DEF VenueTrades
  <2>3. /\ Len(trades'[s]) = Len(trades[s]) + 1 /\ Len(trades[s]) \in Nat
        /\ \A n \in 1 .. Len(trades[s]) : trades'[s][n] = trades[s][n]
    BY <1>0, <2>1, <2>2, AppendAt
  <2>m. PICK m : m = [kind |-> "trade", sym |-> s, n |-> Len(trades[s]) + 1]
    OBVIOUS
  <2>4. m \in Msgs /\ m.kind = "trade" /\ m.sym = s /\ m.n = Len(trades[s]) + 1 /\ Feed(s, m)
    BY <1>2, <2>1, <2>3, <2>m DEF VenueTrades, Msgs, Trades
  <2>5. UNCHANGED <<subs, link, up, runAt, selected, changes, tape, selAt, adding, removing>>
    BY <1>2 DEF VenueTrades
  <2>6. \A u \in Syms : /\ Len(trades[u]) <= Len(trades'[u])
                        /\ \A n \in 1 .. Len(trades[u]) : trades'[u][n] = trades[u][n]
                        /\ Len(trades'[u]) = Len(trades[u]) \/ u = s
    <3> SUFFICES ASSUME NEW u \in Syms
                 PROVE  /\ Len(trades[u]) <= Len(trades'[u])
                        /\ \A n \in 1 .. Len(trades[u]) : trades'[u][n] = trades[u][n]
                        /\ Len(trades'[u]) = Len(trades[u]) \/ u = s
      OBVIOUS
    <3>1. CASE u = s
      BY <2>3, <3>1
    <3>2. CASE u # s
      <4>1. trades'[u] = trades[u] /\ Len(trades[u]) \in Nat
        BY <1>0, <2>2, <3>2
      <4> QED
        BY <4>1
    <3> QED
      BY <3>1, <3>2
  <2> QED
    BY <2>1, <2>3, <2>4, <2>5, <2>6, CovFed
<1>3. ASSUME NEW s \in Syms, VenueUpdates(s) \/ VenueRestates(s) PROVE CovInv'
  <2>1. /\ UNCHANGED <<trades, subs, link, up, runAt, selected, changes, tape, selAt, adding, removing>>
        /\ \A u \in Syms : Len(trades[u]) \in Nat
    BY <1>0, <1>3 DEF VenueUpdates, VenueRestates, venue
  <2>2. \E m \in Msgs : m.kind \in {"delta", "snap"} /\ m.sym = s /\ Feed(s, m)
    <3>m. PICK m, z : m = [kind |-> "delta", sym |-> s, n |-> depth[s] + 1]
                      /\ z = [kind |-> "snap", sym |-> s, n |-> depth[s]]
      OBVIOUS
    <3>1. /\ m \in Msgs /\ m.kind = "delta" /\ m.sym = s
          /\ z \in Msgs /\ z.kind = "snap" /\ z.sym = s
      BY <1>0, <3>m DEF Msgs, Updates
    <3>2. Feed(s, m) \/ Feed(s, z)
      BY <1>3, <3>m DEF VenueUpdates, VenueRestates
    <3> QED
      BY <3>1, <3>2
  <2> QED
    BY <2>1, <2>2, CovFed
<1>4. CASE Cut
  BY <1>4, CovGone DEF Cut, CovInv
<1> QED
  BY <1>1, <1>2, <1>3, <1>4, CovAnswered DEF Venue

LEMMA DownAt ==
  ASSUME Typed, down # <<>>
  PROVE  /\ down \in Seq(Msgs) /\ Len(down) \in Nat \ {0} /\ Head(down) = down[1] /\ down[1] \in Msgs
         /\ Len(Tail(down)) = Len(down) - 1 /\ Tail(down) \in Seq(Msgs)
         /\ \A k \in 1 .. Len(Tail(down)) : k + 1 \in 1 .. Len(down) /\ Tail(down)[k] = down[k + 1]
         /\ \A k \in 2 .. Len(down) : k - 1 \in 1 .. Len(Tail(down)) /\ Tail(down)[k - 1] = down[k]
         /\ \A k \in 1 .. Len(down) : k = 1 \/ k \in 2 .. Len(down)
         /\ Happened(down[1])
<1>d. PICK d, e : d = down /\ e = Tail(down)
  OBVIOUS
<1>1. d \in Seq(Msgs) /\ d # <<>> /\ \A k \in 1 .. Len(d) : Happened(d[k])
  BY <1>d DEF Typed, WireT, Told
<1>2. /\ Len(d) \in Nat \ {0} /\ Len(e) = Len(d) - 1 /\ Head(d) = d[1] /\ d[1] \in Msgs /\ e \in Seq(Msgs)
      /\ \A k \in 1 .. Len(d) - 1 : e[k] = d[k + 1]
  BY <1>1, <1>d, TailAt
<1>3. \A k \in 2 .. Len(d) : k - 1 \in 1 .. Len(e) /\ e[k - 1] = d[k]
  BY <1>1, <1>d, Tails
<1>4. /\ \A k \in 1 .. Len(e) : k + 1 \in 1 .. Len(d) /\ e[k] = d[k + 1]
      /\ \A k \in 1 .. Len(d) : k = 1 \/ k \in 2 .. Len(d)
      /\ 1 \in 1 .. Len(d)
  BY <1>2
<1> QED
  BY <1>1, <1>2, <1>3, <1>4, <1>d

\* A message is received: the trades that were on their way stay so, but for the message.
LEMMA HoldsOn ==
  ASSUME Typed, down # <<>>, down' = Tail(down), UNCHANGED trades, NEW s \in Syms,
         ~IsTrade(down[1], s), tape'[s] = tape[s], Holds(s)
  PROVE  Holds(s)'
<1>1. ASSUME NEW n, Held(s, n) PROVE Held(s, n)'
  <2>1. ASSUME NEW k \in 1 .. Len(down), IsTrade(down[k], s), down[k].n = n
        PROVE  \E j \in 1 .. Len(Tail(down)) : IsTrade(Tail(down)[j], s) /\ Tail(down)[j].n = n
    <3>1. k - 1 \in 1 .. Len(Tail(down)) /\ Tail(down)[k - 1] = down[k]
      BY <2>1, DownAt
    <3> QED
      BY <2>1, <3>1
  <2> QED
    BY <1>1, <2>1 DEF Held
<1> QED
  BY <1>1 DEF Holds

LEMMA CovTaken ==
  ASSUME Typed, CovInv, NEW kinds, Receives(kinds), "nack" \notin kinds,
         UNCHANGED <<trades, runAt, selected, selAt, adding, removing>>, NEW b, changes' = b,
         \A s \in Syms : \A x \in Nat : Tells(changes, s, x) \/ AckAt(down, 1, x) => Tells(b, s, x),
         \A s \in Syms : OrderOf(tape'[s].got, Tail(down), s),
         \A s \in selected :
           Holds(s) \/ (\E x \in Nat : AckAt(down, 1, x) /\ Tells(changes, s, x)) => Holds(s)'
  PROVE  CovInv'
<1>q. PICK d, e : d = down /\ e = Tail(down)
  OBVIOUS
<1>0. /\ down # <<>> /\ Head(down).kind # "nack" /\ down' = Tail(down) /\ UNCHANGED <<subs, link, up>>
  BY DEF Receives
<1>1. Order'
  BY <1>0 DEF Order
<1>2. ASSUME link = "open" PROVE Asked'
  <2>1. Uniform(up, subs) /\ Predict /\ \A s \in selected : Covered(s)
    BY <1>2 DEF CovInv, Asked
  <2>2. OnlyFirst => OnlyFirst'
    <3>1. ASSUME OnlyFirst PROVE \A k \in 1 .. Len(e) : e[k].kind = "ack" => e[k].req = NoReq
      BY <1>0, <1>q, <3>1, DownAt DEF OnlyFirst
    <3> QED
      BY <1>0, <1>q, <3>1 DEF OnlyFirst
  <2>3. Uniform(up, subs)' /\ Predict'
    BY <1>0, <2>1, <2>2 DEF Predict, Rejoined, Rotating, Ends
  <2>4. ASSUME NEW s \in selected, Ends(s)
        PROVE  Due(up, subs, e, b, s) \/ (Lasting(up, subs, s) /\ Holds(s)')
    <3>1. s \in Syms
      BY DEF Typed, SelectT
    <3>2. CASE Due(up, subs, down, changes, s)
      <4>1. \/ Due(up, subs, Tail(down), b, s)
            \/ Lasting(up, subs, s) /\ \E x \in Nat : AckAt(down, 1, x) /\ Tells(changes, s, x)
        BY <1>0, <3>1, <3>2, DownAt, DueTaken
      <4> QED
        BY <1>q, <4>1
    <3>3. CASE Lasting(up, subs, s) /\ Holds(s)
      BY <3>3
    <3> QED
      BY <2>1, <2>4, <3>2, <3>3 DEF Covered
  <2>5. ASSUME NEW s \in selected PROVE Covered(s)'
    BY <1>0, <1>q, <2>4 DEF Covered, Ends
  <2> QED
    BY <1>0, <2>3, <2>5 DEF Asked
<1> QED
  BY <1>0, <1>1, <1>2 DEF CovInv

LEMMA CovConnect == ASSUME Typed, CovInv, Connect PROVE CovInv'
<1>r. PICK r, q : r = [op |-> "sub", syms |-> selected, req |-> NoReq] /\ q = <<r>>
  OBVIOUS
<1>0. /\ up' = q /\ down' = <<>> /\ subs' = {} /\ runAt' = "live"
      /\ UNCHANGED <<selected, selAt, adding, removing>>
  BY <1>r DEF Connect, selecting
<1>1. /\ Len(q) = 1 /\ q[1] = r /\ r.op = "sub" /\ r.req = NoReq /\ r.syms = selected /\ Len(<<>>) = 0
      /\ selected \subseteq Syms /\ NoReq \in Nat /\ 1 \in 1 .. 1
  BY <1>r, Basics DEF Typed, SelectT
<1>2. ASSUME NEW s \in Syms PROVE OrderOf(tape'[s].got, <<>>, s)
  <2>1. OrderOf(tape[s].got, down, s)
    BY DEF CovInv, Order
  <2>2. tape'[s] = tape[s] \/ Len(tape'[s].got) = 0
    BY Emptied DEF Connect
  <2> QED
    BY <1>1, <2>1, <2>2 DEF OrderOf
<1>3. \A s : On(q, {}, s, 1) <=> s \in selected
  <2>1. \A s : Puts(q, s, 1) <=> s \in selected
    BY <1>1 DEF Puts
  <2>2. \A i \in 1 + 1 .. 1 : FALSE
    OBVIOUS
  <2>3. \A j \in 1 .. 1 : j = 1
    OBVIOUS
  <2> QED
    BY <1>1, <2>1, <2>2, <2>3 DEF On
<1>4. Fresh(q, {}, 1)
  <2>1. \A j \in 1 .. 1 - 1 : FALSE
    OBVIOUS
  <2> QED
    BY <2>1 DEF Fresh, On
<1>5. \A s : Kept(q, s, 1)
  BY <1>1 DEF Kept
<1>6. \A k \in 1 .. Len(q) : k = 1
  BY <1>1
<1>7. Uniform(q, {})
  BY <1>4, <1>6 DEF Uniform
<1>8. \A s \in Syms : Ends(s)' <=> s \in selected
  BY <1>0, <1>1, <1>3 DEF Ends
<1>9. Predict'
  <2>1. OnlyFirst'
    BY <1>0, <1>1, <1>6 DEF OnlyFirst
  <2>2. Rejoined'
    BY <1>0, <1>8, <2>1 DEF Rejoined
  <2> QED
    BY <1>0, <1>8, <2>2 DEF Predict
<1>10. ASSUME NEW s \in selected PROVE Covered(s)'
  <2>c. PICK c : c = changes'
    OBVIOUS
  <2>1. Ask(q, {}, <<>>, c, s, 1, NoReq)
    BY <1>1, <1>3, <1>4, <1>5, Basics DEF Ask, SubAt, Tells
  <2>2. Asks(q, {}, <<>>, c, s)
    BY <1>1, <2>1 DEF Asks
  <2> QED
    BY <1>0, <2>2, <2>c DEF Covered, Due
<1>11. Asked'
  BY <1>0, <1>7, <1>9, <1>10 DEF Asked
<1>12. Order'
  BY <1>0, <1>2 DEF Order
<1> QED
  BY <1>0, <1>11, <1>12 DEF CovInv

\* An acknowledgement empties the tapes it tells of.
LEMMA CovAck == ASSUME Typed, CovInv, Ack PROVE CovInv'
<1>0. /\ Receives({"ack"}) /\ down # <<>> /\ down' = Tail(down) /\ Arrived /\ down[1].kind = "ack"
      /\ UNCHANGED <<trades, runAt, selected, selAt, adding, removing>>
  BY DownAt DEF Ack, Receives, venue, selecting
<1>1. down[1].req \in Nat /\ Head(down) = down[1]
  BY <1>0, DownAt DEF Msgs, Trades, Updates
<1>r. PICK req \in Nat : req = down[1].req
  BY <1>1
<1>a. PICK added : added = IF req \in Instants THEN changes[req] ELSE {}
  OBVIOUS
<1>f. PICK confirmed : confirmed = IF added # {} THEN added ELSE selected
  OBVIOUS
<1>b. PICK b : b = [r \in Instants |-> IF r = req THEN {} ELSE changes[r]]
  OBVIOUS
<1>2. /\ changes' = b
      /\ tape' = [s \in Syms |-> IF s \in confirmed \cap selected THEN EmptyTape(clock) ELSE tape[s]]
  BY <1>1, <1>a, <1>b, <1>f, <1>r DEF Ack
<1>3. ASSUME NEW s \in Syms, NEW x \in Nat, Tells(changes, s, x) \/ AckAt(down, 1, x)
      PROVE  Tells(b, s, x)
  <2>1. CASE x = req
    BY <1>b, <2>1 DEF Tells
  <2>2. CASE x # req
    BY <1>3, <1>b, <1>r, <2>2 DEF Tells, AckAt
  <2> QED
    BY <2>1, <2>2
<1>4. ASSUME NEW s \in Syms PROVE tape'[s] = tape[s] \/ (tape'[s] = EmptyTape(clock) /\ Len(tape'[s].got) = 0)
  <2>1. clock \in Instants
    BY DEF Typed, VenueT
  <2> QED
    BY <1>2, <2>1, NewFeeds
<1>5. ASSUME NEW s \in Syms PROVE OrderOf(tape'[s].got, Tail(down), s)
  <2>1. OrderOf(tape[s].got, Tail(down), s)
    BY <1>0, DownAt, OrderTail DEF CovInv, Order
  <2>2. CASE tape'[s] = tape[s]
    BY <2>1, <2>2
  <2>3. CASE Len(tape'[s].got) = 0
    BY <2>1, <2>3, OrderEmptied
  <2> QED
    BY <1>4, <2>2, <2>3
<1>6. ASSUME NEW s \in selected, Holds(s) \/ \E x \in Nat : AckAt(down, 1, x) /\ Tells(changes, s, x)
      PROVE  Holds(s)'
  <2>1. s \in Syms
    BY DEF Typed, SelectT
  <2>2. CASE tape'[s] = EmptyTape(clock)
    BY <1>0, <2>1, <2>2, StartsWhole
  <2>3. CASE tape'[s] = tape[s] /\ Holds(s)
    BY <1>0, <2>1, <2>3, HoldsOn DEF IsTrade
  <2>4. CASE \E x \in Nat : AckAt(down, 1, x) /\ Tells(changes, s, x)
    <3>1. Tells(changes, s, req)
      BY <1>r, <2>4 DEF AckAt
    <3>2. s \in confirmed
      BY <1>a, <1>f, <3>1 DEF Tells
    <3> QED
      BY <1>2, <2>1, <2>2, <3>2
  <2> QED
    BY <1>4, <1>6, <2>1, <2>2, <2>3, <2>4
<1> QED
  BY <1>0, <1>2, <1>3, <1>5, <1>6, CovTaken

\* A row that is shed, or of no interest.
LEMMA CovPassed == ASSUME Typed, CovInv, Ignored \/ Snapshot \/ Delta \/ Shed PROVE CovInv'
<1>k. PICK kinds : Receives(kinds) /\ kinds \subseteq {"trade", "delta", "snap"}
  BY DEF Ignored, Snapshot, Delta, Shed
<1>0. /\ down # <<>> /\ down' = Tail(down) /\ Arrived /\ Head(down) = down[1]
      /\ UNCHANGED <<trades, runAt, selected, selAt, adding, removing, changes>>
  BY <1>k, DownAt DEF Ignored, Snapshot, Delta, Shed, Receives, venue, selecting
<1>1. down[1].kind \in {"trade", "delta", "snap"} /\ \A x : ~AckAt(down, 1, x)
  BY <1>0, <1>k DEF Receives, AckAt
<1>2. ASSUME NEW s \in Syms
      PROVE  \/ tape'[s] = tape[s] /\ (s \in selected => ~IsTrade(down[1], s))
             \/ tape'[s] = EmptyTape(clock) /\ Len(tape'[s].got) = 0
  <2>1. CASE Ignored
    BY <1>0, <2>1 DEF Ignored, feeds, IsTrade
  <2>2. CASE Snapshot \/ Delta
    <3>1. Receives({"snap"}) \/ Receives({"delta"})
      BY <2>2 DEF Snapshot, Delta
    <3>2. down[1].kind # "trade"
      BY <1>0, <3>1 DEF Receives
    <3> QED
      BY <2>2, <3>2 DEF Snapshot, Delta, IsTrade
  <2>3. CASE Shed
    <3>1. tape' = [tape EXCEPT ![down[1].sym] = EmptyTape(clock)] /\ tape \in [Syms -> TapeType]
      BY <1>0, <2>3 DEF Shed, Typed, FeedT
    <3>2. clock \in Instants
      BY DEF Typed, VenueT
    <3>3. CASE s = down[1].sym
      BY <3>1, <3>2, <3>3, NewFeeds
    <3>4. CASE s # down[1].sym
      BY <3>1, <3>4 DEF IsTrade
    <3> QED
      BY <3>3, <3>4
  <2> QED
    BY <2>1, <2>2, <2>3
<1>3. ASSUME NEW s \in Syms PROVE OrderOf(tape'[s].got, Tail(down), s)
  <2>1. OrderOf(tape[s].got, Tail(down), s)
    BY <1>0, DownAt, OrderTail DEF CovInv, Order
  <2>2. CASE tape'[s] = tape[s]
    BY <2>1, <2>2
  <2>3. CASE Len(tape'[s].got) = 0
    BY <2>1, <2>3, OrderEmptied
  <2> QED
    BY <1>2, <2>2, <2>3
<1>4. ASSUME NEW s \in selected, Holds(s) PROVE Holds(s)'
  <2>1. s \in Syms
    BY DEF Typed, SelectT
  <2>2. CASE tape'[s] = EmptyTape(clock)
    BY <1>0, <2>1, <2>2, StartsWhole
  <2>3. CASE tape'[s] = tape[s] /\ ~IsTrade(down[1], s)
    BY <1>0, <1>4, <2>1, <2>3, HoldsOn
  <2> QED
    BY <1>2, <2>1, <2>2, <2>3
<1>5. PICK b : b = changes
  OBVIOUS
<1>6. "nack" \notin kinds
  BY <1>k
<1> QED
  BY <1>0, <1>1, <1>3, <1>4, <1>5, <1>6, <1>k, CovTaken

\* A trade goes to the tape of its symbol, which claims less when it gives one up.
LEMMA CovTrade == ASSUME Typed, CovInv, Trade PROVE CovInv'
<1>m. PICK m, s, e : m = down[1] /\ s = m.sym /\ e = Tail(down)
  OBVIOUS
<1>0. /\ Receives({"trade"}) /\ down # <<>> /\ down' = e /\ Arrived /\ m.kind = "trade" /\ IsTrade(m, s)
      /\ UNCHANGED <<trades, runAt, selected, selAt, adding, removing, changes>>
      /\ tape' = [tape EXCEPT ![s] = Added(s, m.n)] /\ tape \in [Syms -> TapeType]
  BY <1>m, DownAt DEF Trade, Receives, venue, selecting, Typed, FeedT, IsTrade
<1>1. m \in Msgs /\ s \in Syms /\ m.n \in 1 .. Len(trades[s]) /\ m.n \in Nat /\ down \in Seq(Msgs)
  BY <1>0, <1>m, DownAt, MsgFields DEF Happened
<1>t. PICK g, start : g = tape[s].got /\ start = tape[s].start
  OBVIOUS
<1>2. /\ g \in Seq(Nat) /\ start \in Nat /\ Len(g) \in Nat /\ TapeLen \in Nat \ {0}
      /\ \A k \in 1 .. Len(g) : g[k] \in 1 .. Len(trades[s])
      /\ \A k \in 1 .. Len(trades[s]) : trades[s][k] \in Nat
  <2>1. g \in Seq(Nat) /\ start \in Instants
    BY <1>0, <1>1, <1>t DEF TapeType
  <2>2. \A k \in 1 .. Len(g) : g[k] \in 1 .. Len(trades[s])
    BY <1>1, <1>t DEF Typed, FeedT
  <2>3. trades[s] \in Seq(Instants)
    BY <1>1 DEF Typed, VenueT
  <2>4. \A k \in 1 .. Len(trades[s]) : trades[s][k] \in Instants
    BY <2>3
  <2>5. Instants \subseteq Nat /\ TapeLen \in Nat \ {0}
    BY Basics
  <2>6. start \in Nat
    BY <2>1, <2>5
  <2>7. Len(g) \in Nat
    BY <2>1
  <2>8. \A k \in 1 .. Len(trades[s]) : trades[s][k] \in Nat
    BY <2>4, <2>5
  <2> QED
    BY <2>1, <2>2, <2>5, <2>6, <2>7, <2>8
<1>f. PICK past, base : /\ past = trades[s][Head(g)] + 1
                        /\ base = IF Len(g) = TapeLen THEN Tail(g) ELSE g
  OBVIOUS
<1>v. PICK since : since = IF Len(g) = TapeLen /\ past > start THEN past ELSE start
  OBVIOUS
<1>3. tape'[s].got = Append(base, m.n) /\ tape'[s].start = since /\ \A u \in Syms \ {s} : tape'[u] = tape[u]
  <2>1. Added(s, m.n) = [start |-> since, got |-> Append(base, m.n)]
    BY <1>f, <1>t, <1>v DEF Added
  <2>2. tape'[s] = Added(s, m.n) /\ \A u \in Syms \ {s} : tape'[u] = tape[u]
    BY <1>0, <1>1
  <2> QED
    BY <2>1, <2>2
<1>4. Len(g) = TapeLen => /\ g # <<>> /\ Head(g) = g[1] /\ 1 \in 1 .. Len(g) /\ past = trades[s][g[1]] + 1
                          /\ trades[s][g[1]] \in Nat /\ Len(Tail(g)) = Len(g) - 1
                          /\ \A k \in 2 .. Len(g) : k - 1 \in 1 .. Len(Tail(g)) /\ Tail(g)[k - 1] = g[k]
  <2> SUFFICES ASSUME Len(g) = TapeLen
               PROVE  /\ g # <<>> /\ Head(g) = g[1] /\ 1 \in 1 .. Len(g) /\ past = trades[s][g[1]] + 1
                      /\ trades[s][g[1]] \in Nat /\ Len(Tail(g)) = Len(g) - 1
                      /\ \A k \in 2 .. Len(g) : k - 1 \in 1 .. Len(Tail(g)) /\ Tail(g)[k - 1] = g[k]
    OBVIOUS
  <2>1. g # <<>> /\ 1 \in 1 .. Len(g)
    BY <1>2
  <2>2. Head(g) = g[1] /\ Len(Tail(g)) = Len(g) - 1
    BY <1>2, <2>1, TailAt
  <2>3. \A k \in 2 .. Len(g) : k - 1 \in 1 .. Len(Tail(g)) /\ Tail(g)[k - 1] = g[k]
    BY <1>2, <2>1, Tails
  <2> QED
    BY <1>2, <1>f, <2>1, <2>2, <2>3
<1>5. base \in Seq(Nat) /\ Len(base) \in Nat
  <2>1. CASE Len(g) = TapeLen
    BY <1>2, <1>4, <1>f, <2>1, TailAt
  <2>2. CASE Len(g) # TapeLen
    BY <1>2, <1>f, <2>2
  <2> QED
    BY <2>1, <2>2
<1>h. PICK h : h = Append(base, m.n)
  OBVIOUS
<1>6. /\ Len(h) = Len(base) + 1 /\ h[Len(base) + 1] = m.n /\ Len(base) + 1 \in 1 .. Len(h)
      /\ \A k \in 1 .. Len(base) : h[k] = base[k] /\ k \in 1 .. Len(h)
  <2>1. Len(h) = Len(base) + 1 /\ h[Len(base) + 1] = m.n /\ \A k \in 1 .. Len(base) : h[k] = base[k]
    BY <1>1, <1>5, <1>h, AppendAt
  <2> QED
    BY <1>5, <2>1
<1>7. ASSUME NEW u \in Syms PROVE OrderOf(tape'[u].got, e, u)
  <2>1. OrderOf(tape[u].got, down, u)
    BY DEF CovInv, Order
  <2>2. CASE u # s
    BY <1>0, <1>1, <1>3, <1>m, <2>1, <2>2, OrderTail
  <2>3. CASE u = s
    <3>1. OrderOf(base, down, s)
      <4>1. CASE Len(g) = TapeLen
        BY <1>2, <1>4, <1>f, <1>t, <2>1, <2>3, <4>1, OrderDrops
      <4>2. CASE Len(g) # TapeLen
        BY <1>f, <1>t, <2>1, <2>3, <4>2
      <4> QED
        BY <4>1, <4>2
    <3>2. OrderOf(Append(base, m.n), e, s)
      BY <1>0, <1>1, <1>5, <1>m, <3>1, OrderMoves
    <3> QED
      BY <1>3, <2>3, <3>2
  <2> QED
    BY <2>2, <2>3
<1>8. ASSUME Holds(s), NEW n \in 1 .. Len(trades[s]), trades[s][n] >= tape'[s].start
      PROVE  Held(s, n)'
  <2>v. PICK v : v = trades[s][n]
    OBVIOUS
  <2>a. v >= start /\ (Len(g) = TapeLen => v >= past /\ past = trades[s][g[1]] + 1)
    <3>1. v \in Nat /\ start \in Nat /\ v >= since
      BY <1>2, <1>3, <1>8, <2>v
    <3>2. CASE Len(g) = TapeLen
      <4>1. past \in Nat /\ past = trades[s][g[1]] + 1
        BY <1>4, <3>2
      <4>2. since = IF past > start THEN past ELSE start
        BY <1>v, <3>2
      <4> QED
        BY <3>1, <4>1, <4>2
    <3>3. CASE Len(g) # TapeLen
      BY <1>v, <3>1, <3>3
    <3> QED
      BY <3>2, <3>3
  <2>1. \A k \in 1 .. Len(h) : h[k] = n => Held(s, n)'
    BY <1>3, <1>h DEF Held
  <2>2. \A k \in 1 .. Len(e) : IsTrade(e[k], s) /\ e[k].n = n => Held(s, n)'
    BY <1>0 DEF Held
  <2>3. Held(s, n)
    <3>1. trades[s][n] >= start
      BY <2>a, <2>v
    <3> QED
      BY <1>8, <1>t, <3>1 DEF Holds
  <2>4. ASSUME NEW k \in 1 .. Len(g), g[k] = n PROVE Held(s, n)'
    <3>1. CASE Len(g) = TapeLen
      <4>1. k # 1
        <5>1. v \in Nat /\ v >= past
          BY <1>2, <2>a, <2>v, <3>1
        <5>2. k = 1 => past = v + 1
          BY <2>4, <2>a, <2>v, <3>1
        <5> QED
          BY <5>1, <5>2
      <4>2. k \in 2 .. Len(g)
        BY <1>2, <4>1
      <4>3. k - 1 \in 1 .. Len(base) /\ base[k - 1] = n
        BY <1>4, <1>f, <2>4, <3>1, <4>2
      <4> QED
        BY <1>6, <2>1, <4>3
    <3>2. CASE Len(g) # TapeLen
      BY <1>6, <1>f, <2>1, <2>4, <3>2
    <3> QED
      BY <3>1, <3>2
  <2>5. ASSUME NEW k \in 1 .. Len(down), IsTrade(down[k], s), down[k].n = n PROVE Held(s, n)'
    <3>1. CASE k = 1
      BY <1>6, <1>m, <2>1, <2>5, <3>1
    <3>2. CASE k \in 2 .. Len(down)
      <4>1. k - 1 \in 1 .. Len(e) /\ e[k - 1] = down[k]
        BY <1>0, <1>m, <3>2, DownAt
      <4> QED
        BY <2>2, <2>5, <4>1
    <3> QED
      BY <1>0, <3>1, <3>2, DownAt
  <2> QED
    BY <1>t, <2>3, <2>4, <2>5 DEF Held
<1>9. Holds(s) => Holds(s)'
  BY <1>0, <1>8 DEF Holds
<1>10. ASSUME NEW u \in selected, Holds(u) PROVE Holds(u)'
  <2>1. u \in Syms
    BY DEF Typed, SelectT
  <2>2. CASE u # s
    BY <1>0, <1>10, <1>3, <1>m, <2>1, <2>2, HoldsOn DEF IsTrade
  <2> QED
    BY <1>9, <1>10, <2>2
<1>11. \A x : ~AckAt(down, 1, x)
  BY <1>0, <1>m DEF AckAt
<1>b. PICK b : b = changes
  OBVIOUS
<1> QED
  BY <1>0, <1>7, <1>10, <1>11, <1>b, <1>m, CovTaken

LEMMA CovRun == ASSUME Typed, CovInv, Run PROVE CovInv'
<1>1. CASE GiveUp
  <2>1. link' # "open" /\ link' = link /\ down' = down /\ link = "none"
    BY <1>1 DEF GiveUp, wire, CovInv
  <2> QED
    BY <1>1, <2>1, Emptied, CovGone DEF GiveUp
<1>2. CASE Interrupted \/ BackedUp \/ Nack \/ DeltaGap
  BY <1>2, CovRaised DEF Interrupted, BackedUp, Nack, DeltaGap
<1> QED
  BY <1>1, <1>2, CovConnect, CovAck, CovPassed, CovTrade DEF Run

\* A request is sent, on the connection there is.
LEMMA CovUnsub == ASSUME Typed, CovInv, SendUnsub PROVE CovInv'
<1>r. PICK r : r = [op |-> "unsub", syms |-> removing]
  OBVIOUS
<1>q. PICK q, p, S : q = up /\ p = Append(up, r) /\ S = subs
  OBVIOUS
<1>0. /\ UNCHANGED <<trades, tape, down, subs, link, runAt, selected, changes, adding>> /\ removing' = {}
      /\ selAt = "unsub" /\ selAt' = (IF adding = {} THEN "idle" ELSE "sub")
      /\ up' = IF link = "open" THEN p ELSE q
  BY <1>q, <1>r DEF SendUnsub, Sends, venue, feeds
<1>1. /\ adding \subseteq selected /\ selected \subseteq Syms /\ removing \subseteq Syms \ selected
      /\ q \in Seq(Requests)
  BY <1>q DEF Typed, SelectT, WireT
<1>2. r \in Requests /\ r.op = "unsub" /\ r.syms = removing
  BY <1>1, <1>r DEF Requests
<1>3. Order'
  BY <1>0 DEF CovInv, Order
<1>4. CASE link # "open"
  BY <1>0, <1>3, <1>4 DEF CovInv
<1>5. CASE link = "open"
  <2>0. up' = p /\ p = Append(q, r)
    BY <1>0, <1>5, <1>q
  <2>1. Uniform(q, S) /\ (Rejoined \/ Rotating) /\ \A s \in selected : Covered(s)
    BY <1>0, <1>5, <1>q DEF CovInv, Asked, Predict
  <2>2. /\ Len(q) \in Nat /\ Len(p) = Len(q) + 1 /\ p[Len(q) + 1] = r
        /\ \A k \in 1 .. Len(q) : p[k] = q[k]
        /\ \A k \in 1 .. Len(p) : k \in 1 .. Len(q) \/ k = Len(q) + 1
    <3>1. /\ Len(q) \in Nat /\ Len(p) = Len(q) + 1 /\ p[Len(q) + 1] = r
          /\ \A k \in 1 .. Len(q) : p[k] = q[k]
      BY <1>1, <1>2, <2>0, AppendAt
    <3> QED
      BY <3>1
  <2>3. Uniform(p, S)
    BY <1>1, <1>2, <2>0, <2>1, UniformSent
  <2>4. \A s \in Syms : Ends(s)' <=> Ends(s) /\ s \notin removing
    <3>1. \A s : On(p, S, s, Len(q) + 1) <=> On(q, S, s, Len(q)) /\ s \notin removing
      BY <1>1, <1>2, <2>0, OnSent
    <3>2. \A s : (Ends(s)' <=> On(p, S, s, Len(p))) /\ (Ends(s) <=> On(q, S, s, Len(q)))
      BY <1>0, <1>q, <2>0 DEF Ends
    <3> QED
      BY <2>2, <3>1, <3>2
  <2>5. Predict'
    <3>1. CASE Rejoined
      <4>1. \A s \in Syms : Ends(s)' <=> s \in selected
        BY <1>1, <2>4, <3>1 DEF Rejoined
      <4>2. OnlyFirst'
        <5>1. \A k \in 1 .. Len(p) : p[k].op = "sub" => p[k].req = NoReq
          BY <1>2, <1>q, <2>2, <3>1 DEF Rejoined, OnlyFirst
        <5> QED
          BY <1>0, <2>0, <3>1, <5>1 DEF Rejoined, OnlyFirst
      <4>3. Rejoined'
        BY <1>0, <4>1, <4>2 DEF Rejoined
      <4> QED
        BY <1>0, <4>1, <4>3 DEF Predict
    <3>2. CASE Rotating
      <4>1. \A s \in Syms : Ends(s)' <=> s \in (selected \ adding)
        BY <1>1, <2>4, <3>2 DEF Rotating
      <4>2. Rotating'
        BY <1>0, <4>1 DEF Rotating
      <4> QED
        BY <1>0, <4>1, <4>2 DEF Predict
    <3> QED
      BY <2>1, <3>1, <3>2
  <2>6. ASSUME NEW s \in selected PROVE Covered(s)'
    <3>1. s \in Syms /\ s \notin removing /\ ~(r.op = "unsub" /\ s \in r.syms)
      BY <1>1, <1>2
    <3>2. Holds(s)' <=> Holds(s)
      BY <1>0 DEF Holds, Held
    <3>3. Lasting(q, S, s) => Lasting(p, S, s)
      <4>1. 0 \in 0 .. Len(q)
        BY <2>2
      <4> QED
        BY <1>1, <1>2, <2>0, <3>1, <4>1, OnSent DEF Lasting
    <3>4. Due(q, S, down, changes, s) => Due(p, S, down, changes, s)
      <4>1. down \in Seq(Msgs)
        BY DEF Typed, WireT, Told
      <4> QED
        BY <1>1, <1>2, <2>0, <3>1, <4>1, DueSent
    <3>5. Ends(s) => Due(q, S, down, changes, s) \/ (Lasting(q, S, s) /\ Holds(s))
      BY <1>q, <2>1 DEF Covered
    <3>6. Ends(s)' => Due(p, S, down, changes, s) \/ (Lasting(p, S, s) /\ Holds(s)')
      BY <2>4, <3>1, <3>2, <3>3, <3>4, <3>5
    <3> QED
      BY <1>0, <1>q, <2>0, <3>6 DEF Covered
  <2>7. Asked'
    BY <1>0, <1>q, <2>0, <2>3, <2>5, <2>6 DEF Asked
  <2> QED
    BY <1>0, <1>3, <2>7 DEF CovInv
<1> QED
  BY <1>4, <1>5

LEMMA CovSub == ASSUME Typed, CovInv, SendSub PROVE CovInv'
<1>r. PICK r : r = [op |-> "sub", syms |-> adding, req |-> clock]
  OBVIOUS
<1>q. PICK q, p, S, d, c, b :
        q = up /\ p = Append(up, r) /\ S = subs /\ d = down /\ c = changes /\ b = changes'
  OBVIOUS
<1>0. /\ UNCHANGED <<trades, tape, down, subs, link, runAt, selected, removing>>
      /\ selAt = "sub" /\ selAt' = "idle" /\ b = [changes EXCEPT ![clock] = adding]
      /\ up' = IF link = "open" THEN p ELSE q
  BY <1>q, <1>r DEF SendSub, Sends, venue, feeds
<1>1. /\ adding \subseteq selected /\ selected \subseteq Syms /\ removing = {}
      /\ q \in Seq(Requests) /\ d \in Seq(Msgs) /\ clock \in Instants /\ c \in [Instants -> SUBSET Syms]
  BY <1>0, <1>q DEF Typed, SelectT, WireT, Told, VenueT, RunT
<1>2. r \in Requests /\ r.op = "sub" /\ r.syms = adding /\ r.req = clock /\ clock \in Nat /\ clock # NoReq
  BY <1>1, <1>r, Basics DEF Requests
<1>3. Order'
  BY <1>0 DEF CovInv, Order
<1>4. CASE link # "open"
  BY <1>0, <1>3, <1>4 DEF CovInv
<1>5. CASE link = "open"
  <2>0. up' = p /\ p = Append(q, r)
    BY <1>0, <1>5, <1>q
  <2>1. Uniform(q, S) /\ (Rejoined \/ Rotating) /\ \A s \in selected : Covered(s)
    BY <1>0, <1>5, <1>q DEF CovInv, Asked, Predict
  <2>2. Len(q) \in Nat /\ Len(p) = Len(q) + 1 /\ p[Len(q) + 1] = r /\ Len(q) + 1 \in 1 .. Len(p)
    <3>1. Len(q) \in Nat /\ Len(p) = Len(q) + 1 /\ p[Len(q) + 1] = r
      BY <1>1, <1>2, <2>0, AppendAt
    <3> QED
      BY <3>1
  <2>3. \A s \in Syms : Ends(s) <=> On(q, S, s, Len(q))
    BY <1>q DEF Ends
  <2>4. /\ \A s : On(p, S, s, Len(q) + 1) <=> On(q, S, s, Len(q)) \/ s \in adding
        /\ \A s : Kept(p, s, Len(q) + 1)
    <3>1. ~(r.op = "unsub")
      BY <1>2
    <3> QED
      BY <1>1, <1>2, <2>0, <3>1, OnSent
  <2>5. \A s \in Syms : Ends(s)' <=> Ends(s) \/ s \in adding
    <3>1. \A s : Ends(s)' <=> On(p, S, s, Len(p))
      BY <1>0, <1>q, <2>0 DEF Ends
    <3> QED
      BY <2>2, <2>3, <2>4, <3>1
  <2>6. \/ Rejoined /\ \A s \in adding : On(q, S, s, Len(q))
        \/ Rotating /\ \A s \in adding : ~On(q, S, s, Len(q))
    BY <1>1, <2>1, <2>3 DEF Rejoined, Rotating
  <2>7. Uniform(p, S) /\ ((\A s \in adding : ~On(q, S, s, Len(q))) => Fresh(p, S, Len(q) + 1))
    BY <1>1, <1>2, <2>0, <2>1, <2>6, UniformSent
  <2>8. Predict'
    <3>1. \A s \in Syms : Ends(s)' <=> s \in selected
      BY <1>1, <2>1, <2>5 DEF Rejoined, Rotating
    <3> QED
      BY <1>0, <3>1 DEF Predict
  <2>9. \A x \in Nat : \A s : x # clock /\ Tells(c, s, x) => Tells(b, s, x)
    BY <1>0, <1>1, <1>q DEF Tells
  <2>10. ASSUME NEW s \in selected PROVE Covered(s)'
    <3>1. s \in Syms
      BY <1>1
    <3>2. Holds(s)' <=> Holds(s)
      BY <1>0 DEF Holds, Held
    <3>3. Lasting(q, S, s) => Lasting(p, S, s)
      <4>1. 0 \in 0 .. Len(q) /\ ~(r.op = "unsub")
        BY <1>2, <2>2
      <4> QED
        BY <1>1, <1>2, <2>0, <4>1, OnSent DEF Lasting
    <3>4. ASSUME Ends(s),
                 \/ /\ \A k \in 1 .. Len(q) : ~SubAt(q, k, clock)
                    /\ \A k \in 1 .. Len(d) : ~AckAt(d, k, clock)
                 \/ Fresh(p, S, Len(q) + 1)
          PROVE  Due(p, S, d, b, s) \/ (Lasting(p, S, s) /\ Holds(s)')
      <4>1. Due(q, S, d, c, s) \/ (Lasting(q, S, s) /\ Holds(s))
        BY <1>q, <2>1, <3>4 DEF Covered
      <4>2. ASSUME NEW x \in Nat
            PROVE  \/ Tells(c, s, x) => Tells(b, s, x)
                   \/ /\ SubAt(p, Len(q) + 1, x)
                      /\ Fresh(p, S, Len(q) + 1) /\ On(p, S, s, Len(q) + 1)
                   \/ /\ \A k \in 1 .. Len(q) : ~SubAt(q, k, x)
                      /\ \A k \in 1 .. Len(d) : ~AckAt(d, k, x)
        <5>1. CASE x # clock
          BY <2>9, <5>1
        <5>2. CASE x = clock
          <6>1. SubAt(p, Len(q) + 1, x)
            BY <1>2, <2>2, <5>2 DEF SubAt
          <6>2. On(p, S, s, Len(q) + 1)
            BY <2>3, <2>4, <3>1, <3>4
          <6> QED
            BY <3>4, <5>2, <6>1, <6>2
        <5> QED
          BY <5>1, <5>2
      <4>3. ~(r.op = "unsub" /\ s \in r.syms)
        BY <1>2
      <4>4. Due(q, S, d, c, s) => Due(p, S, d, b, s)
        BY <1>1, <1>2, <2>0, <4>2, <4>3, DueSent
      <4> QED
        BY <3>2, <3>3, <4>1, <4>4
    <3>5. CASE Rejoined
      <4>1. /\ \A k \in 1 .. Len(q) : ~SubAt(q, k, clock)
            /\ \A k \in 1 .. Len(d) : ~AckAt(d, k, clock)
        BY <1>2, <1>q, <3>5 DEF Rejoined, OnlyFirst, SubAt, AckAt
      <4>2. Ends(s)
        BY <3>1, <3>5 DEF Rejoined
      <4> QED
        BY <1>0, <1>q, <2>0, <3>4, <4>1, <4>2 DEF Covered
    <3>6. CASE Rotating /\ Fresh(p, S, Len(q) + 1)
      <4>1. CASE s \notin adding
        <5>1. Ends(s)
          BY <3>1, <3>6, <4>1 DEF Rotating
        <5> QED
          BY <1>0, <1>q, <2>0, <3>4, <3>6, <5>1 DEF Covered
      <4>2. CASE s \in adding
        <5>1. Tells(b, s, clock)
          BY <1>0, <1>1, <1>q, <4>2 DEF Tells
        <5>2. SubAt(p, Len(q) + 1, clock)
          BY <1>2, <2>2 DEF SubAt
        <5>3. Ask(p, S, d, b, s, Len(q) + 1, clock)
          BY <2>4, <3>6, <4>2, <5>1, <5>2 DEF Ask
        <5>4. Due(p, S, d, b, s)
          BY <1>2, <2>2, <5>3 DEF Asks, Due
        <5> QED
          BY <1>0, <1>q, <2>0, <5>4 DEF Covered
      <4> QED
        BY <4>1, <4>2
    <3> QED
      BY <2>6, <2>7, <3>5, <3>6
  <2>11. Asked'
    BY <1>0, <1>q, <2>0, <2>7, <2>8, <2>10 DEF Asked
  <2> QED
    BY <1>0, <1>3, <2>11 DEF CovInv
<1> QED
  BY <1>4, <1>5

LEMMA CovRotate ==
  ASSUME Typed, CovInv, NEW goal \in SUBSET Syms, Select(goal), Rotate(goal)
  PROVE  CovInv'
<1>0. /\ UNCHANGED <<trades, wire, runAt, changes>> /\ UNCHANGED <<up, down, subs, link>>
      /\ selected' = goal /\ adding' = goal \ selected /\ removing' = selected \ goal
      /\ selAt = "idle" /\ selAt' # "idle"
      /\ tape' = [s \in Syms |-> IF s \in selected \cap goal THEN tape[s] ELSE NewTape]
  BY DEF Select, Rotate, venue, wire
<1>1. ASSUME NEW s \in Syms PROVE OrderOf(tape'[s].got, down, s)
  <2>1. OrderOf(tape[s].got, down, s)
    BY DEF CovInv, Order
  <2>2. CASE tape'[s] = tape[s]
    BY <2>1, <2>2
  <2>3. CASE tape'[s] = NewTape
    BY <2>1, <2>3, NewFeeds, OrderEmptied
  <2> QED
    BY <1>0, <2>2, <2>3
<1>2. ASSUME link = "open" PROVE Asked'
  <2>1. Uniform(up, subs) /\ (\A s \in Syms : Ends(s) <=> s \in selected) /\ \A s \in selected : Covered(s)
    BY <1>0, <1>2 DEF CovInv, Asked, Predict
  <2>2. \A s : Ends(s)' <=> Ends(s)
    BY <1>0 DEF Ends
  <2>3. Rotating'
    <3>1. \A s \in Syms : Ends(s)' <=> s \in (goal \ (goal \ selected)) \cup (selected \ goal)
      BY <2>1, <2>2
    <3> QED
      BY <1>0, <3>1 DEF Rotating
  <2>4. Uniform(up, subs)' /\ Predict'
    BY <1>0, <2>1, <2>3 DEF Predict
  <2>5. ASSUME NEW s \in goal PROVE Covered(s)'
    <3>1. CASE s \in selected
      <4>1. tape'[s] = tape[s]
        BY <1>0, <3>1
      <4>2. Holds(s) => Holds(s)'
        BY <1>0, <4>1 DEF Holds, Held
      <4>3. Covered(s)
        BY <2>1, <3>1
      <4> QED
        BY <1>0, <2>2, <4>2, <4>3 DEF Covered
    <3>2. CASE s \notin selected
      BY <2>1, <2>2, <3>2 DEF Covered
    <3> QED
      BY <3>1, <3>2
  <2> QED
    BY <1>0, <2>4, <2>5 DEF Asked
<1>3. Order'
  BY <1>0, <1>1 DEF Order
<1> QED
  BY <1>0, <1>2, <1>3 DEF CovInv

LEMMA CovStep == ASSUME Typed, CovInv, [Next]_vars PROVE CovInv'
<1>1. CASE RecorderFails \/ RecorderHeals \/ UNCHANGED vars
  BY <1>1, CovKeeps DEF RecorderFails, RecorderHeals, vars, venue, feeds, selecting
<1>2. CASE SendFails
  BY <1>2, CovStarts DEF SendFails
<1>3. ASSUME NEW goal \in SUBSET Syms, Select(goal) PROVE CovInv'
  BY <1>3, CovStarts, CovRotate DEF Select
<1> QED
  BY <1>1, <1>2, <1>3, CovVenue, CovRun, CovUnsub, CovSub DEF Next, Selecting

LEMMA CovImplies == Typed /\ CovInv => CoverageHonest
<1> SUFFICES ASSUME Typed, CovInv, Settled, NEW s \in selected, tape[s].got # <<>>,
                    NEW n \in 1 .. Last(tape[s].got), trades[s][n] >= tape[s].start
             PROVE  \E k \in DOMAIN tape[s].got : tape[s].got[k] = n
  BY DEF CoverageHonest
<1>g. PICK g : g = tape[s].got
  OBVIOUS
<1>0. /\ s \in Syms /\ g \in Seq(Nat) /\ g # <<>> /\ DOMAIN g = 1 .. Len(g) /\ Len(g) \in 1 .. Len(g)
      /\ Last(g) = g[Len(g)] /\ g[Len(g)] \in 1 .. Len(trades[s]) /\ Len(trades[s]) \in Nat
  <2>1. s \in Syms
    BY DEF Typed, SelectT
  <2>2. /\ g \in Seq(Nat) /\ g # <<>> /\ trades[s] \in Seq(Instants)
        /\ \A k \in 1 .. Len(g) : g[k] \in 1 .. Len(trades[s])
    BY <1>g, <2>1 DEF Typed, FeedT, TapeType, VenueT
  <2>3. DOMAIN g = 1 .. Len(g) /\ Len(g) \in 1 .. Len(g) /\ Len(trades[s]) \in Nat
    BY <2>2
  <2> QED
    BY <2>1, <2>2, <2>3 DEF Last
<1>1. /\ link = "open" /\ selAt = "idle" /\ up \in Seq(Requests) /\ down \in Seq(Msgs)
      /\ \A k \in 1 .. Len(up) : up[k].op # "sub"
      /\ \A k \in 1 .. Len(down) : down[k].kind # "ack"
  <2>1. up \in Seq(Requests) /\ down \in Seq(Msgs)
    BY DEF Typed, WireT, Told
  <2>2. DOMAIN up = 1 .. Len(up) /\ DOMAIN down = 1 .. Len(down)
    BY <2>1
  <2> QED
    BY <2>1, <2>2 DEF Settled
<1>2. ~Due(up, subs, down, changes, s)
  <2>1. \A i \in 1 .. Len(down) : \A j \in i + 1 .. Len(down) : j \in 1 .. Len(down)
    BY <1>1
  <2>2. ~Vain(up, subs, down)
    BY <1>1, <2>1 DEF Vain
  <2>3. ~Asks(up, subs, down, changes, s)
    BY <1>1 DEF Asks, Ask, SubAt
  <2>4. ~Answers(down, changes, s)
    BY <1>1 DEF Answers, Answer, AckAt
  <2> QED
    BY <2>2, <2>3, <2>4 DEF Due
<1>3. Holds(s)
  BY <1>0, <1>1, <1>2 DEF CovInv, Asked, Predict, Covered
<1>4. n \in 1 .. Len(trades[s]) /\ n <= g[Len(g)]
  BY <1>0, <1>g
<1>5. Held(s, n)
  BY <1>3, <1>4 DEF Holds
<1>6. ASSUME NEW k \in 1 .. Len(down), IsTrade(down[k], s), down[k].n = n PROVE FALSE
  <2>1. g[Len(g)] < n
    BY <1>0, <1>6, <1>g DEF CovInv, Order, OrderOf
  <2> QED
    BY <1>0, <1>4, <2>1
<1> QED
  BY <1>0, <1>5, <1>6, <1>g DEF Held

\* A tape holds every trade in what it claims to cover once subscriptions are settled: every
\* symbol that is selected has either been answered for while it was subscribed, its tape
\* emptied then and nothing missed since, or such an answer is still due (Streams.process,
\* Tape.add, Streams.select).
THEOREM CoverageIsHonest == Spec => []CoverageHonest
  BY TypedInit, TypedStep, CovInit, CovStep, CovImplies, PTL DEF Spec

LEMMA SubscribedImplies == Typed /\ CovInv => Subscribed
<1> SUFFICES ASSUME Typed, CovInv, Settled, NEW s \in selected PROVE s \in subs
  BY DEF Subscribed
<1>1. /\ link = "open" /\ selAt = "idle" /\ up \in Seq(Requests) /\ s \in Syms
      /\ \A k \in 1 .. Len(up) : up[k].op # "sub"
  <2>1. up \in Seq(Requests) /\ s \in Syms
    BY DEF Typed, WireT, SelectT
  <2>2. DOMAIN up = 1 .. Len(up)
    BY <2>1
  <2> QED
    BY <2>1, <2>2 DEF Settled
<1>2. On(up, subs, s, Len(up))
  BY <1>1 DEF CovInv, Asked, Predict, Ends
<1> QED
  BY <1>1, <1>2 DEF On, Puts

\* Once subscriptions are settled the venue sends what is selected, for what is asked and not
\* answered yet always ends in the selection (Streams.select, Streams.run).
THEOREM SubscriptionsHold == Spec => []Subscribed
  BY TypedInit, TypedStep, CovInit, CovStep, SubscribedImplies, PTL DEF Spec

=============================================================================
