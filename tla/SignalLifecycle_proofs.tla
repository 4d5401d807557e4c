----------------------- MODULE SignalLifecycle_proofs -----------------------
(***************************************************************************)
(* Theorems about SignalLifecycle, for every length of candle, deadline,   *)
(* horizon and price set, and any number of tasks, restarts and failures.  *)
(***************************************************************************)
EXTENDS SignalLifecycle, TLAPS

\* What a task holds: tick, reconcile and evaluate hold a setup that was active.
Held ==
  /\ \A t \in {"tick", "reconcile", "evaluate"} : Holds(t) => Active(copy[t])
  /\ copy \in [Tasks -> Rows \cup {NoRow}]

Typed == TypeOK /\ Held

LEMMA TypedInit == Init => Typed
<1> SUFFICES ASSUME Init PROVE Typed
  OBVIOUS
<1>1. path \in Seq(Prices) /\ now = 0 /\ now <= Horizon
  BY LifecycleAssumption DEF Init, now
<1>2. tape \in [from : 0..Horizon + 2, to : 0..now] /\ tickAt \in 0..now /\ saved \in 0..now
  BY <1>1, LifecycleAssumption DEF Init
<1>3. row \in Rows /\ row.cursor <= now
  BY <1>1, LifecycleAssumption DEF Init, Rows, States
<1>4. \A t \in Tasks : ~Holds(t)
  BY DEF Init, Holds
<1>5. restarts \in 0..MaxRestarts /\ raises \in 0..MaxRaises
  BY LifecycleAssumption DEF Init
<1>6. TypeOK
  BY <1>1, <1>2, <1>3, <1>4, <1>5 DEF Init, TypeOK
<1>7. Held
  BY <1>4 DEF Init, Held, Tasks
<1> QED
  BY <1>6, <1>7 DEF Typed

LEMMA NoRowIsNoCopy == \A r \in Rows : r # NoRow
  BY DEF Rows, NoRow

\* A save keeps the row a row whose cursor is not ahead of the venue.
LEMMA SaveTyped ==
  ASSUME row \in Rows, row.cursor <= now, NEW r \in Rows, r.cursor <= now, Save(r)
  PROVE  row' \in Rows /\ row'.cursor <= now
  BY DEF Save, Rows

LEMMA SaveMergedTyped ==
  ASSUME row \in Rows, row.cursor <= now, NEW r \in Rows, r.cursor <= now, SaveMerged(r)
  PROVE  row' \in Rows /\ row'.cursor <= now
<1>1. CASE Save(r)
  BY <1>1, SaveTyped
<1>2. ASSUME NEW checked \in {row.checked, r.checked /\ r.cursor = row.cursor},
             NEW unwalked \in {row.unwalked, r.unwalked},
             Save([r EXCEPT !.cursor = row.cursor, !.checked = checked, !.unwalked = unwalked])
      PROVE row' \in Rows /\ row'.cursor <= now
  <2> DEFINE merged ==
        [r EXCEPT !.cursor = row.cursor, !.checked = checked, !.unwalked = unwalked]
  <2>1. checked \in BOOLEAN /\ unwalked \in BOOLEAN
    BY <1>2 DEF Rows
  <2>2. merged \in Rows /\ merged.cursor <= now
    BY <2>1 DEF Rows
  <2> HIDE DEF merged
  <2> QED
    BY <1>2, <2>2, SaveTyped DEF merged
<1> QED
  BY <1>1, <1>2 DEF SaveMerged

LEMMA MonitorTyped ==
  ASSUME row \in Rows, row.cursor <= now, NEW r \in Rows, r.cursor <= now, Monitor(r)
  PROVE  row' \in Rows /\ row'.cursor <= now
  BY DEF Monitor

\* The part of Typed about copies.
Copies ==
  /\ \A t \in Tasks : Holds(t) => copy[t] \in Rows /\ copy[t].cursor <= now
  /\ Held
  /\ begun \subseteq {t \in {"health", "evaluate"} : Holds(t)}

LEMMA CopyDropped ==
  ASSUME Typed, NEW t \in Tasks, Drop(t), path' = path
  PROVE  Copies' /\ \A u \in Tasks : u # t => (Holds(u))' = Holds(u)
<1>1. copy' \in [Tasks -> Rows \cup {NoRow}] /\ ~(Holds(t))'
  BY DEF Typed, Held, Drop, Holds
<1>2. \A u \in Tasks : u # t => copy'[u] = copy[u]
  BY DEF Typed, Held, Drop
<1>3. \A u \in Tasks : u # t => (Holds(u))' = Holds(u)
  BY <1>2 DEF Holds
<1>4. (begun \subseteq {u \in {"health", "evaluate"} : Holds(u)})'
  BY <1>3 DEF Drop, Typed, TypeOK, Tasks
<1>5. Held' /\ \A u \in Tasks : (Holds(u))' => copy'[u] \in Rows /\ copy'[u].cursor <= now
  BY <1>1, <1>2 DEF Typed, TypeOK, Held, Holds, Tasks, Active
<1> QED
  BY <1>3, <1>4, <1>5 DEF Copies, now

LEMMA CopyLoaded ==
  ASSUME Typed, NEW t \in Tasks, NEW r \in Rows, r.cursor <= now, Load(t, r), path' = path,
         t # "health" => Active(r)
  PROVE  Copies' /\ \A u \in Tasks : Holds(u) => (Holds(u))'
<1>1. copy' \in [Tasks -> Rows \cup {NoRow}] /\ copy'[t] = r /\ (Holds(t))'
  BY NoRowIsNoCopy DEF Typed, Held, Load, Holds
<1>2. \A u \in Tasks : u # t => copy'[u] = copy[u]
  BY DEF Typed, Held, Load
<1>3. \A u \in Tasks : Holds(u) => (Holds(u))'
  BY <1>1, <1>2 DEF Holds
<1>4. (begun \subseteq {u \in {"health", "evaluate"} : Holds(u)})'
  BY <1>3 DEF Load, Typed, TypeOK, Tasks
<1>5. Held' /\ \A u \in Tasks : (Holds(u))' => copy'[u] \in Rows /\ copy'[u].cursor <= now
  BY <1>1, <1>2 DEF Typed, TypeOK, Held, Holds, Tasks, Active
<1> QED
  BY <1>3, <1>4, <1>5 DEF Copies, now

LEMMA CopyHeld ==
  ASSUME Typed, NEW t \in Tasks, Holds(t)
  PROVE  copy[t] \in Rows /\ copy[t].cursor <= now
  BY DEF Typed, TypeOK

LEMMA Basics == Typed => now \in Nat /\ now <= Horizon /\ row \in Rows /\ row.cursor \in Nat
<1> SUFFICES ASSUME Typed PROVE now \in Nat /\ row.cursor \in Nat
  BY DEF Typed, TypeOK
<1> QED
  BY DEF Typed, TypeOK, now, Rows

LEMMA TypedMarket == ASSUME Typed, Market PROVE Typed'
<1> USE DEF desk, tasks, faults
<1>1. ASSUME NEW p \in Prices, Trade(p) PROVE Typed'
  <2>1. path' \in Seq(Prices) /\ now' = now + 1 /\ now' <= Horizon
    <3>1. path \in Seq(Prices) /\ path' = Append(path, p) /\ now < Horizon
      BY <1>1 DEF Trade, Typed, TypeOK
    <3> QED
      BY <3>1, Basics, LifecycleAssumption DEF now
  <2>2. tape' \in [from : 0..Horizon + 2, to : 0..now']
    BY <1>1, <2>1, Basics DEF Trade, Typed, TypeOK
  <2>3. UNCHANGED <<row, copy, begun, fetch, saved, tickAt, delivered, pending, restarts, raises, feedUp>>
    BY <1>1 DEF Trade
  <2>4. Copies'
    BY <2>1, <2>3, Basics DEF Typed, TypeOK, Held, Holds, Copies, Tasks, Active, Rows
  <2> QED
    BY SMTT(30), <2>1, <2>2, <2>3, <2>4, Basics DEF Typed, TypeOK, Copies, Holds, Rows
<1>2. CASE FeedLost
  BY <1>2 DEF FeedLost, Typed, TypeOK, Held, Holds, Active, now
<1>3. ASSUME NEW up \in BOOLEAN, FeedReset(up) PROVE Typed'
  <2>1. tape' \in [from : 0..Horizon + 2, to : 0..now]
    BY <1>3, Basics, LifecycleAssumption DEF FeedReset
  <2> QED
    BY <1>3, <2>1 DEF FeedReset, Typed, TypeOK, Held, Holds, Active, now
<1> QED
  BY <1>1, <1>2, <1>3 DEF Market

LEMMA TypedTick == ASSUME Typed, Tick PROVE Typed'
<1> USE DEF venue, desk, faults
<1>1. CASE TickLoad
  <2>1. [row EXCEPT !.unwalked = FALSE] \in Rows /\ Active([row EXCEPT !.unwalked = FALSE])
        /\ [row EXCEPT !.unwalked = FALSE].cursor <= now
    BY <1>1, Basics DEF TickLoad, Rows, Active, Typed, TypeOK
  <2>2. Copies' /\ \A u \in Tasks : Holds(u) => (Holds(u))'
    BY <1>1, <2>1, CopyLoaded DEF TickLoad, Tasks
  <2> QED
    BY <1>1, <2>2, Basics DEF TickLoad, Typed, TypeOK, Copies, Tasks, now
<1>2. CASE TickPaused
  <2>1. copy["tick"] \in Rows /\ copy["tick"].cursor <= now
    BY <1>2, CopyHeld DEF TickPaused, Tasks
  <2>2. row' \in Rows /\ row'.cursor <= now
    BY <1>2, <2>1, MonitorTyped DEF TickPaused, Typed, TypeOK
  <2>3. Copies' /\ \A u \in Tasks : u # "tick" => (Holds(u))' = Holds(u)
    BY <1>2, CopyDropped DEF TickPaused, Tasks
  <2> QED
    BY <1>2, <2>2, <2>3, Basics DEF TickPaused, Typed, TypeOK, Copies, Tasks, now
<1>3. ASSUME NEW to \in 0..Horizon, TickWalked(to) PROVE Typed'
  <2> DEFINE r == copy["tick"]
             walked == IF TapeFresh(tickAt) THEN Walk(r, to) ELSE r
             next == Expire(walked)
  <2>1. r \in Rows /\ r.cursor <= now
    BY <1>3, CopyHeld DEF TickWalked, Tasks
  <2>2. walked \in Rows /\ walked.cursor <= now
    <3>1. CASE ~TapeFresh(tickAt) \/ Unseen(r) = {}
      BY <3>1, <2>1 DEF Walk
    <3>2. CASE TapeFresh(tickAt) /\ Unseen(r) # {}
      <4>1. to \in Unseen(r)
        BY <1>3, <3>2 DEF TickWalked, WalksTo, First, Last, Ending
      <4>2. to <= now
        BY <4>1, Basics, <2>1 DEF Unseen, Typed, TypeOK, Rows
      <4>3. EnteredBy(r, to) \in BOOLEAN
        BY <2>1 DEF EnteredBy, Rows
      <4>4. Walk(r, to) \in Rows /\ Walk(r, to).cursor = to
        BY <3>2, <4>3, <2>1 DEF Walk, Rows, States, Terminal
      <4> QED
        BY <3>2, <4>2, <4>4
    <3> QED
      BY <3>1, <3>2
  <2> HIDE DEF walked
  <2>3. next \in Rows /\ next.cursor <= now
    BY <2>2 DEF Expire, Rows, States, Terminal
  <2>4. row' \in Rows /\ row'.cursor <= now
    <3> HIDE DEF next
    <3>1. Monitor(next) \/ Save(next)
      BY <1>3 DEF TickWalked, next, walked
    <3> QED
      BY <3>1, <2>3, MonitorTyped, SaveTyped DEF Typed, TypeOK
  <2>5. Copies' /\ \A u \in Tasks : u # "tick" => (Holds(u))' = Holds(u)
    BY <1>3, CopyDropped DEF TickWalked, Tasks
  <2> QED
    BY <1>3, <2>4, <2>5, Basics DEF TickWalked, Typed, TypeOK, Copies, Tasks, now
<1> QED
  BY <1>1, <1>2, <1>3 DEF Tick

\* Where the candles end, and what they leave of the row.
LEMMA BarsTyped ==
  ASSUME Typed, Asking, NEW bars \in 0..AllBars, NEW to \in 0..Horizon,
         BarsReach(copy["reconcile"], bars, to)
  PROVE  /\ to \in 0..now
         /\ BarsState(copy["reconcile"], bars, to) \in States
         /\ EnteredBefore(copy["reconcile"], bars, to + 1) \in BOOLEAN
         /\ Ambiguous(copy["reconcile"], bars, to) \in BOOLEAN
<1> DEFINE r == copy["reconcile"]
<1>1. r \in Rows /\ r.cursor <= now
  BY CopyHeld DEF Asking, Tasks
<1>2. fetch \in [from : 0..now, until : 0..now]
  BY DEF Asking, Typed, TypeOK
<1>3. BarLimit(r) \in 0..now
  BY <1>2, Basics, LifecycleAssumption DEF BarLimit, Deadline
<1>4. to \in 0..now
  BY <1>2, <1>3, Basics DEF BarsReach, BarsSeen, BarsEnding, First, Last
<1>5. EnteredBefore(r, bars, to + 1) \in BOOLEAN
  BY <1>1 DEF EnteredBefore, Rows
<1>6. Ambiguous(r, bars, to) \in BOOLEAN
  BY DEF Ambiguous
<1> QED
  BY <1>1, <1>4, <1>5, <1>6 DEF BarsState, Rows, States, Terminal

LEMMA TypedReconcile == ASSUME Typed, Reconcile PROVE Typed'
<1> USE DEF venue, desk, faults
<1>1. CASE ReconcileLoad
  <2>1. Copies' /\ \A u \in Tasks : Holds(u) => (Holds(u))'
    BY <1>1, CopyLoaded DEF ReconcileLoad, Tasks, Typed, TypeOK
  <2> QED
    BY <1>1, <2>1 DEF ReconcileLoad, Typed, TypeOK, Copies, Tasks, now
<1>2. CASE ReconcileSkip
  <2>1. Copies'
    BY <1>2, CopyDropped DEF ReconcileSkip, Tasks
  <2> QED
    BY <1>2, <2>1 DEF ReconcileSkip, Turn, Typed, TypeOK, Copies, Tasks, now, NoFetch
<1>3. CASE ReconcileLive
  <2> DEFINE r == [copy["reconcile"] EXCEPT !.cursor = ReconcileCursor, !.checked = FALSE,
                                            !.unwalked = TRUE]
  <2>1. copy["reconcile"] \in Rows /\ copy["reconcile"].cursor <= now
    BY <1>3, CopyHeld DEF ReconcileLive, Turn, Tasks
  <2>2. ReconcileCursor \in 0..now
    BY <2>1, Basics DEF ReconcileCursor, Rows, Typed, TypeOK
  <2>3. r \in Rows /\ r.cursor <= now
    <3>1. ReconcileCursor \in 0..Horizon /\ ReconcileCursor <= now
      BY <2>2, Basics, LifecycleAssumption
    <3>2. TRUE \in BOOLEAN /\ FALSE \in BOOLEAN
      OBVIOUS
    <3> HIDE DEF ReconcileCursor
    <3> QED
      BY <2>1, <3>1, <3>2 DEF Rows
  <2>4. Save(r)
    BY <1>3 DEF ReconcileLive
  <2> HIDE DEF r
  <2>5. row' \in Rows /\ row'.cursor <= now
    BY <2>3, <2>4, SaveTyped DEF Typed, TypeOK
  <2>6. Copies'
    BY <1>3, CopyDropped DEF ReconcileLive, Tasks
  <2> QED
    BY <1>3, <2>2, <2>5, <2>6
       DEF ReconcileLive, Turn, Typed, TypeOK, Copies, Tasks, now, NoFetch
<1>4. CASE ReconcileAsk
  <2>1. copy["reconcile"] \in Rows /\ copy["reconcile"].cursor <= now
    BY <1>4, CopyHeld DEF ReconcileAsk, Turn, Tasks
  <2>2. fetch' \in [from : 0..now, until : 0..now]
    BY <1>4, <2>1, Basics DEF ReconcileAsk, ReconcileCursor, Rows, Typed, TypeOK
  <2> QED
    BY <1>4, <2>2 DEF ReconcileAsk, Turn, Typed, TypeOK, Held, Holds, Active, Tasks, now
<1>5. CASE ReconcileFailed
  <2>1. copy["reconcile"] \in Rows /\ copy["reconcile"].cursor <= now
    BY <1>5, CopyHeld DEF ReconcileFailed, Asking, Tasks
  <2>2. row' \in Rows /\ row'.cursor <= now
    BY <1>5, <2>1, SaveMergedTyped DEF ReconcileFailed, Typed, TypeOK
  <2>3. Copies'
    BY <1>5, CopyDropped DEF ReconcileFailed, Tasks
  <2> QED
    BY <1>5, <2>2, <2>3 DEF ReconcileFailed, Asking, Typed, TypeOK, Copies, Tasks, now, NoFetch
<1>6. ASSUME NEW bars \in 0..AllBars, NEW to \in 0..Horizon, ReconcileAnswered(bars, to)
      PROVE Typed'
  <2> DEFINE r == [copy["reconcile"] EXCEPT
                     !.state = BarsState(copy["reconcile"], bars, to),
                     !.entered = EnteredBefore(copy["reconcile"], bars, to + 1),
                     !.unclear = Ambiguous(copy["reconcile"], bars, to)]
  <2>1. copy["reconcile"] \in Rows /\ copy["reconcile"].cursor <= now
    BY <1>6, CopyHeld DEF ReconcileAnswered, Asking, Tasks
  <2>2. /\ to \in 0..now
        /\ BarsState(copy["reconcile"], bars, to) \in States
        /\ EnteredBefore(copy["reconcile"], bars, to + 1) \in BOOLEAN
        /\ Ambiguous(copy["reconcile"], bars, to) \in BOOLEAN
    BY <1>6, BarsTyped DEF ReconcileAnswered
  <2>3. r \in Rows /\ r.cursor <= now
    BY <2>1, <2>2 DEF Rows
  <2>4. SaveMerged(r)
    BY <1>6 DEF ReconcileAnswered
  <2>5. row' \in Rows /\ row'.cursor <= now
    <3> HIDE DEF r
    <3> QED
      BY <2>3, <2>4, SaveMergedTyped DEF Typed, TypeOK
  <2>6. Copies'
    BY <1>6, CopyDropped DEF ReconcileAnswered, Tasks
  <2> HIDE DEF r
  <2> QED
    BY <1>6, <2>2, <2>5, <2>6
       DEF ReconcileAnswered, Asking, Typed, TypeOK, Copies, Tasks, now, NoFetch
<1> QED
  BY <1>1, <1>2, <1>3, <1>4, <1>5, <1>6 DEF Reconcile

LEMMA TypedRaised ==
  ASSUME Typed, NEW bars \in 0..AllBars, NEW to \in 0..Horizon, ReconcileRaised(bars, to)
  PROVE  Typed'
<1>1. to \in 0..now
  BY BarsTyped DEF ReconcileRaised
<1>2. Copies'
  BY CopyDropped DEF ReconcileRaised, Tasks, venue
<1> QED
  BY <1>1, <1>2, LifecycleAssumption
     DEF ReconcileRaised, Asking, Typed, TypeOK, Copies, Tasks, now, NoFetch, venue

\* A task writes its copy back and lets it go.
LEMMA WrittenBackTyped ==
  ASSUME Typed, NEW t \in {"health", "evaluate"}, Holds(t), NEW state \in States,
         SaveMerged([copy[t] EXCEPT !.state = state]), Drop(t), delivered' \in BOOLEAN,
         UNCHANGED <<venue, saved, pending, tickAt, fetch, faults>>
  PROVE  Typed'
<1> USE DEF venue, faults
<1> DEFINE r == [copy[t] EXCEPT !.state = state]
<1>1. r \in Rows /\ r.cursor <= now
  BY CopyHeld DEF Tasks, Rows
<1>2. SaveMerged(r)
  OBVIOUS
<1> HIDE DEF r
<1>3. row' \in Rows /\ row'.cursor <= now
  BY <1>1, <1>2, SaveMergedTyped DEF Typed, TypeOK
<1>4. Copies' /\ \A u \in Tasks : u # t => (Holds(u))' = Holds(u)
  BY CopyDropped DEF Tasks
<1> QED
  BY <1>3, <1>4 DEF Typed, TypeOK, Copies, Tasks, now

LEMMA TypedHealth == ASSUME Typed, Health PROVE Typed'
<1> USE DEF venue, desk, faults
<1>1. CASE HealthLoad
  <2>1. Copies' /\ \A u \in Tasks : Holds(u) => (Holds(u))'
    BY <1>1, CopyLoaded DEF HealthLoad, Tasks, Typed, TypeOK
  <2> QED
    BY <1>1, <2>1 DEF HealthLoad, Typed, TypeOK, Copies, Tasks, now
<1>2. CASE HealthSkip
  <2>1. Copies' /\ \A u \in Tasks : u # "health" => (Holds(u))' = Holds(u)
    BY <1>2, CopyDropped DEF HealthSkip, Tasks
  <2> QED
    BY <1>2, <2>1 DEF HealthSkip, Typed, TypeOK, Copies, Tasks, now
<1>3. CASE HealthBegin
  <2> DEFINE r == [copy["health"] EXCEPT !.state = "EXPIRED"]
  <2>1. Holds("health") /\ copy["health"] \in Rows /\ copy["health"].cursor <= now
    BY <1>3, CopyHeld DEF HealthBegin, Begin, Tasks
  <2>2. r \in Rows /\ r.cursor <= now /\ r # NoRow
    BY <2>1, NoRowIsNoCopy DEF Rows, States, Terminal
  <2>3. copy' = copy \/ copy' = [copy EXCEPT !["health"] = r]
    BY <1>3 DEF HealthBegin
  <2> HIDE DEF r
  <2>4. \A u \in Tasks : /\ u # "health" => copy'[u] = copy[u]
                         /\ copy'["health"] \in Rows /\ copy'["health"].cursor <= now
    BY <2>1, <2>2, <2>3 DEF Typed, Held, Tasks
  <2>5. copy' \in [Tasks -> Rows \cup {NoRow}] /\ now' = now
    BY <1>3, <2>2, <2>3 DEF HealthBegin, Typed, Held, Tasks, now
  <2>6. \A u \in Tasks : Holds(u) => (Holds(u))'
    BY <2>4, NoRowIsNoCopy DEF Holds
  <2>7. Copies'
    <3>1. \A u \in Tasks : (Holds(u))' => copy'[u] \in Rows /\ copy'[u].cursor <= now
      BY <2>4 DEF Typed, TypeOK, Holds
    <3>2. Held'
      BY <2>4, <2>5 DEF Typed, Held, Holds, Active, Tasks
    <3>3. (begun \subseteq {t \in {"health", "evaluate"} : Holds(t)})'
      BY <1>3, <2>1, <2>6 DEF HealthBegin, Begin, Typed, TypeOK, Tasks
    <3> QED
      BY <2>5, <3>1, <3>2, <3>3 DEF Copies
  <2> QED
    BY <1>3, <2>5, <2>6, <2>7 DEF HealthBegin, Typed, TypeOK, Copies, Tasks, now
<1>4. ASSUME NEW state \in States, HealthSaved(state) PROVE Typed'
  <2>1. Holds("health")
    BY <1>4 DEF HealthSaved, Typed, TypeOK
  <2> QED
    BY <1>4, <2>1, WrittenBackTyped DEF HealthSaved, Typed, TypeOK
<1> QED
  BY <1>1, <1>2, <1>3, <1>4 DEF Health

LEMMA TypedEvaluate == ASSUME Typed, Evaluate PROVE Typed'
<1> USE DEF venue, desk, faults
<1>1. CASE EvaluateLoad
  <2>1. Copies' /\ \A u \in Tasks : Holds(u) => (Holds(u))'
    BY <1>1, CopyLoaded DEF EvaluateLoad, Tasks, Active, Typed, TypeOK
  <2> QED
    BY <1>1, <2>1 DEF EvaluateLoad, Typed, TypeOK, Copies, Tasks, now
<1>2. CASE EvaluateSnapshot
  <2>1. Holds("evaluate")
    BY <1>2 DEF EvaluateSnapshot, Typed, TypeOK
  <2>2. row' \in Rows /\ row'.cursor <= now
    BY <1>2, <2>1, CopyHeld, MonitorTyped DEF EvaluateSnapshot, Tasks, Typed, TypeOK
  <2> QED
    BY <1>2, <2>2 DEF EvaluateSnapshot, Typed, TypeOK, Held, Holds, Active, now, tasks
<1>3. CASE EvaluateSent
  <2>1. Holds("evaluate") /\ "ALERTED" \in States
    BY <1>3 DEF EvaluateSent, Typed, TypeOK, States
  <2> QED
    BY <1>3, <2>1, WrittenBackTyped DEF EvaluateSent
<1>4. CASE EvaluateNotSent
  <2>1. Copies' /\ \A u \in Tasks : u # "evaluate" => (Holds(u))' = Holds(u)
    BY <1>4, CopyDropped DEF EvaluateNotSent, Tasks
  <2> QED
    BY <1>4, <2>1 DEF EvaluateNotSent, Typed, TypeOK, Copies, Tasks, now
<1>5. CASE EvaluateExpired
  <2>1. "EXPIRED" \in States
    BY DEF States, Terminal
  <2> QED
    BY <1>5, <2>1, WrittenBackTyped DEF EvaluateExpired, EvaluateTurn, Typed, TypeOK
<1>6. CASE EvaluateDeferred
  <2>1. copy["evaluate"] \in Rows /\ Holds("evaluate")
    BY <1>6, CopyHeld DEF EvaluateDeferred, EvaluateTurn, Tasks
  <2>2. copy["evaluate"].state \in States
        /\ copy["evaluate"] = [copy["evaluate"] EXCEPT !.state = copy["evaluate"].state]
    BY <2>1 DEF Rows
  <2> QED
    BY <1>6, <2>1, <2>2, WrittenBackTyped DEF EvaluateDeferred, Typed, TypeOK
<1>7. CASE EvaluateBegin
  BY <1>7 DEF EvaluateBegin, Begin, Typed, TypeOK, Held, Holds, Active, now
<1> QED
  BY <1>1, <1>2, <1>3, <1>4, <1>5, <1>6, <1>7 DEF Evaluate

LEMMA TypedRestart == ASSUME Typed, Restart PROVE Typed'
<1>1. row' \in Rows /\ row'.cursor <= now
  BY DEF Restart, Typed, TypeOK, Rows
<1>2. copy' = [t \in Tasks |-> NoRow] /\ \A t \in Tasks : ~(Holds(t))'
  BY DEF Restart, Holds
<1>3. Held'
  BY <1>2 DEF Held, Tasks
<1>4. tape' \in [from : 0..Horizon + 2, to : 0..now] /\ 0 \in 0..now
  BY Basics, LifecycleAssumption DEF Restart, NoTape
<1>5. restarts' \in 0..MaxRestarts
  BY LifecycleAssumption DEF Restart, Typed, TypeOK
<1>6. pending' \in BOOLEAN /\ feedUp' \in BOOLEAN
  <2>1. Active(row) \in BOOLEAN
    BY SMT DEF Active
  <2>2. pending' = Active(row) /\ feedUp' = FALSE
    BY SMT DEF Restart
  <2> QED
    BY <2>1, <2>2
<1>7. fetch' = NoFetch
  BY DEF Restart
<1>8. UNCHANGED <<path, saved, delivered, raises>> /\ tickAt' = 0 /\ now' = now /\ begun' = {}
  BY DEF Restart, now
<1> QED
  BY <1>1, <1>2, <1>3, <1>4, <1>5, <1>6, <1>7, <1>8 DEF Typed, TypeOK

LEMMA TypedStep == ASSUME Typed, [Next]_vars PROVE Typed'
<1>1. CASE UNCHANGED vars
  BY <1>1 DEF Typed, TypeOK, Held, Holds, Active, now, vars, venue, desk, tasks, faults
<1> QED
  BY <1>1, TypedMarket, TypedTick, TypedReconcile, TypedRaised, TypedHealth, TypedEvaluate,
     TypedRestart DEF Next

LEMMA TypedAlways == Spec => []Typed
  BY TypedInit, TypedStep, PTL DEF Spec

\* The types hold, no cursor ever runs ahead of the venue, and a candle request
\* never outlives the task that made it (lifecycle.py, reconciliation.py).
THEOREM TypeCorrect == Spec => []TypeOK
  BY TypedAlways, PTL DEF Typed

-----------------------------------------------------------------------------
(* A closed setup stays as it is.                                          *)

\* A save or a monitoring write of an active copy leaves a closed row alone.
LEMMA ClosedRow ==
  ASSUME ~Active(row)
  PROVE  /\ \A r : Save(r) => row' = row
         /\ \A r : SaveMerged(r) => row' = row
         /\ \A r : Active(r) /\ Monitor(r) => row' = row
<1>1. \A r : Save(r) => row' = row
  BY DEF Save
<1> QED
  BY <1>1 DEF SaveMerged, Monitor, Active

LEMMA ClosedStep == ASSUME Typed, [Next]_vars, ~Active(row) PROVE UNCHANGED row
<1> USE ClosedRow DEF desk, tasks, venue
<1>1. CASE Market
  BY <1>1 DEF Market, Trade, FeedLost, FeedReset
<1>2. CASE Tick
  <2>1. CASE TickLoad
    BY <2>1 DEF TickLoad
  <2>2. CASE TickPaused
    BY <2>2 DEF TickPaused, Typed, Held
  <2>3. ASSUME NEW to \in 0..Horizon, TickWalked(to) PROVE row' = row
    BY <2>3 DEF TickWalked
  <2> QED
    BY <1>2, <2>1, <2>2, <2>3 DEF Tick
<1>3. CASE Reconcile
  BY <1>3 DEF Reconcile, ReconcileLoad, ReconcileSkip, ReconcileLive, ReconcileAsk,
              ReconcileFailed, ReconcileAnswered
<1>4. CASE Health
  BY <1>4 DEF Health, HealthLoad, HealthSkip, HealthBegin, HealthSaved
<1>5. CASE Evaluate
  <2>1. CASE EvaluateSnapshot
    BY <2>1 DEF EvaluateSnapshot, Typed, TypeOK, Held
  <2> QED
    BY <1>5, <2>1 DEF Evaluate, EvaluateLoad, EvaluateSent, EvaluateNotSent, EvaluateExpired,
                      EvaluateDeferred, EvaluateBegin
<1>6. CASE Restart
  BY <1>6 DEF Restart
<1>7. CASE UNCHANGED vars
  BY <1>7 DEF vars
<1>8. ASSUME NEW bars \in 0..AllBars, NEW to \in 0..Horizon, ReconcileRaised(bars, to)
      PROVE row' = row
  BY <1>8 DEF ReconcileRaised
<1> QED
  BY <1>1, <1>2, <1>3, <1>4, <1>5, <1>6, <1>7, <1>8 DEF Next

\* No task, however old its copy of the row, changes a setup that is closed
\* (Store.signal, Store.monitor).
THEOREM ClosedForGood == Spec => TerminalIsFinal
<1>1. Typed /\ [Next]_vars => [~Active(row) => UNCHANGED row]_row
  BY ClosedStep
<1> QED
  BY <1>1, TypedAlways, PTL DEF Spec, TerminalIsFinal

-----------------------------------------------------------------------------
(* No stop is put behind an active setup.                                  *)

Clean(r) == NoStopUpTo(r.cursor, r.checked)

\* The strengthening: not only the row and the saved progress but every copy a task
\* may still write back, and every request that may still be answered, start
\* before the first stop.
AllClean ==
  raises = 0 /\ Active(row) =>
    /\ NoStopUpTo(saved, FALSE) /\ Clean(row)
    /\ \A t \in Tasks : Holds(t) => Clean(copy[t])
    /\ fetch # NoFetch => NoStopUpTo(fetch.from, FALSE)

LEMMA CleanInit == Init => AllClean
  BY DEF Init, AllClean, NoStopUpTo, Clean, now, Holds

\* A further trade lies ahead of every cursor.
LEMMA TradeAhead ==
  ASSUME path \in Seq(Prices), NEW p \in Prices, path' = Append(path, p),
         NEW t \in 0..now, NEW included \in BOOLEAN, NoStopUpTo(t, included)
  PROVE  \A u \in 1..now' : path'[u] = "stop" => t < u \/ (t = u /\ ~included)
<1>1. now \in Nat /\ now' = now + 1
  BY DEF now
<1>2. \A u \in 1..now : path'[u] = path[u]
  BY DEF now
<1> SUFFICES ASSUME NEW u \in 1..now', path'[u] = "stop"
             PROVE  t < u \/ (t = u /\ ~included)
  OBVIOUS
<1>3. CASE u \in 1..now
  BY <1>2, <1>3 DEF NoStopUpTo
<1>4. CASE u = now + 1
  BY <1>1, <1>4
<1> QED
  BY <1>1, <1>3, <1>4

\* Saves write back a clean cursor when both the row's and the copy's are.
LEMMA SaveMergedClean ==
  ASSUME Active(row), row \in Rows, Clean(row), NEW r \in Rows, Clean(r), SaveMerged(r), path' = path
  PROVE  Clean(row)'
<1>1. (row'.cursor = r.cursor /\ row'.checked = r.checked)
      \/ /\ row'.cursor = row.cursor
         /\ row'.checked = row.checked \/ row'.checked = (r.checked /\ r.cursor = row.cursor)
  <2>1. CASE Save(r)
    BY <2>1 DEF Save, Rows
  <2>2. ASSUME NEW checked \in {row.checked, r.checked /\ r.cursor = row.cursor},
               NEW unwalked \in {row.unwalked, r.unwalked},
               Save([r EXCEPT !.cursor = row.cursor, !.checked = checked, !.unwalked = unwalked])
        PROVE row'.cursor = row.cursor /\ row'.checked = checked
    BY <2>2 DEF Save, Rows
  <2> QED
    BY <2>1, <2>2 DEF SaveMerged
<1>2. CASE row'.cursor = r.cursor /\ row'.checked = r.checked
  BY <1>2 DEF Clean, NoStopUpTo, now
<1>3. CASE row'.cursor = row.cursor /\ row'.checked = row.checked
  BY <1>3 DEF Clean, NoStopUpTo, now
<1>4. CASE row'.cursor = row.cursor /\ row'.checked = (r.checked /\ r.cursor = row.cursor)
  BY <1>4 DEF Clean, NoStopUpTo, now
<1> QED
  BY <1>1, <1>2, <1>3, <1>4

\* advance_trades: a walk that leaves the setup open met no stop.
LEMMA WalkClean ==
  ASSUME Typed, NEW r \in Rows, Clean(r), NEW to \in 0..Horizon, WalksTo(r, to),
         Active(Walk(r, to)), ~Gap(r)
  PROVE  Clean(Walk(r, to))
<1>1. CASE Unseen(r) = {}
  BY <1>1 DEF Walk
<1>2. CASE Unseen(r) # {}
  <2>1. Walk(r, to).cursor = to /\ Walk(r, to).checked = TRUE
    BY <1>2 DEF Walk
  <2>2. Ending(r) = {}
    <3>1. SUFFICES ASSUME Ending(r) # {} PROVE FALSE
      OBVIOUS
    <3>2. to \in Ending(r)
      BY <3>1, <1>2 DEF WalksTo, First
    <3>3. Walk(r, to).state \in {"INVALIDATED", "RESOLVED"}
      BY <1>2, <3>2 DEF Walk
    <3> QED
      BY <3>3 DEF Active
  <2>3. Last(Unseen(r), to)
    BY <1>2, <2>2 DEF WalksTo
  <2>4. ASSUME NEW u \in 1..now, path[u] = "stop" PROVE to < u
    <3>1. r.cursor < u \/ (r.cursor = u /\ ~r.checked)
      BY <2>4 DEF Clean, NoStopUpTo
    <3>2. SUFFICES ASSUME u <= to PROVE FALSE
      BY Basics
    <3>3. u \in Unseen(r)
      BY <3>1, <3>2, <2>3, Basics, LifecycleAssumption
         DEF Gap, Unseen, Last, Rows, Deadline, Typed, TypeOK
    <3> QED
      BY <3>3, <2>2, <2>4 DEF Ending
  <2> QED
    BY <2>1, <2>4 DEF Clean, NoStopUpTo
<1> QED
  BY <1>1, <1>2

\* Arithmetic of candles: an instant before the end of a candle lies in a candle
\* that ends no later.
LEMMA CandleOf ==
  ASSUME NEW b \in Nat \ {0}, NEW u \in Nat, NEW to \in Nat, to % b = 0, u < to
  PROVE  \E e \in Nat : e % b = 0 /\ u < e /\ e - b <= u /\ e <= to
<1> DEFINE q == u \div b
           e == (q + 1) * b
<1>1. q \in Nat /\ u = (q * b) + (u % b) /\ u % b \in 0..(b - 1)
  OBVIOUS
<1>2. to = (to \div b) * b /\ to \div b \in Nat
  OBVIOUS
<1>3. e \in Nat /\ u < e /\ e - b <= u
  BY <1>1
<1>4. e % b = 0
  BY <1>1
<1>5. q < to \div b
  BY <1>1, <1>2
<1>6. e <= to
  BY <1>1, <1>2, <1>5
<1> QED
  BY <1>3, <1>4, <1>6

\* advance: a stop that lies ahead of the cursor and before the end of a candle it goes
\* through is in a candle that ends no later, and closes the setup.
LEMMA StopInBars ==
  ASSUME Typed, Asking, NEW bars \in 0..AllBars, NEW to \in BarsSeen(copy["reconcile"], bars),
         NoStopUpTo(fetch.from, FALSE), NEW u \in 1..now, path[u] = "stop", u < to
  PROVE  \E e \in BarsEnding(copy["reconcile"], bars) : e <= to /\ InBar(e, "stop")
<1> DEFINE r == copy["reconcile"]
           limit == BarLimit(r)
           reach == BarStart(fetch.from) + bars * BarLen
<1>1. fetch.from \in Nat /\ limit \in Nat /\ reach \in Nat /\ BarLen \in Nat \ {0}
  <2>1. fetch.from \in Nat /\ fetch.until \in Nat
    BY Basics DEF Typed, TypeOK, Asking
  <2>2. BarLen \in Nat \ {0} /\ Deadline(r) \in Nat
    BY LifecycleAssumption DEF Deadline
  <2>3. limit \in Nat
    BY <2>1, <2>2 DEF BarLimit
  <2>4. BarStart(fetch.from) \in Nat
    BY <2>1, <2>2 DEF BarStart
  <2>5. bars * BarLen \in Nat
    BY <2>2 DEF AllBars
  <2>6. reach \in Nat
    BY <2>4, <2>5
  <2> QED
    BY <2>1, <2>2, <2>3, <2>6
<1>2. to \in (fetch.from + 1)..limit /\ to % BarLen = 0 /\ to <= reach
  BY DEF BarsSeen
<1>3. fetch.from <= u
  BY <1>1 DEF NoStopUpTo
<1> HIDE DEF limit, reach
<1>4. PICK e \in Nat : e % BarLen = 0 /\ u < e /\ e - BarLen <= u /\ e <= to
  <2>1. u \in Nat /\ to \in Nat
    BY <1>1, <1>2
  <2> QED
    BY <2>1, <1>1, <1>2, CandleOf
<1>5. e \in (fetch.from + 1)..limit /\ e <= reach
  BY <1>1, <1>2, <1>3, <1>4
<1>6. e \in BarsSeen(r, bars)
  BY <1>4, <1>5 DEF BarsSeen, limit, reach
<1>7. InBar(e, "stop")
  BY <1>4 DEF InBar
<1> QED
  BY <1>4, <1>6, <1>7 DEF BarsEnding

\* advance: candles that leave the setup open held no stop.
LEMMA BarsClean ==
  ASSUME Typed, Asking, NEW bars \in 0..AllBars, NEW to \in 0..Horizon,
         BarsReach(copy["reconcile"], bars, to), NoStopUpTo(fetch.from, FALSE),
         BarsState(copy["reconcile"], bars, to) \notin Terminal
  PROVE  NoStopUpTo(to, FALSE)
<1> DEFINE r == copy["reconcile"]
<1>1. to \notin BarsEnding(r, bars)
  BY DEF BarsState, Terminal
<1>2. CASE BarsSeen(r, bars) = {}
  BY <1>2 DEF BarsReach
<1>3. CASE BarsSeen(r, bars) # {}
  <2>1. BarsEnding(r, bars) = {} /\ to \in BarsSeen(r, bars)
    BY <1>1, <1>3 DEF BarsReach, First, Last
  <2>2. ASSUME NEW u \in 1..now, path[u] = "stop", u < to PROVE FALSE
    BY <2>1, <2>2, StopInBars
  <2> QED
    BY <2>2, Basics, LifecycleAssumption DEF NoStopUpTo
<1> QED
  BY <1>2, <1>3

\* What the copies hold stays clean when a task drops its copy or loads a clean one.
LEMMA CopiesDropped ==
  ASSUME Typed, NEW t \in Tasks, Drop(t), path' = path, \A u \in Tasks : Holds(u) => Clean(copy[u])
  PROVE  \A u \in Tasks : (Holds(u))' => (Clean(copy[u]))'
<1>1. \A u \in Tasks : copy'[u] = IF u = t THEN NoRow ELSE copy[u]
  BY DEF Drop, Typed, Held
<1> QED
  BY <1>1 DEF Holds, Clean, NoStopUpTo, now

LEMMA CopiesLoaded ==
  ASSUME Typed, NEW t \in Tasks, NEW r, Load(t, r), Clean(r), path' = path,
         \A u \in Tasks : Holds(u) => Clean(copy[u])
  PROVE  \A u \in Tasks : (Holds(u))' => (Clean(copy[u]))'
<1>1. \A u \in Tasks : copy'[u] = IF u = t THEN r ELSE copy[u]
  BY DEF Load, Typed, Held
<1> QED
  BY <1>1 DEF Holds, Clean, NoStopUpTo, now

LEMMA CleanMarket ==
  ASSUME Typed, AllClean, Market PROVE AllClean'
<1> SUFFICES ASSUME raises = 0, Active(row)
             PROVE  AllClean'
  BY DEF Market, Trade, FeedLost, FeedReset, AllClean, faults, desk
<1>1. UNCHANGED <<desk, tasks, faults>>
  BY DEF Market, Trade, FeedLost, FeedReset
<1>2. CASE path' = path
  BY <1>1, <1>2 DEF AllClean, Clean, NoStopUpTo, Holds, Active, now, desk, tasks, faults
<1>3. ASSUME NEW p \in Prices, Trade(p) PROVE AllClean'
  <2>1. path \in Seq(Prices) /\ path' = Append(path, p)
    BY <1>3 DEF Trade, Typed, TypeOK
  <2>2. ASSUME NEW t \in 0..now, NEW included \in BOOLEAN, NoStopUpTo(t, included)
        PROVE  \A u \in 1..now' : path'[u] = "stop" => t < u \/ (t = u /\ ~included)
    BY <2>1, <2>2, TradeAhead
  <2>3. (NoStopUpTo(saved, FALSE))'
    BY <2>2, <1>1 DEF AllClean, NoStopUpTo, Typed, TypeOK, desk
  <2>4. (Clean(row))'
    <3>1. row.cursor \in 0..now /\ row.checked \in BOOLEAN
      <4>1. row.cursor <= now
        BY DEF Typed, TypeOK
      <4> QED
        BY <4>1, Basics DEF Rows
    <3> QED
      BY <3>1, <2>2, <1>1 DEF AllClean, Clean, NoStopUpTo, desk
  <2>5. ASSUME NEW t \in Tasks, (Holds(t))' PROVE (Clean(copy[t]))'
    <3>1. Holds(t) /\ copy' = copy
      BY <2>5, <1>1 DEF Holds, tasks
    <3>2. copy[t].cursor \in 0..now /\ copy[t].checked \in BOOLEAN
      BY <3>1, CopyHeld, Basics DEF Rows
    <3>3. NoStopUpTo(copy[t].cursor, copy[t].checked)
      BY <3>1 DEF AllClean, Clean
    <3> QED
      BY <3>1, <3>2, <3>3, <2>2 DEF Clean, NoStopUpTo
  <2>6. (fetch # NoFetch => NoStopUpTo(fetch.from, FALSE))'
    BY <2>2, <1>1 DEF AllClean, NoStopUpTo, Typed, TypeOK, tasks
  <2> QED
    BY <2>3, <2>4, <2>5, <2>6 DEF AllClean
<1> QED
  BY <1>2, <1>3 DEF Market, FeedLost, FeedReset

LEMMA CleanTick ==
  ASSUME Typed, AllClean, Tick, Active(row)' PROVE AllClean'
<1>1. UNCHANGED <<path, saved, delivered, fetch, raises>>
  BY DEF Tick, TickLoad, TickPaused, TickWalked, venue, desk, faults
<1> SUFFICES ASSUME raises = 0
             PROVE  AllClean'
  BY <1>1 DEF AllClean
<1>2. Active(row)
  BY ClosedStep DEF Next
<1>3. /\ NoStopUpTo(saved, FALSE) /\ Clean(row)
      /\ \A t \in Tasks : Holds(t) => Clean(copy[t])
      /\ fetch # NoFetch => NoStopUpTo(fetch.from, FALSE)
  BY <1>2 DEF AllClean
<1>4. (NoStopUpTo(saved, FALSE))' /\ (fetch # NoFetch => NoStopUpTo(fetch.from, FALSE))'
  BY <1>1, <1>3 DEF NoStopUpTo, now
<1>5. CASE TickLoad
  <2>1. row' = row
    BY <1>5 DEF TickLoad, desk
  <2>2. Clean([row EXCEPT !.unwalked = FALSE])
    BY <1>3, Basics DEF Clean, Rows
  <2>3. \A t \in Tasks : (Holds(t))' => (Clean(copy[t]))'
    BY <1>1, <1>3, <1>5, <2>2, CopiesLoaded DEF TickLoad, Tasks
  <2> QED
    BY <1>1, <1>3, <1>4, <2>1, <2>3 DEF AllClean, Clean, NoStopUpTo, now
<1>6. CASE TickPaused
  <2>1. row' = row \/ row' = copy["tick"]
    BY <1>6 DEF TickPaused, Monitor
  <2>2. (Clean(row))'
    BY <1>1, <1>3, <1>6, <2>1 DEF TickPaused, Tasks, Clean, NoStopUpTo, now
  <2>3. \A t \in Tasks : (Holds(t))' => (Clean(copy[t]))'
    BY <1>1, <1>3, <1>6, CopiesDropped DEF TickPaused, Tasks
  <2> QED
    BY <1>4, <2>2, <2>3 DEF AllClean
<1>7. ASSUME NEW to \in 0..Horizon, TickWalked(to) PROVE AllClean'
  <2> DEFINE r == copy["tick"]
             next == Expire(IF TapeFresh(tickAt) THEN Walk(r, to) ELSE r)
  <2>1. r \in Rows /\ Clean(r) /\ Active(r)
    BY <1>3, <1>7, CopyHeld DEF TickWalked, Tasks, Typed, Held
  <2>2. ASSUME Active(next) PROVE (Clean(row))'
    <3>1. next = IF TapeFresh(tickAt) THEN Walk(r, to) ELSE r
      BY <2>2 DEF Expire, Active
    <3>2. Clean(next)
      BY <1>7, <2>1, <2>2, <3>1, WalkClean DEF TickWalked
    <3>3. row' = next \/ row' = row
      BY <1>7, <2>2 DEF TickWalked, Monitor
    <3> HIDE DEF next
    <3> QED
      BY <1>1, <1>3, <3>2, <3>3 DEF Clean, NoStopUpTo, now
  <2>3. ASSUME ~Active(next) PROVE FALSE
    <3>1. Save(next)
      BY <1>7, <2>3 DEF TickWalked
    <3>2. row'.state = next.state
      BY <3>1, <1>2 DEF Save
    <3> QED
      BY <2>3, <3>2 DEF Active
  <2>4. (Clean(row))'
    BY <2>2, <2>3
  <2>5. \A t \in Tasks : (Holds(t))' => (Clean(copy[t]))'
    BY <1>1, <1>3, <1>7, CopiesDropped DEF TickWalked, Tasks
  <2> QED
    BY <1>4, <2>4, <2>5 DEF AllClean
<1> QED
  BY <1>5, <1>6, <1>7 DEF Tick

LEMMA CleanReconcile ==
  ASSUME Typed, AllClean, Reconcile, Active(row)' PROVE AllClean'
<1>1. UNCHANGED <<path, raises>>
  BY DEF Reconcile, ReconcileLoad, ReconcileSkip, ReconcileLive, ReconcileAsk, ReconcileFailed,
         ReconcileAnswered, venue, faults
<1> SUFFICES ASSUME raises = 0
             PROVE  AllClean'
  BY <1>1 DEF AllClean
<1>2. Active(row)
  BY ClosedStep DEF Next
<1>3. /\ NoStopUpTo(saved, FALSE) /\ Clean(row)
      /\ \A t \in Tasks : Holds(t) => Clean(copy[t])
      /\ fetch # NoFetch => NoStopUpTo(fetch.from, FALSE)
  BY <1>2 DEF AllClean
<1> DEFINE r == copy["reconcile"]
<1>4. Holds("reconcile") => r \in Rows /\ Clean(r) /\ Active(r)
  BY <1>3, CopyHeld DEF Tasks, Typed, Held
<1>5. Holds("reconcile") => NoStopUpTo(ReconcileCursor, FALSE)
  BY <1>3, <1>4 DEF ReconcileCursor, Clean, NoStopUpTo
<1>6. Drop("reconcile") => \A t \in Tasks : (Holds(t))' => (Clean(copy[t]))'
  BY <1>1, <1>3, CopiesDropped DEF Tasks
<1>7. CASE ReconcileLoad
  <2>1. \A t \in Tasks : (Holds(t))' => (Clean(copy[t]))'
    BY <1>1, <1>3, <1>7, CopiesLoaded DEF ReconcileLoad, Tasks
  <2> QED
    BY <1>1, <1>3, <1>7, <2>1 DEF ReconcileLoad, desk, AllClean, Clean, NoStopUpTo, now
<1>8. CASE ReconcileSkip
  BY <1>1, <1>3, <1>6, <1>8 DEF ReconcileSkip, desk, AllClean, Clean, NoStopUpTo, now
<1>9. CASE ReconcileLive
  <2> DEFINE to == ReconcileCursor
             back == [r EXCEPT !.cursor = to, !.checked = FALSE, !.unwalked = TRUE]
  <2>1. r \in Rows /\ NoStopUpTo(to, FALSE) /\ Save(back) /\ saved' = to /\ fetch' = fetch
    BY <1>4, <1>5, <1>9 DEF ReconcileLive, Turn
  <2> HIDE DEF to
  <2>2. row'.cursor = to /\ row'.checked = FALSE
    BY <1>2, <2>1 DEF Save, Rows
  <2>3. (Clean(row))' /\ (NoStopUpTo(saved, FALSE))'
    BY <1>1, <2>1, <2>2 DEF Clean, NoStopUpTo, now
  <2>4. (fetch # NoFetch => NoStopUpTo(fetch.from, FALSE))'
    BY <1>1, <1>3, <2>1 DEF NoStopUpTo, now
  <2> QED
    BY <1>6, <1>9, <2>3, <2>4 DEF ReconcileLive, AllClean
<1>10. CASE ReconcileAsk
  <2>1. UNCHANGED <<row, saved, copy>> /\ fetch'.from = ReconcileCursor
    BY <1>10 DEF ReconcileAsk, desk
  <2>2. (fetch # NoFetch => NoStopUpTo(fetch.from, FALSE))'
    BY <1>1, <1>5, <1>10, <2>1 DEF ReconcileAsk, Turn, NoStopUpTo, now
  <2> QED
    BY <1>1, <1>3, <2>1, <2>2 DEF AllClean, Clean, NoStopUpTo, Holds, now
<1>11. ASSUME NEW bars \in 0..AllBars, NEW to \in 0..Horizon, ReconcileAnswered(bars, to)
       PROVE  AllClean'
  <2> DEFINE state == BarsState(r, bars, to)
             entered == EnteredBefore(r, bars, to + 1)
             unclear == Ambiguous(r, bars, to)
             back == [r EXCEPT !.state = state, !.entered = entered, !.unclear = unclear]
  <2>1. r \in Rows /\ Clean(r) /\ SaveMerged(back) /\ saved' = to /\ fetch' = NoFetch
    BY <1>4, <1>11 DEF ReconcileAnswered, Asking
  <2>2. state \in States /\ entered \in BOOLEAN /\ unclear \in BOOLEAN
    BY <1>11, BarsTyped DEF ReconcileAnswered
  <2>3. back \in Rows /\ Clean(back) /\ back.state = state
    <3> HIDE DEF state, entered, unclear
    <3> QED
      BY <2>1, <2>2 DEF Rows, Clean
  <2>4. (Clean(row))'
    <3> HIDE DEF back
    <3> QED
      BY <1>1, <1>2, <1>3, <2>1, <2>3, Basics, SaveMergedClean
  <2>5. row'.state = state
    <3> HIDE DEF back
    <3>1. CASE Save(back)
      BY <1>2, <2>3, <3>1 DEF Save, Rows
    <3>2. ASSUME NEW checked \in {row.checked, back.checked /\ back.cursor = row.cursor},
                 NEW unwalked \in {row.unwalked, back.unwalked},
                 Save([back EXCEPT !.cursor = row.cursor, !.checked = checked,
                                   !.unwalked = unwalked])
          PROVE  row'.state = state
      BY <1>2, <2>3, <3>2 DEF Save, Rows
    <3> QED
      BY <2>1, <3>1, <3>2 DEF SaveMerged
  <2>6. NoStopUpTo(to, FALSE)
    <3>1. state \notin Terminal
      BY <2>5 DEF Active, Terminal
    <3>2. Asking /\ BarsReach(r, bars, to) /\ NoStopUpTo(fetch.from, FALSE)
      BY <1>3, <1>11 DEF ReconcileAnswered, Asking
    <3> QED
      BY <3>1, <3>2, BarsClean
  <2>7. (NoStopUpTo(saved, FALSE))'
    BY <1>1, <2>1, <2>6 DEF NoStopUpTo, now
  <2> QED
    BY <1>6, <1>11, <2>1, <2>4, <2>7 DEF ReconcileAnswered, AllClean, NoFetch
<1>12. CASE ReconcileFailed
  <2>1. r \in Rows /\ Clean(r) /\ SaveMerged(r) /\ saved' = fetch.from /\ fetch' = NoFetch
        /\ NoStopUpTo(fetch.from, FALSE)
    BY <1>3, <1>4, <1>12 DEF ReconcileFailed, Asking
  <2>2. (Clean(row))'
    BY <1>1, <1>2, <1>3, <2>1, Basics, SaveMergedClean
  <2>3. (NoStopUpTo(saved, FALSE))'
    BY <1>1, <2>1 DEF NoStopUpTo, now
  <2> QED
    BY <1>6, <1>12, <2>1, <2>2, <2>3 DEF ReconcileFailed, AllClean, NoFetch
<1> QED
  BY <1>7, <1>8, <1>9, <1>10, <1>11, <1>12 DEF Reconcile

\* A task that writes back a clean copy.
LEMMA CleanWrittenBack ==
  ASSUME Typed, AllClean, raises = 0, Active(row), NEW t \in Tasks, Holds(t),
         NEW r \in Rows, r.cursor = copy[t].cursor, r.checked = copy[t].checked, SaveMerged(r),
         Drop(t), UNCHANGED <<path, saved, fetch>>
  PROVE  AllClean'
<1>1. /\ NoStopUpTo(saved, FALSE) /\ Clean(row)
      /\ \A u \in Tasks : Holds(u) => Clean(copy[u])
      /\ fetch # NoFetch => NoStopUpTo(fetch.from, FALSE)
  BY DEF AllClean
<1>2. Clean(r)
  BY <1>1 DEF Clean
<1>3. (Clean(row))'
  BY <1>1, <1>2, Basics, SaveMergedClean
<1>4. \A u \in Tasks : (Holds(u))' => (Clean(copy[u]))'
  BY <1>1, CopiesDropped
<1>5. (NoStopUpTo(saved, FALSE))' /\ (fetch # NoFetch => NoStopUpTo(fetch.from, FALSE))'
  BY <1>1 DEF NoStopUpTo, now
<1> QED
  BY <1>3, <1>4, <1>5 DEF AllClean

LEMMA CleanHealth ==
  ASSUME Typed, AllClean, Health, Active(row)' PROVE AllClean'
<1>1. UNCHANGED <<path, saved, fetch, raises>>
  BY DEF Health, HealthLoad, HealthSkip, HealthBegin, HealthSaved, venue, desk, faults
<1> SUFFICES ASSUME raises = 0
             PROVE  AllClean'
  BY <1>1 DEF AllClean
<1>2. Active(row)
  BY ClosedStep DEF Next
<1>3. Clean(row) /\ \A t \in Tasks : Holds(t) => Clean(copy[t])
  BY <1>2 DEF AllClean
<1>4. ASSUME row' = row, \A t \in Tasks : (Holds(t))' => (Clean(copy[t]))' PROVE AllClean'
  BY <1>1, <1>2, <1>4 DEF AllClean, Clean, NoStopUpTo, now
<1>5. CASE HealthLoad
  <2>1. \A t \in Tasks : (Holds(t))' => (Clean(copy[t]))'
    BY <1>1, <1>3, <1>5, CopiesLoaded DEF HealthLoad, Tasks
  <2> QED
    BY <1>4, <1>5, <2>1 DEF HealthLoad, desk
<1>6. CASE HealthSkip
  <2>1. \A t \in Tasks : (Holds(t))' => (Clean(copy[t]))'
    BY <1>1, <1>3, <1>6, CopiesDropped DEF HealthSkip, Tasks
  <2> QED
    BY <1>4, <1>6, <2>1 DEF HealthSkip, desk
<1>7. CASE HealthBegin
  <2> DEFINE r == [copy["health"] EXCEPT !.state = "EXPIRED"]
  <2>1. Holds("health") /\ copy["health"] \in Rows /\ Clean(copy["health"])
    BY <1>3, <1>7, CopyHeld DEF HealthBegin, Begin, Tasks
  <2>2. Clean(r)
    BY <2>1 DEF Rows, Clean
  <2>3. copy' = copy \/ copy' = [copy EXCEPT !["health"] = r]
    BY <1>7 DEF HealthBegin
  <2> HIDE DEF r
  <2>4. \A t \in Tasks : copy'[t] = copy[t] \/ (t = "health" /\ copy'[t] = r)
    BY <2>3 DEF Typed, Held
  <2>5. \A t \in Tasks : (Holds(t))' => (Clean(copy[t]))'
    BY <1>1, <1>3, <2>2, <2>4 DEF Holds, Clean, NoStopUpTo, now
  <2> QED
    BY <1>4, <1>7, <2>5 DEF HealthBegin, desk
<1>8. ASSUME NEW state \in States, HealthSaved(state) PROVE AllClean'
  <2>1. "health" \in Tasks /\ Holds("health") /\ copy["health"] \in Rows
    BY <1>8, CopyHeld DEF HealthSaved, Tasks, Typed, TypeOK
  <2> DEFINE r == [copy["health"] EXCEPT !.state = state]
  <2>2. r \in Rows /\ r.cursor = copy["health"].cursor /\ r.checked = copy["health"].checked
    BY <2>1 DEF Rows
  <2>3. SaveMerged(r) /\ Drop("health")
    BY <1>8 DEF HealthSaved
  <2> HIDE DEF r
  <2> QED
    BY <1>1, <1>2, <2>1, <2>2, <2>3, CleanWrittenBack
<1> QED
  BY <1>5, <1>6, <1>7, <1>8 DEF Health

LEMMA CleanEvaluate ==
  ASSUME Typed, AllClean, Evaluate, Active(row)' PROVE AllClean'
<1>1. UNCHANGED <<path, saved, fetch, raises>>
  BY DEF Evaluate, EvaluateLoad, EvaluateSnapshot, EvaluateSent, EvaluateNotSent,
         EvaluateExpired, EvaluateDeferred, EvaluateBegin, venue, desk, tasks, faults
<1> SUFFICES ASSUME raises = 0
             PROVE  AllClean'
  BY <1>1 DEF AllClean
<1>2. Active(row)
  BY ClosedStep DEF Next
<1>3. Clean(row) /\ \A t \in Tasks : Holds(t) => Clean(copy[t])
  BY <1>2 DEF AllClean
<1>4. ASSUME (Clean(row))', \A t \in Tasks : (Holds(t))' => (Clean(copy[t]))' PROVE AllClean'
  BY <1>1, <1>2, <1>4 DEF AllClean, NoStopUpTo, now
<1>5. row' = row => (Clean(row))'
  BY <1>1, <1>3 DEF Clean, NoStopUpTo, now
<1>6. CASE EvaluateLoad
  <2>1. \A t \in Tasks : (Holds(t))' => (Clean(copy[t]))'
    BY <1>1, <1>3, <1>6, CopiesLoaded DEF EvaluateLoad, Tasks
  <2> QED
    BY <1>4, <1>5, <1>6, <2>1 DEF EvaluateLoad, desk
<1>7. CASE EvaluateSnapshot
  <2>1. copy' = copy /\ (row' = row \/ row' = copy["evaluate"]) /\ Clean(copy["evaluate"])
    BY <1>3, <1>7 DEF EvaluateSnapshot, Monitor, tasks, Tasks, Typed, TypeOK
  <2> QED
    BY <1>1, <1>3, <1>4, <2>1 DEF Clean, NoStopUpTo, Holds, now
<1>8. ASSUME NEW state \in States, Holds("evaluate"), Drop("evaluate"),
             SaveMerged([copy["evaluate"] EXCEPT !.state = state])
      PROVE  AllClean'
  <2>1. "evaluate" \in Tasks /\ copy["evaluate"] \in Rows
    BY <1>8, CopyHeld DEF Tasks
  <2> DEFINE r == [copy["evaluate"] EXCEPT !.state = state]
  <2>2. r \in Rows /\ r.cursor = copy["evaluate"].cursor /\ r.checked = copy["evaluate"].checked
    BY <2>1 DEF Rows
  <2>3. SaveMerged(r)
    BY <1>8
  <2> HIDE DEF r
  <2> QED
    BY <1>1, <1>2, <1>8, <2>1, <2>2, <2>3, CleanWrittenBack
<1>9. CASE EvaluateSent
  BY <1>8, <1>9 DEF EvaluateSent, Typed, TypeOK, States
<1>10. CASE EvaluateDeferred
  <2>1. Holds("evaluate") /\ copy["evaluate"] \in Rows
    BY <1>10, CopyHeld DEF EvaluateDeferred, EvaluateTurn, Tasks
  <2>2. copy["evaluate"].state \in States
        /\ copy["evaluate"] = [copy["evaluate"] EXCEPT !.state = copy["evaluate"].state]
    BY <2>1 DEF Rows
  <2> QED
    BY <1>8, <1>10, <2>1, <2>2 DEF EvaluateDeferred
<1>11. CASE EvaluateExpired
  <2>1. "EXPIRED" \in States
    BY DEF States, Terminal
  <2> QED
    BY <1>8, <1>11, <2>1 DEF EvaluateExpired, EvaluateTurn
<1>12. CASE EvaluateBegin
  BY <1>1, <1>3, <1>4, <1>5, <1>12 DEF EvaluateBegin, desk, Clean, NoStopUpTo, Holds, now
<1>13. CASE EvaluateNotSent
  <2>1. \A t \in Tasks : (Holds(t))' => (Clean(copy[t]))'
    BY <1>1, <1>3, <1>13, CopiesDropped DEF EvaluateNotSent, Tasks
  <2> QED
    BY <1>4, <1>5, <1>13, <2>1 DEF EvaluateNotSent, desk
<1> QED
  BY <1>6, <1>7, <1>9, <1>10, <1>11, <1>12, <1>13 DEF Evaluate

LEMMA CleanRestart ==
  ASSUME Typed, AllClean, Restart PROVE AllClean'
<1>1. UNCHANGED <<path, saved, raises>> /\ fetch' = NoFetch
  BY DEF Restart
<1>2. \A t \in Tasks : ~(Holds(t))'
  BY DEF Restart, Holds
<1>3. row'.state = row.state /\ row'.cursor = row.cursor /\ row'.checked = row.checked
  BY Basics DEF Restart, Rows
<1> QED
  BY <1>1, <1>2, <1>3 DEF AllClean, Active, Clean, NoStopUpTo, now

LEMMA CleanStep == ASSUME Typed, AllClean, [Next]_vars PROVE AllClean'
<1>1. CASE UNCHANGED vars
  BY <1>1 DEF AllClean, Clean, NoStopUpTo, Active, Holds, now, vars, venue, desk, tasks, faults
<1>2. ASSUME NEW bars \in 0..AllBars, NEW to \in 0..Horizon, ReconcileRaised(bars, to)
      PROVE  AllClean'
  <2>1. raises' # 0
    BY <1>2 DEF ReconcileRaised, Typed, TypeOK
  <2> QED
    BY <2>1 DEF AllClean
<1>3. CASE ~(Active(row))'
  BY <1>3 DEF AllClean
<1> QED
  BY <1>1, <1>2, <1>3, CleanMarket, CleanTick, CleanReconcile, CleanHealth, CleanEvaluate,
     CleanRestart DEF Next

\* Neither a task that writes back an old copy, nor a gap between tape and cursor, nor
\* candles with a hole ever put a stop behind an active setup, as long as every save
\* of a reconciliation reaches both records (advance_trades, advance, Store.signal).
THEOREM NoStopBehind == Spec => []NoMissedStop
<1>1. AllClean => NoMissedStop
  BY DEF AllClean, NoMissedStop, StopIsAhead, Clean
<1> QED
  BY <1>1, TypedAlways, CleanInit, CleanStep, PTL DEF Spec
-----------------------------------------------------------------------------
(* A closed outcome is what the path says.                                 *)

ZoneReached == Reached(now)
TargetTraded == \E t \in 1..now : path[t] = "target" /\ (raises = 0 => NoStopUpTo(t, TRUE))
StopTraded == \E t \in 1..now : path[t] = "stop"

EarnedRow(r) ==
  /\ r.entered => ZoneReached
  /\ r.state = "RESOLVED" => TargetTraded /\ ZoneReached
  /\ r.state = "INVALIDATED" => StopTraded

\* The strengthening: every copy a task may write back is as honest as the row.
AllEarned == EarnedRow(row) /\ \A t \in Tasks : Holds(t) => EarnedRow(copy[t])

LEMMA EarnedInit == Init => AllEarned
  BY DEF Init, AllEarned, EarnedRow, Holds

\* The trades so far stay what they are, and a further one lies after them.
LEMMA TradedStays ==
  ASSUME Typed, [Next]_vars
  PROVE  /\ ZoneReached => ZoneReached'
         /\ TargetTraded => TargetTraded'
         /\ StopTraded => StopTraded'
<1>1. raises \in Nat /\ (raises' = 0 => raises = 0)
  <2>1. raises \in Nat
    BY LifecycleAssumption DEF Typed, TypeOK
  <2>2. raises' = raises \/ raises' = raises + 1
    BY DEF Next, Market, Trade, FeedLost, FeedReset, Tick, TickLoad, TickPaused, TickWalked,
           Reconcile, ReconcileLoad, ReconcileSkip, ReconcileLive, ReconcileAsk,
           ReconcileFailed, ReconcileAnswered, ReconcileRaised, Health, HealthLoad, HealthSkip,
           HealthBegin, HealthSaved, Evaluate, EvaluateLoad, EvaluateSnapshot, EvaluateSent,
           EvaluateNotSent, EvaluateExpired, EvaluateDeferred, EvaluateBegin, Restart,
           vars, faults
  <2> QED
    BY <2>1, <2>2
<1>2. CASE path' = path
  BY <1>1, <1>2 DEF ZoneReached, Reached, TargetTraded, StopTraded, NoStopUpTo, now
<1>3. ASSUME NEW p \in Prices, Trade(p)
      PROVE  /\ ZoneReached => ZoneReached'
             /\ TargetTraded => TargetTraded'
             /\ StopTraded => StopTraded'
  <2>1. path \in Seq(Prices) /\ path' = Append(path, p)
    BY <1>3 DEF Trade, Typed, TypeOK
  <2>2. now \in Nat /\ now' = now + 1 /\ \A u \in 1..now : path'[u] = path[u]
    BY <2>1 DEF now
  <2>3. ASSUME NEW t \in 1..now, NoStopUpTo(t, TRUE)  PROVE (NoStopUpTo(t, TRUE))'
    <3>1. t \in 0..now /\ TRUE \in BOOLEAN
      BY <2>2
    <3>2. \A u \in 1..now' : path'[u] = "stop" => t < u \/ (t = u /\ ~TRUE)
      BY <2>1, <2>3, <3>1, TradeAhead
    <3> QED
      BY <3>2 DEF NoStopUpTo
  <2>4. \A t \in 1..now : t \in 1..now'
    BY <2>2
  <2>5. ZoneReached => ZoneReached'
    BY <2>2, <2>4 DEF ZoneReached, Reached
  <2> QED
    BY <1>1, <2>2, <2>3, <2>4, <2>5 DEF TargetTraded, StopTraded
<1>4. path' = path \/ \E p \in Prices : Trade(p)
  BY DEF Next, Market, Trade, FeedLost, FeedReset, Tick, TickLoad, TickPaused, TickWalked,
         Reconcile, ReconcileLoad, ReconcileSkip, ReconcileLive, ReconcileAsk,
         ReconcileFailed, ReconcileAnswered, ReconcileRaised, Health, HealthLoad, HealthSkip,
         HealthBegin, HealthSaved, Evaluate, EvaluateLoad, EvaluateSnapshot, EvaluateSent,
         EvaluateNotSent, EvaluateExpired, EvaluateDeferred, EvaluateBegin, Restart, vars, venue
<1> QED
  BY <1>2, <1>3, <1>4

\* advance_trades: the first trade that closes the setup has no stop before it.
LEMMA WalkEarned ==
  ASSUME Typed, NEW r \in Rows, EarnedRow(r), Active(r), raises = 0 => Clean(r), ~Gap(r),
         NEW to \in 0..Horizon, WalksTo(r, to)
  PROVE  EarnedRow(Walk(r, to))
<1>1. CASE Unseen(r) = {}
  BY <1>1 DEF Walk
<1>2. CASE Unseen(r) # {}
  <2> DEFINE w == Walk(r, to)
  <2>1. /\ w.entered = EnteredBy(r, to)
        /\ w.state = IF to \notin Ending(r) THEN r.state
                     ELSE IF path[to] = "stop" THEN "INVALIDATED" ELSE "RESOLVED"
    BY <1>2 DEF Walk
  <2>2. /\ now \in Nat /\ tape.to \in 0..now /\ tape.from \in Nat /\ r.cursor \in Nat
        /\ TriggerDeadline \in Nat /\ HoldDeadline \in Nat /\ BarLen \in Nat \ {0}
    BY Basics, LifecycleAssumption DEF Typed, TypeOK, Rows
  <2>3. \A u \in Unseen(r) : u \in 1..now
    BY <2>2 DEF Unseen
  <2>4. EnteredBy(r, to) => ZoneReached
    BY <2>2, <2>3 DEF EnteredBy, ZoneReached, Reached, EarnedRow
  <2>5. to \in Ending(r) => to \in 1..now /\ to \in Unseen(r)
    BY <2>3 DEF Ending
  <2>6. ASSUME to \in Ending(r), path[to] # "stop"  PROVE TargetTraded /\ ZoneReached
    <3>1. path[to] = "target" /\ EnteredBy(r, to)
      BY <2>6 DEF Ending
    <3>2. First(Ending(r), to)
      BY <1>2, <2>6 DEF WalksTo
    <3>3. ASSUME raises = 0, NEW u \in 1..now, path[u] = "stop", u <= to  PROVE FALSE
      <4>1. r.cursor < u \/ (r.cursor = u /\ ~r.checked)
        BY <3>3 DEF Clean, NoStopUpTo
      <4>2. to <= tape.to /\ to <= Deadline(r) /\ Deadline(r) \in Nat
        BY <2>2, <2>5, <2>6 DEF Unseen, Deadline
      <4>3. tape.from <= r.cursor
        BY <2>2 DEF Gap
      <4>4. u \in Unseen(r)
        BY <2>2, <3>3, <4>1, <4>2, <4>3 DEF Unseen
      <4>5. u \in Ending(r)
        BY <3>3, <4>4 DEF Ending
      <4> QED
        BY <2>5, <2>6, <3>1, <3>2, <3>3, <4>5 DEF First
    <3>4. raises = 0 => NoStopUpTo(to, TRUE)
      BY <2>2, <2>5, <2>6, <3>3 DEF NoStopUpTo
    <3> QED
      BY <2>4, <2>5, <2>6, <3>1, <3>4 DEF TargetTraded
  <2>7. to \in Ending(r) /\ path[to] = "stop" => StopTraded
    BY <2>5 DEF StopTraded
  <2> HIDE DEF w
  <2>8. EarnedRow(w)
    BY <2>1, <2>4, <2>6, <2>7 DEF EarnedRow, Active
  <2> QED
    BY <2>8 DEF w
<1> QED
  BY <1>1, <1>2

\* A candle whose range touches the zone holds trades that reach or cross it.
LEMMA OverlapReaches ==
  ASSUME BarLen \in Nat \ {0}, TriggerDeadline \in Nat,
         NEW e \in Nat, e - BarLen <= TriggerDeadline, Overlaps(e)
  PROVE  Reached(e - 1)
<1>1. PICK u \in 1..(e - 1) : e - BarLen <= u /\ path[u] \in Below \cup {"entry"}
  BY DEF Overlaps, InBar
<1>2. PICK v \in 1..(e - 1) : e - BarLen <= v /\ path[v] \in Above \cup {"entry"}
  BY DEF Overlaps, InBar
<1>3. /\ u < v + BarLen /\ v < u + BarLen
      /\ u < TriggerDeadline + BarLen /\ v < TriggerDeadline + BarLen
  BY <1>1, <1>2
<1> QED
  BY <1>1, <1>2, <1>3 DEF Reached

\* advance: the first candle that closes the setup has no stop before it or in it when
\* it resolves the setup.
LEMMA BarsEarned ==
  ASSUME Typed, Asking, NEW bars \in 0..AllBars, NEW to \in 0..Horizon,
         BarsReach(copy["reconcile"], bars, to), EarnedRow(copy["reconcile"]),
         raises = 0 => NoStopUpTo(fetch.from, FALSE)
  PROVE  /\ EnteredBefore(copy["reconcile"], bars, to + 1) => ZoneReached
         /\ BarsState(copy["reconcile"], bars, to) = "RESOLVED" => TargetTraded /\ ZoneReached
         /\ BarsState(copy["reconcile"], bars, to) = "INVALIDATED" => StopTraded
<1> DEFINE r == copy["reconcile"]
<1>1. /\ r \in Rows /\ Active(r) /\ now \in Nat /\ fetch.from \in Nat /\ fetch.until \in 0..now
      /\ TriggerDeadline \in Nat /\ HoldDeadline \in Nat /\ BarLen \in Nat \ {0}
  BY CopyHeld, Basics, LifecycleAssumption DEF Asking, Tasks, Typed, TypeOK, Held
<1>2. BarLimit(r) \in 0..now
  BY <1>1 DEF BarLimit, Deadline
<1>3. ASSUME NEW e \in BarsSeen(r, bars)
      PROVE  e \in 1..now /\ e % BarLen = 0 /\ \A u \in 1..(e - 1) : u \in 1..now
  BY <1>1, <1>2 DEF BarsSeen
<1>4. ASSUME NEW end, EnteredBefore(r, bars, end)  PROVE ZoneReached
  <2>1. CASE r.entered
    BY <2>1 DEF EarnedRow
  <2>2. ASSUME NEW e \in BarsSeen(r, bars), e - BarLen <= TriggerDeadline, Overlaps(e)
        PROVE  ZoneReached
    <3>1. e \in Nat /\ e - 1 \in Nat /\ e - 1 <= now /\ Reached(e - 1)
      BY <1>1, <1>3, <2>2, OverlapReaches
    <3> QED
      BY <1>1, <3>1 DEF ZoneReached, Reached
  <2> QED
    BY <1>4, <2>1, <2>2 DEF EnteredBefore
<1>5. ASSUME to \in BarsEnding(r, bars)
      PROVE  IF InBar(to, "stop") THEN StopTraded ELSE TargetTraded /\ ZoneReached
  <2>1. to \in BarsSeen(r, bars) /\ First(BarsEnding(r, bars), to)
    BY <1>5 DEF BarsReach, BarsEnding
  <2>2. CASE InBar(to, "stop")
    BY <1>3, <2>1, <2>2 DEF InBar, StopTraded
  <2>3. CASE ~InBar(to, "stop")
    <3>1. ZoneReached
      BY <1>4, <1>5, <2>3 DEF BarsEnding
    <3>2. PICK t \in 1..(to - 1) : to - BarLen <= t /\ path[t] = "target"
      BY <1>5, <2>3 DEF BarsEnding, InBar
    <3>3. t \in 1..now /\ t < to /\ to \in Nat
      BY <1>3, <2>1, <3>2
    <3>4. ASSUME raises = 0, NEW u \in 1..now, path[u] = "stop", u <= t  PROVE FALSE
      <4>1. u < to
        BY <1>1, <3>3, <3>4
      <4>2. PICK e \in BarsEnding(r, bars) : e <= to /\ InBar(e, "stop")
        BY <2>1, <3>4, <4>1, StopInBars
      <4>3. to <= e /\ e \in Nat
        BY <1>3, <2>1, <4>2 DEF First, BarsEnding
      <4> QED
        BY <2>3, <3>3, <4>2, <4>3
    <3>5. raises = 0 => NoStopUpTo(t, TRUE)
      BY <1>1, <3>3, <3>4 DEF NoStopUpTo
    <3> QED
      BY <2>3, <3>1, <3>2, <3>3, <3>5 DEF TargetTraded
  <2> QED
    BY <2>2, <2>3
<1>6. to \notin BarsEnding(r, bars) => BarsState(r, bars, to) \in {"EXPIRED", "CONFIRMED", "ALERTED"}
  BY <1>1 DEF BarsState, Active
<1> QED
  BY <1>4, <1>5, <1>6 DEF BarsState

\* Whatever is written back, the row is as honest as the row and the copy were.
LEMMA WrittenEarned ==
  ASSUME Typed, [Next]_vars, EarnedRow(row), NEW r \in Rows, EarnedRow(r),
         Save(r) \/ SaveMerged(r) \/ Monitor(r)
  PROVE  (EarnedRow(row))'
<1>1. row' = row \/ (row'.state = r.state /\ (row'.entered => r.entered \/ row.entered))
  <2>1. row \in Rows
    BY Basics
  <2>2. CASE Save(r)
    BY <2>1, <2>2 DEF Save, Rows
  <2>3. ASSUME NEW checked \in {row.checked, r.checked /\ r.cursor = row.cursor},
               NEW unwalked \in {row.unwalked, r.unwalked},
               Save([r EXCEPT !.cursor = row.cursor, !.checked = checked, !.unwalked = unwalked])
        PROVE  row' = row \/ (row'.state = r.state /\ (row'.entered => r.entered \/ row.entered))
    BY <2>1, <2>3 DEF Save, Rows
  <2>4. CASE Monitor(r)
    BY <2>4 DEF Monitor
  <2> QED
    BY <2>2, <2>3, <2>4 DEF SaveMerged
<1> QED
  BY <1>1, TradedStays DEF EarnedRow

LEMMA DroppedEarned ==
  ASSUME Typed, [Next]_vars, AllEarned, NEW t \in Tasks, Drop(t)
  PROVE  \A u \in Tasks : (Holds(u))' => (EarnedRow(copy[u]))'
<1>1. \A u \in Tasks : copy'[u] = IF u = t THEN NoRow ELSE copy[u]
  BY DEF Drop, Typed, Held
<1> QED
  BY <1>1, TradedStays DEF AllEarned, EarnedRow, Holds

LEMMA LoadedEarned ==
  ASSUME Typed, [Next]_vars, AllEarned, NEW t \in Tasks, NEW r, EarnedRow(r), Load(t, r)
  PROVE  \A u \in Tasks : (Holds(u))' => (EarnedRow(copy[u]))'
<1>1. \A u \in Tasks : copy'[u] = IF u = t THEN r ELSE copy[u]
  BY DEF Load, Typed, Held
<1> QED
  BY <1>1, TradedStays DEF AllEarned, EarnedRow, Holds

LEMMA KeptEarned ==
  ASSUME Typed, [Next]_vars, AllEarned
  PROVE  /\ row' = row => (EarnedRow(row))'
         /\ copy' = copy => \A u \in Tasks : (Holds(u))' => (EarnedRow(copy[u]))'
  BY TradedStays DEF AllEarned, EarnedRow, Holds

LEMMA EarnedTick ==
  ASSUME Typed, AllClean, AllEarned, Tick, [Next]_vars  PROVE AllEarned'
<1>1. CASE TickLoad
  <2>1. EarnedRow([row EXCEPT !.unwalked = FALSE])
    BY Basics DEF AllEarned, EarnedRow, Rows
  <2>2. row' = row
    BY <1>1 DEF TickLoad, desk
  <2> QED
    BY <1>1, <2>1, <2>2, LoadedEarned, KeptEarned DEF TickLoad, Tasks, AllEarned
<1>2. CASE TickPaused
  <2>1. copy["tick"] \in Rows /\ EarnedRow(copy["tick"]) /\ Monitor(copy["tick"]) /\ Drop("tick")
    BY <1>2, CopyHeld DEF TickPaused, Tasks, AllEarned
  <2> QED
    BY <2>1, WrittenEarned, DroppedEarned DEF Tasks, AllEarned
<1>3. ASSUME NEW to \in 0..Horizon, TickWalked(to)  PROVE AllEarned'
  <2> DEFINE r == copy["tick"]
             walked == IF TapeFresh(tickAt) THEN Walk(r, to) ELSE r
             next == Expire(walked)
  <2>1. r \in Rows /\ r.cursor <= now /\ EarnedRow(r) /\ Active(r) /\ ~Gap(r) /\ Drop("tick")
    BY <1>3, CopyHeld DEF TickWalked, Tasks, AllEarned, Typed, Held
  <2>2. CASE ~Active(row)
    BY <2>1, <2>2, ClosedStep, KeptEarned, DroppedEarned DEF Tasks, AllEarned
  <2>3. CASE Active(row)
    <3>1. raises = 0 => Clean(r)
      BY <1>3, <2>3 DEF AllClean, TickWalked, Tasks
    <3>2. EarnedRow(walked) /\ walked \in Rows
      <4>1. CASE ~TapeFresh(tickAt)
        BY <2>1, <4>1
      <4>2. CASE TapeFresh(tickAt)
        <5>1. WalksTo(r, to)
          BY <1>3, <4>2 DEF TickWalked
        <5>2. EarnedRow(Walk(r, to))
          BY <2>1, <3>1, <5>1, WalkEarned
        <5>3. Walk(r, to) \in Rows
          BY <2>1, LifecycleAssumption DEF Walk, EnteredBy, Rows, States, Terminal
        <5> QED
          BY <4>2, <5>2, <5>3
      <4> QED
        BY <4>1, <4>2
    <3> HIDE DEF walked
    <3>3. EarnedRow(next) /\ next \in Rows
      BY <3>2 DEF Expire, EarnedRow, Rows, States, Terminal
    <3>4. Monitor(next) \/ Save(next)
      BY <1>3 DEF TickWalked, walked
    <3> HIDE DEF next
    <3> QED
      BY <2>1, <3>3, <3>4, WrittenEarned, DroppedEarned DEF Tasks, AllEarned
  <2> QED
    BY <2>2, <2>3
<1> QED
  BY <1>1, <1>2, <1>3 DEF Tick

LEMMA EarnedReconcile ==
  ASSUME Typed, AllClean, AllEarned, Reconcile, [Next]_vars  PROVE AllEarned'
<1> DEFINE r == copy["reconcile"]
<1>1. Holds("reconcile") => r \in Rows /\ r.cursor <= now /\ EarnedRow(r)
  BY CopyHeld DEF Tasks, AllEarned
<1>2. Drop("reconcile") => \A u \in Tasks : (Holds(u))' => (EarnedRow(copy[u]))'
  BY DroppedEarned DEF Tasks
<1>3. CASE ReconcileLoad
  BY <1>3, LoadedEarned, KeptEarned DEF ReconcileLoad, desk, Tasks, AllEarned
<1>4. CASE ReconcileSkip
  BY <1>2, <1>4, KeptEarned DEF ReconcileSkip, desk, AllEarned
<1>5. CASE ReconcileLive
  <2> DEFINE back == [r EXCEPT !.cursor = ReconcileCursor, !.checked = FALSE, !.unwalked = TRUE]
  <2>1. r \in Rows /\ r.cursor <= now /\ EarnedRow(r) /\ Save(back) /\ Drop("reconcile")
    BY <1>1, <1>5 DEF ReconcileLive, Turn
  <2>2. ReconcileCursor \in 0..Horizon
    <3>1. saved \in 0..now /\ now \in Nat /\ now <= Horizon
      BY Basics DEF Typed, TypeOK
    <3>2. r.cursor \in 0..Horizon
      BY <2>1 DEF Rows
    <3> HIDE DEF r
    <3> QED
      BY <3>1, <3>2, LifecycleAssumption DEF ReconcileCursor, r
  <2>3. back \in Rows /\ EarnedRow(back)
    <3> HIDE DEF ReconcileCursor
    <3> QED
      BY <2>1, <2>2 DEF Rows, EarnedRow
  <2> HIDE DEF back
  <2> QED
    BY <1>2, <2>1, <2>3, WrittenEarned DEF AllEarned
<1>6. CASE ReconcileAsk
  BY <1>6, KeptEarned DEF ReconcileAsk, desk, AllEarned
<1>7. CASE ReconcileFailed
  BY <1>1, <1>2, <1>7, WrittenEarned DEF ReconcileFailed, Asking, AllEarned
<1>8. ASSUME NEW bars \in 0..AllBars, NEW to \in 0..Horizon, ReconcileAnswered(bars, to)
      PROVE  AllEarned'
  <2> DEFINE state == BarsState(r, bars, to)
             entered == EnteredBefore(r, bars, to + 1)
             unclear == Ambiguous(r, bars, to)
             back == [r EXCEPT !.state = state, !.entered = entered, !.unclear = unclear]
  <2>1. /\ Asking /\ BarsReach(r, bars, to) /\ SaveMerged(back) /\ Drop("reconcile")
        /\ r \in Rows /\ EarnedRow(r)
    BY <1>1, <1>8 DEF ReconcileAnswered, Asking
  <2>2. CASE ~Active(row)
    BY <1>2, <2>1, <2>2, ClosedStep, KeptEarned DEF AllEarned
  <2>3. CASE Active(row)
    <3>1. raises = 0 => NoStopUpTo(fetch.from, FALSE)
      BY <2>1, <2>3 DEF AllClean, Asking
    <3>2. state \in States /\ entered \in BOOLEAN /\ unclear \in BOOLEAN
      BY <2>1, BarsTyped
    <3>3. /\ entered => ZoneReached
          /\ state = "RESOLVED" => TargetTraded /\ ZoneReached
          /\ state = "INVALIDATED" => StopTraded
      BY <2>1, <3>1, BarsEarned
    <3> HIDE DEF state, entered, unclear
    <3>4. back \in Rows /\ EarnedRow(back)
      BY <2>1, <3>2, <3>3 DEF Rows, EarnedRow
    <3> HIDE DEF back
    <3> QED
      BY <1>2, <2>1, <3>4, WrittenEarned DEF AllEarned
  <2> QED
    BY <2>2, <2>3
<1> QED
  BY <1>3, <1>4, <1>5, <1>6, <1>7, <1>8 DEF Reconcile

\* A task that writes its copy back under a state that claims nothing of the path.
LEMMA BackEarned ==
  ASSUME Typed, AllEarned, [Next]_vars, NEW t \in Tasks, Holds(t), Drop(t),
         NEW state \in States, state \notin {"RESOLVED", "INVALIDATED"} \/ state = copy[t].state,
         SaveMerged([copy[t] EXCEPT !.state = state])
  PROVE  AllEarned'
<1> DEFINE r == [copy[t] EXCEPT !.state = state]
<1>1. copy[t] \in Rows /\ EarnedRow(copy[t])
  BY CopyHeld DEF AllEarned
<1>2. r \in Rows /\ EarnedRow(r)
  BY <1>1 DEF Rows, EarnedRow
<1>3. SaveMerged(r)
  OBVIOUS
<1> HIDE DEF r
<1> QED
  BY <1>2, <1>3, WrittenEarned, DroppedEarned DEF AllEarned

LEMMA EarnedHealth ==
  ASSUME Typed, AllEarned, Health, [Next]_vars  PROVE AllEarned'
<1>1. CASE HealthLoad
  BY <1>1, LoadedEarned, KeptEarned DEF HealthLoad, desk, Tasks, AllEarned
<1>2. CASE HealthSkip
  BY <1>2, DroppedEarned, KeptEarned DEF HealthSkip, desk, Tasks, AllEarned
<1>3. CASE HealthBegin
  <2> DEFINE r == [copy["health"] EXCEPT !.state = "EXPIRED"]
  <2>1. copy["health"] \in Rows /\ EarnedRow(copy["health"])
    BY <1>3, CopyHeld DEF HealthBegin, Begin, Tasks, AllEarned
  <2>2. EarnedRow(r)
    BY <2>1 DEF Rows, EarnedRow
  <2>3. row' = row /\ (copy' = copy \/ copy' = [copy EXCEPT !["health"] = r])
    BY <1>3 DEF HealthBegin, desk
  <2> HIDE DEF r
  <2>4. \A t \in Tasks : copy'[t] = copy[t] \/ (t = "health" /\ copy'[t] = r)
    BY <2>3 DEF Typed, Held
  <2>5. \A t \in Tasks : t # "health" /\ (Holds(t))' => Holds(t)
    BY <2>4 DEF Holds
  <2>6. Holds("health")
    BY <1>3 DEF HealthBegin, Begin
  <2> QED
    BY <2>1, <2>2, <2>3, <2>4, <2>5, <2>6, KeptEarned, TradedStays DEF AllEarned, EarnedRow
<1>4. ASSUME NEW state \in States, HealthSaved(state)  PROVE AllEarned'
  <2>1. "health" \in Tasks /\ Holds("health")
    BY <1>4 DEF HealthSaved, Tasks, Typed, TypeOK
  <2> QED
    BY <1>4, <2>1, BackEarned DEF HealthSaved
<1> QED
  BY <1>1, <1>2, <1>3, <1>4 DEF Health

LEMMA EarnedEvaluate ==
  ASSUME Typed, AllEarned, Evaluate, [Next]_vars  PROVE AllEarned'
<1> USE DEF Tasks
<1>1. CASE EvaluateLoad
  BY <1>1, LoadedEarned, KeptEarned DEF EvaluateLoad, desk, AllEarned
<1>2. CASE EvaluateExpired
  BY <1>2, BackEarned DEF EvaluateExpired, EvaluateTurn, States, Terminal
<1>3. CASE EvaluateDeferred
  <2>1. Holds("evaluate") /\ copy["evaluate"] \in Rows /\ EarnedRow(copy["evaluate"])
    BY <1>3, CopyHeld DEF EvaluateDeferred, EvaluateTurn, AllEarned
  <2> QED
    BY <1>3, <2>1, WrittenEarned, DroppedEarned DEF EvaluateDeferred, AllEarned
<1>4. CASE EvaluateBegin
  BY <1>4, KeptEarned DEF EvaluateBegin, desk, AllEarned
<1>5. CASE EvaluateSnapshot
  <2>1. copy["evaluate"] \in Rows /\ EarnedRow(copy["evaluate"]) /\ copy' = copy
    BY <1>5, CopyHeld DEF EvaluateSnapshot, AllEarned, tasks, Typed, TypeOK
  <2> QED
    BY <1>5, <2>1, WrittenEarned, KeptEarned DEF EvaluateSnapshot, AllEarned
<1>6. CASE EvaluateSent
  <2>1. Holds("evaluate") /\ "ALERTED" \in States
    BY <1>6 DEF EvaluateSent, Typed, TypeOK, States
  <2> QED
    BY <1>6, <2>1, BackEarned DEF EvaluateSent
<1>7. CASE EvaluateNotSent
  BY <1>7, DroppedEarned, KeptEarned DEF EvaluateNotSent, desk, AllEarned
<1> QED
  BY <1>1, <1>2, <1>3, <1>4, <1>5, <1>6, <1>7 DEF Evaluate

LEMMA EarnedStep == ASSUME Typed, AllClean, AllEarned, [Next]_vars PROVE AllEarned'
<1>1. CASE Market \/ UNCHANGED vars
  <2>1. UNCHANGED <<row, copy>>
    BY <1>1 DEF Market, Trade, FeedLost, FeedReset, vars, desk, tasks
  <2> QED
    BY <2>1, KeptEarned DEF AllEarned
<1>2. ASSUME NEW bars \in 0..AllBars, NEW to \in 0..Horizon, ReconcileRaised(bars, to)
      PROVE  AllEarned'
  BY <1>2, KeptEarned, DroppedEarned DEF ReconcileRaised, Tasks, AllEarned
<1>3. CASE Restart
  <2>1. \A t \in Tasks : ~(Holds(t))'
    BY <1>3 DEF Restart, Holds
  <2>2. row'.state = row.state /\ row'.entered = row.entered
    BY <1>3, Basics DEF Restart, Rows
  <2> QED
    BY <2>1, <2>2, TradedStays DEF AllEarned, EarnedRow
<1> QED
  BY <1>1, <1>2, <1>3, EarnedTick, EarnedReconcile, EarnedHealth, EarnedEvaluate DEF Next

\* A setup is resolved only after a target was traded, before any stop as long as
\* every save of a reconciliation reaches both records, and the zone was reached, or
\* crossed within a candle, in its window; it is stopped only by a traded stop:
\* whichever task closes it, and however old its copy (advance_trades, advance).
THEOREM OutcomesAreEarned == Spec => []OutcomeTraded
<1>1. AllEarned => OutcomeTraded
  BY DEF AllEarned, EarnedRow, ZoneReached, TargetTraded, StopTraded, OutcomeTraded
<1> QED
  BY <1>1, TypedAlways, CleanInit, CleanStep, EarnedInit, EarnedStep, PTL DEF Spec

\* Candles follow each other at their length.
LEMMA Multiples ==
  ASSUME NEW b \in Nat \ {0}, NEW d \in Nat, NEW e \in Nat, d % b = 0, e % b = 0, d < e
  PROVE  d <= e - b
<1> DEFINE p == d \div b
           q == e \div b
<1>1. p \in Nat /\ q \in Nat /\ d = b * p /\ e = b * q
  OBVIOUS
<1> HIDE DEF p, q
<1>2. p < q
  <2> SUFFICES ASSUME q <= p PROVE FALSE BY <1>1
  <2>1. b * q <= b * p BY <1>1
  <2> QED BY <1>1, <2>1
<1>3. b * (p + 1) <= b * q
  BY <1>1, <1>2
<1>4. b * (p + 1) = d + b
  BY <1>1
<1> QED
  BY <1>1, <1>3, <1>4

\* "Entry inferred in a candle does not prove a target was later in that candle": candles
\* that both enter and resolve a setup hold trades of the zone before one of the target,
\* whatever the order inside each of them (advance).
CandlesInOrder(bars, to) ==
  (/\ ReconcileAnswered(bars, to) /\ ~copy["reconcile"].entered
   /\ BarsState(copy["reconcile"], bars, to) = "RESOLVED")
     => \E t \in 1..now : path[t] = "target" /\ Reached(t - 1)

THEOREM TargetsFollowEntries ==
  Spec => [][\A bars \in 0..AllBars, to \in 0..Horizon : CandlesInOrder(bars, to)]_vars
<1>1. ASSUME Typed, NEW bars \in 0..AllBars, NEW to \in 0..Horizon  PROVE CandlesInOrder(bars, to)
  <2> DEFINE r == copy["reconcile"]
  <2> SUFFICES ASSUME ReconcileAnswered(bars, to), ~r.entered, BarsState(r, bars, to) = "RESOLVED"
               PROVE  \E t \in 1..now : path[t] = "target" /\ Reached(t - 1)
    BY DEF CandlesInOrder
  <2>1. /\ r \in Rows /\ Active(r) /\ now \in Nat /\ fetch.from \in Nat /\ fetch.until \in 0..now
        /\ TriggerDeadline \in Nat /\ HoldDeadline \in Nat /\ BarLen \in Nat \ {0}
    <3>1. Holds("reconcile") /\ fetch # NoFetch BY DEF ReconcileAnswered, Asking
    <3>2. r \in Rows /\ now \in Nat BY <1>1, <3>1, CopyHeld, Basics DEF Tasks
    <3>3. Active(r) BY <1>1, <3>1 DEF Typed, Held
    <3>4. fetch \in [from : 0..now, until : 0..now] BY <1>1, <3>1 DEF Typed, TypeOK
    <3> QED BY <3>2, <3>3, <3>4, LifecycleAssumption
  <2>2. to \in BarsEnding(r, bars) /\ ~InBar(to, "stop")
    BY <2>1 DEF BarsState, Active
  <2>3. \A e \in BarsSeen(r, bars) : e \in 1..now /\ e % BarLen = 0
    BY <2>1 DEF BarsSeen, BarLimit, Deadline
  <2>4. PICK t \in 1..(to - 1) : to - BarLen <= t /\ path[t] = "target"
    BY <2>2 DEF BarsEnding, InBar
  <2>5. PICK e \in BarsSeen(r, bars) : e < to /\ e - BarLen <= TriggerDeadline /\ Overlaps(e)
    BY <2>2 DEF BarsEnding, EnteredBefore
  <2>6. e \in 1..now /\ to \in 1..now /\ e <= to - BarLen
    <3>1. to \in BarsSeen(r, bars) BY <2>2 DEF BarsEnding
    <3>2. e \in 1..now /\ to \in 1..now /\ e % BarLen = 0 /\ to % BarLen = 0 BY <2>3, <3>1
    <3>3. e \in Nat /\ to \in Nat /\ BarLen \in Nat \ {0} BY <2>1, <3>2
    <3> QED BY <2>5, <3>2, <3>3, Multiples
  <2>7. Reached(e - 1)
    BY <2>1, <2>5, <2>6, OverlapReaches
  <2>8. e - 1 \in Nat /\ e - 1 <= t - 1 /\ t - 1 \in Nat /\ t \in 1..now
    BY <2>1, <2>4, <2>6
  <2>9. Reached(t - 1)
    BY <2>7, <2>8 DEF Reached
  <2> QED BY <2>4, <2>8, <2>9
<1>2. Typed => \A bars \in 0..AllBars, to \in 0..Horizon : CandlesInOrder(bars, to)
  BY <1>1
<1> QED
  BY <1>2, TypedAlways, PTL DEF Spec
=============================================================================
