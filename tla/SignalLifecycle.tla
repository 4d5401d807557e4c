-------------------------- MODULE SignalLifecycle --------------------------
(***************************************************************************)
(* The price path of one published setup, from CONFIRMED to its close:     *)
(* lifecycle.py (tick, advance_trades), reconciliation.py (advance,        *)
(* reconcile), scanner_lifecycle.py (monitor_alerted), the delivery step   *)
(* of scanner_confirmation.py (evaluate) and Store.signal / Store.monitor. *)
(*                                                                         *)
(* Four tasks of one asyncio loop write the same signals row.  Each loads  *)
(* the row, awaits (subscriptions, candles, worker threads, Discord), and  *)
(* writes its copy back; nothing holds the row in between.                 *)
(*                                                                         *)
(* Time is counted in executed trades: one trade at each instant, BarLen   *)
(* instants to a candle.  The horizon is not LEGACY.                       *)
(***************************************************************************)
EXTENDS Naturals, Sequences, FiniteSets

CONSTANTS
  BarLen,           \* instants of a closed candle
  TradeStale,       \* trade_stale_ms, in instants
  TriggerDeadline,  \* trigger_expires_ms
  HoldDeadline,     \* holding_deadline_ms
  Horizon,          \* bound on the clock
  QuietStart,       \* the first tick of the setup met no trade: see SaveMerged
  Prices,           \* prices a trade may have, see Below, Above
  MaxHolding,       \* bound on the tasks that hold a copy at the same time
  MaxRestarts,      \* bound on restarts of the process
  MaxRaises         \* bound on failed commits

ASSUME LifecycleAssumption ==
  /\ BarLen \in Nat \ {0} /\ TradeStale \in Nat
  /\ TriggerDeadline \in Nat /\ HoldDeadline \in Nat /\ Horizon \in Nat
  /\ TriggerDeadline <= HoldDeadline
  /\ QuietStart \in BOOLEAN
  /\ Prices \subseteq {"stop", "below", "entry", "above", "target"}
  /\ MaxHolding \in Nat /\ MaxRestarts \in Nat /\ MaxRaises \in Nat

VARIABLES
  path,       \* the venue: the price of the trade at each instant so far
  feedUp,     \* trades reach the tape
  tape,       \* [from, to]: coverage_start and last_event of the tape
  row,        \* signals row, see Rows
  saved,      \* kv reconciliation:<id>, its cursor_ms
  delivered,  \* the initial card is in the outbox as sent
  pending,    \* the setup is in scanner.reconcile_pending
  copy,       \* what each task holds of the row, NoRow when it holds nothing
  begun,      \* the tasks past the checks they make before their first await
  tickAt,     \* the clock the running tick was called with
  fetch,      \* a candle request in flight: its cursor and its end
  restarts, raises

venue == <<path, feedUp, tape>>
desk == <<row, saved, delivered>>
tasks == <<pending, copy, begun, tickAt, fetch>>
faults == <<restarts, raises>>
vars == <<venue, desk, tasks, faults>>

-----------------------------------------------------------------------------
now == Len(path)

Terminal == {"INVALIDATED", "RESOLVED", "EXPIRED", "WITHDRAWN"}
\* "WITHDRAWN" is INVALIDATED for thesis health; "INVALIDATED" is the stop.
States == {"CONFIRMED", "ALERTED"} \cup Terminal
Tasks == {"tick", "reconcile", "health", "evaluate"}

\* checked: last_checked_trade_id is the trade at the cursor.
\* entered: observed_entry_ms is set.
\* unwalked: monitor_status is RECONCILED_PENDING_PATH.
\* unclear: primary_outcome is "UNCLEAR".
Rows == [state : States, cursor : 0..Horizon, checked : BOOLEAN,
         entered : BOOLEAN, unwalked : BOOLEAN, unclear : BOOLEAN]
NoRow == [state |-> "none"]
NoFetch == [from |-> Horizon + 1, until |-> 0]
NoTape == [from |-> Horizon + 2, to |-> 0]

\* A setup confirmed by a running desk: its tape reaches back to its creation.
Init ==
  /\ path = << >>
  /\ feedUp = TRUE
  /\ tape = [from |-> 0, to |-> 0]
  /\ row = [state |-> "CONFIRMED", cursor |-> 0, checked |-> FALSE,
            entered |-> FALSE, unwalked |-> FALSE, unclear |-> FALSE]
  /\ saved = 0
  /\ delivered = FALSE
  /\ pending = FALSE
  /\ copy = [t \in Tasks |-> NoRow] /\ begun = {}
  /\ tickAt = 0
  /\ fetch = NoFetch
  /\ restarts = 0 /\ raises = 0

-----------------------------------------------------------------------------
(* The row.                                                                *)
Active(r) == r.state \in {"CONFIRMED", "ALERTED"}

Deadline(r) == IF r.state = "ALERTED" THEN HoldDeadline ELSE TriggerDeadline

\* Store.signal of a copy that was monitored last: a closed setup stays closed,
\* an observed entry stays observed, and the state is the one of the copy.
Save(r) ==
  row' = IF Active(row) THEN [r EXCEPT !.entered = r.entered \/ row.entered] ELSE row

\* Store.signal of a copy that may be older than the row.  The monitoring keys of a
\* row monitored later win, but only those that stand before last_monitor_ms in
\* its payload: none when the first tick met no trade, and not the trade's id when
\* reconciliation took it out in between.
SaveMerged(r) ==
  IF QuietStart \/ row.cursor < r.cursor THEN Save(r)
  ELSE \E checked \in {row.checked, r.checked /\ r.cursor = row.cursor},
          unwalked \in {row.unwalked, r.unwalked} :
         Save([r EXCEPT !.cursor = row.cursor, !.checked = checked, !.unwalked = unwalked])

\* Store.monitor: the payload is replaced when the state is unchanged.
Monitor(r) == row' = IF row.state = r.state THEN r ELSE row

Holds(task) == copy[task] # NoRow
Load(task, r) ==
  /\ ~Holds(task) /\ Cardinality({t \in Tasks : Holds(t)}) < MaxHolding
  /\ copy' = [copy EXCEPT ![task] = r]
  /\ UNCHANGED begun
Drop(task) == copy' = [copy EXCEPT ![task] = NoRow] /\ begun' = begun \ {task}
Begin(task) == Holds(task) /\ task \notin begun /\ begun' = begun \cup {task}

-----------------------------------------------------------------------------
(* The venue and its feed.                                                 *)
\* Bound: the venue is of no interest once the setup is closed.
Watched == Active(row)

Trade(price) ==
  /\ Watched /\ now < Horizon
  /\ path' = Append(path, price)
  /\ tape' = IF feedUp THEN [tape EXCEPT !.to = now + 1] ELSE tape
  /\ UNCHANGED <<feedUp, desk, tasks, faults>>

\* The connection is lost; the tape does not know yet.
FeedLost ==
  /\ Watched /\ feedUp
  /\ feedUp' = FALSE
  /\ UNCHANGED <<path, tape, desk, tasks, faults>>

\* The loss is noticed, or the connection is back: either resets the tape.
FeedReset(up) ==
  /\ Watched /\ ~feedUp
  /\ feedUp' = up
  /\ tape' = [from |-> now + 1, to |-> 0]
  /\ UNCHANGED <<path, desk, tasks, faults>>

TapeFresh(at) == tape.from <= tape.to /\ tape.to <= at /\ at <= tape.to + TradeStale

-----------------------------------------------------------------------------
(* tick: the path is walked trade by trade.                                *)

\* Mutant: trades are taken from the cursor on even when the tape starts later.
GapNever(r) == FALSE

Gap(r) == tape.from > r.cursor

\* The trades the tape holds past the cursor and up to the deadline.
Unseen(r) ==
  {t \in (IF r.checked THEN r.cursor + 1 ELSE r.cursor)..tape.to :
     1 <= t /\ tape.from <= t /\ t <= Deadline(r)}

EnteredBy(r, t) ==
  r.entered \/ \E u \in Unseen(r) : u <= t /\ u <= TriggerDeadline /\ path[u] = "entry"

\* The trades that would close the setup.
Ending(r) ==
  {t \in Unseen(r) : \/ path[t] = "stop"
                     \/ path[t] = "target" /\ EnteredBy(r, t) /\ r.state = "ALERTED"}

First(S, x) == x \in S /\ \A y \in S : x <= y
Last(S, x) == x \in S /\ \A y \in S : y <= x

\* advance_trades walks to trade "to": the first that closes the setup, else the last.
WalksTo(r, to) ==
  IF Unseen(r) = {} THEN to = r.cursor
  ELSE IF Ending(r) = {} THEN Last(Unseen(r), to) ELSE First(Ending(r), to)

Walk(r, to) ==
  IF Unseen(r) = {} THEN r
  ELSE [state |-> IF to \notin Ending(r) THEN r.state
                  ELSE IF path[to] = "stop" THEN "INVALIDATED" ELSE "RESOLVED",
        cursor |-> to, checked |-> TRUE, entered |-> EnteredBy(r, to), unwalked |-> FALSE,
        unclear |-> r.unclear]

\* The deadline closes what the walk left open.
Expire(r) ==
  IF Active(r) /\ tickAt >= Deadline(r) THEN [r EXCEPT !.state = "EXPIRED"] ELSE r

TickLoad ==
  /\ Active(row)
  /\ Load("tick", [row EXCEPT !.unwalked = FALSE])
  /\ tickAt' = now
  /\ UNCHANGED <<venue, desk, pending, fetch, faults>>

\* A gap, or a reconciliation that is not over, pauses monitoring.
TickPaused ==
  /\ Holds("tick")
  /\ Gap(copy["tick"]) \/ pending
  /\ pending' = TRUE
  /\ Monitor(copy["tick"])
  /\ Drop("tick") /\ tickAt' = 0
  /\ UNCHANGED <<venue, saved, delivered, fetch, faults>>

TickWalked(to) ==
  LET r == copy["tick"]
      next == Expire(IF TapeFresh(tickAt) THEN Walk(r, to) ELSE r)
  IN
  /\ Holds("tick")
  /\ ~Gap(r) /\ ~pending
  /\ IF TapeFresh(tickAt) THEN WalksTo(r, to) ELSE to = r.cursor
  /\ IF Active(next) THEN Monitor(next) ELSE Save(next)
  /\ Drop("tick") /\ tickAt' = 0
  /\ UNCHANGED <<venue, saved, delivered, pending, fetch, faults>>

-----------------------------------------------------------------------------
(* reconcile: the gap is covered by closed candles.                        *)
BarStart(t) == (t \div BarLen) * BarLen

\* The candle that ends at "end" holds the price.
InBar(end, price) == \E t \in 1..(end - 1) : end - BarLen <= t /\ path[t] = price

\* Its range touches the entry zone, between the prices below it and those above
\* (a short setup with the sides exchanged), traded there or not.
Below == {"stop", "below"}
Above == {"above", "target"}
Overlaps(end) ==
  /\ \E p \in Below \cup {"entry"} : InBar(end, p)
  /\ \E p \in Above \cup {"entry"} : InBar(end, p)

\* The candles advance goes through, named by their ends: from the cursor to the
\* deadline, as far as the venue has them without a hole.
BarLimit(r) == IF fetch.until < Deadline(r) THEN fetch.until ELSE Deadline(r)
BarsSeen(r, bars) ==
  {e \in (fetch.from + 1)..BarLimit(r) :
     e % BarLen = 0 /\ e <= BarStart(fetch.from) + bars * BarLen}

\* Mutant: an entry counts for a target of its own candle.
EnteredWithin(r, bars, end) ==
  \/ r.entered
  \/ \E e \in BarsSeen(r, bars) : e <= end /\ e - BarLen <= TriggerDeadline /\ Overlaps(e)

\* An entry counts from the next candle on.
EnteredBefore(r, bars, end) ==
  \/ r.entered
  \/ \E e \in BarsSeen(r, bars) : e < end /\ e - BarLen <= TriggerDeadline /\ Overlaps(e)

BarsEnding(r, bars) ==
  {e \in BarsSeen(r, bars) :
     InBar(e, "stop") \/ (InBar(e, "target") /\ EnteredBefore(r, bars, e))}

\* advance goes through the candles up to the one that ends at "to".
BarsReach(r, bars, to) ==
  IF BarsSeen(r, bars) = {} THEN to = fetch.from
  ELSE IF BarsEnding(r, bars) = {} THEN Last(BarsSeen(r, bars), to)
  ELSE First(BarsEnding(r, bars), to)

\* Mutant: the deadline is left to the live path.
BarsStateUndated(r, bars, to) ==
  IF to \in BarsEnding(r, bars) THEN IF InBar(to, "stop") THEN "INVALIDATED" ELSE "RESOLVED"
  ELSE r.state

\* In a candle that holds both, the stop came first.
BarsState(r, bars, to) ==
  IF to \in BarsEnding(r, bars) THEN IF InBar(to, "stop") THEN "INVALIDATED" ELSE "RESOLVED"
  ELSE IF to >= BarStart(BarLimit(r)) /\ fetch.until >= Deadline(r) THEN "EXPIRED"
  ELSE r.state

\* A candle that holds both, or that begins before what is reconciled.
Ambiguous(r, bars, to) ==
  /\ to \in BarsEnding(r, bars)
  /\ (InBar(to, "stop") /\ InBar(to, "target")) \/ to - BarLen < fetch.from

Asking == Holds("reconcile") /\ fetch # NoFetch
Turn == Holds("reconcile") /\ fetch = NoFetch

ReconcileLoad ==
  /\ Active(row)
  /\ Load("reconcile", row)
  /\ UNCHANGED <<venue, desk, pending, tickAt, fetch, faults>>

\* When its turn comes, a setup that is not pending is passed over.
ReconcileSkip ==
  /\ Turn /\ ~pending
  /\ Drop("reconcile")
  /\ UNCHANGED <<venue, desk, pending, tickAt, fetch, faults>>

\* The progress of the row or that of earlier passes, whichever is further.
ReconcileCursor == IF copy["reconcile"].cursor > saved THEN copy["reconcile"].cursor ELSE saved

\* live_covers_tail: the live tape reaches back to what candles have covered.
ReconcileLive ==
  /\ Turn /\ pending
  /\ TapeFresh(now) /\ tape.from <= ReconcileCursor
  /\ Save([copy["reconcile"] EXCEPT !.cursor = ReconcileCursor, !.checked = FALSE, !.unwalked = TRUE])
  /\ saved' = ReconcileCursor
  /\ pending' = FALSE
  /\ Drop("reconcile")
  /\ UNCHANGED <<venue, delivered, tickAt, fetch, faults>>

\* Not covered, or the book or the recorder is not ready: candles are asked for.
ReconcileAsk ==
  /\ Turn /\ pending
  /\ fetch' = [from |-> ReconcileCursor, until |-> now]
  /\ UNCHANGED <<venue, desk, pending, copy, begun, tickAt, faults>>

\* The progress is saved, then the row.
ReconcileAnswered(bars, to) ==
  LET r == copy["reconcile"] IN
  /\ Asking
  /\ BarsReach(r, bars, to)
  /\ saved' = to
  /\ SaveMerged([r EXCEPT !.state = BarsState(r, bars, to),
                          !.entered = EnteredBefore(r, bars, to + 1),
                          !.unclear = Ambiguous(r, bars, to)])
  /\ pending' = (pending /\ BarsState(r, bars, to) \notin Terminal)
  /\ fetch' = NoFetch
  /\ Drop("reconcile")
  /\ UNCHANGED <<venue, delivered, tickAt, faults>>

\* The venue does not answer.
ReconcileFailed ==
  /\ Asking
  /\ saved' = fetch.from
  /\ SaveMerged(copy["reconcile"])
  /\ fetch' = NoFetch
  /\ Drop("reconcile")
  /\ UNCHANGED <<venue, delivered, pending, tickAt, faults>>

\* The commit of the row fails after that of the progress.
ReconcileRaised(bars, to) ==
  /\ raises < MaxRaises
  /\ raises' = raises + 1
  /\ Asking
  /\ BarsReach(copy["reconcile"], bars, to)
  /\ saved' = to
  /\ fetch' = NoFetch
  /\ Drop("reconcile")
  /\ UNCHANGED <<venue, row, delivered, pending, tickAt, restarts>>

-----------------------------------------------------------------------------
(* monitor_alerted, which health_loop runs for every active setup.         *)

\* The setups of a pass are loaded together, and each is checked when its turn comes.
HealthLoad ==
  /\ Active(row)
  /\ Load("health", row)
  /\ UNCHANGED <<venue, desk, pending, tickAt, fetch, faults>>

HealthSkip ==
  /\ Holds("health") /\ "health" \notin begun
  /\ pending \/ copy["health"].unwalked
  /\ Drop("health")
  /\ UNCHANGED <<venue, desk, pending, tickAt, fetch, faults>>

\* The holding deadline is compared with the clock of the turn.
HealthBegin ==
  /\ Begin("health")
  /\ ~pending /\ ~copy["health"].unwalked
  /\ copy' = IF now < HoldDeadline THEN copy ELSE [copy EXCEPT !["health"].state = "EXPIRED"]
  /\ UNCHANGED <<venue, desk, pending, tickAt, fetch, faults>>

\* The copy goes back, withdrawn when its thesis failed.
HealthSaved(state) ==
  /\ "health" \in begun
  /\ state \in {copy["health"].state, "WITHDRAWN"}
  /\ SaveMerged([copy["health"] EXCEPT !.state = state])
  /\ Drop("health")
  /\ UNCHANGED <<venue, saved, delivered, pending, tickAt, fetch, faults>>

-----------------------------------------------------------------------------
(* evaluate: a confirmed setup is delivered within its entry window.       *)

\* The setups of a pass are loaded together.  An alerted one is passed over.
EvaluateLoad ==
  /\ row.state = "CONFIRMED"
  /\ Load("evaluate", row)
  /\ UNCHANGED <<venue, desk, pending, tickAt, fetch, faults>>

EvaluateTurn == Holds("evaluate") /\ "evaluate" \notin begun /\ ~pending

EvaluateExpired ==
  /\ EvaluateTurn /\ now >= TriggerDeadline
  /\ SaveMerged([copy["evaluate"] EXCEPT !.state = "EXPIRED"])
  /\ Drop("evaluate")
  /\ UNCHANGED <<venue, saved, delivered, pending, tickAt, fetch, faults>>

\* A macro pause, or a feed that is not selected: the copy goes back with a note.
EvaluateDeferred ==
  /\ EvaluateTurn /\ now < TriggerDeadline
  /\ SaveMerged(copy["evaluate"])
  /\ Drop("evaluate")
  /\ UNCHANGED <<venue, saved, delivered, pending, tickAt, fetch, faults>>

EvaluateBegin ==
  /\ EvaluateTurn /\ now < TriggerDeadline
  /\ Begin("evaluate")
  /\ UNCHANGED <<venue, desk, pending, copy, tickAt, fetch, faults>>

\* A v22 snapshot is stored before the request.
EvaluateSnapshot ==
  /\ "evaluate" \in begun /\ ~delivered
  /\ Monitor(copy["evaluate"])
  /\ UNCHANGED <<venue, saved, delivered, tasks, faults>>

\* The request is over before the entry deadline, and no card is sent twice.
EvaluateSent ==
  /\ "evaluate" \in begun /\ ~delivered /\ now < TriggerDeadline
  /\ delivered' = TRUE
  /\ SaveMerged([copy["evaluate"] EXCEPT !.state = "ALERTED"])
  /\ Drop("evaluate")
  /\ UNCHANGED <<venue, saved, pending, tickAt, fetch, faults>>

\* Pending, not ready, blocked, or not sent.
EvaluateNotSent ==
  /\ Holds("evaluate")
  /\ Drop("evaluate")
  /\ UNCHANGED <<venue, desk, pending, tickAt, fetch, faults>>

-----------------------------------------------------------------------------
\* A restarted scanner holds every active setup for reconciliation.
Restart ==
  /\ restarts < MaxRestarts
  /\ restarts' = restarts + 1
  /\ feedUp' = FALSE /\ tape' = NoTape
  /\ row' = IF Active(row) THEN [row EXCEPT !.unwalked = FALSE] ELSE row
  /\ pending' = Active(row)
  /\ copy' = [t \in Tasks |-> NoRow] /\ begun' = {} /\ tickAt' = 0
  /\ fetch' = NoFetch
  /\ UNCHANGED <<path, saved, delivered, raises>>

-----------------------------------------------------------------------------
\* All the candles of the horizon.
AllBars == Horizon \div BarLen + 1

Market == (\E p \in Prices : Trade(p)) \/ FeedLost \/ \E up \in BOOLEAN : FeedReset(up)
Tick == TickLoad \/ TickPaused \/ \E to \in 0..Horizon : TickWalked(to)
Reconcile ==
  \/ ReconcileLoad \/ ReconcileSkip \/ ReconcileLive \/ ReconcileAsk \/ ReconcileFailed
  \/ \E bars \in 0..AllBars, to \in 0..Horizon : ReconcileAnswered(bars, to)
Health == HealthLoad \/ HealthSkip \/ HealthBegin \/ \E state \in States : HealthSaved(state)
Evaluate ==
  \/ EvaluateLoad \/ EvaluateExpired \/ EvaluateDeferred \/ EvaluateBegin
  \/ EvaluateSnapshot \/ EvaluateSent \/ EvaluateNotSent

Next ==
  \/ Market \/ Tick \/ Reconcile \/ Health \/ Evaluate
  \/ \E bars \in 0..AllBars, to \in 0..Horizon : ReconcileRaised(bars, to)
  \/ Restart

Spec == Init /\ [][Next]_vars

\* What a task that holds a copy does next, when it does not wait for the venue.
Proceed ==
  \/ TickPaused \/ \E to \in 0..Horizon : TickWalked(to)
  \/ ReconcileSkip \/ ReconcileLive \/ ReconcileAsk
  \/ HealthSkip \/ HealthBegin \/ \E state \in States : HealthSaved(state)
  \/ EvaluateExpired \/ EvaluateDeferred \/ EvaluateSent \/ EvaluateNotSent

\* The venue goes on trading, the loops go on, and the venue answers with all its
\* candles at last.  Loading is strongly fair where the code's is weakly fair,
\* because MaxHolding lets tasks block each other and the code does not.
Fairness ==
  /\ WF_vars(\E p \in Prices : Trade(p))
  /\ SF_vars(TickLoad) /\ SF_vars(ReconcileLoad)
  /\ WF_vars(Proceed)
  /\ SF_vars(\E to \in 0..Horizon : ReconcileAnswered(AllBars, to))

FairSpec == Spec /\ Fairness

-----------------------------------------------------------------------------
(* Properties.                                                             *)

\* Types; no cursor is ahead of the venue, and a request belongs to a task.
TypeOK ==
  /\ path \in Seq(Prices) /\ now <= Horizon
  /\ feedUp \in BOOLEAN
  /\ tape \in [from : 0..Horizon + 2, to : 0..now]
  /\ row \in Rows /\ row.cursor <= now
  /\ saved \in 0..now
  /\ delivered \in BOOLEAN /\ pending \in BOOLEAN
  /\ \A t \in Tasks : Holds(t) => copy[t] \in Rows /\ copy[t].cursor <= now
  /\ begun \subseteq {t \in {"health", "evaluate"} : Holds(t)}
  /\ tickAt \in 0..now
  /\ fetch # NoFetch => Holds("reconcile") /\ fetch \in [from : 0..now, until : 0..now]
  /\ restarts \in 0..MaxRestarts /\ raises \in 0..MaxRaises

\* No stop lies before the instant, or at it when it is included.
NoStopUpTo(t, included) ==
  \A u \in 1..now : path[u] = "stop" => t < u \/ (t = u /\ ~included)

\* No stop lies in the part of the path that reconciliation or monitoring has put
\* behind an active setup: whichever task wrote last, and whatever the tape and the
\* candles left out, the next pass still meets it (advance_trades, reconcile).
StopIsAhead ==
  Active(row) => NoStopUpTo(saved, FALSE) /\ NoStopUpTo(row.cursor, row.checked)

\* The same while every save of a reconciliation reaches both of its records.
NoMissedStop == raises = 0 => StopIsAhead

\* By trade s the zone was reached within its window, or crossed within the length
\* of a candle.
Reached(s) ==
  \E u, v \in 1..s :
    /\ path[u] \in Below \cup {"entry"} /\ path[v] \in Above \cup {"entry"}
    /\ u < v + BarLen /\ v < u + BarLen
    /\ u < TriggerDeadline + BarLen /\ v < TriggerDeadline + BarLen

\* A closed outcome is what was traded: a stop; or a target, before any stop as long
\* as the saves of a reconciliation reach both records, with the zone reached.
OutcomeTraded ==
  /\ row.state = "RESOLVED" =>
       /\ \E t \in 1..now : path[t] = "target" /\ (raises = 0 => NoStopUpTo(t, TRUE))
       /\ Reached(now)
  /\ row.state = "INVALIDATED" => \E t \in 1..now : path[t] = "stop"

\* "Entry inferred in a candle does not prove a target was later in that candle"
\* (reconciliation.py): a target that is not called unclear came after the zone.  A
\* save that puts the cursor back behind an entry breaks it: see QuietStart.
TargetFollows ==
  row.state = "RESOLVED" /\ ~row.unclear =>
    \E t \in 1..now : path[t] = "target" /\ Reached(t - 1)

\* A closed outcome is earned by the path, trades and candles alike, whichever copies
\* it went through (advance_trades, advance).
OutcomeIsEarned == OutcomeTraded /\ TargetFollows

\* A closed setup keeps its outcome whatever older copies the tasks still hold
\* (Store.signal, Store.monitor).
TerminalIsFinal == [][~Active(row) => UNCHANGED row]_row

\* Every setup is closed in the end: by its path or by its deadline, through
\* candles when the feed does not come back.
Closes == <>~Active(row)
=============================================================================
