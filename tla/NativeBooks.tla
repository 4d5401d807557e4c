----------------------------- MODULE NativeBooks -----------------------------
(***************************************************************************)
(* The streams of the other venues (native_streams.py): one task per       *)
(* symbol, which at Binance runs a socket of trades beside a socket of     *)
(* depth with its snapshot from REST, and at OKX one socket of both; the   *)
(* book they keep in sequence; and select, which stops the task.           *)
(*                                                                         *)
(* One symbol: the tasks of several share only the recorder.  The updates  *)
(* of the venue's book are numbered, anew whenever nothing is kept of them *)
(* (Lag of them are old), and so are its trades.                           *)
(***************************************************************************)
EXTENDS Naturals, Sequences, SequencesExt

CONSTANTS
  Venues,     \* the kinds of venue under study
  MaxUpdates, \* bound: updates of the book, apart from those it waits for
  MaxTrades,  \* bound: trades
  Lag,        \* how far behind the answer of REST may be
  MaxFaults   \* bound: faults of connections, requests and the recorder, and stops

NativeAssumption ==
  /\ Venues \subseteq {"binance", "okx"}
  /\ MaxUpdates \in Nat /\ MaxTrades \in Nat /\ Lag \in Nat /\ MaxFaults \in Nat

VARIABLES
  venue,    \* api.name
  n, t,     \* the venue: updates of its book, trades
  depth,    \* the depth socket and its messages; "off" between two tries
  market,   \* the trade socket and its messages
  seq,      \* SequencedBook: last, bridged
  book,     \* the updates the book holds, and Book.valid
  tape,     \* the trades it starts after, and those it holds
  task,     \* run_symbol: none, top, live, hurt (waits), dead (raised), orphan (its
            \* trades are stopped and its depth goes on)
  cancel,   \* a cancellation of the task is under way
  sel,      \* select: the symbol is on, being stopped, or off
  healthy,  \* recorder.healthy
  faults

vars == <<venue, n, t, depth, market, seq, book, tape, task, cancel, sel, healthy, faults>>
feed == <<depth, market, seq, book, tape>>

Off == [at |-> "off", msgs |-> <<>>]
NoBook == [held |-> {}, valid |-> FALSE]
Fresh == [last |-> 0, bridged |-> FALSE]
NewTape == [start |-> t, got |-> {}]

TypeOK ==
  /\ venue \in Venues /\ n \in Nat /\ t \in 0..MaxTrades
  /\ depth.at \in {"off", "request", "follow"} /\ market.at \in {"off", "open"}
  /\ book.valid \in BOOLEAN /\ book.held \subseteq 1..n
  /\ tape.start \in 0..t /\ tape.got \subseteq 1..t
  /\ task \in {"none", "top", "live", "hurt", "dead", "orphan"} /\ cancel \in BOOLEAN
  /\ sel \in {"on", "stopping", "off"} /\ healthy \in BOOLEAN /\ faults \in 0..MaxFaults

Init ==
  /\ venue \in Venues /\ n = Lag /\ t = 0
  /\ depth = Off /\ market = Off /\ seq = Fresh /\ book = NoBook /\ tape = NewTape
  /\ task = "top" /\ cancel = FALSE /\ sel = "on" /\ healthy = TRUE /\ faults = 0

Fault == faults < MaxFaults /\ faults' = faults + 1

(***************************************************************************)
(* The venue.  A message carries the updates from..to and the end of the   *)
(* message before it; the venue may skip one.                              *)
(***************************************************************************)
Sent(link, m) == IF link.at = "off" THEN link ELSE [link EXCEPT !.msgs = Append(@, m)]
Waited == depth.msgs = <<>> /\ ~book.valid
Moves(w) ==
  /\ depth.at # "off" /\ (n + w <= Lag + MaxUpdates \/ Waited)
  /\ n' = n + w
  /\ UNCHANGED <<venue, t, market, seq, book, tape, task, cancel, sel, healthy>>
Update(w) ==
  /\ Moves(w)
  /\ depth' = Sent(depth, [from |-> n + 1, to |-> n + w, pu |-> n, snap |-> FALSE])
  /\ UNCHANGED faults
Skips(w) == Moves(w) /\ Fault /\ UNCHANGED depth
Trade ==
  /\ t < MaxTrades /\ t' = t + 1
  /\ market' = Sent(market, t + 1)
  /\ UNCHANGED <<venue, n, depth, seq, book, tape, task, cancel, sel, healthy, faults>>

(***************************************************************************)
(* run_symbol.                                                             *)
(***************************************************************************)
Forget == depth' = Off /\ seq' = Fresh /\ book' = NoBook /\ n' = Lag
Reset == Forget /\ market' = Off /\ tape' = NewTape
Top ==
  /\ task = "top" /\ task' = "live"
  /\ Reset
  /\ UNCHANGED <<venue, t, cancel, sel, healthy, faults>>

\* An error leaves the sockets.  While select is stopping the task, whatever a
\* socket raises as it is closed, the task ends.
Reconnects == task' = "hurt" /\ UNCHANGED sel
Escapes == IF sel = "stopping" THEN task' = "none" /\ sel' = "off" ELSE Reconnects
TaskError ==
  /\ Reset /\ cancel' = FALSE
  /\ Escapes

Retry ==
  /\ task = "hurt" /\ healthy /\ task' = "top"
  /\ UNCHANGED <<venue, n, t, feed, cancel, sel, healthy, faults>>

\* The note of the gap finds the queue of the recorder full: the task is over.
NoteFails ==
  /\ task = "live" /\ healthy /\ ~cancel /\ Fault
  /\ Reset /\ task' = "dead" /\ healthy' = FALSE
  /\ UNCHANGED <<venue, t, cancel, sel>>

Heal == ~healthy /\ healthy' = TRUE /\ UNCHANGED <<venue, n, t, feed, task, cancel, sel, faults>>
Hurt == healthy /\ Fault /\ healthy' = FALSE /\ UNCHANGED <<venue, n, t, feed, task, cancel, sel>>

Live == task = "live" /\ ~cancel
\* The task of the depth runs, with or without that of the trades.
Reads == Live \/ task = "orphan"
\* wait_for_capacity raises.
CapacityRaises ==
  /\ Reads /\ ~healthy /\ (market.at # "off" \/ depth.at # "off")
  /\ TaskError
  /\ UNCHANGED <<venue, t, healthy, faults>>

(***************************************************************************)
(* Trades.                                                                 *)
(***************************************************************************)
\* OKX: one socket, which begins with a snapshot of the book.
OpenMarket ==
  /\ Live /\ market.at = "off"
  /\ market' = [at |-> "open", msgs |-> <<>>] /\ tape' = NewTape
  /\ depth' = IF venue = "binance" THEN depth ELSE
                [at |-> "follow", msgs |-> <<[from |-> n, to |-> n, pu |-> n, snap |-> TRUE]>>]
  /\ UNCHANGED <<venue, n, t, seq, book, task, cancel, sel, healthy, faults>>
TakeTrade ==
  /\ Live /\ healthy /\ market.msgs # <<>>
  /\ tape' = [tape EXCEPT !.got = @ \cup {Head(market.msgs)}]
  /\ market' = [market EXCEPT !.msgs = Tail(@)]
  /\ UNCHANGED <<venue, n, t, depth, seq, book, task, cancel, sel, healthy, faults>>
\* The socket is cut, or a row of an optional symbol is shed.
MarketFails ==
  /\ Live /\ market.at # "off" /\ Fault
  /\ TaskError
  /\ UNCHANGED <<venue, t, healthy>>

(***************************************************************************)
(* Depth.                                                                  *)
(***************************************************************************)
OpenDepth ==
  /\ Reads /\ venue = "binance" /\ depth.at = "off"
  /\ depth' = [at |-> "request", msgs |-> <<>>]
  /\ UNCHANGED <<venue, n, t, market, seq, book, tape, task, cancel, sel, healthy, faults>>

\* REST answers while the socket buffers; the book cannot qualify yet.
Snapshot(k) ==
  /\ Reads /\ healthy /\ depth.at = "request"
  /\ depth' = [depth EXCEPT !.at = "follow"]
  /\ seq' = [last |-> k, bridged |-> FALSE]
  /\ book' = [held |-> 1..k, valid |-> FALSE]
  /\ UNCHANGED <<venue, n, t, market, tape, task, cancel, sel, healthy, faults>>

\* SequencedBook.apply: older messages are passed over, the first one to count
\* spans the snapshot, and from then on each follows the one before it.
Old(m) == venue = "binance" /\ ~seq.bridged /\ m.to < seq.last
SpansEnd(m) == seq.last <= m.to
Spans(m) == m.from <= seq.last /\ seq.last <= m.to
Follows(m) ==
  CASE venue = "okx" -> m.snap \/ (m.pu = seq.last /\ m.to >= seq.last)
    [] seq.bridged   -> m.pu = seq.last /\ m.to > seq.last
    [] OTHER         -> Spans(m)
Following == Reads /\ healthy /\ depth.at = "follow" /\ depth.msgs # <<>>

TakeDepth ==
  /\ Following
  /\ LET m == Head(depth.msgs) IN
     \/ Old(m) /\ UNCHANGED <<seq, book>>
     \/ /\ ~Old(m) /\ Follows(m)
        /\ seq' = [last |-> m.to, bridged |-> TRUE]
        /\ book' = [valid |-> TRUE,
                    held |-> IF m.snap THEN 1..m.to ELSE book.held \cup (m.from..m.to)]
  /\ depth' = [depth EXCEPT !.msgs = Tail(@)]
  /\ UNCHANGED <<venue, n, t, market, tape, task, cancel, sel, healthy, faults>>

\* binance_depth_recovery: the book starts over and the trades go on, unless
\* the recorder is unhealthy.  OKX starts over altogether.
DepthError ==
  IF venue = "binance" /\ healthy
    THEN Forget /\ UNCHANGED <<market, tape, task, cancel, sel>>
    ELSE TaskError
DepthGap ==
  /\ Following /\ ~Old(Head(depth.msgs)) /\ ~Follows(Head(depth.msgs))
  /\ DepthError
  /\ UNCHANGED <<venue, t, healthy, faults>>
DepthFails ==
  /\ Reads /\ depth.at # "off" /\ Fault
  /\ DepthError
  /\ UNCHANGED <<venue, t, healthy>>

(***************************************************************************)
(* select.                                                                 *)
(***************************************************************************)
Deselect ==
  /\ sel = "on" /\ Fault
  /\ IF task = "dead" THEN sel' = "off" /\ task' = "none" /\ UNCHANGED cancel
     ELSE sel' = "stopping" /\ cancel' = TRUE /\ UNCHANGED task
  /\ UNCHANGED <<venue, n, t, feed, healthy>>
\* The task ends, and select drops its book and tape.
Cancelled ==
  /\ cancel /\ cancel' = FALSE
  /\ task' = "none" /\ sel' = "off" /\ Reset
  /\ UNCHANGED <<venue, t, healthy, faults>>
\* A socket raises as it is closed, and the error takes the place of the
\* cancellation.  That of the depth is taken for a gap (binance_depth_recovery):
\* the depth is opened again, and nobody cancels it a second time.
Swallowed ==
  /\ venue = "binance" /\ healthy /\ depth.at # "off"
  /\ Forget /\ market' = Off /\ UNCHANGED <<tape, sel>>
  /\ task' = "orphan" /\ cancel' = FALSE
ClosingFails ==
  /\ cancel /\ task = "live"
  /\ TaskError \/ Swallowed
  /\ UNCHANGED <<venue, t, healthy, faults>>
\* A symbol is selected, or one whose task died is found by the next select.
Select ==
  /\ sel \in {"on", "off"} /\ task \in {"none", "dead"}
  /\ sel' = "on" /\ task' = "top" /\ Reset
  /\ UNCHANGED <<venue, t, cancel, healthy, faults>>

Next ==
  \/ \E w \in 1..2 : Update(w) \/ Skips(w)
  \/ Trade \/ Top \/ Retry \/ NoteFails \/ Heal \/ Hurt \/ CapacityRaises
  \/ OpenMarket \/ TakeTrade \/ MarketFails
  \/ OpenDepth \/ (\E k \in (n - Lag)..n : Snapshot(k))
  \/ TakeDepth \/ DepthGap \/ DepthFails
  \/ Deselect \/ Cancelled \/ ClosingFails \/ Select

\* The market moves; the tasks and the writer run; the desk selects again
\* every second; and the snapshot does not always come before every message.
UpdateInTime == depth.at = "request" /\ Update(1)
Answer == \E k \in (n - Lag)..n : Snapshot(k)
Bridging == depth.msgs # <<>> /\ Last(depth.msgs).to + Lag >= n /\ Snapshot(Last(depth.msgs).to)
Fairness ==
  /\ WF_vars(Update(1)) /\ WF_vars(Heal) /\ WF_vars(task = "dead" /\ Select)
  /\ WF_vars(Top \/ Retry \/ OpenMarket \/ OpenDepth)
  /\ SF_vars(UpdateInTime) /\ SF_vars(Bridging) /\ WF_vars(Answer)
  /\ WF_vars(Cancelled \/ ClosingFails)
  /\ WF_vars(TakeDepth \/ DepthGap \/ CapacityRaises)
Spec == Init /\ [][Next]_vars

(***************************************************************************)
(* Properties.                                                             *)
(***************************************************************************)
\* A book that may qualify holds every update up to its last, whatever order
\* the snapshot and the buffered messages came in and whatever was skipped;
\* and a tape every trade since its start, through the gaps of the book.
InSequence ==
  /\ book.valid => book.held = 1..seq.last
  /\ \A i \in tape.got : (tape.start + 1)..i \subseteq tape.got

\* A symbol taken out of the selection is released: its task does not come back
\* from an error of closing, nor is select kept waiting for it.  The exception
\* is an error of the closing depth socket at Binance with a healthy recorder:
\* its task reconnects without end, and select waits for it under its lock
\* until the recorder fails.
Released == (sel = "stopping") ~> (sel = "off" \/ task = "orphan")
=============================================================================
