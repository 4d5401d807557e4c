----------------------------- MODULE ReversalTurn -----------------------------
(***************************************************************************)
(* The staged confirmation of a reversal (reversal_sequence.py) and the    *)
(* delivery that rests on it (refresh_reversal of scanner_confirmation.py, *)
(* check and dispatch_guard of setup_runtime.py).                          *)
(*                                                                         *)
(* The last stretch of the tape is read in three phases: pressure beyond   *)
(* the level, its decay, and the turn.  A worker thread reads a slice      *)
(* that was frozen before, while the book and the tape go on and are       *)
(* reset.  A setup confirmed by the sequence is sent by a later pass, or   *)
(* after more awaits of the same one, on a sequence observed anew.         *)
(*                                                                         *)
(* Time is counted in units of 5 s.  Prices are signed distances from the  *)
(* level, and volumes net of the side of the setup.                        *)
(***************************************************************************)
EXTENDS Integers, Sequences, FiniteSets

CONSTANTS
  Slots,        \* what a unit of the tape may hold
  Known,        \* when the level was known
  Early, Late, Trigger,   \* the lengths of the phases
  Ttl,          \* 15 s
  MaxNow, MaxResets

\* Prints of one unit: the last price, and how much of the volume is against the setup.
Slot == [seen : BOOLEAN, price : Int, against : Int]

ReversalAssumption ==
  /\ Slots \subseteq Slot /\ Known \in Nat
  /\ Early \in Nat \ {0} /\ Late \in Nat \ {0} /\ Trigger \in Nat \ {0}
  /\ Ttl \in Nat /\ MaxNow \in Nat /\ MaxResets \in Nat

VARIABLES
  tape,       \* the units so far; a unit never changes
  feeds,      \* the start of the tape's coverage; the book: its epoch and start, 0 when invalid
  stage,      \* of the setup: "pending", "confirmed", "elsewhere", "sent"
  sequence,   \* the row observed last: that of the decision, or of the delivery
  task,       \* the pass: where it awaits, with what the thread found
  sent,       \* the row a card rests on; history: when it was sent, and broken by then
  broken,     \* history: the last instant without a book or a tape
  resets

reversalVars == <<tape, feeds, stage, sequence, task, sent, broken, resets>>

clock == Len(tape) + 1
Open == stage \in {"pending", "confirmed"}
Length == Early + Late + Trigger

NoRow == [state |-> "UNAVAILABLE", start |-> 0, end |-> 0, epoch |-> 0]
NoTask == [pc |-> "idle", row |-> NoRow]

Init ==
  /\ tape = <<>> /\ feeds = [tape |-> 1, book |-> 1, epoch |-> 1]
  /\ stage = "pending" /\ sequence = NoRow /\ task = NoTask
  /\ sent = [row |-> NoRow, at |-> 0, broken |-> 0] /\ broken = 1 /\ resets = 0

-----------------------------------------------------------------------------
(* observe of reversal_sequence.py, on the slice that ends now.            *)
Onset == clock - Length
Split == Onset + Early
Turn == clock - Trigger

Units(a, b) == {u \in a .. b - 1 : tape[u].seen}
Latest(units) == CHOOSE u \in units : \A v \in units : v <= u
Oldest(units) == CHOOSE u \in units : \A v \in units : u <= v
Lowest(units) == CHOOSE p \in {tape[u].price : u \in units} : \A u \in units : p <= tape[u].price
Change(units) == tape[Latest(units)].price - tape[Oldest(units)].price

\* The level and the observations reach back to the start.
Continuous ==
  /\ Known <= Onset
  /\ feeds.tape <= Onset /\ 0 < feeds.book /\ feeds.book <= Onset

\* Observed trades reach both ends of each phase: quiet gaps are unknown.
Heard == \A u \in {Onset, Split - 1, Split, Turn - 1, Turn, clock - 1} : tape[u].seen

Pushes(u) == tape[u].against > 0
Rate(units) == Cardinality({u \in units : Pushes(u)})

Pressure ==
  LET early == Units(Onset, Split)
  IN  /\ 2 * Rate(early) > Cardinality(early)
      /\ \E u \in early : tape[u].price < 0
FailedExtension ==
  /\ Lowest(Units(Split, Turn)) >= Lowest(Units(Onset, Split))
  /\ Change(Units(Split, Turn)) >= 0
Exhaustion ==
  /\ FailedExtension /\ Rate(Units(Onset, Split)) > 0
  /\ Rate(Units(Split, Turn)) * Early < Rate(Units(Onset, Split)) * Late

Reclaimed == tape[clock - 1].price > 0 /\ Change(Units(Turn, clock)) > 0

\* What else it finds: "ofi" of the book covers the turn and "quotes" support it; a
\* "cascade" goes on; the flow is "trusted", defended ("absorbed") and has "turned".
Confirmed(found) ==
  /\ {"ofi", "quotes", "trusted", "turned"} \subseteq found /\ "cascade" \notin found
  /\ Pressure /\ FailedExtension /\ Reclaimed
  /\ "absorbed" \in found \/ Exhaustion

Observed(found) ==
  [state |-> IF Onset < 1 \/ ~Continuous \/ ~Heard \/ "ofi" \notin found THEN "UNAVAILABLE"
             ELSE IF Confirmed(found) THEN "CONFIRMED" ELSE "WAITING",
   start |-> Onset, end |-> clock, epoch |-> feeds.epoch]

Findings == {{}, {"ofi", "quotes", "trusted", "turned"}, {"ofi", "quotes", "trusted", "turned", "absorbed"},
             {"ofi", "quotes", "trusted", "turned", "absorbed", "cascade"}}

-----------------------------------------------------------------------------
(* Its use.                                                                *)
Valid(row) == row.state = "CONFIRMED" /\ clock - row.end <= Ttl

\* Mutated: a sequence is ready while it is recent.
ReadyAlone(row) == Valid(row)

\* delivery_ready: the book and the tape are those it was observed on.
Ready(row) ==
  /\ Valid(row) /\ feeds.tape <= row.start
  /\ 0 < feeds.book /\ feeds.book <= row.start /\ feeds.epoch = row.epoch

Idle == task' = NoTask
At(pc) == task' = [pc |-> pc, row |-> NoRow]

\* refresh_reversal: everything is frozen before the thread reads it.
Freezes(pc) ==
  /\ feeds.book > 0
  /\ \E found \in Findings : task' = [pc |-> pc, row |-> Observed(found)]

\* The book and the tape are still those of the slice.
Unbroken == 0 < feeds.book /\ feeds.epoch = task.row.epoch /\ feeds.tape <= task.row.start

\* The pass: a pending setup, or one that the sequence confirmed.
Observe ==
  /\ task.pc = "idle" /\ Open /\ Freezes("observing")
  /\ UNCHANGED <<tape, feeds, stage, sequence, sent, broken, resets>>

Observes ==
  /\ task.pc = "observing"
  /\ IF Unbroken THEN sequence' = task.row /\ At("observed") ELSE Idle /\ UNCHANGED sequence
  /\ UNCHANGED <<tape, feeds, stage, sent, broken, resets>>

\* augment: an alternative to the rule of the family, and never an override of
\* the alignment with the market, or of a reclaim that has to hold.
Decide(baseline, aligned, held) ==
  /\ task.pc = "observed" /\ stage = "pending"
  /\ IF ~baseline /\ aligned /\ held /\ Valid(sequence) THEN stage' = "confirmed" /\ At("decided")
     ELSE /\ stage' = IF baseline THEN "elsewhere" ELSE "pending"
          /\ Idle
  /\ UNCHANGED <<tape, feeds, sequence, sent, broken, resets>>

\* entry_ready of the pass.
Enters ==
  /\ task.pc = "decided" \/ (task.pc = "observed" /\ stage = "confirmed")
  /\ IF Ready(sequence) THEN At("entered") ELSE Idle
  /\ UNCHANGED <<tape, feeds, stage, sequence, sent, broken, resets>>

\* prepare_delivery observes it anew, beside the decision that stays as it was.
Prepare ==
  /\ task.pc = "entered" /\ Freezes("preparing")
  /\ UNCHANGED <<tape, feeds, stage, sequence, sent, broken, resets>>

Prepared ==
  /\ task.pc = "preparing"
  /\ IF Unbroken
       THEN /\ sequence' = task.row
            /\ IF Ready(task.row) THEN At("prepared") ELSE Idle
       ELSE Idle /\ UNCHANGED sequence
  /\ UNCHANGED <<tape, feeds, stage, sent, broken, resets>>

\* No context, another gate, no quote: there is no card in this pass.
Blocked ==
  /\ task.pc \in {"observed", "decided", "entered", "preparing", "prepared"} /\ Idle
  /\ UNCHANGED <<tape, feeds, stage, sequence, sent, broken, resets>>

\* finalize_delivery, dispatch_guard and the request, with no await between them.
Dispatch ==
  /\ task.pc = "prepared" /\ Ready(sequence)
  /\ stage' = "sent" /\ sent' = [row |-> sequence, at |-> clock, broken |-> broken] /\ Idle
  /\ UNCHANGED <<tape, feeds, sequence, broken, resets>>

-----------------------------------------------------------------------------
(* The feeds, until the card or another decision.                          *)
Hear(slot) ==
  /\ Open /\ clock < MaxNow /\ tape' = Append(tape, slot)
  /\ broken' = IF feeds.book = 0 THEN clock + 1 ELSE broken
  /\ UNCHANGED <<feeds, stage, sequence, task, sent, resets>>

TapeReset ==
  /\ Open /\ resets < MaxResets /\ resets' = resets + 1
  /\ feeds' = [feeds EXCEPT !.tape = clock] /\ broken' = clock
  /\ UNCHANGED <<tape, stage, sequence, task, sent>>

\* Book.reset, until the next snapshot.
BookReset ==
  /\ Open /\ resets < MaxResets /\ resets' = resets + 1
  /\ feeds' = [feeds EXCEPT !.book = 0, !.epoch = feeds.epoch + 1] /\ broken' = clock
  /\ UNCHANGED <<tape, stage, sequence, task, sent>>

BookStarts ==
  /\ Open /\ feeds.book = 0 /\ feeds' = [feeds EXCEPT !.book = clock]
  /\ UNCHANGED <<tape, stage, sequence, task, sent, broken, resets>>

Next ==
  \/ Observe \/ Observes \/ Enters \/ Prepare \/ Prepared \/ Blocked \/ Dispatch
  \/ \E baseline, aligned, held \in BOOLEAN : Decide(baseline, aligned, held)
  \/ \E slot \in Slots : Hear(slot)
  \/ TapeReset \/ BookReset \/ BookStarts

Spec == Init /\ [][Next]_reversalVars
-----------------------------------------------------------------------------
Rows == [state : {"UNAVAILABLE", "WAITING", "CONFIRMED"}, start : Int, end : Nat, epoch : Nat]

TypeOK ==
  /\ tape \in Seq(Slots)
  /\ feeds \in [tape : Nat, book : Nat, epoch : Nat]
  /\ stage \in {"pending", "confirmed", "elsewhere", "sent"}
  /\ sequence \in Rows /\ task.row \in Rows
  /\ task.pc \in {"idle", "observing", "observed", "decided", "entered", "preparing", "prepared"}
  /\ sent.row \in Rows /\ sent.at \in Nat /\ sent.broken \in Nat
  /\ broken \in Nat /\ resets \in Nat

\* A card of a staged reversal is sent within 15 s of a turn that nothing interrupted:
\* since the start of the pressure there was a book and a tape, volume against the
\* setup came beyond the level, and after it the price rose above the level, whatever
\* was reset while the thread read, or between the checks and the request (observe,
\* refresh_reversal, dispatch_guard).
TurnHolds ==
  sent.at # 0 =>
    /\ sent.at <= sent.row.end + Ttl /\ sent.broken <= sent.row.start
    /\ \E u \in sent.row.start .. sent.row.end - Trigger - 1, v \in sent.row.end - Trigger .. sent.row.end - 1 :
         /\ tape[u].seen /\ tape[u].price < 0 /\ tape[v].seen /\ tape[v].price > 0
         /\ \E w \in sent.row.end - Trigger .. v - 1 : tape[w].seen /\ tape[w].price < tape[v].price
=============================================================================
