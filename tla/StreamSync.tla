----------------------------- MODULE StreamSync -----------------------------
(***************************************************************************)
(* The public websocket of the desk (streams.py) with the tapes and books  *)
(* it feeds (orderflow.py): one connection, the task run that keeps it up, *)
(* and select, which rotates the subscriptions on the live connection or   *)
(* starts over.  The venue answers a request, and sends data, in order.    *)
(*                                                                         *)
(* Time is counted in instants, the milliseconds of the code.  Trades of a *)
(* symbol are numbered, and so are the updates of its book, so that what a *)
(* tape or a book has missed can be told.                                  *)
(***************************************************************************)
EXTENDS Naturals, Sequences, SequencesExt, FiniteSets, FiniteSetsExt, Functions

CONSTANTS
  Syms,        \* symbols
  Moving,      \* those whose market moves, the others are quiet
  MaxTrades,   \* trades on the venue
  MaxDepth,    \* updates of books on the venue, apart from those of Awaited
  TapeLen,     \* tape_max_trades
  MaxClock,    \* instants
  MaxSelects,  \* changes of the selection
  MaxFaults    \* lost connections, shed rows, failures of the recorder

ASSUME StreamAssumption ==
  /\ IsFiniteSet(Syms) /\ Syms # {} /\ Moving \subseteq Syms
  /\ TapeLen \in Nat \ {0}
  /\ MaxTrades \in Nat /\ MaxDepth \in Nat /\ MaxClock \in Nat
  /\ MaxSelects \in Nat /\ MaxFaults \in Nat

VARIABLES
  clock,
  trades,     \* the venue: the instants of the trades of each symbol
  depth,      \* the venue: the number of updates of each book
  subs,       \* the venue: the symbols subscribed on this connection
  link,       \* the connection: "none", "open" or "cut"
  up, down,   \* requests, and answers with data
  runAt,      \* the task run; "none" when there is none or it returned
  connected,  \* Streams.connected
  selected,   \* Streams.selected, the keys of books and tapes
  changes,    \* Streams.subscription_changes, by the instant of the request
  book, tape, \* Streams.books, Streams.tapes
  healthy,    \* Recorder.healthy
  selAt,      \* select: where it awaits, under selection_lock
  adding, removing,
  selects, faults

venue == <<clock, trades, depth>>
wire == <<subs, link, up, down>>
feeds == <<book, tape>>
selecting == <<selAt, adding, removing, selects>>
vars == <<venue, wire, runAt, connected, selected, changes, feeds, healthy, selecting, faults>>

Instants == 0 .. MaxClock
NoReq == MaxClock + 1    \* the first request of a connection has no req_id

NewBook == [valid |-> FALSE, at |-> 0, whole |-> FALSE]
NewTape == [start |-> 0, got |-> <<>>]
EmptyTape(t) == [start |-> t, got |-> <<>>]

\* After the first select, which starts the task: of what moves, or else nothing would.
Init ==
  /\ clock = 0
  /\ trades = [s \in Syms |-> <<>>] /\ depth = [s \in Syms |-> 0]
  /\ subs = {} /\ link = "none" /\ up = <<>> /\ down = <<>>
  /\ runAt = "top" /\ connected = FALSE /\ selected = Moving
  /\ changes = [r \in Instants |-> {}]
  /\ book = [s \in Syms |-> NewBook] /\ tape = [s \in Syms |-> NewTape]
  /\ healthy = TRUE
  /\ selAt = "idle" /\ adding = {} /\ removing = {}
  /\ selects = 0 /\ faults = 0

Fault == faults < MaxFaults /\ faults' = faults + 1

-----------------------------------------------------------------------------
(* The venue.  A desk never receives what it has not had time to be sent:  *)
(* see Arrived.                                                            *)
Tick ==
  /\ clock < MaxClock /\ clock' = clock + 1
  /\ UNCHANGED <<trades, depth, wire, runAt, connected, selected, changes, feeds, healthy,
                 selecting, faults>>

Feed(s, m) == down' = IF link = "open" /\ s \in subs THEN Append(down, m) ELSE down

VenueTrades(s) ==
  /\ clock < MaxClock /\ SumFunction([t \in Syms |-> Len(trades[t])]) < MaxTrades
  /\ trades' = [trades EXCEPT ![s] = Append(@, clock)]
  /\ Feed(s, [kind |-> "trade", sym |-> s, n |-> Len(trades[s]) + 1])
  /\ UNCHANGED <<clock, depth, subs, link, up, runAt, connected, selected, changes, feeds, healthy,
                 selecting, faults>>

\* MaxDepth bounds what happens while a book is valid: the venue goes on.
Awaited(s) == link = "open" /\ down = <<>> /\ s \in subs \cap selected /\ ~book[s].valid

VenueUpdates(s) ==
  /\ (s \in Moving /\ SumFunction(depth) < MaxDepth) \/ Awaited(s)
  /\ depth' = [depth EXCEPT ![s] = @ + 1]
  /\ Feed(s, [kind |-> "delta", sym |-> s, n |-> depth[s] + 1])
  /\ UNCHANGED <<clock, trades, subs, link, up, runAt, connected, selected, changes, feeds, healthy,
                 selecting, faults>>

\* A service restart of the venue repeats the snapshot on a live connection.
VenueRestates(s) ==
  /\ Fault
  /\ link = "open" /\ s \in subs
  /\ Feed(s, [kind |-> "snap", sym |-> s, n |-> depth[s]])
  /\ UNCHANGED <<venue, subs, link, up, runAt, connected, selected, changes, feeds, healthy, selecting>>

Snapshots(S) ==
  LET order == SetToSeq(S)
  IN  [k \in DOMAIN order |-> [kind |-> "snap", sym |-> order[k], n |-> depth[order[k]]]]

\* What is subscribed already may be refused.
VenueAnswers ==
  /\ up # <<>> /\ up' = Tail(up)
  /\ LET r == Head(up)
     IN  \/ /\ r.op = "unsub" /\ subs' = subs \ r.syms /\ UNCHANGED down
         \/ /\ r.op = "sub" /\ subs' = subs \cup r.syms
            /\ down' = Append(down, [kind |-> "ack", req |-> r.req]) \o Snapshots(r.syms)
         \/ /\ r.op = "sub" /\ r.syms \cap subs # {}
            /\ down' = Append(down, [kind |-> "nack"]) /\ UNCHANGED subs
  /\ UNCHANGED <<venue, link, runAt, connected, selected, changes, feeds, healthy, selecting, faults>>

Cut ==
  /\ Fault
  /\ link = "open" /\ link' = "cut" /\ subs' = {} /\ up' = <<>>
  /\ UNCHANGED <<venue, down, runAt, connected, selected, changes, feeds, healthy, selecting>>

-----------------------------------------------------------------------------
(* The task run.                                                           *)
NoLink == link' = "none" /\ subs' = {} /\ up' = <<>> /\ down' = <<>>

Invalidate ==
  /\ connected' = FALSE
  /\ book' = [s \in Syms |-> IF s \in selected THEN NewBook ELSE book[s]]
  /\ tape' = [s \in Syms |-> IF s \in selected THEN EmptyTape(clock) ELSE tape[s]]

Raised ==
  /\ Invalidate /\ NoLink /\ runAt' = "top"
  /\ UNCHANGED <<venue, selected, changes, selecting>>

\* A turn of the loop: it returns when the recorder is unhealthy.  A connection that
\* cannot be opened leaves everything as it was.
GiveUp ==
  /\ runAt = "top" /\ ~healthy /\ runAt' = "none" /\ Invalidate
  /\ UNCHANGED <<venue, wire, selected, changes, healthy, selecting, faults>>

Connect ==
  /\ runAt = "top" /\ healthy /\ runAt' = "live" /\ Invalidate
  /\ link' = "open" /\ subs' = {} /\ down' = <<>>
  /\ up' = <<[op |-> "sub", syms |-> selected, req |-> NoReq]>>
  /\ changes' = [r \in Instants |-> {}]
  /\ UNCHANGED <<venue, selected, healthy, selecting, faults>>

\* wait_for_capacity of an unhealthy recorder, and recv of a lost connection.
Interrupted ==
  /\ runAt = "live" /\ (~healthy \/ link = "cut")
  /\ Raised /\ UNCHANGED <<healthy, faults>>

\* The recorder does not recover within the two seconds a feed can wait, or
\* overflows while it takes a row.
BackedUp ==
  /\ runAt = "live" /\ Fault /\ Raised
  /\ healthy' \in {healthy, FALSE}

\* Latency: what happened at this very instant cannot have been received, so the
\* receptions of an instant are placed before its trades.
Arrived == \A s \in Syms : \A k \in DOMAIN trades[s] : trades[s][k] < clock

Receives(kinds) ==
  /\ runAt = "live" /\ healthy /\ Arrived
  /\ down # <<>> /\ Head(down).kind \in kinds
  /\ down' = Tail(down)
  /\ UNCHANGED <<subs, link, up>>

Ack ==
  /\ Receives({"ack"}) /\ connected' = TRUE
  /\ LET req == Head(down).req
         added == IF req \in Instants THEN changes[req] ELSE {}
         confirmed == IF added # {} THEN added ELSE selected
     IN  /\ changes' = [r \in Instants |-> IF r = req THEN {} ELSE changes[r]]
         /\ tape' = [s \in Syms |->
                       IF s \in confirmed \cap selected THEN EmptyTape(clock) ELSE tape[s]]
  /\ UNCHANGED <<venue, runAt, selected, book, healthy, selecting, faults>>

Nack ==
  /\ runAt = "live" /\ healthy /\ down # <<>> /\ Head(down).kind = "nack"
  /\ Raised /\ UNCHANGED <<healthy, faults>>

\* process: data of a symbol that is no longer selected.
Ignored ==
  /\ Receives({"trade", "delta", "snap"}) /\ Head(down).sym \notin selected
  /\ UNCHANGED <<venue, runAt, connected, selected, changes, feeds, healthy, selecting, faults>>

\* process: a row of a symbol that is not critical is shed under pressure.
Shed ==
  /\ Fault /\ Receives({"trade", "delta", "snap"}) /\ Head(down).sym \in selected
  /\ book' = [book EXCEPT ![Head(down).sym] = NewBook]
  /\ tape' = [tape EXCEPT ![Head(down).sym] = EmptyTape(clock)]
  /\ UNCHANGED <<venue, runAt, connected, selected, changes, healthy, selecting>>

\* Book.apply
Snapshot ==
  /\ Receives({"snap"}) /\ Head(down).sym \in selected
  /\ book' = [book EXCEPT ![Head(down).sym] = [valid |-> TRUE, at |-> Head(down).n, whole |-> TRUE]]
  /\ UNCHANGED <<venue, runAt, connected, selected, changes, tape, healthy, selecting, faults>>

\* Mutant: the first delta fills an empty book.
AppliesAny(m) == m.n > book[m.sym].at

Applies(m) == book[m.sym].valid /\ m.n > book[m.sym].at

Delta ==
  /\ Receives({"delta"}) /\ Head(down).sym \in selected /\ Applies(Head(down))
  /\ LET m == Head(down)
         b == book[m.sym]
     IN  book' = [book EXCEPT ![m.sym] =
                    [valid |-> TRUE, at |-> m.n, whole |-> b.whole /\ m.n = b.at + 1]]
  /\ UNCHANGED <<venue, runAt, connected, selected, changes, tape, healthy, selecting, faults>>

DeltaGap ==
  /\ runAt = "live" /\ healthy /\ down # <<>> /\ Head(down).kind = "delta"
  /\ Head(down).sym \in selected /\ ~Applies(Head(down))
  /\ Raised /\ UNCHANGED <<healthy, faults>>

\* Mutant: the interval of a full tape does not shrink.
AddedOnly(s, n) ==
  LET t == tape[s]
      full == Len(t.got) = TapeLen
  IN  [start |-> t.start, got |-> Append(IF full THEN Tail(t.got) ELSE t.got, n)]

\* Tape.add: a full tape gives up its oldest trade and the instants up to it.
Added(s, n) ==
  LET t == tape[s]
      full == Len(t.got) = TapeLen
      past == trades[s][Head(t.got)] + 1
  IN  [start |-> IF full /\ past > t.start THEN past ELSE t.start,
       got |-> Append(IF full THEN Tail(t.got) ELSE t.got, n)]

Trade ==
  /\ Receives({"trade"}) /\ Head(down).sym \in selected
  /\ tape' = [tape EXCEPT ![Head(down).sym] = Added(Head(down).sym, Head(down).n)]
  /\ UNCHANGED <<venue, runAt, connected, selected, changes, book, healthy, selecting, faults>>

-----------------------------------------------------------------------------
(* The recorder.                                                           *)
RecorderFails ==
  /\ healthy /\ Fault /\ healthy' = FALSE
  /\ UNCHANGED <<venue, wire, runAt, connected, selected, changes, feeds, selecting>>

RecorderHeals ==
  /\ ~healthy /\ healthy' = TRUE
  /\ UNCHANGED <<venue, wire, runAt, connected, selected, changes, feeds, selecting, faults>>

-----------------------------------------------------------------------------
(* select.                                                                 *)
\* stop, then new books, tapes and task.
StartOver(goal) ==
  /\ NoLink /\ connected' = FALSE /\ selected' = goal
  /\ book' = [s \in Syms |-> NewBook] /\ tape' = [s \in Syms |-> NewTape]
  /\ runAt' = IF goal = {} THEN "none" ELSE "top"
  /\ selAt' = "idle" /\ adding' = {} /\ removing' = {}

\* Mutant: a task that has returned counts as running.
UpToDateBySet(goal) == goal = selected /\ selected # {}

UpToDate(goal) == goal = selected /\ runAt # "none"

\* Books and tapes of what comes and goes, before anything is sent.
Rotate(goal) ==
  /\ connected
  /\ adding' = goal \ selected /\ removing' = selected \ goal
  /\ selected' = goal
  /\ book' = [s \in Syms |-> IF s \in selected \cap goal THEN book[s] ELSE NewBook]
  /\ tape' = [s \in Syms |-> IF s \in selected \cap goal THEN tape[s] ELSE NewTape]
  /\ selAt' = IF removing' # {} THEN "unsub" ELSE "sub"
  /\ UNCHANGED <<wire, runAt, connected>>

Select(goal) ==
  /\ selAt = "idle" /\ ~UpToDate(goal)
  /\ \/ goal = selected /\ UNCHANGED selects
     \/ goal # selected /\ selects < MaxSelects /\ selects' = selects + 1
  /\ \/ Rotate(goal)
     \/ ~connected /\ StartOver(goal)
  /\ UNCHANGED <<venue, changes, healthy, faults>>

\* The connection may be another by now, or none.
Sends(r) ==
  /\ runAt = "live"
  /\ up' = IF link = "open" THEN Append(up, r) ELSE up
  /\ UNCHANGED <<subs, link, down>>

SendUnsub ==
  /\ selAt = "unsub" /\ Sends([op |-> "unsub", syms |-> removing])
  /\ removing' = {} /\ UNCHANGED adding
  /\ selAt' = IF adding = {} THEN "idle" ELSE "sub"
  /\ UNCHANGED <<venue, runAt, connected, selected, changes, feeds, healthy, selects, faults>>

SendSub ==
  /\ selAt = "sub" /\ Sends([op |-> "sub", syms |-> adding, req |-> clock])
  /\ changes' = [changes EXCEPT ![clock] = adding]
  /\ adding' = {} /\ selAt' = "idle" /\ UNCHANGED removing
  /\ UNCHANGED <<venue, runAt, connected, selected, feeds, healthy, selects, faults>>

\* No connection to send on, or a lost one, or no room to record the rotation.
SendFails ==
  /\ selAt \in {"unsub", "sub"}
  /\ \/ (runAt # "live" \/ link = "cut") /\ UNCHANGED <<healthy, faults>>
     \/ Fault /\ healthy' = FALSE
  /\ changes' = IF selAt = "sub" THEN [changes EXCEPT ![clock] = adding] ELSE changes
  /\ StartOver(selected)
  /\ UNCHANGED <<venue, selects>>

-----------------------------------------------------------------------------
Run ==
  \/ GiveUp \/ Connect \/ Interrupted \/ BackedUp
  \/ Ack \/ Nack \/ Ignored \/ Shed \/ Snapshot \/ Delta \/ DeltaGap \/ Trade

Venue ==
  \/ VenueAnswers \/ Cut
  \/ \E s \in Moving : VenueTrades(s)
  \/ \E s \in Syms : VenueUpdates(s) \/ VenueRestates(s)

Selecting == SendUnsub \/ SendSub \/ SendFails \/ \E goal \in SUBSET Syms : Select(goal)

Next == Tick \/ Venue \/ Run \/ Selecting \/ RecorderFails \/ RecorderHeals

Spec == Init /\ [][Next]_vars

Received == Ack \/ Nack \/ Ignored \/ Snapshot \/ Delta \/ DeltaGap \/ Trade

FairSpec ==
  /\ Spec
  /\ WF_vars(Tick) /\ WF_vars(VenueAnswers) /\ WF_vars(RecorderHeals)
  /\ WF_vars(GiveUp \/ Connect) /\ WF_vars(Interrupted) /\ WF_vars(Received)
  /\ \A s \in Syms : WF_vars(Awaited(s) /\ VenueUpdates(s))
  /\ WF_vars(SendUnsub \/ SendSub \/ SendFails) /\ WF_vars(Select(selected))

-----------------------------------------------------------------------------
(* Properties.                                                             *)

\* What the variables hold: a tape never more than it can (Tape.add), and only
\* what the venue traded.
TypeOK ==
  /\ clock \in Instants
  /\ trades \in [Syms -> Seq(Instants)] /\ depth \in [Syms -> Nat]
  /\ subs \subseteq Syms /\ selected \subseteq Syms
  /\ link \in {"none", "open", "cut"} /\ runAt \in {"none", "top", "live"}
  /\ connected \in BOOLEAN /\ healthy \in BOOLEAN
  /\ changes \in [Instants -> SUBSET Syms]
  /\ \A s \in Syms :
       /\ book[s].at \in 0 .. depth[s]
       /\ tape[s].start \in Instants /\ Len(tape[s].got) <= TapeLen
       /\ \A k \in DOMAIN tape[s].got : tape[s].got[k] \in DOMAIN trades[s]
  /\ selAt \in {"idle", "unsub", "sub"} /\ adding \subseteq selected /\ removing \subseteq Syms
  /\ selects \in 0 .. MaxSelects /\ faults \in 0 .. MaxFaults

\* No rotation is under way and no request for a subscription is lost or unanswered.
Settled ==
  /\ selAt = "idle" /\ link = "open"
  /\ \A k \in DOMAIN up : up[k].op # "sub"
  /\ \A k \in DOMAIN down : down[k].kind # "ack"

\* A book that says it is valid is the book of the venue at its update, none
\* missed, and is fed by a connection: through rotations, shed rows, repeated
\* snapshots and reconnections (Book.apply, Streams.process).
BookExact ==
  \A s \in selected : book[s].valid => book[s].whole /\ runAt = "live"

\* Once subscriptions are settled, a tape holds every trade of its symbol between
\* the start of the coverage it claims and its newest trade (Tape.coverage_start).
CoverageHonest ==
  Settled =>
    \A s \in selected :
      LET got == tape[s].got
      IN  got # <<>> => \A n \in 1 .. Last(got) :
                          trades[s][n] >= tape[s].start => \E k \in DOMAIN got : got[k] = n

\* Once subscriptions are settled, a connected stream is subscribed to every symbol
\* that is selected, however rotation and reconnection fell together.
Subscribed ==
  Settled /\ connected => selected \subseteq subs

\* The stream comes back: when connections last and the recorder is well, every
\* selected symbol has a valid book in the end, as lifecycle goes on selecting.
Resync ==
  <>[](selected = {} \/ (connected /\ \A s \in selected : book[s].valid))

=============================================================================
