---------------------------- MODULE Confirmation ----------------------------
(***************************************************************************)
(* How one new setup is confirmed and its card is sent: the evaluation     *)
(* pass (scanner_confirmation.py), the trade quality that follows it       *)
(* (quality_v22.py, quality_v211.py), the production gate with its ledger  *)
(* (v8_gating.py) and the checks of the delivery (setup_runtime.py).       *)
(*                                                                         *)
(* The pass works on a copy of the row and gives way at every await.  In   *)
(* between, the book is reset, a pause for news begins, the process fails, *)
(* and the lifecycle tick writes a copy of its own that may be older than  *)
(* the row.  What the pass concludes from prints and books is free; when   *)
(* it may conclude, from which state of the feed, and what becomes of the  *)
(* conclusion is the code's.  The delivery itself is AlertDelivery's.      *)
(***************************************************************************)
EXTENDS Naturals

CONSTANTS
  Policies,     \* trade-quality policies: "v211", "v22"
  Staged,       \* reversal_sequence.enabled: the pass refreshes the sequence
  Short,        \* execution windows under 900 s (FLOW_EXECUTION_WINDOW_SECONDS)
  CandleTicks,  \* the length of a 900 s window's candle, in ticks of the clock
  TriggerEnd,   \* trigger_expires_ms
  MaxNow,       \* bound of the clock
  MaxPauses,    \* pauses for news
  MaxResets,    \* resets of the book or failures of the recorder
  MaxFaults     \* passes that raise, or a process that dies

ASSUME ConfirmationAssumption ==
  /\ Policies \subseteq {"v211", "v22"} /\ Policies # {}
  /\ Short \in BOOLEAN /\ Staged \in BOOLEAN
  /\ CandleTicks \in Nat \ {0}
  /\ TriggerEnd \in Nat /\ MaxNow \in Nat /\ TriggerEnd < MaxNow
  /\ MaxPauses \in Nat /\ MaxResets \in Nat /\ MaxFaults \in Nat

VARIABLES
  now,
  policy,      \* production_policies.trade_quality of the setup
  row,         \* the setup in the table signals
  ledger,      \* its row in v8_gate_decisions
  job,         \* the pass: where it awaits, with its copy of the setup
  tick,        \* the copy of the lifecycle tick
  feed,        \* the book and tape of the symbol, and the recorder
  news,        \* macro_pause_active
  card,        \* the end of the window of the decision that was sent
  lastPause,   \* history: the last pass that deferred the confirmed setup before its card
  forgotten,   \* history: a gate decision in the ledger did not reach the row, or left it
  undeferred,  \* history: a stale copy of the tick took a deferral away
  pauses, resets, faults

chance == <<news, pauses, resets, faults>>
history == <<lastPause, forgotten, undeferred>>
vars == <<now, policy, row, ledger, job, tick, feed, card, chance, history>>

Times == 0 .. MaxNow
Epochs == 0 .. MaxResets
Verdicts == {"passed", "blocked"}
Open == {"PENDING", "CONFIRMED", "ALERTED"}
Closed == {"EXPIRED", "INVALIDATED"}

\* A decision: the epochs of the book that its features and its price are of.
Vectors == [features : Epochs, priced : Epochs]
NoVector == [features |-> MaxResets + 1, priced |-> MaxResets + 1]
Setups == [state : Open \cup Closed, scored : BOOLEAN,
           gate : Verdicts \cup {"none"}, deferred : Times, vector : Vectors \cup {NoVector}]
NewSetup == [state |-> "PENDING", scored |-> FALSE, gate |-> "none",
             deferred |-> 0, vector |-> NoVector]
NoSetup == [NewSetup EXCEPT !.state = "absent"]
NoCard == MaxNow + 1    \* else the end of the window the card rests on

Init ==
  /\ now = 0 /\ policy \in Policies
  /\ row = NewSetup
  /\ ledger = "none" /\ tick = NoSetup /\ card = NoCard
  /\ job = [pc |-> "idle", s |-> NoSetup, end |-> 0, epoch |-> 0]
  /\ feed = [valid |-> TRUE, epoch |-> 0, covered |-> TRUE, recording |-> TRUE]
  /\ news = FALSE /\ pauses = 0 /\ resets = 0 /\ faults = 0
  /\ lastPause = 0 /\ forgotten = FALSE /\ undeferred = FALSE

-----------------------------------------------------------------------------
(* The table.                                                              *)

\* Store.signal: a terminal row is never written again.
Saved(s) == IF row.state \in Closed THEN row ELSE s
Save(s) == row' = Saved(s)

\* Mutant: a payload is replaced whatever the state of the row.
MonitoredAlways(s) == [s EXCEPT !.state = row.state]

\* Store.monitor: the payload is replaced, by a copy that may be older, when the
\* state is unchanged.
Monitored(s) == IF row.state = s.state THEN s ELSE row

Idle == job' = [pc |-> "idle", s |-> NoSetup, end |-> 0, epoch |-> 0]
Ends(s) == Save(s) /\ Idle
AwaitsIn(pc, s, end) == job' = [pc |-> pc, s |-> s, end |-> end, epoch |-> 0]
Awaits(pc, s) == job' = [job EXCEPT !.pc = pc, !.s = s, !.epoch = 0]

-----------------------------------------------------------------------------
(* The turn of a setup, up to its first await.                             *)

\* The last window closed.  A short one is that of the minute for a setup not yet
\* scored, and for a scored one the window it was generated with.
WindowEnd(s) ==
  IF Short THEN (IF s.scored THEN 0 ELSE now) ELSE now - (now % CandleTicks)
WindowFresh(end) == now - end <= (IF Short THEN 2 ELSE CandleTicks)
BookFresh == feed.valid
Healthy(s) == feed.recording /\ BookFresh /\ feed.covered /\ WindowFresh(WindowEnd(s))

\* active_signals, before the setups of the pass.
Load ==
  /\ job.pc = "idle" /\ row.state \in {"PENDING", "CONFIRMED"}
  /\ Awaits("loaded", row)
  /\ UNCHANGED <<now, policy, row, ledger, tick, feed, card, chance, history>>

Turn == job.pc = "loaded"
Unchanged == UNCHANGED <<now, policy, ledger, tick, feed, card, chance>>

\* Mutant: the window of the trigger does not close a setup.
ElapsedNever == FALSE
Elapsed == now >= TriggerEnd

TurnExpires ==
  /\ Turn /\ Elapsed
  /\ Ends([job.s EXCEPT !.state = "EXPIRED"])
  /\ UNCHANGED history /\ Unchanged

\* A pause for news defers whatever the state of the setup.
TurnDefers ==
  /\ Turn /\ ~Elapsed /\ news
  /\ Ends([job.s EXCEPT !.deferred = now])
  /\ lastPause' = IF job.s.state = "CONFIRMED" /\ card = NoCard THEN now ELSE lastPause
  /\ UNCHANGED <<forgotten, undeferred>> /\ Unchanged

\* No context, tape or book: the symbol is not selected, or not connected yet.
TurnUncovered ==
  /\ Turn /\ ~Elapsed /\ ~news /\ ~feed.covered
  /\ Ends(job.s)
  /\ UNCHANGED history /\ Unchanged

\* The coverage of the pass; the deferral is kept.
Checked(s) == [s EXCEPT !.deferred = s.deferred]

\* What follows the refresh of the sequence, with the health observed before it.
Proceed(s, healthy, end) ==
  \/ /\ s.state = "CONFIRMED" /\ healthy
     /\ \/ s.deferred = 0 /\ AwaitsIn("ready", s, end)
        \/ s.deferred > 0 /\ AwaitsIn("resume", s, end)
     /\ UNCHANGED row
  \/ /\ s.scored /\ ~(s.state = "CONFIRMED" /\ healthy)
     /\ Idle /\ UNCHANGED row
  \/ /\ ~s.scored /\ s.state = "PENDING"
     /\ IF healthy
          THEN /\ Save(s)
               /\ AwaitsIn("footprint", s, end)
          ELSE Ends(s)

Evaluates == Turn /\ ~Elapsed /\ ~news

TurnProceeds ==
  /\ Evaluates /\ ~(Staged /\ Healthy(job.s))
  /\ Proceed(Checked(job.s), Healthy(job.s), WindowEnd(job.s))
  /\ UNCHANGED history /\ Unchanged

\* refresh_reversal observes the sequence in a worker thread.
TurnRefreshes ==
  /\ Evaluates /\ Staged /\ Healthy(job.s)
  /\ job' = [pc |-> "reversal", s |-> Checked(job.s), end |-> WindowEnd(job.s), epoch |-> feed.epoch]
  /\ UNCHANGED <<row, history>> /\ Unchanged

\* The sequence is of no use when the book or the tape was reset meanwhile.
Refreshed ==
  /\ job.pc = "reversal"
  /\ IF BookFresh /\ feed.epoch = job.epoch /\ feed.covered
       THEN Proceed(job.s, TRUE, job.end)
       ELSE Ends(job.s)
  /\ UNCHANGED history /\ Unchanged

-----------------------------------------------------------------------------
(* The decision.                                                           *)

\* The footprint is back: the features of the book are taken, if it has any.
FootprintDone ==
  /\ job.pc = "footprint"
  /\ IF feed.valid
       THEN job' = [job EXCEPT !.pc = "quality", !.epoch = feed.epoch] /\ UNCHANGED row
       ELSE Ends(job.s)
  /\ UNCHANGED history /\ Unchanged

\* Mutant: only the validity of the book is looked at again.
SameBookAny == feed.valid

\* The book the features are of is still there after flow response and quality.
SameBook == feed.valid /\ feed.epoch = job.epoch

BookGap ==
  /\ job.pc = "quality" /\ ~SameBook
  /\ Ends(job.s)
  /\ UNCHANGED history /\ Unchanged

\* Gates of flow, spread, derivatives, risk, alignment: the setup waits for evidence.
\* Only v22 assessments score, and unscore, a setup that is rejected here.
Rejected ==
  /\ job.pc = "quality" /\ SameBook
  /\ Ends(job.s)
  /\ UNCHANGED history /\ Unchanged

\* The score latches the setup: it is not evaluated again.  v22 takes the score of a
\* provisional rejection back, whoever raised the gate.
Latched(gated, scored) == IF policy = "v22" THEN ~gated ELSE scored

\* apply_new_candidate: the production gate is applied once to a setup.
GateOpen(s) == s.gate = "none"

\* Scoring, the production gate and trade quality.  "at" is where the evidence raised,
\* which is a gate of its own: before the score, before the gate, after it, or nowhere.
Decision(s, at, verdict, refused) ==
  LET evaluated == GateOpen(s) /\ at \in {"nowhere", "after gate"}
      blocked == evaluated /\ verdict = "blocked"
      gated == at # "nowhere" \/ blocked \/ refused
  IN [state |-> IF gated THEN "PENDING" ELSE "CONFIRMED",
      scored |-> Latched(gated, at # "before score"),
      gate |-> IF evaluated THEN verdict ELSE s.gate,
      deferred |-> s.deferred,
      vector |-> IF gated THEN NoVector
                 ELSE [features |-> job.epoch, priced |-> feed.epoch]]

\* The ledger takes the first decision and commits before the setup is saved.
Recorded(s, at, verdict) ==
  IF ledger = "none" /\ GateOpen(s) /\ at \in {"nowhere", "after gate"} THEN verdict ELSE ledger

Raises == {"before score", "before gate", "after gate", "nowhere"}

Decided ==
  /\ job.pc = "quality" /\ SameBook
  /\ \E at \in Raises, verdict \in Verdicts, refused \in BOOLEAN :
       LET s == Decision(job.s, at, verdict, refused) IN
       /\ Save(s)
       /\ ledger' = Recorded(job.s, at, verdict)
       /\ IF s.state = "CONFIRMED" /\ feed.recording
            THEN Awaits("ready", s)
            ELSE Idle
  /\ UNCHANGED <<now, policy, tick, feed, card, chance, history>>

\* The gate is recorded, and the setup cannot be saved: the pass raises.
DecidedUnsaved ==
  /\ job.pc = "quality" /\ SameBook /\ faults < MaxFaults
  /\ faults' = faults + 1
  /\ \E verdict \in Verdicts : ledger' = Recorded(job.s, "nowhere", verdict)
  /\ Idle
  /\ forgotten' = (forgotten \/ GateOpen(job.s))
  /\ UNCHANGED <<now, policy, row, tick, feed, card, news, pauses, resets, lastPause, undeferred>>

-----------------------------------------------------------------------------
(* The delivery of a confirmed setup.                                      *)

\* After a pause, a window that closed since must support the setup.
Resumed ==
  /\ job.pc = "resume"
  /\ \/ job.end > job.s.deferred /\ Awaits("ready", job.s)
     \/ Idle
  /\ UNCHANGED <<row, history>> /\ Unchanged

\* entry_ready, on the book of the moment: the window, the quote, the price.
EntryOpen == ~Elapsed /\ feed.valid

Readied ==
  /\ job.pc = "ready"
  /\ \/ EntryOpen /\ Awaits("sending", job.s)
     \/ Idle
  /\ UNCHANGED <<row, history>> /\ Unchanged

\* What finalize_delivery and dispatch_guard ask of the moment, with no await before the
\* request; they, and the flow prepared before them, concern v22 only.
CheckPasses == EntryOpen /\ feed.recording
Guarded == feed.valid
Dispatchable == policy = "v22" => (CheckPasses /\ Guarded)

\* At most one card, and none for a setup closed meanwhile: AlertDelivery.
Dispatched ==
  /\ job.pc = "sending" /\ Dispatchable /\ card = NoCard /\ row.state = "CONFIRMED"
  /\ card' = job.end
  /\ Awaits("reply", job.s)
  /\ row' = Monitored(job.s)
  /\ UNCHANGED <<now, policy, ledger, tick, feed, chance, history>>

NotDispatched ==
  /\ job.pc = "sending"
  /\ Idle
  /\ UNCHANGED <<row, history>> /\ Unchanged

Replied ==
  /\ job.pc = "reply"
  /\ \/ Ends([job.s EXCEPT !.state = "ALERTED"])
     \/ Idle /\ UNCHANGED row
  /\ UNCHANGED history /\ Unchanged

-----------------------------------------------------------------------------
(* The lifecycle tick, which holds its copy while it selects the streams.  *)

TickLoads ==
  /\ tick = NoSetup /\ row.state \in Open
  /\ tick' = row
  /\ UNCHANGED <<now, policy, row, ledger, job, feed, card, chance, history>>

TickMonitors ==
  /\ tick # NoSetup /\ ~(tick.state \in {"PENDING", "CONFIRMED"} /\ Elapsed)
  /\ row' = Monitored(tick)
  /\ tick' = NoSetup
  /\ forgotten' = (forgotten \/ row'.gate # row.gate)
  /\ undeferred' = (undeferred \/ row'.deferred # row.deferred)
  /\ UNCHANGED <<now, policy, ledger, job, feed, card, chance, lastPause>>

\* The deadline of a setup not sent, or its stop.
TickCloses ==
  /\ tick # NoSetup
  /\ \/ Elapsed /\ tick.state # "ALERTED" /\ Save([tick EXCEPT !.state = "EXPIRED"])
     \/ Save([tick EXCEPT !.state = "INVALIDATED"])
  /\ tick' = NoSetup
  /\ UNCHANGED <<now, policy, ledger, job, feed, card, chance, history>>

-----------------------------------------------------------------------------
(* The world.                                                              *)
Live == row.state \in Open \ {"ALERTED"} \/ job.pc # "idle"
World == UNCHANGED <<policy, row, ledger, job, tick, card, history>>

\* macro.state: the pause begins and ends with the calendar.
Clock ==
  /\ Live /\ now < MaxNow /\ now' = now + 1
  /\ UNCHANGED <<feed, chance>> /\ World

NewsBegins ==
  /\ Live /\ ~news /\ pauses < MaxPauses /\ news' = TRUE /\ pauses' = pauses + 1
  /\ UNCHANGED <<now, feed, resets, faults>> /\ World

NewsEnds ==
  /\ news /\ news' = FALSE
  /\ UNCHANGED <<now, feed, pauses, resets, faults>> /\ World

\* The book is reset, alone or with the tape, or the recorder fails.
FeedFails ==
  /\ Live /\ resets < MaxResets /\ resets' = resets + 1
  /\ \/ feed' = [feed EXCEPT !.recording = FALSE]
     \/ \E covered \in {feed.covered, FALSE} :
          feed' = [feed EXCEPT !.valid = FALSE, !.covered = covered, !.epoch = @ + 1]
  /\ UNCHANGED <<now, news, pauses, faults>> /\ World

\* A snapshot, and trades over a whole window, and the recorder come back in any order.
FeedRecovers ==
  /\ \/ ~feed.valid /\ feed' = [feed EXCEPT !.valid = TRUE]
     \/ ~feed.covered /\ feed' = [feed EXCEPT !.covered = TRUE]
     \/ ~feed.recording /\ feed' = [feed EXCEPT !.recording = TRUE]
  /\ UNCHANGED <<now, chance>> /\ World

\* The pass raises, or the process dies: the copies are lost.
Fails ==
  /\ faults < MaxFaults /\ (job.pc # "idle" \/ tick # NoSetup)
  /\ faults' = faults + 1
  /\ Idle /\ tick' \in {tick, NoSetup}
  /\ UNCHANGED <<now, policy, row, ledger, feed, card, news, pauses, resets, history>>

Pass == \/ TurnExpires \/ TurnDefers \/ TurnUncovered \/ TurnProceeds \/ TurnRefreshes \/ Refreshed
        \/ FootprintDone \/ BookGap \/ Rejected \/ Decided \/ Resumed \/ Readied
        \/ Dispatched \/ NotDispatched \/ Replied
Tick == TickLoads \/ TickMonitors \/ TickCloses

Next == \/ Load \/ Pass \/ DecidedUnsaved \/ Tick
        \/ Clock \/ NewsBegins \/ NewsEnds \/ FeedFails \/ FeedRecovers \/ Fails

\* evaluation_loop goes on after a pass that raised, its awaits are calls of worker
\* threads and a request with a timeout, and time passes.
Fairness == WF_vars(Load) /\ WF_vars(Pass) /\ WF_vars(Clock)
Spec == Init /\ [][Next]_vars /\ Fairness

-----------------------------------------------------------------------------
TypeOK ==
  /\ now \in Times /\ policy \in Policies
  /\ row \in Setups /\ ledger \in Verdicts \cup {"none"}
  /\ job \in [pc : {"idle", "loaded", "reversal", "footprint", "quality", "resume", "ready", "sending", "reply"},
              s : Setups \cup {NoSetup}, end : Times, epoch : Epochs]
  /\ (job.pc = "idle") <=> (job.s = NoSetup)
  /\ tick \in Setups \cup {NoSetup}
  /\ feed \in [valid : BOOLEAN, epoch : Epochs, covered : BOOLEAN, recording : BOOLEAN]
  /\ card \in Times \cup {NoCard}
  /\ news \in BOOLEAN /\ pauses \in 0..MaxPauses /\ resets \in 0..MaxResets /\ faults \in 0..MaxFaults
  /\ lastPause \in Times /\ forgotten \in BOOLEAN /\ undeferred \in BOOLEAN

\* A confirmed decision is priced on the book its features were measured on, although
\* the pass gave way several times in between (scanner_confirmation.py, evaluate).
PricedOnBook == row.vector # NoVector => row.vector.features = row.vector.priced

Standing == {"CONFIRMED", "ALERTED"}

\* Nothing changes the decision of a confirmed setup while it is open, not the passes that
\* deliver it, a pass that is lost or a tick with an older copy (evaluate: "One immutable
\* first-covered execution decision per setup ID").
DecisionFrozen ==
  [][row.state \in Standing /\ row'.state \notin Closed
       => row'.state \in Standing /\ row'.vector = row.vector]_vars

\* A v21.1 setup is confirmed under the gate decision that the ledger keeps, unless the
\* row lost that decision: to a save that failed, or to an older copy of the tick.
GateKept ==
  (policy = "v211" /\ row.state = "CONFIRMED" /\ ~forgotten) => (ledger = "passed" /\ row.gate = ledger)

\* What a confirmed setup rests on, of one book and of one gate, whichever passes and
\* copies came in between.
DecisionSound == PricedOnBook /\ GateKept

\* The card of a setup that a pause deferred rests on a window that closed after the last
\* pass that saw the pause, unless an older copy of the tick took the deferral away.
DeferralHonoured == (card # NoCard /\ lastPause > 0 /\ ~undeferred) => card > lastPause

\* Every setup is sent or closed, whatever fails on the way: passes that raise, books
\* that are reset, pauses (evaluation_loop; the window of the trigger elapses).
SetupEnds == <>(row.state \in Closed \cup {"ALERTED"})

\* The production gate is a gate: a setup it blocks is not confirmed (docs/USER_RUNBOOK.md,
\* "New confirmations also face applicable market alignment, macro, and V8 gates").
GateEnforced == row.state = "CONFIRMED" => row.gate # "blocked"

=============================================================================
