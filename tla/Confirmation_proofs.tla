------------------------ MODULE Confirmation_proofs ------------------------
(***************************************************************************)
(* Theorems about Confirmation, for every clock, window, number of pauses, *)
(* resets and failures.  The row, the copy of the pass and the copy of the *)
(* tick are three versions of one setup: the invariant says what each of   *)
(* them keeps on its own (Sound), how the two copies stand to the row they *)
(* may be written over (PassInv, TickInv), and what the ledger knows.      *)
(***************************************************************************)
EXTENDS Confirmation, TLAPS

Deciding == {"footprint", "quality"}
Delivering == {"resume", "ready", "sending", "reply"}
Places == {"idle", "loaded", "reversal", "footprint", "quality", "resume", "ready", "sending", "reply"}

-----------------------------------------------------------------------------
(* Types.                                                                  *)

LEMMA SetupFields ==
  ASSUME NEW s \in Setups
  PROVE  /\ s.state \in Open \cup Closed /\ s.scored \in BOOLEAN
         /\ s.gate \in Verdicts \cup {"none"} /\ s.deferred \in Times
         /\ s.vector \in Vectors \cup {NoVector}
         /\ s # NoSetup
  BY DEF Setups, NoSetup, NewSetup, Open, Closed

LEMMA SetupChanged ==
  ASSUME NEW s \in Setups
  PROVE  /\ \A state \in Open \cup Closed : [s EXCEPT !.state = state] \in Setups
         /\ \A t \in Times : [s EXCEPT !.deferred = t] \in Setups
         /\ Checked(s) = s
  BY DEF Setups, Checked

LEMMA Basics ==
  /\ MaxNow \in Nat /\ MaxResets \in Nat /\ MaxPauses \in Nat /\ MaxFaults \in Nat
  /\ CandleTicks \in Nat \ {0} /\ 0 \in Times /\ 0 \in Epochs
  /\ NoVector \notin Vectors /\ NewSetup \in Setups
  BY ConfirmationAssumption DEF Times, Epochs, Vectors, NoVector, NewSetup, Setups, Open

LEMMA WindowTyped ==
  ASSUME now \in Times, NEW s
  PROVE  WindowEnd(s) \in Times
<1>1. now \in Nat /\ now <= MaxNow /\ MaxNow \in Nat /\ CandleTicks \in Nat \ {0}
  BY Basics DEF Times
<1>2. now % CandleTicks \in 0..now
  <2>1. now % CandleTicks \in Nat /\ now % CandleTicks <= now
    BY <1>1
  <2> QED
    BY <1>1, <2>1
<1>3. now - (now % CandleTicks) \in Times
  BY <1>1, <1>2 DEF Times
<1> QED
  BY <1>1, <1>3, Basics DEF WindowEnd

\* The decision of a pass is a setup, priced on the book of the moment.
LEMMA DecisionTyped ==
  ASSUME TypeOK, NEW s \in Setups, NEW at \in Raises, NEW verdict \in Verdicts,
         NEW refused \in BOOLEAN
  PROVE  Decision(s, at, verdict, refused) \in Setups
<1>1. job.epoch \in Epochs /\ feed.epoch \in Epochs
  BY DEF TypeOK
<1>2. [features |-> job.epoch, priced |-> feed.epoch] \in Vectors
  BY <1>1 DEF Vectors
<1>3. s.scored \in BOOLEAN /\ s.gate \in Verdicts \cup {"none"} /\ s.deferred \in Times
  BY SetupFields
<1> QED
  BY <1>2, <1>3 DEF Decision, Latched, GateOpen, Setups, Open, Closed

FeedType == [valid : BOOLEAN, epoch : Epochs, covered : BOOLEAN, recording : BOOLEAN]
JobTypes == [pc : Places, s : Setups \cup {NoSetup}, end : Times, epoch : Epochs]

LEMMA TypedInit == Init => TypeOK /\ feed.epoch <= resets
<1> SUFFICES ASSUME Init PROVE TypeOK /\ feed.epoch <= resets
  OBVIOUS
<1>1. job \in JobTypes /\ ((job.pc = "idle") <=> (job.s = NoSetup))
  BY Basics DEF Init, JobTypes, Places
<1>2. feed \in FeedType /\ feed.epoch <= resets
  BY Basics DEF Init, FeedType
<1>3. /\ now \in Times /\ pauses \in 0..MaxPauses /\ resets \in 0..MaxResets
      /\ faults \in 0..MaxFaults /\ lastPause \in Times
  BY Basics DEF Init
<1> QED
  BY <1>1, <1>2, <1>3, Basics DEF Init, TypeOK, JobTypes, FeedType, Places

\* What an action that ends a pass, or lets it go on, leaves of the row and the pass.
LEMMA Written ==
  ASSUME TypeOK, NEW s \in Setups
  PROVE  /\ Saved(s) \in Setups /\ Monitored(s) \in Setups
         /\ Save(s) => row' \in Setups
  BY DEF TypeOK, Saved, Monitored, Save

JobType == /\ job \in [pc : Places, s : Setups \cup {NoSetup}, end : Times, epoch : Epochs]
           /\ (job.pc = "idle") <=> (job.s = NoSetup)

LEMMA Awaited ==
  ASSUME TypeOK
  PROVE  /\ Idle => JobType'
         /\ \A pc \in Places \ {"idle"}, s \in Setups : Awaits(pc, s) => JobType'
         /\ \A pc \in Places \ {"idle"}, s \in Setups, end \in Times :
              AwaitsIn(pc, s, end) => JobType'
<1>1. 0 \in Times /\ 0 \in Epochs /\ \A s \in Setups : s # NoSetup
  BY Basics, SetupFields
<1>2. JobType
  BY DEF TypeOK, JobType, Places
<1>3. Idle => JobType'
  BY <1>1 DEF Idle, JobType, Places
<1>4. ASSUME NEW pc \in Places \ {"idle"}, NEW s \in Setups, NEW end \in Times, AwaitsIn(pc, s, end)
      PROVE  JobType'
  BY <1>1, <1>4 DEF AwaitsIn, JobType
<1>5. ASSUME NEW pc \in Places \ {"idle"}, NEW s \in Setups, Awaits(pc, s)
      PROVE  JobType'
  BY <1>1, <1>2, <1>5 DEF Awaits, JobType
<1> QED
  BY <1>3, <1>4, <1>5

LEMMA ProceedTyped ==
  ASSUME TypeOK, NEW s \in Setups, NEW healthy \in BOOLEAN, NEW end \in Times,
         Proceed(s, healthy, end)
  PROVE  row' \in Setups /\ JobType'
<1>1. row \in Setups
  BY DEF TypeOK
<1> QED
  BY <1>1, Written, Awaited DEF Proceed, Ends, Places

LEMMA TypedPass == ASSUME TypeOK, Load \/ Pass \/ DecidedUnsaved PROVE TypeOK'
<1> USE DEF chance, history
<1>0. /\ row \in Setups /\ JobType /\ (job.pc # "idle" => job.s \in Setups)
      /\ now \in Times
  BY DEF TypeOK, JobType, Places
<1>1. ASSUME row' \in Setups, JobType', UNCHANGED <<now, policy, ledger, tick, feed, card, chance>>,
             lastPause' \in Times, forgotten' \in BOOLEAN, undeferred' \in BOOLEAN
      PROVE  TypeOK'
  BY <1>1 DEF TypeOK, JobType, Places
<1>2. ASSUME UNCHANGED history  PROVE lastPause' \in Times /\ forgotten' \in BOOLEAN /\ undeferred' \in BOOLEAN
  BY <1>2 DEF TypeOK
<1>3. CASE Load
  BY <1>0, <1>1, <1>2, <1>3, Awaited DEF Load, Places
<1>4. CASE TurnExpires
  BY <1>0, <1>1, <1>2, <1>4, Awaited, Written, SetupChanged
     DEF TurnExpires, Turn, Ends, Unchanged, Open, Closed
<1>5. CASE TurnDefers
  <2>1. lastPause' \in Times /\ forgotten' \in BOOLEAN /\ undeferred' \in BOOLEAN
    BY <1>0, <1>5 DEF TurnDefers, TypeOK
  <2> QED
    BY <1>0, <1>1, <1>5, <2>1, Awaited, Written, SetupChanged DEF TurnDefers, Turn, Ends, Unchanged
<1>6. CASE TurnUncovered
  BY <1>0, <1>1, <1>2, <1>6, Awaited, Written DEF TurnUncovered, Turn, Ends, Unchanged
<1>7. CASE TurnProceeds
  <2>1. WindowEnd(job.s) \in Times /\ Healthy(job.s) \in BOOLEAN /\ job.s \in Setups
        /\ Checked(job.s) = job.s
    BY <1>0, <1>7, WindowTyped, SetupChanged DEF TurnProceeds, Evaluates, Turn, Healthy, BookFresh, TypeOK, WindowFresh
  <2> QED
    BY <1>1, <1>2, <1>7, <2>1, ProceedTyped DEF TurnProceeds, Unchanged
<1>8. CASE TurnRefreshes
  <2>1. WindowEnd(job.s) \in Times /\ job.s \in Setups /\ Checked(job.s) = job.s
        /\ feed.epoch \in Epochs
    BY <1>0, <1>8, WindowTyped, SetupChanged DEF TurnRefreshes, Evaluates, Turn, TypeOK
  <2>2. JobType'
    BY <1>8, <2>1, SetupFields DEF TurnRefreshes, JobType, Places
  <2> QED
    BY <1>0, <1>1, <1>2, <1>8, <2>2 DEF TurnRefreshes, Unchanged
<1>9. CASE Refreshed
  <2>1. job.s \in Setups /\ job.end \in Times
    BY <1>0, <1>9 DEF Refreshed, JobType
  <2> QED
    BY <1>1, <1>2, <1>9, <2>1, Awaited, Written, ProceedTyped DEF Refreshed, Ends, Unchanged
<1>10. CASE FootprintDone
  <2>1. job.s \in Setups /\ feed.epoch \in Epochs
    BY <1>0, <1>10 DEF FootprintDone, TypeOK
  <2>2. job' = [job EXCEPT !.pc = "quality", !.epoch = feed.epoch] => JobType'
    BY <1>0, <1>10, <2>1 DEF FootprintDone, JobType, Places
  <2> QED
    BY <1>0, <1>1, <1>2, <1>10, <2>1, <2>2, Awaited, Written DEF FootprintDone, Ends, Unchanged
<1>11. CASE BookGap \/ Rejected
  BY <1>0, <1>1, <1>2, <1>11, Awaited, Written DEF BookGap, Rejected, Ends, Unchanged
<1>12. CASE Decided
  <2>1. PICK at \in Raises, verdict \in Verdicts, refused \in BOOLEAN :
          /\ Save(Decision(job.s, at, verdict, refused))
          /\ ledger' = Recorded(job.s, at, verdict)
          /\ \/ Awaits("ready", Decision(job.s, at, verdict, refused))
             \/ Idle
    BY <1>12 DEF Decided
  <2>2. job.s \in Setups
    BY <1>0, <1>12 DEF Decided
  <2>3. row' \in Setups /\ JobType'
    BY <2>1, <2>2, DecisionTyped, Written, Awaited DEF Places
  <2>4. ledger' \in Verdicts \cup {"none"}
    BY <2>1 DEF Recorded, TypeOK
  <2> QED
    BY <1>2, <1>12, <2>3, <2>4 DEF Decided, TypeOK, JobType, Places
<1>13. CASE DecidedUnsaved
  <2>1. JobType'
    BY <1>13, Awaited DEF DecidedUnsaved
  <2>2. ledger' \in Verdicts \cup {"none"} /\ forgotten' \in BOOLEAN
    BY <1>13 DEF DecidedUnsaved, Recorded, TypeOK, GateOpen
  <2>3. faults' \in 0..MaxFaults
    BY <1>13, Basics DEF DecidedUnsaved, TypeOK
  <2> QED
    BY <1>13, <2>1, <2>2, <2>3 DEF DecidedUnsaved, TypeOK, JobType, Places
<1>14. CASE Resumed \/ Readied \/ NotDispatched
  BY <1>0, <1>1, <1>2, <1>14, Awaited DEF Resumed, Readied, NotDispatched, Places, Unchanged
<1>15. CASE Dispatched
  <2>1. row' \in Setups /\ JobType' /\ card' \in Times \cup {NoCard}
    BY <1>0, <1>15, Awaited, Written DEF Dispatched, JobType, Places
  <2> QED
    BY <1>2, <1>15, <2>1 DEF Dispatched, TypeOK, JobType, Places
<1>16. CASE Replied
  BY <1>0, <1>1, <1>2, <1>16, Awaited, Written, SetupChanged DEF Replied, Ends, Unchanged, Open
<1> QED
  BY <1>3, <1>4, <1>5, <1>6, <1>7, <1>8, <1>9, <1>10, <1>11, <1>12, <1>13, <1>14, <1>15, <1>16
     DEF Pass

LEMMA TypedTick == ASSUME TypeOK, Tick PROVE TypeOK'
<1> USE DEF chance, history
<1>0. row \in Setups /\ (tick # NoSetup => tick \in Setups)
  BY DEF TypeOK
<1>1. CASE TickLoads
  BY <1>0, <1>1 DEF TickLoads, TypeOK
<1>2. CASE TickMonitors
  <2>1. row' \in Setups
    BY <1>0, <1>2, Written DEF TickMonitors
  <2> QED
    BY <1>2, <2>1 DEF TickMonitors, TypeOK
<1>3. CASE TickCloses
  <2>1. row' \in Setups
    BY <1>0, <1>3, Written, SetupChanged DEF TickCloses, Closed
  <2> QED
    BY <1>3, <2>1 DEF TickCloses, TypeOK
<1> QED
  BY <1>1, <1>2, <1>3 DEF Tick

\* The book has been reset no more often than the resets count.
Typed == TypeOK /\ feed.epoch <= resets

WorldStep == Clock \/ NewsBegins \/ NewsEnds \/ FeedFails \/ FeedRecovers

LEMMA TypedWorld ==
  ASSUME Typed, WorldStep \/ Fails
  PROVE  Typed'
<1> USE DEF chance, history, World
<1>1. CASE Clock
  <2>1. now' \in Times
    BY <1>1, Basics DEF Clock, Typed, TypeOK, Times
  <2> QED
    BY <1>1, <2>1 DEF Clock, Typed, TypeOK
<1>2. CASE NewsBegins \/ NewsEnds
  <2>1. pauses' \in 0..MaxPauses
    <3>1. pauses \in Nat /\ pauses <= MaxPauses /\ MaxPauses \in Nat
      BY Basics DEF Typed, TypeOK
    <3>2. pauses' = pauses \/ (pauses < MaxPauses /\ pauses' = pauses + 1)
      BY <1>2 DEF NewsBegins, NewsEnds
    <3> QED
      BY <3>1, <3>2
  <2>2. news' \in BOOLEAN
    BY <1>2 DEF NewsBegins, NewsEnds
  <2> QED
    BY <1>2, <2>1, <2>2 DEF NewsBegins, NewsEnds, Typed, TypeOK
<1>3. CASE FeedFails
  <2>1. /\ feed \in FeedType /\ feed.epoch \in Nat /\ feed.epoch <= resets
        /\ resets \in Nat /\ resets' = resets + 1 /\ resets' <= MaxResets
    BY <1>3, Basics DEF FeedFails, Typed, TypeOK, FeedType, Epochs
  <2>2. resets' \in 0..MaxResets /\ feed.epoch + 1 \in Epochs /\ feed.epoch + 1 <= resets'
    BY <2>1, Basics DEF Epochs
  <2>3. feed' \in FeedType /\ feed'.epoch <= resets'
    <3>1. CASE feed' = [feed EXCEPT !.recording = FALSE]
      <4>1. feed' \in FeedType /\ feed'.epoch = feed.epoch
        BY <2>1, <3>1 DEF FeedType
      <4> QED
        BY <2>1, <4>1
    <3>2. ASSUME NEW covered \in {feed.covered, FALSE},
                 feed' = [feed EXCEPT !.valid = FALSE, !.covered = covered, !.epoch = @ + 1]
          PROVE  feed' \in FeedType /\ feed'.epoch <= resets'
      BY <2>1, <2>2, <3>2 DEF FeedType
    <3> QED
      BY <1>3, <3>1, <3>2 DEF FeedFails
  <2> QED
    BY <1>3, <2>2, <2>3 DEF FeedFails, Typed, TypeOK, FeedType
<1>4. CASE FeedRecovers
  BY <1>4 DEF FeedRecovers, Typed, TypeOK
<1>5. CASE Fails
  <2>1. JobType' /\ faults' \in 0..MaxFaults
    BY <1>5, Awaited, Basics DEF Fails, Typed, TypeOK
  <2> QED
    BY <1>5, <2>1 DEF Fails, Typed, TypeOK, JobType, Places
<1> QED
  BY <1>1, <1>2, <1>3, <1>4, <1>5 DEF WorldStep

LEMMA TypedStep == ASSUME Typed, [Next]_vars PROVE Typed'
<1>1. CASE UNCHANGED vars
  BY <1>1 DEF vars, chance, history, Typed, TypeOK
<1>2. CASE Load \/ Pass \/ DecidedUnsaved \/ Tick
  <2>1. UNCHANGED <<feed, resets>>
    BY <1>2 DEF Load, Pass, DecidedUnsaved, Tick, TickLoads, TickMonitors, TickCloses, TurnExpires, TurnDefers,
                TurnUncovered, TurnProceeds, TurnRefreshes, Refreshed, FootprintDone, BookGap,
                Rejected, Decided, Resumed, Readied, Dispatched, NotDispatched, Replied,
                Unchanged, chance
  <2> QED
    BY <1>2, <2>1, TypedPass, TypedTick DEF Typed
<1> QED
  BY <1>1, <1>2, TypedWorld DEF Next, WorldStep

\* The types hold, the books are counted, and a pass holds a copy exactly while it is under
\* way (evaluate).
THEOREM TypeCorrect == Spec => []Typed
  BY TypedInit, TypedStep, PTL DEF Spec, Typed
-----------------------------------------------------------------------------
(* The decision.                                                           *)

\* What every copy of the setup keeps, however old it is.
Sound(s) ==
  /\ s.vector # NoVector => s.vector.features = s.vector.priced
  /\ s.state = "PENDING" => s.vector = NoVector
  /\ policy = "v211" => /\ s.gate # "none" => s.scored
                        /\ s.state \in Standing => s.gate = "passed"

\* The pass is of the decision that the row has, until the row is closed.
PassInv ==
  job.pc # "idle" =>
    /\ Sound(job.s)
    /\ job.s.state \in {"PENDING", "CONFIRMED"}
    /\ job.pc \in Deciding => job.s.state = "PENDING" /\ ~job.s.scored
    /\ job.pc \in Delivering => job.s.state = "CONFIRMED"
    /\ row.state \in Open =>
         /\ row.state = job.s.state /\ row.vector = job.s.vector
         /\ ~forgotten => row.gate = job.s.gate

\* A copy of the tick with a decision is of a row that still has that decision.
TickInv ==
  tick # NoSetup =>
    /\ Sound(tick)
    /\ row.state \in Open =>
         /\ tick.state \in Open
         /\ tick.state \in Standing => row.state \in Standing /\ row.vector = tick.vector

LedgerInv == row.state \in Open /\ ~forgotten => row.gate = ledger

DecisionInv == Sound(row) /\ PassInv /\ TickInv /\ LedgerInv

\* DecisionFrozen, of one step.
Frozen == row.state \in Standing /\ row'.state \notin Closed
            => row'.state \in Standing /\ row'.vector = row.vector

\* The pass waits somewhere with the copy it has, or is over.
Goes == \/ job'.pc = "idle"
        \/ job'.s = job.s /\ job.pc # "idle"
           /\ (job'.pc \in Deciding => job.s.state = "PENDING" /\ ~job.s.scored)
           /\ (job'.pc \in Delivering => job.s.state = "CONFIRMED")

\* The row keeps its state and its decision: nothing is written, or a copy of the same.
Keeps == /\ row'.state = row.state
         /\ row.state \in Open => row'.vector = row.vector /\ (~forgotten' => row'.gate = row.gate)
         /\ Sound(row)'

LEMMA States ==
  /\ \A state \in Closed : state \notin Open /\ state \notin Standing /\ state # "PENDING"
  /\ \A state \in Standing : state \in Open /\ state # "PENDING"
  /\ "PENDING" \in Open /\ "CONFIRMED" \in Standing /\ "ALERTED" \in Standing
  BY DEF Open, Closed, Standing

LEMMA KeepsDecision ==
  ASSUME Typed, DecisionInv, Keeps, Goes \/ job' = job, tick' \in {tick, NoSetup},
         UNCHANGED <<policy, ledger>>, forgotten => forgotten'
  PROVE  DecisionInv' /\ Frozen
<1>1. LedgerInv'
  BY DEF DecisionInv, LedgerInv, Keeps
<1>2. PassInv'
  BY DEF DecisionInv, PassInv, Keeps, Goes, Sound
<1>3. TickInv'
  BY DEF DecisionInv, TickInv, Keeps, Sound
<1>4. Frozen
  BY States DEF Frozen, Keeps
<1> QED
  BY <1>1, <1>2, <1>3, <1>4 DEF DecisionInv, Keeps

LEMMA ClosesDecision ==
  ASSUME Typed, DecisionInv, row'.state \in Closed, Sound(row)', Goes \/ job' = job,
         tick' \in {tick, NoSetup}, UNCHANGED <<policy, ledger>>
  PROVE  DecisionInv' /\ Frozen
<1>1. row'.state \notin Open
  BY States
<1>2. LedgerInv'
  BY <1>1 DEF LedgerInv
<1>3. PassInv'
  BY <1>1 DEF DecisionInv, PassInv, Goes, Sound
<1>4. TickInv'
  BY <1>1 DEF DecisionInv, TickInv, Sound
<1> QED
  BY <1>2, <1>3, <1>4 DEF DecisionInv, Frozen

\* What a pass saves of its copy, with another deferral: the row keeps its decision.
LEMMA SavesCopy ==
  ASSUME Typed, DecisionInv, job.pc # "idle", NEW s \in Setups, Save(s), policy' = policy,
         forgotten => forgotten',
         s.state = job.s.state, s.vector = job.s.vector, s.gate = job.s.gate,
         s.scored = job.s.scored
  PROVE  Keeps
<1>1. CASE row.state \in Closed
  BY <1>1, States DEF Save, Saved, Keeps, DecisionInv, Sound
<1>2. CASE row.state \in Open
  <2>1. row' = s
    BY <1>2, States DEF Save, Saved
  <2>2. Sound(row)'
    BY <2>1 DEF DecisionInv, PassInv, Sound
  <2> QED
    BY <1>2, <2>1, <2>2 DEF Keeps, DecisionInv, PassInv
<1> QED
  BY <1>1, <1>2, SetupFields DEF Typed, TypeOK

LEMMA SavesSame ==
  ASSUME Typed, DecisionInv, job.pc # "idle", Save(job.s), policy' = policy, forgotten => forgotten'
  PROVE  Keeps
<1>1. job.s \in Setups
  BY DEF Typed, TypeOK
<1> QED
  BY <1>1, SavesCopy

LEMMA KeepsSame ==
  ASSUME DecisionInv, row' = row, policy' = policy
  PROVE  Keeps
  BY DEF DecisionInv, Keeps, Sound

LEMMA IdleGoes == Idle => Goes
  BY DEF Idle, Goes

LEMMA AwaitsGoes ==
  ASSUME Typed, job.pc # "idle", NEW pc \in Places \ {"idle"}, NEW end,
         Awaits(pc, job.s) \/ AwaitsIn(pc, job.s, end),
         pc \in Deciding => job.s.state = "PENDING" /\ ~job.s.scored,
         pc \in Delivering => job.s.state = "CONFIRMED"
  PROVE  Goes
<1>1. job \in JobTypes
  BY DEF Typed, TypeOK, JobTypes, Places
<1>2. job'.pc = pc /\ job'.s = job.s
  <2>1. CASE Awaits(pc, job.s)
    BY <1>1, <2>1 DEF Awaits, JobTypes
  <2>2. CASE AwaitsIn(pc, job.s, end)
    BY <2>2 DEF AwaitsIn
  <2> QED
    BY <2>1, <2>2
<1> QED
  BY <1>2 DEF Goes

LEMMA ProceedKeeps ==
  ASSUME Typed, DecisionInv, job.pc # "idle", NEW healthy, NEW end,
         Proceed(job.s, healthy, end), policy' = policy, forgotten' = forgotten
  PROVE  Keeps /\ Goes
<1>1. CASE job.s.state = "CONFIRMED" /\ UNCHANGED row
           /\ (AwaitsIn("ready", job.s, end) \/ AwaitsIn("resume", job.s, end))
  BY <1>1, KeepsSame, AwaitsGoes DEF Places, Deciding, Delivering
<1>2. CASE Idle /\ UNCHANGED row
  BY <1>2, KeepsSame, IdleGoes
<1>3. CASE Save(job.s) /\ Idle
  BY <1>3, SavesSame, IdleGoes
<1>4. CASE Save(job.s) /\ ~job.s.scored /\ job.s.state = "PENDING" /\ AwaitsIn("footprint", job.s, end)
  BY <1>4, SavesSame, AwaitsGoes DEF Places, Deciding, Delivering
<1> QED
  BY <1>1, <1>2, <1>3, <1>4 DEF Proceed, Ends

LEMMA DecisionInit == Init => DecisionInv
<1>1. \A s \in {NewSetup} : Sound(s)
  BY DEF Sound, NewSetup, NoVector, Standing
<1> QED
  BY <1>1 DEF Init, DecisionInv, PassInv, TickInv, LedgerInv, NewSetup

\* The pass decides: the features are of the book that is still there.
LEMMA DecidesOnce ==
  ASSUME Typed, DecisionInv, Decided
  PROVE  DecisionInv' /\ Frozen
<1>1. PICK at \in Raises, verdict \in Verdicts, refused \in BOOLEAN :
        LET s == Decision(job.s, at, verdict, refused) IN
        /\ Save(s)
        /\ ledger' = Recorded(job.s, at, verdict)
        /\ IF s.state = "CONFIRMED" /\ feed.recording THEN Awaits("ready", s) ELSE Idle
  BY DEF Decided
<1>s. PICK s : s = Decision(job.s, at, verdict, refused)
  OBVIOUS
<1>d. /\ Save(s)
      /\ IF s.state = "CONFIRMED" /\ feed.recording THEN Awaits("ready", s) ELSE Idle
  BY <1>1, <1>s
<1>j. job \in JobTypes
  BY DEF Typed, TypeOK, JobTypes, Places
<1>2. /\ UNCHANGED <<policy, tick, forgotten>> /\ job.epoch = feed.epoch /\ job.pc = "quality"
      /\ job.s \in Setups /\ s \in Setups
  BY <1>s, DecisionTyped, SetupFields DEF Decided, history, SameBook, Typed, TypeOK
<1>3. /\ job.s.state = "PENDING" /\ ~job.s.scored /\ Sound(job.s)
      /\ row.state \in Open =>
           /\ row.state = "PENDING" /\ row.vector = job.s.vector
           /\ ~forgotten => row.gate = job.s.gate
  BY <1>2 DEF DecisionInv, PassInv, Deciding
<1>4. /\ s.state \in {"PENDING", "CONFIRMED"}
      /\ s.state = "PENDING" => s.vector = NoVector
      /\ s.vector # NoVector => s.vector.features = s.vector.priced
  BY <1>s, <1>2 DEF Decision
<1>5. policy = "v211" => /\ s.gate # "none" => s.scored
                         /\ s.state = "CONFIRMED" => s.gate = "passed"
  <2>1. SUFFICES ASSUME policy = "v211"
                 PROVE  (s.gate # "none" => s.scored) /\ (s.state = "CONFIRMED" => s.gate = "passed")
    OBVIOUS
  <2>2. job.s.gate = "none"
    BY <1>3, <2>1 DEF Sound
  <2> QED
    BY <1>s, <2>1, <2>2 DEF Decision, Latched, GateOpen, Verdicts, Raises
<1>6. Sound(s) /\ Sound(s)'
  BY <1>2, <1>4, <1>5 DEF Sound, Standing
<1>7. s.gate = IF GateOpen(job.s) /\ at \in {"nowhere", "after gate"} THEN verdict ELSE job.s.gate
  BY <1>s DEF Decision
<1>8. CASE row.state \in Closed
  <2>1. row' = row
    BY <1>d, <1>8 DEF Save, Saved
  <2>2. row.state \notin Open
    BY <1>8, States
  <2>3. PassInv'
    <3>1. CASE Idle
      BY <3>1 DEF Idle, PassInv
    <3>2. CASE s.state = "CONFIRMED" /\ Awaits("ready", s)
      <4>1. job'.pc = "ready" /\ job'.s = s
        BY <1>j, <3>2 DEF Awaits, JobTypes
      <4> QED
        BY <1>6, <2>1, <2>2, <3>2, <4>1 DEF PassInv, Deciding
    <3> QED
      BY <1>d, <3>1, <3>2
  <2> QED
    BY <1>2, <2>1, <2>2, <2>3 DEF DecisionInv, TickInv, LedgerInv, Sound, Frozen
<1>9. CASE row.state \in Open
  <2>1. row' = s /\ row.state = "PENDING"
    BY <1>d, <1>3, <1>9, States DEF Save, Saved
  <2>2. PassInv'
    <3>1. CASE Idle
      BY <3>1 DEF Idle, PassInv
    <3>2. CASE s.state = "CONFIRMED" /\ Awaits("ready", s)
      <4>1. job'.pc = "ready" /\ job'.s = s
        BY <1>j, <3>2 DEF Awaits, JobTypes
      <4> QED
        BY <1>6, <2>1, <3>2, <4>1 DEF PassInv, Deciding
    <3> QED
      BY <1>d, <3>1, <3>2
  <2>3. TickInv'
    BY <1>2, <1>9, <2>1, States DEF TickInv, DecisionInv, Sound
  <2>4. LedgerInv'
    BY <1>1, <1>2, <1>3, <1>7, <1>9, <2>1 DEF LedgerInv, DecisionInv, Recorded, GateOpen
  <2>5. Frozen
    BY <2>1, States DEF Frozen
  <2> QED
    BY <1>6, <2>1, <2>2, <2>3, <2>4, <2>5 DEF DecisionInv
<1> QED
  BY <1>8, <1>9, SetupFields DEF Typed, TypeOK

LEMMA DecisionPass ==
  ASSUME Typed, DecisionInv, Load \/ Pass \/ DecidedUnsaved
  PROVE  DecisionInv' /\ Frozen
<1> USE DEF chance, history, Unchanged
<1>0. row \in Setups /\ job \in JobTypes /\ (job.pc # "idle" => job.s \in Setups)
  BY DEF Typed, TypeOK, JobTypes, Places
<1>1. ASSUME Keeps, Goes, UNCHANGED <<policy, ledger, tick>>, forgotten => forgotten'
      PROVE  DecisionInv' /\ Frozen
  BY <1>1, KeepsDecision
<1>2. CASE Load
  <2>1. /\ row.state \in {"PENDING", "CONFIRMED"} /\ job'.pc = "loaded" /\ job'.s = row
        /\ UNCHANGED <<policy, row, ledger, tick, forgotten>>
    BY <1>0, <1>2 DEF Load, Awaits, JobTypes
  <2>2. PassInv'
    BY <2>1 DEF DecisionInv, PassInv, Sound, Deciding, Delivering
  <2> QED
    BY <2>1, <2>2 DEF DecisionInv, TickInv, LedgerInv, Sound, Frozen
<1>3. CASE TurnExpires
  <2>s. PICK s : s = [job.s EXCEPT !.state = "EXPIRED"]
    OBVIOUS
  <2>1. job.pc # "idle" /\ Save(s) /\ Idle /\ UNCHANGED <<policy, ledger, tick>>
    BY <1>3, <2>s DEF TurnExpires, Turn, Ends
  <2>2. s \in Setups /\ s.state = "EXPIRED" /\ s.vector = job.s.vector
        /\ s.gate = job.s.gate /\ s.scored = job.s.scored
    BY <1>0, <2>1, <2>s DEF Setups, Closed
  <2>3. Sound(s)'
    BY <2>1, <2>2 DEF DecisionInv, PassInv, Sound, Standing
  <2>4. row'.state \in Closed /\ Sound(row)'
    BY <2>1, <2>2, <2>3 DEF Save, Saved, Closed, DecisionInv, Sound
  <2> QED
    BY <2>1, <2>4, IdleGoes, ClosesDecision
<1>4. CASE TurnDefers
  <2>s. PICK s : s = [job.s EXCEPT !.deferred = now]
    OBVIOUS
  <2>1. job.pc # "idle" /\ Save(s) /\ Idle /\ UNCHANGED <<policy, ledger, tick, forgotten>>
    BY <1>4, <2>s DEF TurnDefers, Turn, Ends
  <2>2. s \in Setups /\ s.state = job.s.state /\ s.vector = job.s.vector
        /\ s.gate = job.s.gate /\ s.scored = job.s.scored
    BY <1>0, <2>1, <2>s DEF Setups, Typed, TypeOK
  <2> QED
    BY <1>1, <2>1, <2>2, SavesCopy, IdleGoes
<1>5. CASE TurnUncovered \/ BookGap \/ Rejected
  <2>1. job.pc # "idle" /\ Save(job.s) /\ Idle /\ UNCHANGED <<policy, ledger, tick, forgotten>>
    BY <1>5 DEF TurnUncovered, BookGap, Rejected, Turn, Ends
  <2> QED
    BY <1>1, <2>1, SavesSame, IdleGoes
<1>6. CASE TurnProceeds
  <2>1. job.pc # "idle" /\ UNCHANGED <<policy, ledger, tick, forgotten>>
        /\ Proceed(job.s, Healthy(job.s), WindowEnd(job.s))
    BY <1>0, <1>6, SetupChanged DEF TurnProceeds, Evaluates, Turn
  <2> QED
    BY <1>1, <2>1, ProceedKeeps
<1>7. CASE TurnRefreshes
  <2>1. /\ job.pc # "idle" /\ UNCHANGED <<policy, ledger, tick, forgotten, row>>
        /\ job'.pc = "reversal" /\ job'.s = job.s
    BY <1>0, <1>7, SetupChanged DEF TurnRefreshes, Evaluates, Turn
  <2>2. Goes
    BY <2>1 DEF Goes, Deciding, Delivering
  <2> QED
    BY <1>1, <2>1, <2>2, KeepsSame
<1>8. CASE Refreshed
  <2>1. job.pc # "idle" /\ UNCHANGED <<policy, ledger, tick, forgotten>>
    BY <1>8 DEF Refreshed
  <2>2. CASE Proceed(job.s, TRUE, job.end)
    BY <1>1, <2>1, <2>2, ProceedKeeps
  <2>3. CASE Save(job.s) /\ Idle
    BY <1>1, <2>1, <2>3, SavesSame, IdleGoes
  <2> QED
    BY <1>8, <2>2, <2>3 DEF Refreshed, Ends
<1>9. CASE FootprintDone
  <2>1. job.pc = "footprint" /\ UNCHANGED <<policy, ledger, tick, forgotten>>
    BY <1>9 DEF FootprintDone
  <2>2. CASE job'.pc = "quality" /\ job'.s = job.s /\ UNCHANGED row
    <3>1. Goes
      BY <2>1, <2>2 DEF Goes, Deciding, Delivering, DecisionInv, PassInv
    <3> QED
      BY <1>1, <2>1, <2>2, <3>1, KeepsSame
  <2>3. CASE Save(job.s) /\ Idle
    BY <1>1, <2>1, <2>3, SavesSame, IdleGoes
  <2> QED
    BY <1>0, <1>9, <2>2, <2>3 DEF FootprintDone, Ends, JobTypes
<1>10. CASE Decided
  BY <1>10, DecidesOnce
<1>11. CASE DecidedUnsaved
  <2>1. PICK verdict \in Verdicts : ledger' = Recorded(job.s, "nowhere", verdict)
    BY <1>11 DEF DecidedUnsaved
  <2>2. Idle /\ UNCHANGED <<policy, row, tick>> /\ forgotten' = (forgotten \/ GateOpen(job.s))
    BY <1>11 DEF DecidedUnsaved
  <2>3. LedgerInv'
    BY <2>1, <2>2 DEF LedgerInv, DecisionInv, Recorded
  <2>4. PassInv'
    BY <2>2 DEF Idle, PassInv
  <2> QED
    BY <2>2, <2>3, <2>4 DEF DecisionInv, TickInv, Sound, Frozen
<1>12. CASE Resumed \/ Readied \/ NotDispatched
  <2>1. job.pc \in Delivering /\ UNCHANGED <<policy, ledger, tick, forgotten, row>>
    BY <1>12 DEF Resumed, Readied, NotDispatched, Delivering
  <2>2. job.pc # "idle" /\ job.s.state = "CONFIRMED"
    BY <2>1 DEF Delivering, DecisionInv, PassInv
  <2>3. Goes
    BY <1>12, <2>2, IdleGoes, AwaitsGoes DEF Resumed, Readied, NotDispatched, Places, Deciding
  <2> QED
    BY <1>1, <2>1, <2>3, KeepsSame
<1>13. CASE Dispatched
  <2>1. /\ job.pc = "sending" /\ row.state = "CONFIRMED" /\ row' = Monitored(job.s)
        /\ Awaits("reply", job.s) /\ UNCHANGED <<policy, ledger, tick, forgotten>>
    BY <1>13 DEF Dispatched
  <2>2. job.s.state = "CONFIRMED" /\ row.state \in Open /\ row.state \notin Closed
    BY <2>1, States DEF DecisionInv, PassInv, Delivering
  <2>3. Save(job.s)
    BY <2>1, <2>2 DEF Save, Saved, Monitored
  <2>4. Goes
    BY <2>1, <2>2, AwaitsGoes DEF Places, Deciding
  <2> QED
    BY <1>1, <2>1, <2>3, <2>4, SavesSame
<1>14. CASE Replied
  <2>1. job.pc = "reply" /\ Idle /\ UNCHANGED <<policy, ledger, tick, forgotten>>
    BY <1>14 DEF Replied, Ends
  <2>2. CASE UNCHANGED row
    BY <1>1, <2>1, <2>2, KeepsSame, IdleGoes
  <2>3. CASE Save([job.s EXCEPT !.state = "ALERTED"]) /\ row.state \in Closed
    <3>1. row' = row
      BY <2>3 DEF Save, Saved
    <3> QED
      BY <1>1, <2>1, <3>1, KeepsSame, IdleGoes
  <2>4. CASE Save([job.s EXCEPT !.state = "ALERTED"]) /\ row.state \in Open
    <3>1. job.s.state = "CONFIRMED" /\ Sound(job.s) /\ row.state = "CONFIRMED"
          /\ row.vector = job.s.vector /\ (~forgotten => row.gate = job.s.gate)
      BY <2>1, <2>4 DEF DecisionInv, PassInv, Delivering
    <3>2. row' = [job.s EXCEPT !.state = "ALERTED"]
      BY <2>4, States DEF Save, Saved
    <3>3. row'.state = "ALERTED" /\ row'.vector = row.vector /\ row'.gate = job.s.gate
          /\ row'.scored = job.s.scored
      BY <1>0, <2>1, <3>1, <3>2 DEF Setups
    <3>4. Sound(row)'
      BY <2>1, <3>1, <3>3 DEF Sound, Standing
    <3>5. TickInv'
      BY <2>1, <2>4, <3>3, States DEF DecisionInv, TickInv, Sound
    <3>6. LedgerInv' /\ PassInv'
      BY <2>1, <2>4, <3>1, <3>3 DEF DecisionInv, LedgerInv, PassInv, Idle
    <3> QED
      BY <3>3, <3>4, <3>5, <3>6, States DEF DecisionInv, Frozen
  <2> QED
    BY <1>0, <1>14, <2>2, <2>3, <2>4, SetupFields DEF Replied, Ends
<1> QED
  BY <1>2, <1>3, <1>4, <1>5, <1>6, <1>7, <1>8, <1>9, <1>10, <1>11, <1>12, <1>13, <1>14 DEF Pass

LEMMA DecisionTick ==
  ASSUME Typed, DecisionInv, Tick
  PROVE  DecisionInv' /\ Frozen
<1> USE DEF chance, history
<1>0. row \in Setups /\ (tick # NoSetup => tick \in Setups)
  BY DEF Typed, TypeOK
<1>1. CASE TickLoads
  BY <1>1, States DEF TickLoads, DecisionInv, TickInv, PassInv, LedgerInv, Sound, Frozen
<1>2. CASE TickMonitors
  <2>1. /\ tick # NoSetup /\ row' = Monitored(tick) /\ tick' = NoSetup
        /\ UNCHANGED <<policy, ledger, job>>
        /\ forgotten' = (forgotten \/ row'.gate # row.gate)
    BY <1>2 DEF TickMonitors
  <2>2. CASE row.state # tick.state
    <3>1. row' = row
      BY <2>1, <2>2 DEF Monitored
    <3> QED
      BY <2>1, <3>1, KeepsSame, KeepsDecision
  <2>3. CASE row.state = tick.state
    <3>1. row' = tick /\ Sound(tick)
      BY <2>1, <2>3 DEF Monitored, DecisionInv, TickInv
    <3>2. row.state \in Open => row'.vector = row.vector
      <4>1. CASE row.state = "PENDING"
        BY <2>3, <3>1, <4>1 DEF Sound, DecisionInv
      <4>2. CASE row.state \in Standing
        BY <2>1, <2>3, <3>1, <4>2, States DEF DecisionInv, TickInv
      <4> QED
        BY <4>1, <4>2 DEF Open, Standing
    <3>3. Keeps
      BY <2>1, <2>3, <3>1, <3>2 DEF Keeps, Sound
    <3> QED
      BY <2>1, <3>3, KeepsDecision
  <2> QED
    BY <2>2, <2>3
<1>3. CASE TickCloses
  <2>1. PICK state \in Closed : Save([tick EXCEPT !.state = state])
    BY <1>3 DEF TickCloses, Closed
  <2>s. PICK s : s = [tick EXCEPT !.state = state]
    OBVIOUS
  <2>2. /\ tick # NoSetup /\ tick' = NoSetup /\ UNCHANGED <<policy, ledger, job>>
    BY <1>3 DEF TickCloses
  <2>3. s.state = state /\ s.vector = tick.vector /\ s.gate = tick.gate /\ s.scored = tick.scored
    BY <1>0, <2>2, <2>s DEF Setups
  <2>4. Sound(s)'
    BY <2>2, <2>3, States DEF DecisionInv, TickInv, Sound
  <2>5. row'.state \in Closed /\ Sound(row)'
    BY <2>1, <2>2, <2>3, <2>4, <2>s DEF Save, Saved, DecisionInv, Sound
  <2> QED
    BY <2>2, <2>5, ClosesDecision
<1> QED
  BY <1>1, <1>2, <1>3 DEF Tick

LEMMA DecisionStep ==
  ASSUME Typed, DecisionInv, [Next]_vars
  PROVE  DecisionInv' /\ Frozen
<1>1. CASE WorldStep \/ UNCHANGED vars
  <2>1. UNCHANGED <<policy, row, ledger, job, tick, forgotten>>
    BY <1>1 DEF WorldStep, Clock, NewsBegins, NewsEnds, FeedFails, FeedRecovers, World, vars, history
  <2> QED
    BY <2>1, KeepsSame, KeepsDecision
<1>2. CASE Fails
  <2>1. UNCHANGED <<policy, row, ledger, forgotten>> /\ Idle /\ tick' \in {tick, NoSetup}
    BY <1>2 DEF Fails, history
  <2> QED
    BY <2>1, KeepsSame, KeepsDecision, IdleGoes
<1> QED
  BY <1>1, <1>2, DecisionPass, DecisionTick DEF Next, WorldStep

LEMMA DecisionHolds == Spec => [](Typed /\ DecisionInv)
  BY TypedInit, TypedStep, DecisionInit, DecisionStep, PTL DEF Spec, Typed

\* A confirmed decision is priced on the book its features were measured on, however often
\* the pass gave way in between (evaluate).
THEOREM PricesHold == Spec => []PricedOnBook
<1>1. DecisionInv => PricedOnBook
  BY DEF DecisionInv, Sound, PricedOnBook
<1> QED
  BY <1>1, DecisionHolds, PTL

\* A v21.1 setup is confirmed under the decision the ledger keeps, unless the row lost it
\* (apply_new_candidate).
THEOREM GatesAreKept == Spec => []GateKept
<1>1. DecisionInv => GateKept
  BY DEF DecisionInv, Sound, LedgerInv, GateKept, Standing, Open
<1> QED
  BY <1>1, DecisionHolds, PTL

\* What a confirmed setup rests on is of one book and of one gate.
THEOREM DecisionsAreSound == Spec => []DecisionSound
<1>1. PricedOnBook /\ GateKept => DecisionSound
  BY DEF DecisionSound
<1> QED
  BY <1>1, PricesHold, GatesAreKept, PTL

\* Nothing changes the decision of a confirmed setup while it is open (evaluate).
THEOREM DecisionsAreFrozen == Spec => DecisionFrozen
<1>1. Typed /\ DecisionInv /\ [Next]_vars =>
        [row.state \in Standing /\ row'.state \notin Closed
           => row'.state \in Standing /\ row'.vector = row.vector]_vars
  BY DecisionStep DEF Frozen
<1> QED
  BY <1>1, DecisionHolds, PTL DEF Spec, DecisionFrozen

-----------------------------------------------------------------------------
(* Deferrals.                                                              *)

\* The row and the pass know of the last pause before the card, unless an older copy of
\* the tick took it away; from the wait for entry on, the window of the pass is after it.
DeferInv ==
  /\ row.state = "PENDING" => lastPause = 0
  /\ row.state \in Open /\ ~undeferred =>
       /\ card = NoCard => lastPause <= row.deferred
       /\ job.pc # "idle" => job.s.deferred = row.deferred
       /\ (job.pc \in {"ready", "sending"} /\ lastPause > 0 /\ card = NoCard) => job.end > lastPause
  /\ DeferralHonoured

LEMMA DeferInit == Init => DeferInv
<1> SUFFICES ASSUME Init PROVE DeferInv
  OBVIOUS
<1>1. row = NewSetup /\ lastPause = 0 /\ job.pc = "idle"
  BY DEF Init
<1>2. row.deferred = 0
  BY <1>1 DEF NewSetup
<1> QED
  BY <1>1, <1>2 DEF DeferInv, DeferralHonoured

\* The window of the pass, once it waits for an entry, is after a pause it knows of.
Waits == job'.pc \in {"ready", "sending"} =>
           \/ job.pc \in {"ready", "sending"} /\ job'.end = job.end
           \/ job'.end > job.s.deferred
           \/ job.s.deferred = 0

LEMMA Numbers ==
  ASSUME Typed
  PROVE  /\ lastPause \in Nat /\ row.deferred \in Nat /\ job.end \in Nat
         /\ job.pc # "idle" => job.s.deferred \in Nat
<1>1. row \in Setups /\ lastPause \in Times /\ job.end \in Times
      /\ (job.pc # "idle" => job.s \in Setups)
  BY DEF Typed, TypeOK
<1> QED
  BY <1>1, SetupFields DEF Times

\* A row that keeps its state and its deferral, or is closed.
LEMMA KeepsDeferral ==
  ASSUME Typed, Typed', DeferInv, UNCHANGED <<card, lastPause, undeferred>>,
         row'.state = "PENDING" => row.state = "PENDING",
         row'.state \in Open => row.state \in Open /\ (~undeferred => row'.deferred = row.deferred),
         job' = job \/ job'.pc = "idle" \/ (job.pc # "idle" /\ job'.s = job.s /\ Waits)
  PROVE  DeferInv'
<1>1. DeferralHonoured'
  BY DEF DeferInv, DeferralHonoured
<1>2. row'.state = "PENDING" => lastPause' = 0
  BY DEF DeferInv
<1>3. ASSUME row'.state \in Open, ~undeferred'
      PROVE  /\ card' = NoCard => lastPause' <= row'.deferred
             /\ job'.pc # "idle" => job'.s.deferred = row'.deferred
             /\ (job'.pc \in {"ready", "sending"} /\ lastPause' > 0 /\ card' = NoCard)
                  => job'.end > lastPause'
  <2>1. /\ row.state \in Open /\ ~undeferred /\ row'.deferred = row.deferred
        /\ card = NoCard => lastPause <= row.deferred
        /\ job.pc # "idle" => job.s.deferred = row.deferred
        /\ (job.pc \in {"ready", "sending"} /\ lastPause > 0 /\ card = NoCard) => job.end > lastPause
    BY <1>3 DEF DeferInv
  <2>2. lastPause \in Nat /\ row.deferred \in Nat /\ job.end \in Nat /\ job'.end \in Nat
    BY Numbers DEF Typed, TypeOK, Times
  <2>3. CASE job' = job \/ job'.pc = "idle"
    BY <2>1, <2>3
  <2>4. CASE job.pc # "idle" /\ job'.s = job.s /\ Waits
    BY <2>1, <2>2, <2>4 DEF Waits
  <2> QED
    BY <2>3, <2>4
<1> QED
  BY <1>1, <1>2, <1>3 DEF DeferInv, NoCard

\* What a pass saves of its copy: the row keeps its deferral, or is closed.
LEMMA SavesDeferral ==
  ASSUME Typed, DecisionInv, DeferInv, job.pc # "idle", NEW s, Save(s),
         s.deferred = job.s.deferred, s.state = "PENDING" => job.s.state = "PENDING"
  PROVE  /\ row'.state = "PENDING" => row.state = "PENDING"
         /\ row'.state \in Open =>
              row.state \in Open /\ (~undeferred => row'.deferred = row.deferred)
<1>1. CASE row.state \in Closed
  BY <1>1, States DEF Save, Saved
<1>2. CASE row.state \in Open
  <2>1. row' = s
    BY <1>2, States DEF Save, Saved
  <2>2. job.s.state = row.state /\ (~undeferred => job.s.deferred = row.deferred)
    BY <1>2 DEF DecisionInv, PassInv, DeferInv
  <2> QED
    BY <1>2, <2>1, <2>2
<1> QED
  BY <1>1, <1>2, SetupFields DEF Typed, TypeOK

LEMMA DeferProceed ==
  ASSUME Typed, DecisionInv, DeferInv, job.pc # "idle", job.s \in Setups, NEW healthy, NEW end,
         Proceed(job.s, healthy, end)
  PROVE  /\ row' = row \/ Save(job.s)
         /\ job'.pc = "idle" \/ (job'.s = job.s /\ Waits)
<1>1. CASE job.s.deferred = 0 /\ AwaitsIn("ready", job.s, end) /\ UNCHANGED row
  BY <1>1 DEF AwaitsIn, Waits
<1>2. CASE Save(job.s) /\ AwaitsIn("footprint", job.s, end)
  BY <1>2 DEF AwaitsIn, Waits
<1>3. CASE AwaitsIn("resume", job.s, end) /\ UNCHANGED row
  BY <1>3 DEF AwaitsIn, Waits
<1> QED
  BY <1>1, <1>2, <1>3 DEF Proceed, Idle, Ends

LEMMA DeferPass ==
  ASSUME Typed, Typed', DecisionInv, DeferInv, Load \/ Pass \/ DecidedUnsaved
  PROVE  DeferInv'
<1> USE DEF chance, history, Unchanged
<1>0. /\ job \in JobTypes /\ row \in Setups /\ (job.pc # "idle" => job.s \in Setups)
  BY DEF Typed, TypeOK, JobTypes, Places
<1>1. ASSUME UNCHANGED <<card, lastPause, undeferred>>, row' = row \/ Save(job.s), job.pc # "idle",
             job'.pc = "idle" \/ (job'.s = job.s /\ Waits)
      PROVE  DeferInv'
  BY <1>1, SavesDeferral, KeepsDeferral
<1>2. CASE Load
  <2>1. /\ UNCHANGED <<card, lastPause, undeferred, row>> /\ job'.pc = "loaded" /\ job'.s = row
    BY <1>0, <1>2 DEF Load, Awaits, JobTypes
  <2> QED
    BY <2>1 DEF DeferInv, DeferralHonoured
<1>3. CASE TurnExpires
  <2>s. PICK s : s = [job.s EXCEPT !.state = "EXPIRED"]
    OBVIOUS
  <2>1. /\ job.pc # "idle" /\ Save(s) /\ Idle /\ UNCHANGED <<card, lastPause, undeferred>>
    BY <1>3, <2>s DEF TurnExpires, Turn, Ends
  <2>2. s.state = "EXPIRED" /\ s.deferred = job.s.deferred
    BY <1>0, <2>1, <2>s DEF Setups
  <2> QED
    BY <2>1, <2>2, SavesDeferral, KeepsDeferral DEF Idle
<1>4. CASE TurnDefers
  <2>s. PICK s : s = [job.s EXCEPT !.deferred = now]
    OBVIOUS
  <2>1. /\ job.pc # "idle" /\ Save(s) /\ Idle /\ UNCHANGED <<card, undeferred>>
        /\ lastPause' = IF job.s.state = "CONFIRMED" /\ card = NoCard THEN now ELSE lastPause
    BY <1>4, <2>s DEF TurnDefers, Turn, Ends
  <2>2. s.state = job.s.state /\ s.deferred = now
    BY <1>0, <2>1, <2>s DEF Setups
  <2>3. DeferralHonoured'
    BY <2>1 DEF DeferralHonoured, DeferInv
  <2>4. CASE row.state \in Closed
    <3>1. row' = row /\ row.state \notin Open /\ row.state # "PENDING"
      BY <2>1, <2>4, States DEF Save, Saved
    <3> QED
      BY <2>3, <3>1 DEF DeferInv
  <2>5. CASE row.state \in Open
    <3>1. row' = s /\ row.state = job.s.state
      BY <2>1, <2>5, States DEF Save, Saved, DecisionInv, PassInv
    <3>2. row'.state = "PENDING" => lastPause' = 0
      BY <2>1, <2>2, <3>1 DEF DeferInv
    <3>3. card' = NoCard => lastPause' <= row'.deferred
      <4>1. lastPause = 0 \/ job.s.state # "PENDING"
        BY <3>1 DEF DeferInv
      <4>2. job.s.state \in {"PENDING", "CONFIRMED"}
        BY <2>1 DEF DecisionInv, PassInv
      <4>3. now \in Nat
        BY DEF Typed, TypeOK, Times
      <4> QED
        BY <2>1, <2>2, <3>1, <4>1, <4>2, <4>3
    <3> QED
      BY <2>1, <2>3, <3>2, <3>3 DEF DeferInv, NoCard, Idle
  <2> QED
    BY <1>0, <2>4, <2>5, SetupFields
<1>5. CASE TurnUncovered \/ BookGap \/ Rejected
  BY <1>1, <1>5 DEF TurnUncovered, BookGap, Rejected, Turn, Ends, Idle
<1>6. CASE TurnProceeds
  <2>1. job.pc # "idle" /\ UNCHANGED <<card, lastPause, undeferred>>
        /\ Proceed(job.s, Healthy(job.s), WindowEnd(job.s))
    BY <1>0, <1>6, SetupChanged DEF TurnProceeds, Evaluates, Turn
  <2> QED
    BY <1>0, <1>1, <2>1, DeferProceed
<1>7. CASE TurnRefreshes
  <2>1. /\ job.pc # "idle" /\ UNCHANGED <<card, lastPause, undeferred, row>>
        /\ job'.pc = "reversal" /\ job'.s = job.s
    BY <1>0, <1>7, SetupChanged DEF TurnRefreshes, Evaluates, Turn
  <2> QED
    BY <1>1, <2>1 DEF Waits
<1>8. CASE Refreshed
  <2>1. job.pc # "idle" /\ UNCHANGED <<card, lastPause, undeferred>>
    BY <1>8 DEF Refreshed
  <2>2. CASE Proceed(job.s, TRUE, job.end)
    BY <1>0, <1>1, <2>1, <2>2, DeferProceed
  <2>3. CASE Save(job.s) /\ Idle
    BY <1>1, <2>1, <2>3 DEF Idle
  <2> QED
    BY <1>8, <2>2, <2>3 DEF Refreshed, Ends
<1>9. CASE FootprintDone
  <2>1. job.pc = "footprint" /\ UNCHANGED <<card, lastPause, undeferred>>
    BY <1>9 DEF FootprintDone
  <2>2. CASE job'.pc = "quality" /\ job'.s = job.s /\ UNCHANGED row
    BY <1>1, <2>1, <2>2 DEF Waits
  <2>3. CASE Save(job.s) /\ Idle
    BY <1>1, <2>1, <2>3 DEF Idle
  <2> QED
    BY <1>0, <1>9, <2>2, <2>3 DEF FootprintDone, Ends, JobTypes
<1>10. CASE Decided
  <2>1. PICK at \in Raises, verdict \in Verdicts, refused \in BOOLEAN :
          LET s == Decision(job.s, at, verdict, refused) IN
          Save(s) /\ (Awaits("ready", s) \/ Idle)
    BY <1>10 DEF Decided
  <2>s. PICK s : s = Decision(job.s, at, verdict, refused)
    OBVIOUS
  <2>2. /\ Save(s) /\ (Awaits("ready", s) \/ Idle) /\ s.deferred = job.s.deferred
        /\ job.pc = "quality" /\ job.s.state = "PENDING"
        /\ UNCHANGED <<card, lastPause, undeferred>>
    BY <1>10, <2>1, <2>s DEF Decision, Decided, DecisionInv, PassInv, Deciding
  <2>3. job'.pc = "idle" \/ job'.s = s
    <3>1. CASE Awaits("ready", s)
      BY <1>0, <3>1 DEF Awaits, JobTypes
    <3>2. CASE Idle
      BY <3>2 DEF Idle
    <3> QED
      BY <2>2, <3>1, <3>2
  <2>4. /\ row'.state = "PENDING" => row.state = "PENDING"
        /\ row'.state \in Open =>
             row.state \in Open /\ (~undeferred => row'.deferred = row.deferred)
    BY <2>2, SavesDeferral
  <2>5. row.state \in Open => row.state = "PENDING" /\ lastPause = 0
    BY <2>2 DEF DecisionInv, PassInv, DeferInv
  <2>6. row.state \in Open /\ ~undeferred => job.s.deferred = row.deferred
    BY <2>2 DEF DeferInv
  <2>7. row'.deferred \in Nat
    BY SetupFields DEF Typed, TypeOK, Times
  <2>8. DeferralHonoured'
    BY <2>2 DEF DeferralHonoured, DeferInv
  <2> QED
    BY <2>2, <2>3, <2>4, <2>5, <2>6, <2>7, <2>8 DEF DeferInv
<1>11. CASE DecidedUnsaved
  <2>1. /\ UNCHANGED <<card, lastPause, undeferred, row>> /\ job.pc = "quality" /\ job'.pc = "idle"
    BY <1>11 DEF DecidedUnsaved, Idle
  <2> QED
    BY <1>1, <2>1
<1>12. CASE Resumed
  <2>1. job.pc = "resume" /\ UNCHANGED <<card, lastPause, undeferred, row>>
    BY <1>12 DEF Resumed
  <2>2. CASE job.end > job.s.deferred /\ Awaits("ready", job.s)
    <3>1. job'.s = job.s /\ job'.end = job.end
      BY <1>0, <2>2 DEF Awaits, JobTypes
    <3> QED
      BY <1>1, <2>1, <2>2, <3>1 DEF Waits
  <2>3. CASE Idle
    BY <1>1, <2>1, <2>3 DEF Idle
  <2> QED
    BY <1>12, <2>2, <2>3 DEF Resumed
<1>13. CASE Readied \/ NotDispatched
  <2>1. job.pc \in {"ready", "sending"} /\ UNCHANGED <<card, lastPause, undeferred, row>>
    BY <1>13 DEF Readied, NotDispatched
  <2>2. CASE Awaits("sending", job.s)
    <3>1. job'.s = job.s /\ job'.end = job.end
      BY <1>0, <2>2 DEF Awaits, JobTypes
    <3> QED
      BY <1>1, <2>1, <3>1 DEF Waits
  <2>3. CASE Idle
    BY <1>1, <2>1, <2>3 DEF Idle
  <2> QED
    BY <1>13, <2>2, <2>3 DEF Readied, NotDispatched
<1>14. CASE Dispatched
  <2>1. /\ job.pc = "sending" /\ card = NoCard /\ row.state = "CONFIRMED"
        /\ card' = job.end /\ row' = Monitored(job.s) /\ UNCHANGED <<lastPause, undeferred>>
    BY <1>14 DEF Dispatched
  <2>2. job'.pc = "reply" /\ job'.s = job.s
    BY <1>0, <1>14 DEF Dispatched, Awaits, JobTypes
  <2>3. job.s.state = "CONFIRMED" /\ row' = job.s /\ row.state \in Open
    BY <2>1, States DEF DecisionInv, PassInv, Delivering, Monitored
  <2>4. card' \in Times
    BY <2>1 DEF Typed, TypeOK
  <2>5. card' # NoCard
    BY <2>4, Basics DEF NoCard, Times
  <2>6. ~undeferred /\ lastPause > 0 => job.end > lastPause
    BY <2>1, <2>3 DEF DeferInv
  <2>7. DeferralHonoured'
    BY <2>1, <2>6 DEF DeferralHonoured
  <2>8. card' # NoCard /\ row'.state = "CONFIRMED" /\ job'.s.deferred = row'.deferred
        /\ job'.pc \notin {"ready", "sending"}
    BY <2>2, <2>3, <2>5
  <2> QED
    BY <2>7, <2>8 DEF DeferInv, NoCard
<1>15. CASE Replied
  <2>1. job.pc = "reply" /\ Idle /\ UNCHANGED <<card, lastPause, undeferred>>
    BY <1>15 DEF Replied, Ends
  <2>2. CASE UNCHANGED row
    BY <1>1, <2>1, <2>2 DEF Idle
  <2>3. CASE Save([job.s EXCEPT !.state = "ALERTED"])
    <3>s. PICK s : s = [job.s EXCEPT !.state = "ALERTED"]
      OBVIOUS
    <3>1. s.deferred = job.s.deferred /\ s.state = "ALERTED" /\ Save(s)
      BY <1>0, <2>1, <2>3, <3>s DEF Setups
    <3> QED
      BY <2>1, <3>1, SavesDeferral, KeepsDeferral DEF Idle
  <2> QED
    BY <1>15, <2>2, <2>3 DEF Replied, Ends
<1> QED
  BY <1>2, <1>3, <1>4, <1>5, <1>6, <1>7, <1>8, <1>9, <1>10, <1>11, <1>12, <1>13, <1>14, <1>15
     DEF Pass

LEMMA DeferTick ==
  ASSUME Typed, Typed', DecisionInv, DeferInv, Tick
  PROVE  DeferInv'
<1> USE DEF chance, history
<1>1. CASE TickLoads
  BY <1>1, KeepsDeferral DEF TickLoads
<1>2. CASE TickMonitors
  <2>1. /\ row' = row \/ (row' = tick /\ row.state = tick.state)
        /\ UNCHANGED <<card, lastPause, job>>
        /\ undeferred' = (undeferred \/ row'.deferred # row.deferred)
    BY <1>2 DEF TickMonitors, Monitored
  <2>2. row'.state = row.state /\ (~undeferred' => ~undeferred /\ row'.deferred = row.deferred)
    BY <2>1
  <2> QED
    BY <2>1, <2>2 DEF DeferInv, DeferralHonoured
<1>3. CASE TickCloses
  <2>1. PICK state \in Closed : Save([tick EXCEPT !.state = state])
    BY <1>3 DEF TickCloses, Closed
  <2>2. tick \in Setups /\ UNCHANGED <<card, lastPause, job, undeferred>>
    BY <1>3 DEF TickCloses, Typed, TypeOK
  <2>s. PICK s : s = [tick EXCEPT !.state = state]
    OBVIOUS
  <2>3. s.state = state /\ Save(s)
    BY <2>1, <2>2, <2>s DEF Setups
  <2>4. row'.state \in Closed
    BY <2>3 DEF Save, Saved
  <2> QED
    BY <2>2, <2>4, States, KeepsDeferral
<1> QED
  BY <1>1, <1>2, <1>3 DEF Tick

LEMMA DeferStep ==
  ASSUME Typed, Typed', DecisionInv, DeferInv, [Next]_vars
  PROVE  DeferInv'
<1>1. CASE WorldStep \/ UNCHANGED vars
  <2>1. UNCHANGED <<row, job, card, lastPause, undeferred>>
    BY <1>1 DEF WorldStep, Clock, NewsBegins, NewsEnds, FeedFails, FeedRecovers, World, vars, history
  <2> QED
    BY <2>1, KeepsDeferral
<1>2. CASE Fails
  <2>1. UNCHANGED <<row, card, lastPause, undeferred>> /\ job'.pc = "idle"
    BY <1>2 DEF Fails, history, Idle
  <2> QED
    BY <2>1, KeepsDeferral
<1> QED
  BY <1>1, <1>2, DeferPass, DeferTick DEF Next, WorldStep

\* The card of a setup that a pause deferred rests on a window that closed after the last
\* pass that saw the pause (evaluate, with the check of the window on resuming).
THEOREM DeferralsAreHonoured == Spec => []DeferralHonoured
<1>1. Typed /\ DecisionInv /\ DeferInv /\ [Next]_vars => DeferInv'
  BY DeferStep, TypedStep
<1>2. DeferInv => DeferralHonoured
  BY DEF DeferInv
<1> QED
  BY <1>1, <1>2, DeferInit, DecisionHolds, PTL DEF Spec
=============================================================================
