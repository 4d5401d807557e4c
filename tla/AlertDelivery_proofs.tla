------------------------ MODULE AlertDelivery_proofs ------------------------
(***************************************************************************)
(* Theorems about AlertDelivery, for every set of signals, plans, webhooks *)
(* and every number of faults.                                             *)
(***************************************************************************)
EXTENDS AlertDelivery, TLAPS

\* A task that is not at rest has a signal.
EvalKnowsSignal == eval.at # "idle" => eval.sig \in Signals
WorkerKnowsSignal == worker.at # "idle" => worker.sig \in Signals

\* The status a refused delivery carries to RecordBlocked and SettleClaim.
StatusFits ==
  /\ eval.at = "record" => eval.status \in {"blocked", "terminal-setup"}
  /\ eval.at = "alert" => eval.status = "sent"

Typed == TypeOK /\ EvalKnowsSignal /\ WorkerKnowsSignal /\ StatusFits

LEMMA TypedInit == Init => Typed
  BY DeliveryAssumption
     DEF Init, Typed, TypeOK, EvalKnowsSignal, WorkerKnowsSignal, StatusFits, OutboxStatus,
         Outcomes, ClaimStatus, EventStatus, EvalAt, Awaiting, WorkerAt, Idle, Rest

LEMMA TypedEval ==
  ASSUME Typed, EvalStep
  PROVE  Typed'
<1> USE DeliveryAssumption
    DEF Typed, TypeOK, EvalKnowsSignal, WorkerKnowsSignal, StatusFits, OutboxStatus,
        Outcomes, ClaimStatus, EventStatus, EvalAt, Awaiting, WorkerAt, Idle, Rest, EvalGo,
        durable, signalVars, ledger, claimVars, cardVars, world, posts
<1>1. ASSUME NEW s \in Signals, Begin(s) PROVE Typed'
  BY <1>1 DEF Begin
<1>2. CASE Prepared \/ Unprepared \/ MacroPaused \/ DuplicateSuppressed
  BY <1>2 DEF Prepared, Unprepared, MacroPaused, DuplicateSuppressed
<1>3. CASE Claim
  BY <1>3 DEF Claim
<1>4. CASE Reserve
  BY <1>4 DEF Reserve
<1>5. CASE ReserveRefused
  BY <1>5 DEF ReserveRefused, BlockOf
<1>6. CASE ClearDispatched \/ MarkDispatched
  BY <1>6 DEF ClearDispatched, MarkDispatched
<1>7. CASE CheckPassed \/ LastCheckPassed
  BY <1>7 DEF CheckPassed, LastCheckPassed, Post
<1>8. CASE CheckBlocked \/ LastCheckBlocked
  BY <1>8 DEF CheckBlocked, LastCheckBlocked, BlockOf
<1>9. CASE RecordBlocked
  BY <1>9 DEF RecordBlocked
<1>10. ASSUME NEW o \in Outcomes, NEW withId \in BOOLEAN, Replied(o, withId) PROVE Typed'
  BY <1>10 DEF Replied
<1>11. CASE Promote
  BY <1>11 DEF Promote
<1>12. CASE SettleClaim
  BY <1>12 DEF SettleClaim
<1>13. CASE SetAlerted
  BY <1>13 DEF SetAlerted
<1> QED
  BY <1>1, <1>2, <1>3, <1>4, <1>5, <1>6, <1>7, <1>8, <1>9, <1>10, <1>11, <1>12, <1>13
     DEF EvalStep

LEMMA TypedWorker ==
  ASSUME Typed, WorkerStep
  PROVE  Typed'
<1> USE DeliveryAssumption
    DEF Typed, TypeOK, EvalKnowsSignal, WorkerKnowsSignal, StatusFits, OutboxStatus,
        Outcomes, ClaimStatus, EventStatus, EvalAt, Awaiting, WorkerAt, Idle, Rest,
        WorkerGo, SetEvent, durable, signalVars, ledger, claimVars, cardVars, world, posts
<1>1. ASSUME NEW s \in Signals, EditRefused(s) PROVE Typed'
  BY <1>1 DEF EditRefused
<1>2. ASSUME NEW s \in Signals, Edit(s) PROVE Typed'
  BY <1>2 DEF Edit
<1>3. CASE EditDeferred \/ EditRejected
  BY <1>3 DEF EditDeferred, EditRejected
<1>4. CASE EditedThenNotify
  BY <1>4 DEF EditedThenNotify
<1>5. CASE Edited \/ SettleEvent
  BY <1>5 DEF Edited, SettleEvent
<1>6. ASSUME NEW o \in Outcomes, Notified(o) PROVE Typed'
  BY <1>6 DEF Notified
<1> QED
  BY <1>1, <1>2, <1>3, <1>4, <1>5, <1>6 DEF WorkerStep

LEMMA TypedNext ==
  ASSUME Typed, [Next]_vars
  PROVE  Typed'
<1> USE DeliveryAssumption
    DEF Typed, TypeOK, EvalKnowsSignal, WorkerKnowsSignal, StatusFits, OutboxStatus,
        Outcomes, ClaimStatus, EventStatus, EvalAt, Awaiting, WorkerAt, Idle, Rest, Fault,
        durable, signalVars, ledger, claimVars, cardVars, world, posts
<1>1. ASSUME NEW s \in Signals, NEW evidenced \in BOOLEAN, Close(s, evidenced) PROVE Typed'
  BY <1>1 DEF Close
<1>2. ASSUME NEW s \in Signals, CloseWindow(s) PROVE Typed'
  BY <1>2 DEF CloseWindow
<1>3. CASE EvalRaised \/ WorkerRaised
  BY <1>3 DEF EvalRaised, WorkerRaised
<1>4. ASSUME NEW w \in Webhooks, Restart(w) PROVE Typed'
  BY <1>4 DEF Restart
<1>5. CASE UNCHANGED vars
  BY <1>5 DEF vars
<1> QED
  BY <1>1, <1>2, <1>3, <1>4, <1>5, TypedEval, TypedWorker DEF Next

\* Every variable keeps its type through every step of the evaluator, the
\* terminal worker, the lifecycle tasks, faults and restarts.
THEOREM TypeCorrect == Spec => []TypeOK
<1>1. Init => Typed
  BY TypedInit
<1>2. Typed /\ [Next]_vars => Typed'
  BY TypedNext
<1>3. Typed => TypeOK
  BY DEF Typed
<1> QED
  BY <1>1, <1>2, <1>3, PTL DEF Spec

-----------------------------------------------------------------------------
(* The inductive invariant.  AtMostOneCard is not inductive: it rests on   *)
(* who owns a claim, on what the outbox row says while a request is being  *)
(* prepared, and on rows that an attempt can never leave again.            *)

CardInv ==
  /\ \A s \in Signals :
       /\ cardPosts[s] <= 1
       /\ cardPosts[s] > 0 =>
            claimant[Plan[s]] = s /\ card[s] \in Outcomes \cup {"sending"}
  /\ eval.at \notin {"idle", "prepare", "claim"} => claimant[Plan[eval.sig]] = eval.sig
  /\ eval.at \in {"clear", "check", "mark", "last", "record"} =>
       cardPosts[eval.sig] = 0 /\ card[eval.sig] = "sending"
  /\ eval.at = "post" => card[eval.sig] = "sending"
  /\ eval.at \in {"promote", "alert"} => card[eval.sig] = "sent"
  /\ eval.at = "settle" /\ eval.status = "sent" => card[eval.sig] = "sent"
  /\ eval.at = "promote" => eval.status = "sent"

AlertInv ==
  /\ AlertedIsDelivered
  /\ eval.at # "idle" => state[eval.sig] # "ALERTED"
  /\ eval.at = "alert" => claimStatus[Plan[eval.sig]] = "sent"

WorkerInv ==
  /\ worker.at # "idle" => Visible(worker.sig)
  /\ worker.at \in {"result", "commit"} => result[worker.sig] # "none"

ResultInv ==
  /\ \A s \in priced : state[s] = "CLOSED"
  /\ \A s \in Signals :
       /\ resultPosts[s] <= 1
       /\ resultPosts[s] > 0 => s \in priced /\ card[s] = "sent" /\ result[s] # "none"

IInv == Typed /\ CardInv /\ AlertInv /\ WorkerInv /\ ResultInv
             /\ NoOrphanUpdate /\ ResultBeforeSettled

LEMMA CardInit == Init => CardInv
  BY DeliveryAssumption DEF Init, CardInv, Idle

LEMMA CardEval ==
  ASSUME Typed, CardInv, EvalStep
  PROVE  CardInv'
<1> USE DeliveryAssumption
    DEF Typed, TypeOK, EvalKnowsSignal, StatusFits, CardInv, Outcomes, Awaiting, EvalAt, Idle,
        EvalGo, durable, signalVars, ledger, claimVars, cardVars, world, posts
<1>1. ASSUME NEW s \in Signals, Begin(s) PROVE CardInv'
  BY <1>1 DEF Begin
<1>2. CASE Prepared \/ Unprepared \/ MacroPaused \/ DuplicateSuppressed
  BY <1>2 DEF Prepared, Unprepared, MacroPaused, DuplicateSuppressed
\* A claim goes to a plan nobody owns, hence without a posted card, or stays.
<1>3. CASE Claim
  BY <1>3 DEF Claim, FreshClaim, RetryClaim
\* A row is reserved only where no request was ever made.
<1>4. CASE Reserve
  BY <1>4 DEF Reserve, SafeRetry
<1>5. CASE ReserveRefused
  BY <1>5 DEF ReserveRefused, BlockOf
<1>6. CASE ClearDispatched \/ MarkDispatched
  BY <1>6 DEF ClearDispatched, MarkDispatched
<1>7. CASE CheckPassed \/ LastCheckPassed
  BY <1>7 DEF CheckPassed, LastCheckPassed, Post
<1>8. CASE CheckBlocked \/ LastCheckBlocked
  BY <1>8 DEF CheckBlocked, LastCheckBlocked
<1>9. CASE RecordBlocked
  BY <1>9 DEF RecordBlocked
<1>10. ASSUME NEW o \in Outcomes, NEW withId \in BOOLEAN, Replied(o, withId) PROVE CardInv'
  BY <1>10 DEF Replied
<1>11. CASE Promote
  BY <1>11 DEF Promote
<1>12. CASE SettleClaim
  BY <1>12 DEF SettleClaim
<1>13. CASE SetAlerted
  BY <1>13 DEF SetAlerted
<1> QED
  BY <1>1, <1>2, <1>3, <1>4, <1>5, <1>6, <1>7, <1>8, <1>9, <1>10, <1>11, <1>12, <1>13
     DEF EvalStep

\* Nothing but the evaluator touches a card, its claim or its requests.
LEMMA CardKept ==
  ASSUME [Next]_vars, ~EvalStep
  PROVE  /\ UNCHANGED <<card, dest, claimant, claimStatus, cardPosts>>
         /\ eval' = eval \/ eval' = Idle
<1> USE DEF durable, signalVars, ledger, claimVars, cardVars, world, posts
<1>1. CASE WorkerStep
  BY <1>1 DEF WorkerStep, EditRefused, Edit, EditDeferred, EditRejected, EditedThenNotify,
              Edited, Notified, SettleEvent
<1>2. ASSUME NEW s \in Signals, NEW evidenced \in BOOLEAN, Close(s, evidenced)
      PROVE  UNCHANGED <<card, dest, claimant, claimStatus, cardPosts, eval>>
  BY <1>2 DEF Close
<1>3. ASSUME NEW s \in Signals, CloseWindow(s)
      PROVE  UNCHANGED <<card, dest, claimant, claimStatus, cardPosts, eval>>
  BY <1>3 DEF CloseWindow
<1>4. CASE EvalRaised \/ WorkerRaised
  BY <1>4 DEF EvalRaised, WorkerRaised
<1>5. ASSUME NEW w \in Webhooks, Restart(w)
      PROVE  UNCHANGED <<card, dest, claimant, claimStatus, cardPosts>> /\ eval' = Idle
  BY <1>5 DEF Restart
<1>6. CASE UNCHANGED vars
  BY <1>6 DEF vars
<1> QED
  BY <1>1, <1>2, <1>3, <1>4, <1>5, <1>6 DEF Next

LEMMA CardStep ==
  ASSUME Typed, CardInv, [Next]_vars
  PROVE  CardInv'
<1>1. CASE EvalStep
  BY <1>1, CardEval
<1>2. CASE ~EvalStep
  BY <1>2, CardKept DEF CardInv, Idle, Outcomes
<1> QED
  BY <1>1, <1>2

LEMMA CardInductive == Spec => [](Typed /\ CardInv)
<1>1. Init => Typed /\ CardInv
  BY TypedInit, CardInit
<1>2. Typed /\ CardInv /\ [Next]_vars => (Typed /\ CardInv)'
  BY TypedNext, CardStep
<1> QED
  BY <1>1, <1>2, PTL DEF Spec

\* No setup card is ever requested twice, and the setups of one economic plan
\* have one card between them, whatever the crashes, retries and restarts.
THEOREM OneCardPerPlan == Spec => []AtMostOneCard
<1>1. Typed /\ CardInv => AtMostOneCard
  <2> SUFFICES ASSUME Typed, CardInv, NEW s \in Signals
               PROVE  /\ cardPosts[s] <= 1
                      /\ \A t \in Signals :
                           Plan[s] = Plan[t] /\ cardPosts[s] > 0 /\ cardPosts[t] > 0 => s = t
    BY DEF AtMostOneCard
  <2> QED
    BY DEF CardInv
<1> QED
  BY <1>1, CardInductive, PTL

Final == \A s \in Signals : card[s] \in Outcomes => card'[s] = card[s] /\ dest'[s] = dest[s]

LEMMA FinalStep ==
  ASSUME Typed, CardInv, [Next]_vars
  PROVE  Final
<1>1. CASE ~EvalStep
  BY <1>1, CardKept DEF Final
<1>2. CASE EvalStep
  <2> USE DEF Typed, TypeOK, EvalKnowsSignal, CardInv, Outcomes, Final,
              durable, signalVars, ledger, claimVars, cardVars
  <2>1. CASE Reserve
    BY <2>1 DEF Reserve, SafeRetry
  <2>2. CASE RecordBlocked
    BY <2>2 DEF RecordBlocked
  <2>3. ASSUME NEW o \in Outcomes, NEW withId \in BOOLEAN, Replied(o, withId) PROVE Final
    BY <2>3 DEF Replied
  <2>4. CASE UNCHANGED cardVars
    BY <2>4
  <2> QED
    BY <1>2, <2>1, <2>2, <2>3, <2>4
       DEF EvalStep, Begin, Prepared, Unprepared, MacroPaused, Claim, DuplicateSuppressed,
           ReserveRefused, ClearDispatched, CheckPassed, CheckBlocked, MarkDispatched,
           LastCheckPassed, LastCheckBlocked, Promote, SettleClaim, SetAlerted
<1> QED
  BY <1>1, <1>2

\* An attempted card keeps its outcome and its destination for ever: nothing
\* sends an uncertain, refused or delivered card again.
THEOREM AttemptsAreFinal == Spec => OutcomeIsFinal
<1>1. Typed /\ CardInv /\ [Next]_vars => [Final]_vars
  BY FinalStep
<1> QED
  BY <1>1, CardInductive, PTL DEF Spec, OutcomeIsFinal, Final

-----------------------------------------------------------------------------
(* The other conjuncts of the invariant, each relative to the ones before. *)

LEMMA RestInit == Init => AlertInv /\ WorkerInv /\ ResultInv /\ NoOrphanUpdate /\ ResultBeforeSettled
  BY DeliveryAssumption
     DEF Init, AlertInv, WorkerInv, ResultInv, NoOrphanUpdate, ResultBeforeSettled,
         AlertedIsDelivered, Idle, Rest

\* A pass works on a setup that is not ALERTED, and owns the claim it settles.
LEMMA AlertStep ==
  ASSUME Typed, CardInv, AlertInv, [Next]_vars
  PROVE  AlertInv'
<1> USE DeliveryAssumption
    DEF Typed, TypeOK, EvalKnowsSignal, CardInv, AlertInv, AlertedIsDelivered, Idle, EvalGo, Awaiting,
        durable, signalVars, ledger, claimVars, cardVars, world, posts
<1>1. CASE EvalStep
  <2>1. ASSUME NEW s \in Signals, Begin(s) PROVE AlertInv'
    BY <2>1 DEF Begin
  <2>2. CASE Claim
    BY <2>2 DEF Claim, FreshClaim, RetryClaim
  <2>3. CASE Reserve
    BY <2>3 DEF Reserve
  <2>4. CASE RecordBlocked
    BY <2>4 DEF RecordBlocked
  <2>5. ASSUME NEW o \in Outcomes, NEW withId \in BOOLEAN, Replied(o, withId) PROVE AlertInv'
    BY <2>5 DEF Replied
  <2>6. CASE SettleClaim
    BY <2>6 DEF SettleClaim
  <2>7. CASE SetAlerted
    BY <2>7 DEF SetAlerted
  <2>8. CASE Prepared \/ Unprepared \/ MacroPaused \/ DuplicateSuppressed
    BY <2>8 DEF Prepared, Unprepared, MacroPaused, DuplicateSuppressed
  <2>9. CASE ReserveRefused \/ ClearDispatched \/ CheckPassed \/ CheckBlocked
    BY <2>9 DEF ReserveRefused, ClearDispatched, CheckPassed, CheckBlocked, Post
  <2>10. CASE MarkDispatched \/ LastCheckPassed \/ LastCheckBlocked \/ Promote
    BY <2>10 DEF MarkDispatched, LastCheckPassed, LastCheckBlocked, Post, Promote
  <2> QED
    BY <1>1, <2>1, <2>2, <2>3, <2>4, <2>5, <2>6, <2>7, <2>8, <2>9, <2>10 DEF EvalStep
<1>2. CASE ~EvalStep
  <2>1. \A s \in Signals : state'[s] = "ALERTED" => state[s] = "ALERTED"
    <3>1. ASSUME NEW t \in Signals, NEW evidenced \in BOOLEAN, Close(t, evidenced)
          PROVE  \A s \in Signals : state'[s] = "ALERTED" => state[s] = "ALERTED"
      BY <3>1 DEF Close
    <3>2. CASE UNCHANGED state
      BY <3>2
    <3> QED
      BY <1>2, <3>1, <3>2
         DEF Next, WorkerStep, EditRefused, Edit, EditDeferred, EditRejected, EditedThenNotify,
             Edited, Notified, SettleEvent, CloseWindow, EvalRaised, WorkerRaised, Restart, vars
  <2> QED
    BY <1>2, <2>1, CardKept
<1> QED
  BY <1>1, <1>2

-----------------------------------------------------------------------------
(* What the terminal worker knows: its card is in the current destination, *)
(* a result it has requested is on record, and an event is settled only    *)
(* for a delivered card.                                                   *)
UpdateInv == WorkerInv /\ ResultInv /\ NoOrphanUpdate /\ ResultBeforeSettled

\* What the evaluator may do to the state the worker relies on.
LEMMA EvalLeaves ==
  ASSUME Typed, CardInv, EvalStep
  PROVE  /\ UNCHANGED <<priced, result, resultPosts, worker, hook>>
         /\ \A s \in Signals : state[s] = "CLOSED" => state'[s] = "CLOSED"
         /\ \A s \in Signals : event'[s] = event[s] \/ (card'[s] = "sent" /\ event'[s] = "pending")
<1> DEFINE Leaves ==
      /\ UNCHANGED <<priced, result, resultPosts, worker, hook>>
      /\ \A s \in Signals : state[s] = "CLOSED" => state'[s] = "CLOSED"
      /\ \A s \in Signals : event'[s] = event[s] \/ (card'[s] = "sent" /\ event'[s] = "pending")
<1> USE DEF Typed, TypeOK, EvalKnowsSignal, CardInv,
            durable, signalVars, ledger, claimVars, cardVars, world, posts
<1>1. CASE Promote
  BY <1>1 DEF Promote
<1>2. CASE SetAlerted
  BY <1>2 DEF SetAlerted
<1>3. ASSUME UNCHANGED <<priced, result, resultPosts, worker, hook, state, event>>
      PROVE  Leaves
  BY <1>3
<1> HIDE DEF Leaves
<1>4. Leaves
  BY <1>1, <1>2, <1>3
     DEF EvalStep, Begin, Prepared, Unprepared, MacroPaused, Claim, DuplicateSuppressed, Reserve,
         ReserveRefused, ClearDispatched, CheckPassed, CheckBlocked, MarkDispatched, RecordBlocked,
         LastCheckPassed, LastCheckBlocked, Replied, SettleClaim, Post, Leaves
<1> QED
  BY <1>4 DEF Leaves

LEMMA UpdateStep ==
  ASSUME Typed, CardInv, UpdateInv, [Next]_vars
  PROVE  UpdateInv'
<1> USE DeliveryAssumption
    DEF Typed, TypeOK, WorkerKnowsSignal, UpdateInv, WorkerInv, ResultInv, NoOrphanUpdate,
        ResultBeforeSettled, Visible, Rest, Outcomes,
        durable, signalVars, ledger, claimVars, cardVars, world, posts
<1>1. CASE EvalStep
  BY <1>1, EvalLeaves, FinalStep DEF Final
<1>2. CASE WorkerStep
  <2> USE DEF SetEvent, WorkerGo, Due
  <2>1. ASSUME NEW s \in Signals, EditRefused(s) PROVE UpdateInv'
    BY <2>1 DEF EditRefused
  <2>2. ASSUME NEW s \in Signals, Edit(s) PROVE UpdateInv'
    BY <2>2 DEF Edit
  <2>3. CASE EditDeferred
    BY <2>3 DEF EditDeferred
  <2>4. CASE EditRejected
    BY <2>4 DEF EditRejected
  \* No result is on record, so none was requested: this one is the first.
  <2>5. CASE EditedThenNotify
    BY <2>5 DEF EditedThenNotify, ResultWanted
  <2>6. CASE Edited
    BY <2>6 DEF Edited, ResultWanted
  <2>7. ASSUME NEW o \in Outcomes, Notified(o) PROVE UpdateInv'
    BY <2>7 DEF Notified
  <2>8. CASE SettleEvent
    BY <2>8 DEF SettleEvent
  <2> QED
    BY <1>2, <2>1, <2>2, <2>3, <2>4, <2>5, <2>6, <2>7, <2>8 DEF WorkerStep
<1>3. ASSUME NEW s \in Signals, NEW evidenced \in BOOLEAN, Close(s, evidenced) PROVE UpdateInv'
  BY <1>3 DEF Close
<1>4. ASSUME NEW s \in Signals, CloseWindow(s) PROVE UpdateInv'
  BY <1>4 DEF CloseWindow
<1>5. CASE EvalRaised \/ WorkerRaised
  BY <1>5 DEF EvalRaised, WorkerRaised
<1>6. ASSUME NEW w \in Webhooks, Restart(w) PROVE UpdateInv'
  BY <1>6 DEF Restart
<1>7. CASE UNCHANGED vars
  BY <1>7 DEF vars
<1> QED
  BY <1>1, <1>2, <1>3, <1>4, <1>5, <1>6, <1>7 DEF Next

LEMMA Inductive == Spec => []IInv
<1>1. Init => IInv
  BY TypedInit, CardInit, RestInit DEF IInv
<1>2. IInv /\ [Next]_vars => IInv'
  BY TypedNext, CardStep, AlertStep, UpdateStep DEF IInv, UpdateInv
<1> QED
  BY <1>1, <1>2, PTL DEF Spec

\* An ALERTED setup has a delivered card and owns the claim of its plan.
THEOREM AlertedMeansDelivered == Spec => []AlertedIsDelivered
<1>1. IInv => AlertedIsDelivered
  BY DEF IInv, AlertInv
<1> QED
  BY <1>1, Inductive, PTL

\* Requests for a closed setup go to the webhook that holds its card.
THEOREM UpdatesReachOrigin == Spec => []RoutedToOrigin
<1>1. IInv => RoutedToOrigin
  BY DEF IInv, WorkerInv, RoutedToOrigin, Visible
<1> QED
  BY <1>1, Inductive, PTL

\* A price result is posted once, after an evidenced close of a delivered setup.
THEOREM OneResult == Spec => []AtMostOneResult
<1>1. IInv => AtMostOneResult
  BY DEF IInv, ResultInv, AtMostOneResult
<1> QED
  BY <1>1, Inductive, PTL

\* Updates concern delivered cards only.
THEOREM UpdatesAreSound == Spec => []NoOrphanUpdate
<1>1. IInv => NoOrphanUpdate
  BY DEF IInv
<1> QED
  BY <1>1, Inductive, PTL

\* A settled terminal event has its price result on record: no crash falls between the
\* edit and the result (retry_terminals).
THEOREM ResultsPrecede == Spec => []ResultBeforeSettled
<1>1. IInv => ResultBeforeSettled
  BY DEF IInv
<1> QED
  BY <1>1, Inductive, PTL

\* What follows a close reaches the channel of the card, and all of it.
THEOREM UpdatesAreWhole == Spec => []UpdatesHold
<1>1. ResultBeforeSettled /\ RoutedToOrigin => UpdatesHold
  BY DEF UpdatesHold
<1> QED
  BY <1>1, ResultsPrecede, UpdatesReachOrigin, PTL

-----------------------------------------------------------------------------
(* The ledgers.  While nothing has interrupted a pass, whatever disagrees  *)
(* is what the evaluator is about to write.                                *)
Claimed == {"reserve", "clear", "check", "mark", "last", "record", "post", "promote", "settle"}

\* Who has a row owns its plan, and a pass under way has marked its claim.
OwnedInv ==
  /\ \A s \in Signals : card[s] # "none" => claimant[Plan[s]] = s
  /\ eval.at \in Claimed => claimStatus[Plan[eval.sig]] = "sending"

Untouched(s) == card[s] \in {"none", "blocked"}

QuietInv ==
  /\ \A s \in Signals :
       claimant[Plan[s]] = s /\ claimStatus[Plan[s]] = "blocked" => Untouched(s)
  /\ eval.at = "reserve" => card[eval.sig] = "none" \/ SafeRetry(eval.sig)
  /\ eval.at = "settle" =>
       /\ card[eval.sig] \in Outcomes => eval.status = card[eval.sig]
       /\ eval.status = "blocked" => Untouched(eval.sig)
  /\ \A s \in Signals :
       card[s] \in Outcomes /\ claimStatus[Plan[s]] # card[s]
         => eval.at \in {"promote", "settle"} /\ eval.sig = s
  /\ \A s \in Signals :
       card[s] = "sent" /\ state[s] = "CLOSED" /\ event[s] = "unseen"
         => eval.at = "promote" /\ eval.sig = s

LedgerInv == OwnedInv /\ (faults = 0 => QuietInv)

LEMMA LedgerEval ==
  ASSUME Typed, CardInv, LedgerInv, EvalStep
  PROVE  LedgerInv'
<1> USE DeliveryAssumption
    DEF Typed, TypeOK, EvalKnowsSignal, StatusFits, CardInv, LedgerInv, OwnedInv, QuietInv, Claimed,
        Untouched, Outcomes, Awaiting, EvalAt, Idle, EvalGo,
        durable, signalVars, ledger, claimVars, cardVars, world, posts
<1>1. ASSUME NEW s \in Signals, Begin(s) PROVE LedgerInv'
  BY <1>1 DEF Begin
<1>2. CASE Prepared \/ Unprepared \/ MacroPaused \/ DuplicateSuppressed
  BY <1>2 DEF Prepared, Unprepared, MacroPaused, DuplicateSuppressed
\* A fresh claim finds no row of its plan; a blocked one finds none or a blocked one.
<1>3. CASE Claim
  <2>1. OwnedInv'
    BY <1>3 DEF Claim, FreshClaim, RetryClaim
  <2>2. ASSUME faults = 0  PROVE QuietInv'
    <3>1. card[eval.sig] = "none" \/ SafeRetry(eval.sig)
      BY <1>3, <2>2 DEF Claim, FreshClaim, RetryClaim, SafeRetry
    <3> QED
      BY <1>3, <2>2, <3>1 DEF Claim, FreshClaim, RetryClaim, SafeRetry
  <2> QED
    BY <1>3, <2>1, <2>2 DEF Claim
<1>4. CASE Reserve
  BY <1>4 DEF Reserve, SafeRetry
<1>5. CASE ReserveRefused
  BY <1>5 DEF ReserveRefused, BlockOf, SafeRetry
<1>6. CASE ClearDispatched \/ MarkDispatched
  BY <1>6 DEF ClearDispatched, MarkDispatched
<1>7. CASE CheckPassed \/ LastCheckPassed
  BY <1>7 DEF CheckPassed, LastCheckPassed, Post
<1>8. CASE CheckBlocked \/ LastCheckBlocked
  BY <1>8 DEF CheckBlocked, LastCheckBlocked
<1>9. CASE RecordBlocked
  BY <1>9 DEF RecordBlocked
<1>10. ASSUME NEW o \in Outcomes, NEW withId \in BOOLEAN, Replied(o, withId) PROVE LedgerInv'
  BY <1>10 DEF Replied
<1>11. CASE Promote
  BY <1>11 DEF Promote
<1>12. CASE SettleClaim
  BY <1>12 DEF SettleClaim
<1>13. CASE SetAlerted
  BY <1>13 DEF SetAlerted
<1> QED
  BY <1>1, <1>2, <1>3, <1>4, <1>5, <1>6, <1>7, <1>8, <1>9, <1>10, <1>11, <1>12, <1>13
     DEF EvalStep

LEMMA LedgerStep ==
  ASSUME Typed, CardInv, LedgerInv, [Next]_vars
  PROVE  LedgerInv'
<1>1. CASE EvalStep
  BY <1>1, LedgerEval
<1>2. CASE ~EvalStep
  <2>1. OwnedInv'
    BY <1>2, CardKept DEF LedgerInv, OwnedInv, Claimed, Idle
  <2>2. ASSUME faults' = 0  PROVE QuietInv'
    <3>1. /\ faults = 0 /\ UNCHANGED <<eval, dispatched>>
          /\ \A s \in Signals :
               \/ state'[s] = state[s] /\ (event'[s] = event[s] \/ event'[s] # "unseen")
               \/ card[s] # "sent" \/ event'[s] = "pending"
      <4> USE DEF Typed, TypeOK, EventStatus, WorkerKnowsSignal, durable, signalVars, ledger, claimVars, cardVars, world, posts
      <4>1. ASSUME Fault  PROVE FALSE
        BY <4>1, <2>2 DEF Fault
      <4>2. CASE WorkerStep
        BY <4>2, <2>2 DEF WorkerStep, EditRefused, Edit, EditDeferred, EditRejected, EditedThenNotify,
                          Edited, Notified, SettleEvent, SetEvent
      <4>3. ASSUME NEW s \in Signals, NEW evidenced \in BOOLEAN, Close(s, evidenced)
            PROVE  /\ faults = 0 /\ UNCHANGED <<eval, dispatched>>
                   /\ \A t \in Signals :
                        \/ state'[t] = state[t] /\ (event'[t] = event[t] \/ event'[t] # "unseen")
                        \/ card[t] # "sent" \/ event'[t] = "pending"
        BY <4>3, <2>2 DEF Close
      <4>4. ASSUME NEW s \in Signals, CloseWindow(s)
            PROVE  faults = 0 /\ UNCHANGED <<eval, dispatched, state, event>>
        BY <4>4, <2>2 DEF CloseWindow
      <4>5. CASE UNCHANGED vars
        BY <4>5, <2>2 DEF vars
      <4> QED
        BY <1>2, <4>1, <4>2, <4>3, <4>4, <4>5 DEF Next, EvalRaised, WorkerRaised, Restart
    <3>2. UNCHANGED <<card, dest, claimant, claimStatus, cardPosts>>
      BY <1>2, CardKept
    <3>3. QuietInv
      BY <3>1 DEF LedgerInv
    <3> QED
      BY <3>1, <3>2, <3>3 DEF QuietInv, Untouched, SafeRetry
  <2> QED
    BY <2>1, <2>2 DEF LedgerInv
<1> QED
  BY <1>1, <1>2

\* Between passes the ledgers agree, as long as no pass was interrupted: a crash or a
\* failed commit is what it takes to leave a close unseen or a claim behind
\* (deliver_initial).
THEOREM LedgersFollow == Spec => [](faults = 0 => LedgersAgree)
<1>1. Init => LedgerInv
  BY DeliveryAssumption DEF Init, LedgerInv, OwnedInv, QuietInv, Claimed, Untouched, Idle, Outcomes
<1>2. Typed /\ CardInv /\ LedgerInv /\ [Next]_vars => LedgerInv'
  BY LedgerStep
<1>3. LedgerInv => (faults = 0 => LedgersAgree)
  <2>1. SUFFICES ASSUME QuietInv, eval = Idle, NEW s \in Signals
                 PROVE  /\ card[s] = "sent" /\ state[s] = "CLOSED" => event[s] # "unseen"
                        /\ card[s] \in Outcomes => claimStatus[Plan[s]] = card[s]
    BY DEF LedgerInv, LedgersAgree
  <2>2. eval.at = "idle"
    BY <2>1 DEF Idle
  <2> QED
    BY <2>1, <2>2 DEF QuietInv
<1> QED
  BY <1>1, <1>2, <1>3, CardInductive, PTL DEF Spec

-----------------------------------------------------------------------------
(* Delivery implements CardContract.  A result is requested for a card on  *)
(* record as sent, so the mapping needs the converse of CardInv: what is on*)
(* record as attempted was requested.                                      *)
PostedInv ==
  /\ \A s \in Signals : card[s] \in Outcomes => cardPosts[s] = 1
  /\ eval.at = "post" => cardPosts[eval.sig] = 1

LEMMA PostedStep ==
  ASSUME Typed, CardInv, PostedInv, [Next]_vars
  PROVE  PostedInv'
<1>1. CASE ~EvalStep
  BY <1>1, CardKept DEF PostedInv, Idle
<1>2. CASE EvalStep
  <2> USE DeliveryAssumption
      DEF Typed, TypeOK, EvalKnowsSignal, StatusFits, CardInv, PostedInv, Outcomes, Idle, EvalGo,
          durable, signalVars, ledger, claimVars, cardVars, posts
  <2>1. ASSUME NEW s \in Signals, Begin(s) PROVE PostedInv'
    BY <2>1 DEF Begin
  <2>2. CASE Reserve
    BY <2>2 DEF Reserve
  <2>3. CASE CheckPassed \/ LastCheckPassed
    BY <2>3 DEF CheckPassed, LastCheckPassed, Post
  <2>4. CASE RecordBlocked
    BY <2>4 DEF RecordBlocked
  <2>5. ASSUME NEW o \in Outcomes, NEW withId \in BOOLEAN, Replied(o, withId) PROVE PostedInv'
    BY <2>5 DEF Replied
  <2>6. CASE UNCHANGED <<card, cardPosts>> /\ eval'.at # "post"
    BY <2>6
  <2> QED
    BY <1>2, <2>1, <2>2, <2>3, <2>4, <2>5, <2>6
       DEF EvalStep, Prepared, Unprepared, MacroPaused, Claim, DuplicateSuppressed, ReserveRefused,
           ClearDispatched, CheckBlocked, MarkDispatched, LastCheckBlocked, Promote, SettleClaim,
           SetAlerted
<1> QED
  BY <1>1, <1>2

\* A request goes out for a setup that is not closed and owns its plan.
LEMMA PostIsPostCard ==
  ASSUME Typed, CardInv, NEW s \in Signals, s = eval.sig, eval.at \in {"check", "last"},
         BlockOf(s) = "none", Post(s), UNCHANGED <<state, resultPosts>>
  PROVE  Contract!PostCard(s)
<1>1. state[s] # "CLOSED"
  BY DEF BlockOf
<1>2. \A t \in Signals : Plan[t] = Plan[s] => cardPosts[t] = 0
  BY DEF Typed, TypeOK, CardInv
<1>3. cardPosts[s] + 1 = 1
  BY <1>2
<1>4. cardPosts' = [cardPosts EXCEPT ![s] = 1]
  BY <1>3 DEF Post
<1> QED
  BY <1>1, <1>2, <1>4 DEF Contract!PostCard

LEMMA Simulation ==
  ASSUME IInv, PostedInv, [Next]_vars
  PROVE  [Contract!Next]_(Contract!vars)
<1> USE DEF IInv, Typed, TypeOK, EvalKnowsSignal, WorkerKnowsSignal,
            durable, signalVars, ledger, posts
<1>1. CASE CheckPassed \/ LastCheckPassed
  <2>1. eval.sig \in Signals /\ eval.at \in {"check", "last"} /\ BlockOf(eval.sig) = "none"
        /\ UNCHANGED <<state, resultPosts>>
    BY <1>1 DEF CheckPassed, LastCheckPassed
  <2>2. Post(eval.sig) \/ UNCHANGED cardPosts
    BY <1>1 DEF CheckPassed, LastCheckPassed
  <2>3. CASE Post(eval.sig)
    <3>1. Contract!PostCard(eval.sig)
      BY <2>1, <2>3, PostIsPostCard
    <3> QED
      BY <2>1, <3>1 DEF Contract!Next
  <2>4. CASE UNCHANGED cardPosts
    BY <2>1, <2>4 DEF Contract!vars
  <2> QED
    BY <2>2, <2>3, <2>4
<1>2. ASSUME NEW s \in Signals, NEW evidenced \in BOOLEAN, Close(s, evidenced)
      PROVE  Contract!Close(s)
  BY <1>2 DEF Close, Contract!Close
<1>3. CASE EditedThenNotify
  <2> DEFINE s == worker.sig
  <2>1. s \in Signals /\ state[s] = "CLOSED" /\ card[s] = "sent" /\ resultPosts[s] = 0
    BY <1>3 DEF EditedThenNotify, ResultWanted, Visible, ResultInv
  <2>2. cardPosts[s] = 1
    BY <2>1 DEF PostedInv, Outcomes
  <2>3. resultPosts' = [resultPosts EXCEPT ![s] = 1] /\ UNCHANGED <<state, cardPosts>>
    BY <1>3, <2>1 DEF EditedThenNotify
  <2>4. Contract!PostResult(s)
    BY <2>1, <2>2, <2>3 DEF Contract!PostResult
  <2> QED
    BY <2>1, <2>4 DEF Contract!Next
<1>4. CASE SetAlerted
  BY <1>4 DEF SetAlerted, AlertInv, Contract!vars
<1>5. CASE UNCHANGED <<state, cardPosts, resultPosts>>
  BY <1>5 DEF Contract!vars
<1> QED
  BY <1>1, <1>2, <1>3, <1>4, <1>5
     DEF Next, EvalStep, WorkerStep, Begin, Prepared, Unprepared, MacroPaused, Claim,
         DuplicateSuppressed, Reserve, ReserveRefused, ClearDispatched, CheckBlocked,
         MarkDispatched, LastCheckBlocked, RecordBlocked, Replied, Promote, SettleClaim,
         EditRefused, Edit, EditDeferred, EditRejected, Edited, Notified, SettleEvent,
         CloseWindow, EvalRaised, WorkerRaised, Restart, vars, Contract!Next

\* Delivery implements the contract a reader of the channel relies on.
THEOREM Implements == Spec => ContractHolds
<1>1. Init => Contract!Init
  BY DEF Init, Contract!Init
<1>2. Init => PostedInv
  BY DEF Init, PostedInv, Outcomes, Idle
<1>3. IInv /\ PostedInv /\ [Next]_vars => PostedInv'
  BY PostedStep DEF IInv
<1>4. IInv /\ PostedInv /\ [Next]_vars => [Contract!Next]_(Contract!vars)
  BY Simulation
<1> QED
  BY <1>1, <1>2, <1>3, <1>4, Inductive, PTL DEF Spec, ContractHolds, Contract!Spec

-----------------------------------------------------------------------------
(* Opposition.  The check precedes the request, so it must stay true while *)
(* the request is in flight; and it looks at one webhook, so the invariant *)
(* speaks of two cards in the same one, whichever is configured now.       *)
Together(s, t) ==
  /\ state[s] # "CLOSED" /\ state[t] # "CLOSED"
  /\ card[s] = "sent" /\ card[t] = "sent"
  /\ dest[s] = dest[t] /\ dest[s] \in Webhooks

OppositionInv ==
  /\ \A s, t \in Signals : <<s, t>> \in Opposes /\ <<t, s>> \in Opposes => ~Together(s, t)
  /\ eval.at = "post" => ~Opposed(eval.sig)
  /\ \A s \in Signals : card[s] # "sent" => dest[s] = NoHook

\* A closed setup stays closed.
LEMMA ClosedStays ==
  ASSUME Typed, CardInv, [Next]_vars
  PROVE  \A s \in Signals : state[s] = "CLOSED" => state'[s] = "CLOSED"
<1>1. CASE EvalStep
  BY <1>1, EvalLeaves
<1>2. ASSUME NEW t \in Signals, NEW evidenced \in BOOLEAN, Close(t, evidenced)
      PROVE  \A s \in Signals : state[s] = "CLOSED" => state'[s] = "CLOSED"
  BY <1>2 DEF Close, Typed, TypeOK
<1>3. CASE UNCHANGED state
  BY <1>3
<1> QED
  BY <1>1, <1>2, <1>3
     DEF Next, WorkerStep, EditRefused, Edit, EditDeferred, EditRejected, EditedThenNotify,
         Edited, Notified, SettleEvent, CloseWindow, EvalRaised, WorkerRaised, Restart, vars,
         durable, signalVars

\* A step that delivers no card and reopens no setup brings no two cards together.
LEMMA NothingJoins ==
  ASSUME Typed, CardInv, OppositionInv, [Next]_vars,
         UNCHANGED dest, \A s \in Signals : card'[s] = "sent" => card[s] = "sent",
         eval'.at = "post" => ~Opposed(eval.sig)' /\ eval'.sig = eval.sig
  PROVE  OppositionInv'
<1>1. ASSUME NEW s \in Signals, NEW t \in Signals, Together(s, t)'
      PROVE  Together(s, t)
  BY <1>1, ClosedStays DEF Together
<1>2. \A s \in Signals : card'[s] # "sent" => dest'[s] = NoHook
  BY FinalStep DEF Final, Outcomes, OppositionInv
<1> QED
  BY <1>1, <1>2 DEF OppositionInv, Opposed, Visible

LEMMA OppositionStep ==
  ASSUME Typed, CardInv, OppositionInv, [Next]_vars
  PROVE  OppositionInv'
<1> DEFINE Quiet == UNCHANGED dest /\ \A s \in Signals : card'[s] = "sent" => card[s] = "sent"
<1>1. CASE ~EvalStep
  <2>1. Quiet
    BY <1>1, CardKept
  <2>2. eval' = Idle \/ (eval' = eval /\ hook' = hook)
    BY <1>1, CardKept
       DEF Next, WorkerStep, EditRefused, Edit, EditDeferred, EditRejected, EditedThenNotify,
           Edited, Notified, SettleEvent, Close, CloseWindow, EvalRaised, WorkerRaised,
           Restart, vars, world
  <2>3. ASSUME eval'.at = "post", Opposed(eval.sig)' PROVE FALSE
    <3>1. eval' = eval /\ hook' = hook
      BY <2>2, <2>3 DEF Idle
    <3>2. Opposed(eval.sig)
      BY <2>3, <3>1, <1>1, CardKept, ClosedStays DEF Opposed, Visible
    <3> QED
      BY <2>3, <3>1, <3>2 DEF OppositionInv
  <2>4. eval'.at = "post" => eval'.sig = eval.sig
    BY <2>2 DEF Idle
  <2> QED
    BY <2>1, <2>3, <2>4, NothingJoins
<1>2. CASE EvalStep
  <2> USE DEF EvalGo, cardVars, signalVars, ledger, durable
  \* The card in flight is the only one that becomes visible, and nothing opposes it.
  <2>1. ASSUME NEW o \in Outcomes, NEW withId \in BOOLEAN, Replied(o, withId) PROVE OppositionInv'
    <3>1. eval'.at # "post"
      BY <2>1 DEF Replied
    <3>2. UNCHANGED <<state, hook>> /\ eval.at = "post" /\ eval.sig \in Signals /\ hook \in Webhooks
      BY <2>1 DEF Replied, Typed, TypeOK, EvalKnowsSignal, world
    <3>3. /\ \A s \in Signals : s # eval.sig => card'[s] = card[s] /\ dest'[s] = dest[s]
          /\ dest'[eval.sig] = NoHook \/ (dest'[eval.sig] = hook /\ card'[eval.sig] = "sent")
      BY <2>1, <3>2 DEF Replied, Typed, TypeOK, CardInv, OppositionInv
    <3>4. \A s \in Signals : card'[s] # "sent" => dest'[s] = NoHook
      BY <3>2, <3>3 DEF OppositionInv
    <3>5. ASSUME NEW s \in Signals, NEW t \in Signals, <<s, t>> \in Opposes, <<t, s>> \in Opposes,
                 Together(s, t)'
          PROVE  FALSE
      <4>1. s # t
        BY <3>5, DeliveryAssumption
      <4>2. CASE s # eval.sig /\ t # eval.sig
        BY <3>2, <3>3, <3>5, <4>2 DEF Together, OppositionInv
      <4>3. ASSUME NEW u \in Signals, NEW v \in Signals, v = eval.sig, u # v,
                   <<v, u>> \in Opposes, Together(v, u)'
            PROVE  FALSE
        <5>1. card[u] = "sent" /\ state[u] # "CLOSED" /\ dest[u] = dest'[u]
          BY <3>2, <3>3, <4>3 DEF Together
        <5>2. dest'[u] = hook
          BY <3>2, <3>3, <4>3, DeliveryAssumption DEF Together
        <5>3. Visible(u)
          BY <5>1, <5>2 DEF Visible
        <5>4. Opposed(eval.sig)
          BY <4>3, <5>1, <5>3 DEF Opposed
        <5> QED
          BY <3>2, <5>4 DEF OppositionInv
      <4>4. Together(t, s)'
        BY <3>5 DEF Together
      <4>5. s # eval.sig /\ t # eval.sig
        BY <3>5, <4>1, <4>3, <4>4
      <4> QED
        BY <4>2, <4>5
    <3> QED
      BY <3>1, <3>4, <3>5 DEF OppositionInv
  <2>2. CASE CheckPassed \/ LastCheckPassed
    <3>1. UNCHANGED <<state, card, dest, hook>> /\ eval'.sig = eval.sig
      BY <2>2 DEF CheckPassed, LastCheckPassed, Post, world
    <3>2. ~Opposed(eval.sig)
      BY <2>2 DEF CheckPassed, LastCheckPassed, BlockOf
    <3> QED
      BY <3>1, <3>2, NothingJoins DEF Opposed, Visible
  <2>3. CASE RecordBlocked
    <3>1. Quiet /\ eval'.at # "post"
      BY <2>3 DEF RecordBlocked, Typed, TypeOK, StatusFits, EvalKnowsSignal
    <3> QED
      BY <3>1, NothingJoins
  <2>4. CASE Reserve
    <3>1. Quiet /\ eval'.at # "post"
      BY <2>4 DEF Reserve, Typed, TypeOK, EvalKnowsSignal
    <3> QED
      BY <3>1, NothingJoins
  <2>5. CASE UNCHANGED <<card, dest>> /\ eval'.at # "post"
    BY <2>5, NothingJoins
  <2> QED
    BY <1>2, <2>1, <2>2, <2>3, <2>4, <2>5
       DEF EvalStep, Begin, Prepared, Unprepared, MacroPaused, Claim, DuplicateSuppressed,
           ReserveRefused, ClearDispatched, CheckBlocked, MarkDispatched, LastCheckBlocked,
           Promote, SettleClaim, SetAlerted, Idle
<1> QED
  BY <1>1, <1>2

\* Two setups that oppose each other are never both active and visible.
THEOREM NoOppositionVisible == Spec => []OppositionRespected
<1>1. Init => OppositionInv
  BY DeliveryAssumption DEF Init, OppositionInv, Together, Idle
<1>2. Typed /\ CardInv /\ OppositionInv /\ [Next]_vars => OppositionInv'
  BY OppositionStep
<1>3. Typed /\ OppositionInv => OppositionRespected
  BY DEF Typed, TypeOK, OppositionInv, OppositionRespected, Together, Visible
<1> QED
  BY <1>1, <1>2, <1>3, CardInductive, PTL DEF Spec

=============================================================================
