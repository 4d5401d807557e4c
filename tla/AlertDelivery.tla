--------------------------- MODULE AlertDelivery ---------------------------
(***************************************************************************)
(* Delivery of setup cards to Discord: notifications.py (send_research,    *)
(* deliver_initial, deliver, retry_terminals, send_price_result),          *)
(* identity.py (claim) and the terminal half of storage.py (Store.signal). *)
(*                                                                         *)
(* One desk process runs an asyncio loop.  Three of its tasks matter here: *)
(* the evaluator (publishes the initial card of a CONFIRMED signal), the   *)
(* terminal worker (edits the card of a closed signal and posts its price  *)
(* result) and the lifecycle tasks (close signals).  A task loses the loop *)
(* only at an await; the process may die between any two SQLite commits.   *)
(* SQLite rows survive a crash, the tasks' positions do not.               *)
(***************************************************************************)
EXTENDS Naturals

CONSTANTS
  Signals,      \* setup identifiers
  Plans,        \* economic-plan fingerprints
  Plan,         \* [Signals -> Plans]: identity.fingerprint
  Event,        \* the execution event of a signal: identity.same_v22_execution_event
  V22,          \* the signals under the trade-validity-v22 policy
  Opposes,      \* <<s, t>>: notification_conflicts.assess refuses s while t is visible
  Webhooks,     \* identifiers of signals-channel webhooks
  NoSignal, NoHook,
  MaxFaults     \* bound on process crashes and raised exceptions

ASSUME DeliveryAssumption ==
  /\ Plan \in [Signals -> Plans]
  /\ V22 \subseteq Signals
  /\ Opposes \subseteq Signals \X Signals
  /\ \A s \in Signals : <<s, s>> \notin Opposes
  /\ NoSignal \notin Signals
  /\ NoHook \notin Webhooks
  /\ MaxFaults \in Nat

VARIABLES
  \* SQLite, durable
  state,        \* signals.state; the three terminal states are one, "CLOSED"
  priced,       \* the signals that closed on an unambiguous TARGET or STOP
  claimant,     \* initial_alert_claims.signal_id, by fingerprint
  claimStatus,  \* initial_alert_claims.delivery_status, by fingerprint
  card,         \* outbox.status of the key research:<id>:initial
  dest,         \* kv discord_initial_delivery: the webhook that holds the card
  dispatched,   \* kv v22_http_dispatched:<id>
  event,        \* terminal_events.notification_status
  result,       \* outbox.status of the key research:<id>:price-result
  \* the process
  hook,         \* the webhook in the settings the process started with
  eval,         \* position of the evaluator, its signal, the status it holds
  worker,       \* position of the terminal worker and its signal
  \* the world
  open,         \* the signals whose entry window still has 15 s
  faults,       \* crashes and raised exceptions so far
  cardPosts,    \* POST requests issued for the card of a signal
  resultPosts   \* POST requests issued for the price result of a signal

signalVars == <<state, priced, event>>
claimVars == <<claimant, claimStatus>>
cardVars == <<card, dest>>
ledger == <<claimVars, cardVars, dispatched, result>>
durable == <<signalVars, ledger>>
world == <<hook, open, faults>>
posts == <<cardPosts, resultPosts>>
vars == <<durable, eval, worker, world, posts>>

-----------------------------------------------------------------------------
\* "rejected" stands for "rejected" and "rate-limited" (neither is retried);
\* "blocked" for every "blocked:<reason>".
Outcomes == {"sent", "uncertain", "rejected"}
OutboxStatus == Outcomes \cup {"none", "sending", "blocked", "terminal-setup"}
ClaimStatus == OutboxStatus \cup {"already-attempted"}
EventStatus == {"none", "unseen", "pending", "sent", "failed", "blocked"}

\* Where the evaluator is.  At "idle", "prepare", "check" and "post" it awaits.
Awaiting == {"idle", "prepare", "check", "post"}
EvalAt == Awaiting \cup
  {"claim", "reserve", "clear", "mark", "last", "record", "promote", "settle", "alert"}
\* The worker awaits everywhere but between its last two commits.
WorkerAt == {"idle", "patch", "result", "commit"}

Idle == [at |-> "idle", sig |-> NoSignal, status |-> "none"]
Rest == [at |-> "idle", sig |-> NoSignal]

TypeOK ==
  /\ state \in [Signals -> {"CONFIRMED", "ALERTED", "CLOSED"}]
  /\ priced \subseteq Signals
  /\ claimant \in [Plans -> Signals \cup {NoSignal}]
  /\ claimStatus \in [Plans -> ClaimStatus]
  /\ card \in [Signals -> OutboxStatus]
  /\ dest \in [Signals -> Webhooks \cup {NoHook}]
  /\ dispatched \in [Signals -> {"unset", "no", "yes"}]
  /\ event \in [Signals -> EventStatus]
  /\ result \in [Signals -> Outcomes \cup {"none", "sending"}]
  /\ hook \in Webhooks
  /\ eval \in [at : EvalAt, sig : Signals \cup {NoSignal}, status : ClaimStatus]
  /\ worker \in [at : WorkerAt, sig : Signals \cup {NoSignal}]
  /\ open \subseteq Signals
  /\ faults \in Nat
  /\ cardPosts \in [Signals -> Nat]
  /\ resultPosts \in [Signals -> Nat]

Init ==
  /\ state = [s \in Signals |-> "CONFIRMED"]
  /\ priced = {}
  /\ claimant = [p \in Plans |-> NoSignal]
  /\ claimStatus = [p \in Plans |-> "none"]
  /\ card = [s \in Signals |-> "none"]
  /\ dest = [s \in Signals |-> NoHook]
  /\ dispatched = [s \in Signals |-> "unset"]
  /\ event = [s \in Signals |-> "none"]
  /\ result = [s \in Signals |-> "none"]
  /\ hook \in Webhooks
  /\ eval = Idle
  /\ worker = Rest
  /\ open = Signals
  /\ faults = 0
  /\ cardPosts = [s \in Signals |-> 0]
  /\ resultPosts = [s \in Signals |-> 0]

-----------------------------------------------------------------------------
EvalAwaits == eval.at \in Awaiting
WorkerAwaits == worker.at # "commit"

\* was_initially_delivered: sent, with a message id, in the current destination.
Visible(s) == card[s] = "sent" /\ dest[s] = hook

\* opposing_visible_setup.  A plan past its holding deadline, which the code
\* skips, counts as closed: the lifecycle closes it at that deadline.
Opposed(s) ==
  \E t \in Signals : <<s, t>> \in Opposes /\ state[t] # "CLOSED" /\ Visible(t)

\* initial_delivery_block: what it returns, "none" when it lets the card pass.
BlockOf(s) ==
  IF state[s] = "CLOSED" THEN "terminal-setup"
  ELSE IF s \notin open \/ Opposed(s) THEN "blocked"
  ELSE "none"

EvalGo(at, s, status) == eval' = [at |-> at, sig |-> s, status |-> status]

-----------------------------------------------------------------------------
(* The evaluator: send_research and deliver_initial of one signal.         *)

\* A first check; it leaves no trace when it blocks.
Begin(s) ==
  /\ eval = Idle /\ WorkerAwaits
  /\ state[s] = "CONFIRMED" /\ BlockOf(s) = "none"
  /\ EvalGo(IF s \in V22 THEN "prepare" ELSE "claim", s, "none")
  /\ UNCHANGED <<durable, worker, world, posts>>

\* prepare_initial returns: the live evidence supports the card, or not.
Prepared ==
  /\ eval.at = "prepare" /\ WorkerAwaits
  /\ EvalGo("claim", eval.sig, "none")
  /\ UNCHANGED <<durable, worker, world, posts>>

Unprepared ==
  /\ eval.at = "prepare" /\ WorkerAwaits
  /\ eval' = Idle
  /\ UNCHANGED <<durable, worker, world, posts>>

\* A macro pause turns the card away before the claim.
MacroPaused ==
  /\ eval.at = "claim"
  /\ eval' = Idle
  /\ UNCHANGED <<durable, worker, world, posts>>

\* An active signal of the same execution event already claimed its card.
EconomicDuplicate(s) ==
  /\ s \in V22
  /\ \E t \in Signals \ {s} :
       /\ Event[t] = Event[s] /\ state[t] # "CLOSED"
       /\ claimant[Plan[t]] = t
       /\ claimStatus[Plan[t]] \in {"sent", "uncertain", "sending"}

\* Mutant: the claim is keyed by setup and not by plan.
FreshClaimPerSignal(s) == claimant[Plan[s]] # s /\ ~EconomicDuplicate(s)

FreshClaim(s) == claimant[Plan[s]] = NoSignal /\ ~EconomicDuplicate(s)

\* Mutant: a blocked claim is never taken over.
NoRetryClaim(s) == FALSE

RetryClaim(s) ==
  /\ s \in V22 /\ dispatched[s] = "no"
  /\ claimant[Plan[s]] = s /\ claimStatus[Plan[s]] = "blocked"

Claim ==
  LET s == eval.sig IN
  /\ eval.at = "claim"
  /\ FreshClaim(s) \/ RetryClaim(s)
  /\ claimant' = [claimant EXCEPT ![Plan[s]] = s]
  /\ claimStatus' = [claimStatus EXCEPT ![Plan[s]] = "sending"]
  /\ EvalGo("reserve", s, "none")
  /\ UNCHANGED <<signalVars, cardVars, dispatched, result, worker, world, posts>>

DuplicateSuppressed ==
  /\ eval.at = "claim"
  /\ ~FreshClaim(eval.sig) /\ ~RetryClaim(eval.sig)
  /\ eval' = Idle
  /\ UNCHANGED <<durable, worker, world, posts>>

-----------------------------------------------------------------------------
(* deliver of the initial card.                                            *)

SafeRetry(s) == s \in V22 /\ card[s] = "blocked" /\ dispatched[s] = "no"

\* Insert the outbox row, or take a blocked one over.
Reserve ==
  LET s == eval.sig IN
  /\ eval.at = "reserve"
  /\ card[s] = "none" \/ SafeRetry(s)
  /\ BlockOf(s) = "none"
  /\ card' = [card EXCEPT ![s] = "sending"]
  /\ EvalGo(IF s \in V22 THEN "clear" ELSE "check", s, "none")
  /\ UNCHANGED <<signalVars, claimVars, dest, dispatched, result, worker, world, posts>>

\* An existing row, or a block, ends the delivery without a row.
ReserveRefused ==
  LET s == eval.sig
      attempted == card[s] # "none" /\ ~SafeRetry(s)
  IN
  /\ eval.at = "reserve"
  /\ attempted \/ BlockOf(s) # "none"
  /\ EvalGo("settle", s, IF attempted THEN "already-attempted" ELSE BlockOf(s))
  /\ UNCHANGED <<durable, worker, world, posts>>

ClearDispatched ==
  /\ eval.at = "clear"
  /\ dispatched' = [dispatched EXCEPT ![eval.sig] = "no"]
  /\ EvalGo("check", eval.sig, "none")
  /\ UNCHANGED <<signalVars, claimVars, cardVars, result, worker, world, posts>>

Post(s) ==
  /\ cardPosts' = [cardPosts EXCEPT ![s] = @ + 1]
  /\ EvalGo("post", s, "none")

\* Mutant: the block is not read again once the outbox row is reserved.
CheckSkipped ==
  LET s == eval.sig IN
  /\ eval.at = "check" /\ WorkerAwaits
  /\ IF s \in V22
       THEN EvalGo("mark", s, "none") /\ UNCHANGED cardPosts
       ELSE Post(s)
  /\ UNCHANGED <<durable, worker, resultPosts, world>>

\* Inside the HTTP client: the block is read again, and the request goes out.
\* A v22 card is first finalized against the live book and marked dispatched.
CheckPassed ==
  LET s == eval.sig IN
  /\ eval.at = "check" /\ WorkerAwaits
  /\ BlockOf(s) = "none"
  /\ IF s \in V22
       THEN EvalGo("mark", s, "none") /\ UNCHANGED cardPosts
       ELSE Post(s)
  /\ UNCHANGED <<durable, worker, resultPosts, world>>

\* finalize_initial and guard_initial can refuse a v22 card at any time.
CheckBlocked ==
  LET s == eval.sig IN
  /\ eval.at = "check" /\ WorkerAwaits
  /\ BlockOf(s) # "none" \/ s \in V22
  /\ EvalGo("record", s, IF BlockOf(s) = "none" THEN "blocked" ELSE BlockOf(s))
  /\ UNCHANGED <<durable, worker, world, posts>>

MarkDispatched ==
  /\ eval.at = "mark"
  /\ dispatched' = [dispatched EXCEPT ![eval.sig] = "yes"]
  /\ EvalGo("last", eval.sig, "none")
  /\ UNCHANGED <<signalVars, claimVars, cardVars, result, worker, world, posts>>

LastCheckPassed ==
  /\ eval.at = "last"
  /\ BlockOf(eval.sig) = "none"
  /\ Post(eval.sig)
  /\ UNCHANGED <<durable, worker, resultPosts, world>>

\* The accounting writes took too long: the mark is taken back.
LastCheckBlocked ==
  LET s == eval.sig IN
  /\ eval.at = "last"
  /\ dispatched' = [dispatched EXCEPT ![s] = "no"]
  /\ EvalGo("record", s, IF BlockOf(s) = "none" THEN "blocked" ELSE BlockOf(s))
  /\ UNCHANGED <<signalVars, claimVars, cardVars, result, worker, world, posts>>

RecordBlocked ==
  /\ eval.at = "record"
  /\ card' = [card EXCEPT ![eval.sig] = eval.status]
  /\ EvalGo("settle", eval.sig, eval.status)
  /\ UNCHANGED <<signalVars, claimVars, dest, dispatched, result, worker, world, posts>>

\* The reply, or its absence, is recorded with the destination in one
\* transaction.  A success without a message id has no destination.
Replied(outcome, withId) ==
  LET s == eval.sig IN
  /\ eval.at = "post" /\ WorkerAwaits
  /\ withId => outcome = "sent"
  /\ card' = [card EXCEPT ![s] = outcome]
  /\ dest' = IF withId THEN [dest EXCEPT ![s] = hook] ELSE dest
  /\ EvalGo(IF outcome = "sent" THEN "promote" ELSE "settle", s, outcome)
  /\ UNCHANGED <<signalVars, claimVars, dispatched, result, worker, world, posts>>

\* Mutant: the terminal event of an in-flight card is not promoted.
PromoteNothing ==
  /\ eval.at = "promote"
  /\ EvalGo("settle", eval.sig, eval.status)
  /\ UNCHANGED <<durable, worker, world, posts>>

\* A terminal event written while the request was in flight becomes due.
Promote ==
  LET s == eval.sig IN
  /\ eval.at = "promote"
  /\ event' = [event EXCEPT ![s] = IF @ = "unseen" THEN "pending" ELSE @]
  /\ EvalGo("settle", s, eval.status)
  /\ UNCHANGED <<ledger, state, priced, worker, world, posts>>

SettleClaim ==
  LET s == eval.sig IN
  /\ eval.at = "settle"
  /\ claimStatus' = [claimStatus EXCEPT ![Plan[s]] = eval.status]
  /\ eval' = IF eval.status = "sent"
               THEN [at |-> "alert", sig |-> s, status |-> "sent"]
               ELSE Idle
  /\ UNCHANGED <<signalVars, cardVars, claimant, dispatched, result, worker, world, posts>>

\* Store.signal of the ALERTED state never resurrects a closed signal.
SetAlerted ==
  LET s == eval.sig IN
  /\ eval.at = "alert"
  /\ state' = [state EXCEPT ![s] = IF @ = "CLOSED" THEN @ ELSE "ALERTED"]
  /\ eval' = Idle
  /\ UNCHANGED <<ledger, priced, event, worker, world, posts>>

-----------------------------------------------------------------------------
(* The lifecycle tasks close a signal: tick, reconcile, monitor_alerted.   *)
(* Store.signal writes the terminal event in the same transaction.         *)
Close(s, evidenced) ==
  /\ EvalAwaits /\ WorkerAwaits
  /\ state[s] # "CLOSED"
  /\ state' = [state EXCEPT ![s] = "CLOSED"]
  /\ priced' = IF evidenced THEN priced \cup {s} ELSE priced
  /\ event' = [event EXCEPT ![s] = IF card[s] = "sent" THEN "pending" ELSE "unseen"]
  /\ UNCHANGED <<ledger, eval, worker, world, posts>>

-----------------------------------------------------------------------------
(* The terminal worker: retry_terminals and send_price_result.             *)
WorkerGo(at, s) == worker' = [at |-> at, sig |-> s]

Due(s) == worker = Rest /\ EvalAwaits /\ event[s] = "pending"

SetEvent(s, status) == event' = [event EXCEPT ![s] = status]

\* No message id, or a retired destination: nothing is edited.
EditRefused(s) ==
  /\ Due(s) /\ ~Visible(s)
  /\ SetEvent(s, IF card[s] # "sent" \/ dest[s] = NoHook THEN "failed" ELSE "blocked")
  /\ UNCHANGED <<ledger, state, priced, eval, worker, world, posts>>

Edit(s) ==
  /\ Due(s) /\ Visible(s)
  /\ WorkerGo("patch", s)
  /\ UNCHANGED <<durable, eval, world, posts>>

\* 429, 5xx or a transport error: the event stays pending.
EditDeferred ==
  /\ worker.at = "patch" /\ EvalAwaits
  /\ worker' = Rest
  /\ UNCHANGED <<durable, eval, world, posts>>

EditRejected ==
  /\ worker.at = "patch" /\ EvalAwaits
  /\ SetEvent(worker.sig, "failed")
  /\ worker' = Rest
  /\ UNCHANGED <<ledger, state, priced, eval, world, posts>>

ResultWanted(s) == s \in priced /\ Visible(s) /\ result[s] = "none"

\* The edit succeeded; a price result is reserved and posted before the
\* terminal event is settled.
EditedThenNotify ==
  LET s == worker.sig IN
  /\ worker.at = "patch" /\ EvalAwaits
  /\ ResultWanted(s)
  /\ result' = [result EXCEPT ![s] = "sending"]
  /\ resultPosts' = [resultPosts EXCEPT ![s] = @ + 1]
  /\ WorkerGo("result", s)
  /\ UNCHANGED <<signalVars, claimVars, cardVars, dispatched, eval, cardPosts, world>>

\* Mutant: the terminal event is settled before the price result.
EditedFirst ==
  /\ worker.at = "patch" /\ EvalAwaits
  /\ SetEvent(worker.sig, "sent")
  /\ worker' = Rest
  /\ UNCHANGED <<ledger, state, priced, eval, world, posts>>

Edited ==
  LET s == worker.sig IN
  /\ worker.at = "patch" /\ EvalAwaits
  /\ ~ResultWanted(s)
  /\ SetEvent(s, "sent")
  /\ worker' = Rest
  /\ UNCHANGED <<ledger, state, priced, eval, world, posts>>

Notified(outcome) ==
  LET s == worker.sig IN
  /\ worker.at = "result" /\ EvalAwaits
  /\ result' = [result EXCEPT ![s] = outcome]
  /\ WorkerGo("commit", s)
  /\ UNCHANGED <<signalVars, claimVars, cardVars, dispatched, eval, world, posts>>

SettleEvent ==
  /\ worker.at = "commit"
  /\ SetEvent(worker.sig, "sent")
  /\ worker' = Rest
  /\ UNCHANGED <<ledger, state, priced, eval, world, posts>>

-----------------------------------------------------------------------------
(* The world.                                                              *)
CloseWindow(s) ==
  /\ s \in open
  /\ open' = open \ {s}
  /\ UNCHANGED <<durable, eval, worker, hook, faults, posts>>

\* A commit fails (SQLite busy), or a success has no JSON body: the exception
\* ends the evaluator's pass, or the worker's, where it stands.
Fault == faults < MaxFaults /\ faults' = faults + 1

EvalRaised ==
  /\ Fault /\ eval # Idle
  /\ eval' = Idle
  /\ UNCHANGED <<durable, worker, hook, open, posts>>

WorkerRaised ==
  /\ Fault /\ worker # Rest
  /\ worker' = Rest
  /\ UNCHANGED <<durable, eval, hook, open, posts>>

\* The process dies between two commits and starts again, perhaps with
\* another webhook in its settings.
Restart(w) ==
  /\ Fault
  /\ eval' = Idle /\ worker' = Rest
  /\ hook' = w
  /\ UNCHANGED <<durable, open, posts>>

-----------------------------------------------------------------------------
EvalStep ==
  \/ \E s \in Signals : Begin(s)
  \/ Prepared \/ Unprepared
  \/ MacroPaused \/ Claim \/ DuplicateSuppressed
  \/ Reserve \/ ReserveRefused \/ ClearDispatched
  \/ CheckPassed \/ CheckBlocked
  \/ MarkDispatched \/ LastCheckPassed \/ LastCheckBlocked
  \/ RecordBlocked
  \/ \E o \in Outcomes, withId \in BOOLEAN : Replied(o, withId)
  \/ Promote \/ SettleClaim \/ SetAlerted

WorkerStep ==
  \/ \E s \in Signals : EditRefused(s) \/ Edit(s)
  \/ EditDeferred \/ EditRejected
  \/ EditedThenNotify \/ Edited
  \/ \E o \in Outcomes : Notified(o)
  \/ SettleEvent

Next ==
  \/ EvalStep
  \/ WorkerStep
  \/ \E s \in Signals, evidenced \in BOOLEAN : Close(s, evidenced)
  \/ \E s \in Signals : CloseWindow(s)
  \/ EvalRaised \/ WorkerRaised
  \/ \E w \in Webhooks : Restart(w)

Spec == Init /\ [][Next]_vars

-----------------------------------------------------------------------------
(* Safety.                                                                 *)

\* An economic plan is posted at most once, whatever the crashes, retries and
\* restarts: no setup card is ever requested twice, and of the setups that
\* share a fingerprint only one has a card (claim, deliver).
AtMostOneCard ==
  \A s \in Signals :
    /\ cardPosts[s] <= 1
    /\ \A t \in Signals :
         Plan[s] = Plan[t] /\ cardPosts[s] > 0 /\ cardPosts[t] > 0 => s = t

\* A price result is posted at most once, and only for a setup that closed on
\* an evidenced price and whose card was delivered (send_price_result through
\* deliver, across the worker's retries).
AtMostOneResult ==
  \A s \in Signals :
    /\ resultPosts[s] <= 1
    /\ resultPosts[s] > 0 => s \in priced /\ state[s] = "CLOSED" /\ card[s] = "sent"

\* Once the terminal edit is recorded as sent, an evidenced price result has
\* been attempted: a crash cannot fall between the two (retry_terminals).
ResultBeforeSettled ==
  \A s \in priced : event[s] = "sent" => result[s] # "none"

\* Only a delivered card is edited or has an update due: an update never
\* concerns a setup whose initial is unknown, uncertain or suppressed.
NoOrphanUpdate ==
  \A s \in Signals :
    /\ event[s] \in {"pending", "sent", "failed", "blocked"} => card[s] = "sent"
    /\ event[s] = "sent" => dest[s] \in Webhooks

\* A request in flight for a closed setup goes to the webhook that holds its
\* card, across restarts that change the configured webhook.
RoutedToOrigin ==
  worker.at \in {"patch", "result"} => dest[worker.sig] = hook

\* What follows a close reaches the channel of the card, and all of it: the edit does
\* not settle before the result is on record (retry_terminals).
UpdatesHold == ResultBeforeSettled /\ RoutedToOrigin

\* An ALERTED setup has a delivered card and owns the claim of its plan.
AlertedIsDelivered ==
  \A s \in Signals : state[s] = "ALERTED" =>
    card[s] = "sent" /\ claimant[Plan[s]] = s /\ claimStatus[Plan[s]] = "sent"

\* Two setups that oppose each other are never both active and visible in one
\* channel, although each is checked only while its own card is prepared
\* (opposing_visible_setup; a nested counter-move is refused one way only).
OppositionRespected ==
  \A s, t \in Signals :
    /\ <<s, t>> \in Opposes /\ <<t, s>> \in Opposes
    /\ state[s] # "CLOSED" /\ state[t] # "CLOSED"
    => ~(Visible(s) /\ Visible(t))

\* Between passes the ledgers agree: a delivered card of a closed setup has a
\* terminal event that is due or handled, and the claim of a plan says what
\* the outbox says (deliver_initial, when nothing interrupts it).
LedgersAgree ==
  eval = Idle =>
    \A s \in Signals :
      /\ card[s] = "sent" /\ state[s] = "CLOSED" => event[s] # "unseen"
      /\ card[s] \in Outcomes => claimStatus[Plan[s]] = card[s]

\* An attempted card keeps its outcome: an ambiguous or refused request is
\* never sent again, and a delivered one never forgets where it is (deliver).
OutcomeIsFinal ==
  [][\A s \in Signals : card[s] \in Outcomes => card'[s] = card[s] /\ dest'[s] = dest[s]]_vars

\* Delivery implements the contract a reader of the channel relies on: one
\* card per plan, never for a closed setup, then at most one result.
Contract == INSTANCE CardContract WITH
  closed <- {s \in Signals : state[s] = "CLOSED"},
  cards <- cardPosts,
  results <- resultPosts

ContractHolds == Contract!Spec

-----------------------------------------------------------------------------
(* Liveness.  Scheduling: each pass of a loop visits every signal it finds,*)
(* and a task that holds the asyncio loop goes on.  The world: Discord     *)
(* answers an edit in the end, a request in flight ends (15 s timeout),    *)
(* and live evidence that keeps coming back lets a card pass in the end.   *)
EvalProceeds ==
  \/ Claim \/ DuplicateSuppressed \/ Reserve \/ ReserveRefused \/ ClearDispatched
  \/ CheckPassed \/ CheckBlocked
  \/ MarkDispatched \/ LastCheckPassed \/ LastCheckBlocked
  \/ RecordBlocked
  \/ \E o \in Outcomes, withId \in BOOLEAN : Replied(o, withId)
  \/ Promote \/ SettleClaim \/ SetAlerted

WorkerProceeds ==
  \/ EditRejected \/ EditedThenNotify \/ Edited
  \/ (\E o \in Outcomes : Notified(o)) \/ SettleEvent

Fairness ==
  /\ WF_vars(EvalProceeds \/ Prepared \/ Unprepared \/ MacroPaused)
  /\ SF_vars(Prepared) /\ SF_vars(Claim) /\ SF_vars(CheckPassed) /\ SF_vars(LastCheckPassed)
  /\ SF_vars(WorkerProceeds)
  /\ \A s \in Signals : SF_vars(Begin(s)) /\ SF_vars(Edit(s) \/ EditRefused(s))

FairSpec == Spec /\ Fairness

\* The close of a delivered setup eventually reaches the terminal worker: its
\* event does not stay unseen (Store.signal, deliver_initial).
CloseIsSeen ==
  \A s \in Signals : (card[s] = "sent" /\ event[s] = "unseen") ~> event[s] # "unseen"

\* A confirmed setup is eventually posted, unless it closes, its window ends,
\* a visible setup opposes it or its plan has a card (evaluate, claim).
NotStranded ==
  \A s \in Signals :
    cardPosts[s] = 0 ~> \/ cardPosts[s] > 0
                        \/ state[s] = "CLOSED" \/ s \notin open \/ Opposed(s)
                        \/ \E t \in Signals : Plan[t] = Plan[s] /\ cardPosts[t] > 0
=============================================================================
