# BybitFlow verification

TLA+ models of BybitFlow, the TLC runs that check them and the TLAPS proofs
about them. BybitFlow watches public exchange feeds, recognises trading setups,
publishes each as a card in a Discord channel, follows its price path to a
close, edits the card with the outcome, and learns from what it recorded. It
places no orders.

Paths below are relative to the repository, and `bybit_flow/` stands for
`src/bybit_flow/`. The lines each definition stands for are in `PROJECT.json`.

## 1. Inventory

One desk process runs a single asyncio loop with about twenty tasks, a few
worker threads (SQLite, JSON) and one spawned child process (the recorder's
writer). A learning worker and a command line are processes of their own.
Durable state is one SQLite database in WAL mode, a directory of compressed
segments and their archives, and a directory of model artifacts. Everything
else dies with its process.

| Component | State | Operations | Hard behaviour | What makes it correct |
|---|---|---|---|---|
| Alert delivery (`notifications.py`, `identity.py`) | `initial_alert_claims`, `outbox`, `terminal_events`, kv `discord_initial_delivery`, `v22_http_dispatched` | claim, deliver, record reply, promote terminal event, edit, post result | a POST cannot be taken back and has no idempotency key; three ledgers in separate transactions; the setup closes while its card is in flight; the webhook changes across restarts | one card per economic plan, one result per setup, updates only to cards that exist, where they exist; every close reaches its card |
| Opposing setups (`notification_conflicts.py`) | reads signals and outbox | assess | checked at the start, used after awaits | two opposing setups never visible at once |
| Setup lifecycle (`lifecycle.py`, `reconciliation.py`, `scanner_lifecycle.py`) | `signals` row, kv `reconciliation:<id>` | tick, reconcile, monitor | four writers of one row, each across awaits; feed gaps; restarts; candles hide the order of trades | no stop skipped, no unearned outcome, a close is final, every setup is closed |
| Confirmation (`scanner_confirmation.py`, `quality_v22.py`, `v8_gating.py`, `setup_runtime.py`) | `signals` row, `v8_gate_decisions` | evaluate, gate, defer, dispatch | a pass works on a copy across five awaits; books reset, news begins, and a tick writes an older copy meanwhile | decided on one book, decided once, in the entry window |
| Signal store (`storage.py`, first half) | all tables | signal, monitor, active_signals | whole-row writes, key-wise merge | a stale copy does not undo progress |
| Recorder (`storage.py`, second half, `recorder_worker.py`) | bounded queue, pending batch with an id, undeclared gaps, segment files, `segments` | offer, run, flush, write, retry, close | the worker dies or answers late; shedding at limits | each row in one segment or in a declared gap |
| Streams and books (`streams.py`, `native_streams.py`, `orderflow.py`) | tapes, books, subscription sets | connect, subscribe, snapshot, apply delta, reset | reconnects, rotation, out-of-sequence deltas | a book or tape that says it is complete is |
| Storage leases (`leases.py`) | lease rows with TTL and token | acquire, heartbeat, release, expire | holders that outlive their TTL | a reader's range is not removed |
| Packing, retention, maintenance (`packing.py`, `retention.py`, `recording_maintenance.py`) | segments, packs, tombstones, watermark | pack, publish, plan, delete | files and rows change in separate steps; crashes | every retained segment stays readable |
| Primary outcomes (`ml/labels.py`, `ml/recordings.py`, `ml/checkpoint.py`) | labels, `primary_materialization` | replay, checkpoint, label | a row is published late; a pass dies; rows are deleted behind the cursor | a complete outcome is the one of an unbroken replay |
| Audit and recovery (`ml/completeness.py`, `ml/print_recovery.py`, `ml/trade_history.py`) | recovered labels, checkpoints | audit, page, archive | losses declared later; pages that leave trades out | what is rebuilt is what happened |
| Outcomes from candles (`setup_research.py`, `path_research.py`, `observations.py`, `ml/bootstrap.py`, `ml/monitored.py`) | jobs with a cursor, labels | advance, restore | a candle hides the order in its minute; missing candles; deadlines inside a minute | no manufactured win or loss; every restorable outcome restored |
| Forward evidence (`forward_power.py`, `forward_evidence.py`, `scanner_research.py`) | `candidate_attempts`, gaps, jobs, results | record, defer, sweep, ingest | saves out of order; deferrals under pressure; failing rounds | an exact ordinal counts every attempt; stages enrolled blind |
| Learning (`ml/training.py`, `ml/validation.py`, `ml/registry.py`, `ml/drift.py`) | `ml_holdouts`, `ml_models`, champion, lock | plan, reserve, evaluate, register, promote, roll back, degrade | two trainers and an operator, each may die between commits | no holdout looked at twice; a champion was beaten |
| Market data and failover (`scanner_market_data.py`, `scanner.py`, `cross_venue.py`) | primary venue, collectors, caches | scan, refresh, switch, collect | stale choices across awaits | a followed setup keeps its stream |
| Inference (`ml/inference.py`) | `ml_predictions`, `ml_features`; reads the registry | select, apply, check before the public channel | the champion, its artifact and the setup change between the decision and the card | the public channel carries what the champion accepted |
| Health of a setup (`thesis_health.py`, `setup_runtime.py`) | kv `thesis_health:<id>`, `v22_current` in the row | judge, assess, tell | a record older than the gap; two tasks save one row; a verdict without its consequence | what is withdrawn or announced has lasted |
| Production gate (`v8_gating.py`, `v8_runtime.py`) | caches of readings, families disabled | refresh, build breadth, decide | readings of another venue, of a later instant, malformed or out of their time | a block rests on sound evidence of its own venue |
| Staged reversal (`reversal_sequence.py`, `scanner_confirmation.py`, `setup_runtime.py`) | the sequence in the setup | observe, decide, prepare, dispatch | a thread reads a frozen slice while tape and book go on; two observations for one card | a card rests on a turn that nothing interrupted |
| Supervision and start (`supervision.py`, `app.py`) | task table | start, restart, stop | order of shutdown | no task lost silently |
| Opening the store (`migrations.py`, `identity.py`, `observations.py`, `query_projections.py`) | `migration_registry`, triggers, projections, markers | apply | every process applies; a stop between two statements; an older version beside | what a version relies on is there when it has opened |
| Diagnostic metadata and admission (`db_runtime.py`, `operational.py`) | bounded queue with an overlay; samples of the load | put, drain, read; sample, allow | eviction, failed writes, stale samples | optional work is admitted on the newest sample |
| Discovery and scoring (`scanner_discovery.py`, `setup_scoring.py`, ...) | none of its own | score | floating point | - |
| Webhook health, operator views (`discord_health.py`, `operator_health.py`) | receipts, advice | probe, read | none that others depend on | - |

How they interact:

    streams --tape/book--> lifecycle.tick ----------> Store.monitor / Store.signal
       |                   reconciliation (REST) --/          |   same transaction
       |                   health loop -----------/           v
       +--evidence--> confirmation.evaluate          terminal_events
       |                   | claim, deliver                   | poll
       v                   v                                  v
    recorder --> worker   outbox + Discord <---- terminal worker (retry_terminals)
       |
       v
    segments --replay under a lease--> primary labels --> partitions --> fits, registry
       ^   \--audit, recovery                 ^
       |                                      |
    maintenance (pack, release)     candles --> path engines, backfill, forward evidence

Calls are plain awaits, not messages. The tasks share the SQLite rows and a few
in-memory sets; the asyncio loop makes the code between two awaits atomic for
other tasks, but not for a crash, which may fall between two commits. The
database is shared with worker threads through one connection, whose
transactions are serial, and with the other processes.

## 2. Plan

Order: what a user sees first (cards), then what decides it (the price path and
its confirmation), then the evidence behind it (recorder, streams), then what
keeps it on disk, then what is learnt from it.

| # | Module | Composes / implements | Run | Proved |
|---|---|---|---|---|
| 1 | `AlertDelivery` | implements `CardContract` | `delivery_faults`, `delivery_live` | types, one card, one result, origin, refinement, opposition, results before edits, ledgers agree |
| 2 | `SignalLifecycle` | the writers of one row | `lifecycle_copies`, `lifecycle_live` | types, closed for good, no stop behind, outcomes traded, candles in order |
| 3 | `Recorder` with its worker | implements `Journal` | `recorder_journal` | types, refinement, nothing forgotten, complete for readers, failing closed |
| 4 | `StreamSync` | connection, rotation, books, tapes | `stream_rotation` | types, books exact, coverage honest, subscriptions hold |
| 5 | `Confirmation` | one pass beside a tick | `confirm_passes`, `confirm_gate` | types, one book, gates kept, decisions frozen, deferrals honoured |
| 6 | `Evidence` | leases, packing, cleanup, a replay | `evidence_custody` | types, segments kept, needs kept, replays whole |
| 7 | `PrimaryLabels` | replay, checkpoint, deletion; a part of `Research` | `research_loops` | outcomes exact, needed rows kept |
| 8 | `ModelRegistry` with `Partitions` | trainers, operator, planner | `policies` | types, planner exact, holdouts unseen, champions proven |
| 9 | `AttemptLedger`, `ResearchQueue`, `HistoryBackfill` | side by side in `Research` | `research_loops`, `research_starves` | exact ordinals, with their invariance; stages blind |
| 10 | `NativeBooks` | beside `Recorder` in `Recording` | `recorder_journal` | books in sequence |
| 11 | `Forensics`, `PrintRecovery`, `PathEngines`, `MarketDesk` | beside `Evidence` in `EvidenceParts` | `evidence_custody` | rebuilt is true, recovered is whole, followed streams kept |
| 12 | `Inference`, `GateFamilies`, `ReversalTurn`, `ThesisHealth`, `Admission` over `MetadataWriter`, `Migrations` | beside `ModelRegistry` in `Policies` | `policies` | words of champions, blocks of the gate, staged turns, health, admission, openings |

Next: `HonestLabel` as a theorem; a run of its own for the path walked twice (section 6).

## 3. Modules

### AlertDelivery (`AlertDelivery.tla`, `CardContract.tla`, `MCAlertDelivery.tla`)

One evaluator, one terminal worker, any number of setups. Variables are the
SQLite rows (`claimant`/`claimStatus` = `initial_alert_claims`, `card` =
`outbox`, `dest` = `discord_initial_delivery`, `dispatched` =
`v22_http_dispatched`, `event` = `terminal_events`, `result` = the outbox row
of the price result), the webhook of the running process (`hook`), the position
of each task, and two counters of the requests issued (`cardPosts`,
`resultPosts`), which the code does not keep and the properties need.

* `Begin` .. `DuplicateSuppressed` are `send_research`, `deliver_initial` up to
  the claim, and `identity.claim`.
* `Reserve` .. `Replied` are `deliver` of the initial card: the outbox row, the
  second look at the block inside the HTTP client, the dispatch mark of a v22
  card, the third look, the request, its reply.
* `Promote`, `SettleClaim`, `SetAlerted` are the transactions after it.
* `Close` is `Store.signal` with a terminal state, from whichever lifecycle task.
* `EditRefused` .. `SettleEvent` are `retry_terminals` and `send_price_result`.

There is one action per SQLite commit. `EvalAwaits` and `WorkerAwaits` name the
positions at which a task has given up the loop: other tasks move only there.
`Restart` and the `Raised` actions may fall at any position.

Abstractions: the three terminal states are one (`CLOSED`), with `priced` for
those that closed on an evidenced price; `blocked` stands for every
`blocked:<reason>`, `rejected` for `rejected` and `rate-limited`, neither of
which is retried; which plans oppose each other (`Opposes`), their fingerprints
(`Plan`) and execution events (`Event`) are constants. A request is counted
when it is issued, so an `uncertain` outcome covers both a request that arrived
and one that did not. The verdicts of live evidence are free choices.

`CardContract` is what a reader of the channel sees: a card once per plan and
never for a closed setup, then a close, then one result. `ContractHolds` is the
refinement (`closed`, `cardPosts`, `resultPosts`).

### SignalLifecycle (`SignalLifecycle.tla`)

One published setup and the four tasks that write its row: `tick`
(`lifecycle.tick`, `advance_trades`), `reconcile` (`reconciliation.reconcile`,
`advance`), `health` (`monitor_alerted`) and `evaluate` (delivery). A task
loads the row (`Load`), keeps a copy across its awaits (`copy`), and writes the
copy back through `Store.signal` (`Save`, `SaveMerged`) or `Store.monitor`
(`Monitor`). `begun` holds the tasks past the checks they make before their
first await, because the setups of a pass are loaded together and each is
checked at its own turn.

Time is counted in trades: the n-th trade happens at instant n. `path` is the
whole venue, `tape` the interval the live tape covers, candles are `BarLen`
instants long, and the cursor of the row, the progress saved by reconciliation
(`saved`) and both deadlines are instants. A price is one of `stop`, `below`,
`entry`, `above` and `target`, in their order for a long setup: the levels the code
compares with, and what lies between them, which matters because a candle is only a
range. A trade enters a setup when it is inside the entry zone; a candle does when
its range touches the zone (`Overlaps`), traded there or not.

`SaveMerged` is the key-wise merge of `Store.signal`. It copies the monitoring
keys of the newer row only while it has not met `last_monitor_ms` in the order
of the payload, so what survives depends on the order in which keys were first
written: `QuietStart` says that the first tick met no trade, in which case
none is merged; otherwise `checked` and `unwalked` may come from either side.

`OutcomeIsEarned` says that a resolved setup has a target on its path with no
stop before it; that the zone was reached in its window, or crossed within the
length of a candle; that the target came after that, unless the outcome is marked
unclear (a candle with a stop and a target, or one that begins before the cursor);
and that an invalidated setup has met its stop. The run has a candle with two
trades: it enters on a range that skips the zone, and holds an entry and a target
in both orders.

Over-approximations: `checked` and `unwalked` in `SaveMerged` take any of the
two values; `FeedReset` may happen at any time after a loss; `tick` walks to any
end its rules allow; `Health` withdraws a setup whenever it likes. A save that
fails in `tick`, `health` or `evaluate` leaves the row as it was, which equals a
copy dropped or never written; the one that matters, between the two commits of
a reconciliation, is `ReconcileRaised`.

### Recorder (`Recorder.tla`, `Journal.tla`, `Recording.tla`, `MCRecorder.tla`)

The feeds, the run task and the worker process. `queue`, `gaps`, `healthy` and
`running` are the fields of `Recorder`; `batch`, `batchId` and the control rows
`batchGaps` are locals of `Recorder.run`; `segments` is the SQLite table with
the files it names; `worker` is the child process and what it has answered.

* `Accept`, `Shed`, `Overflow` are `Recorder.offer`: a row is queued, shed under
  pressure if optional, or refused if not.
* `Keep`, `Write` are a pass of `Recorder.run` up to `writer.write`; `Acked`,
  `WriteFailed`, `StatusFailed`, `NoteFailed`, `Drained` are how it goes on.
* `WorkerSkips`, `WorkerCommits`, `WorkerAnswers`, `WorkerErrs` are `serve` and
  `_flush`; `WorkerGone` is a death, or the kill after a timeout.
* `Stop` is the shutdown in `app.lifespan`, which stops the scanner first.

Abstractions: a row is its number in the order offered and all rows have one
size, so the byte limit counts rows; every dropped row has a gap of its own,
where the code merges those of one market into an interval; a batch is due
after some time, that is, at any time; every other failure (budget, file,
database) is one choice, bounded by `MaxFaults`. A hard crash of the desk
process is left out: it loses the queue, as `docs/OPERATIONS.md` says.
`joined` is a history variable: the rows that were added to a batch after its
first attempt. If that attempt was published and only its answer lost, the retry
is skipped by its id and such a row is in no segment: `RowsSettle` names these
rows as its exception, and every other held row is written.

`Journal` is what a reader of segments sees: rows appear once, in order, and a
row declared missing is not among them. `JournalHolds` is the refinement. It
says nothing of rows that never appear; that is `NothingForgotten` (the recorder
keeps or declares every row) and `CompleteUnlessRefilled` (what precedes a
published row is published or declared no later). The code guarantees both only
while no written batch is refilled, which is how they are stated.

### StreamSync (`StreamSync.tla`)

The public websocket of the desk: the venue with its subscriptions (`subs`),
requests (`up`) and answers with data (`down`), the task `run` (`runAt`), its
books and tapes, and `select`, which awaits twice while it rotates the
subscriptions on the live connection (`selAt`). Trades and book updates are
numbered by the venue, so that what a book has missed (`whole`) or a tape claims
to cover (`start`, `got`) can be told.

* `Connect`, `Interrupted`, `BackedUp`, `GiveUp` are the turns of `run`; `Ack`
  .. `Trade` one received message each, which `process` finishes without an await.
* `Select` is the part of `_select` before its first send; `SendUnsub`,
  `SendSub`, `SendFails` the sends.

A message takes at least one instant and the clocks agree (`Arrived`): without
it a trade of the very millisecond of an acknowledgement could be on either side
of `coverage_start`. Backoff is part of a free delay. `CoverageHonest` speaks of
`Settled` states, which leaves out four windows of the code: a symbol removed
and added again within one round trip, two rotations within one millisecond,
which share a `req_id` (`streams.py:70`), a subscribe request lost with its
connection, and the reconnection of every symbol after one shed book row.

### Confirmation (`Confirmation.tla`)

One setup, its pass and the lifecycle tick. `row` is the setup in `signals`,
`job.s` the copy the pass works on, `tick` the copy the tick may write back,
`ledger` the row of `v8_gate_decisions`. The positions of `job` are the awaits
of `evaluate`: `reversal`, `footprint`, `quality`, `resume`, `ready`, `sending`,
`reply`. Between them the book is reset (`feed.epoch` counts), news begins and
ends, the recorder fails, the pass raises or the process dies (`Fails`), and
`TickSaves` writes an older copy. What prints and books say is a free choice;
when it may be said, and from which state of the feed, is not.

Three history variables name what the code does lose: `forgotten` (a gate
decision is in the ledger but not in the row), `undeferred` (a stale copy of the
tick took a deferral away) and `lastPause`.

### Evidence (`Evidence.tla`, `EvidenceParts.tla`, `MCEvidence.tla`)

Published segments and the tasks that read, pack and release them. Files
(`raw`, `rest`, `disk`, `good`) and rows (`archive`, `tomb`, `marked`) are
separate because the code changes them in separate steps; leases and claims
(`lease`, `ghost`, `claim`) may expire under their holder. `Compact` packs
segments into an archive, `Unlink` removes their originals, `Clean` plans and
releases, `Read` is a replay; `Crash` may fall anywhere. `broken`, `overran`,
`late`, `rotten` are history: what is lost to an expired lease or to a damaged
copy is allowed to be lost, and the properties name exactly that.

Damage is one kind, whatever it is found by; all segments are older than the
retention floor; byte budgets, health records and the classes of labels are left
out (needed segments are a set). A pack is claimed in one step.

### PrimaryLabels (`PrimaryLabels.tla`, `Research.tla`)

The tape of one market (`tape`, a receipt and a kind per row, the first
`published` of them committed), two decisions, and the pass that replays them
(`Resume`, `Walk`, `WalkEnds`, `Save`; `Rework` freezes positions that are
clean), committing labels on the way and its checkpoint at the end. `Prune`
deletes rows behind what is needed. `lagged`, `whole`, `holed` are history: a
decision met behind the published tape, one labelled by a pass that did not
resume, a control row deleted unread. `LabelsExact` compares the labels with the
tape itself, in terms that know no checkpoint, pass or deletion (`Begins`,
`Covered`, `Completed`). It has two sides, which look at different rows.
`CompleteIsEarned`: a complete outcome is the one that the rows from the first
of the decision on give without a loss or silence. `ExcludedIsUnproven`: what is
excluded, the *whole* tape does not complete either. Between the two lies an
outcome that a replay from the start of the tape excludes, for a silence that
ended with the first print after the decision, and that a replay which no longer
sees the earlier print completes; the code completes or excludes it by where it
was resumed (section 6). `PrimaryLabelsAssumption` has the one relation of sizes that
the result needs, `Stale <= Margin`: what cleanup keeps before a position
(fifteen minutes) is at least as long as the silence that
counts as stale (`trade_stale_ms`, 15 s by default, with no bound in `config.py`).
With a greater one, a resumed replay has lost the print that a silence ended with.

### ModelRegistry (`ModelRegistry.tla`, `Partitions.tla`)

Two trainers (`Export`, `Begin`, `Reserve`, `Evaluate`, `Compare`, `Register`),
an operator (`Review`, `Approve`, `RollBack`, `KeepPrevious`, `Install`), and
`Degrade`, which the drift check does at any time. Each may die between commits.
What a fit computes is free. `Partitions` is the planner as operators; `Feasible`
is its reference definition: *some* three boundaries satisfy the conditions.
Only the primary scope is modelled; what a model says of a setup is `Inference`.

### Policies (`Policies.tla`, `MCPolicies.tla`, the six modules beside the registry)

Six policies that decide about one setup, one candidate, one job or one start.
`Policies` puts them beside the registry, each with its variables and constants, and
states their properties; `MCPolicies` gives the constants values.

* `Inference`: one setup is asked about (`Asks`, `AsksNone`, `AsksInVain`) by the
  best compatible model, while other processes register, promote, degrade and
  damage models; `Clear` is the check before the public channel. What a model
  says of the frozen features is fixed at the start (`said`).
* `GateFamilies`: the eight families of the production gate, the readings three of
  them cache across an await, one from the store and four made at the decision.
  Thresholds are facts a reading has or has not (`Facts`).
* `ReversalTurn`: the tape in units of 5 s and the three phases of a turn, with
  the worker thread, the resets of tape and book, and the two observations before
  a card. What order flow and quotes say beside the prices is free (`Findings`).
* `ThesisHealth`: the health task of one setup with its two verdicts, each kept in
  a record of its own, and the tick that writes the same row.
* `Admission` extends `MetadataWriter`: the queue of diagnostic rows with what
  gives way to what, and the sample of the load that optional work is admitted by.
* `Migrations`: two processes of different versions open one store and use it. There
  is one action per statement, because SQLite commits a schema change on its own.

`HealthEarned`, `TurnHolds`, `BlockedOnEvidence`, `PublicEarned` compare a decision
with what was really there, which the modules keep as history (`checks`,
`assessed`, `broken`, `malformed`, `decider`); no single record of the code
tells it. `AdmittedOnNewest` speaks of jobs of the desk, which read through the
queue; a worker process reads the table and may see an older sample.

### Side by side: `Recording`, `EvidenceParts`, `Research`, `Policies`

Some modules do not share variables, and are small enough to be explored in one
run: which part is chosen at the start, each behaviour runs it alone, and the
others are at rest, in states in which nothing waits for fairness. The
composition is a module of its own with all constants, about which the theorems are;
`MCRecorder`, `MCEvidence`, `MCResearch` and `MCPolicies` give them values.

* `NativeBooks`: a stream of another venue: the trade socket, the depth socket,
  the REST snapshot that must bridge to a buffered message, and the cancellation
  by `select`, with the errors that take its place: most end the task, one
  makes it an `orphan` (section 6).
* `Forensics`: the audit of one decision against segments that are gaps,
  removals, damage and prints; `RebuiltIsTrue` compares with the market itself.
* `PrintRecovery`: the recovery of an incomplete outcome from REST pages and
  daily archives, with its checkpoint.
* `PathEngines`: the engines that walk one-minute candles over a market given
  by half minutes; `HonestLabel` compares what they are sure of with the market.
* `MarketDesk`: the choice of the primary venue beside scans, refreshes, ticks
  and the collectors of the other venues. `seen` holds the setups that a tick has
  followed since the collector of their venue began; `HistoryKept` says that their
  symbols stay streamed. The end of a collector is excepted, and for longer than
  the moment it happens: until the next tick nothing requires the symbols of its
  venue, so if that venue becomes the primary in between, a scan may give its
  place to another symbol. The next tick subscribes it again.
* `AttemptLedger`: the ordinals of attempts at one level. Saves are out of
  order because a scan reads the clock before it asks for candles.
* `ResearchQueue`: the research loop with its sweep, selection and requests, some
  of them of markets that are `Down`. Research runs it with none; `MCQueue` with one.
* `PrimaryLabels`: the replay of recorded prints from its checkpoint, beside the
  recorder that publishes them and the cleanup that removes them.
* `HistoryBackfill`: the worker's rounds over the venues under pressure.

## 4. Runs

| Run | Instance | Shows |
|---|---|---|
| `delivery_faults` | 3 setups, two of one plan, one of them v22; 2 webhooks; 1 fault | one card; updates that follow a card to its channel, results before edits; the refinement, with a crash or exception at any position |
| `delivery_live` | 2 setups that oppose each other; 1 webhook; no fault; fairness | ledgers agree between passes; every due edit settles; no confirmed setup is stranded |
| `lifecycle_copies` | 2 copies held at once, 1 restart, deadlines 2 and 4, candles of 3, 4 prices | no stop missed, outcomes earned |
| `lifecycle_live` | 1 copy at a time, deadlines 2 and 4, 1 failed commit, fairness | every setup closes |
| `recorder_journal` | queue of 3, limit of 4 rows, segments of 2, 6 offers, 3 faults, fairness; a native stream with 3 updates, 1 trade, 2 faults | the refinement, nothing lost silently, rows settle; books in sequence; a deselected symbol is released |
| `stream_rotation` | 2 symbols, one moving; 2 trades, 1 update, tapes of 1, 2 rotations, 1 fault, fairness | books exact, coverage honest, the stream comes back |
| `confirm_passes` | both policies, 1 pause, 1 reset, 1 fault, candles of 2 ticks, deadline 3 | decisions sound (one book, gates kept) and frozen, every setup ends |
| `confirm_gate` | v22, no fault | *violated*: a blocked setup is confirmed (section 6) |
| `evidence_custody` | 2 segments, 3 archives, 2 maintainers, 1 reader, 1 fault; the audit with 1 lost print and 1 damage; recovery of 3 trades with 1 hole; 3 candles with 1 missing; 2 venues with 2 setups | what is kept or needed is readable, replays meet their list; rebuilt is true, recovered is whole, labels are honest, followed setups keep their stream |
| `research_loops` | 2 tasks, 3 gaps, 4 instants; 3 paths on 2 markets, none down; 2 rows and 2 ranges on 2 venues; a tape of 4 rows, 5 instants, margin 2, 2 decisions, 1 pass that dies; fairness of the part that runs | exact ordinals; stages blind, results joined; outcomes restored; labels exact, every decision resolves |
| `research_starves` | 2 paths, one in a market that is down, fairness | *violated*: the path of the other market is never labelled (section 6) |
| `policies` | 2 trainers, 3 experiments, 1 death; 3 models and 4 changes of the registry; 8 families, 2 readings, 1 fault; a turn in 3 units, 1 reset; 5 observations, 1 death; 2 snapshots and 2 rows, queue of 2; 2 versions, 1 stop, 2 writes | holdouts unseen, champions proven; the public channel earned; blocks on evidence; turns whole; health earned; admission on the newest sample; stores opened whole |

Why the bounds are enough to matter. Two setups of one plan and one alone are the
least number for which keying by plan and keying by setup differ, and
two webhooks the least for which a card can live in a retired channel. One
fault is enough for each single interruption, at every position; a second fault
would need to fall inside the recovery from the first, and for delivery there is
no recovery code: what a restart finds is rows. Two
copies at once are the least with which one task can overwrite another; a candle
of two trades (three instants, as trades begin at 1) the least that hides an order; a horizon of three or four the
least in which a gap, a candle and a deadline fall on different instants. In the
recorder, segments of two leave a row to join a retry; a limit above the queue's
lets either be reached first; six offers fill queue, batch and one more segment;
three faults allow a retry that fails again and a failed status write. In the
stream, a tape of one is full at its second trade, and two rotations allow one
to overtake the answer to the other. In the custody, two segments let an archive
hold a released and a kept member, three archives let one be replaced while
another is written, and two maintainers let one work on what the other planned.
Two decisions on one tape share a checkpoint in different states. Three experiments
let one holdout lie between two others, one of them reserved by a trainer that
died. Two models of prints and one of the bootstrap give ranking, champion and
newest a choice each; readings of each family are one adverse and, for two of them,
one malformed; a hold of two passes and a gap of one are the least with which a
record can be too old; a queue of two with two snapshots is full of them; two
versions are the least that meet. Half minutes are the least in which the order inside a candle can differ;
three candles the least with a beginning, a hole and an end. Safety for every
value of the constants is what the proofs are for.

`CHECK_DEADLOCK FALSE` in all runs: once every setup is closed, every bound is
used up or the horizon is reached, the modelled part really has nothing left to
do. Symmetry is used only for the trainers, in a run without a liveness
property.

### Fairness

Delivery: the loops go on passing over every setup, a task that holds the loop
goes on, and a request in flight ends (15 s timeout). Strong fairness is
assumed of `Begin` per setup, of the checks and the preparation (live evidence
that keeps supporting a card lets it pass in the end), and of the worker's
progress (Discord answers in the end). `EditDeferred` (429, 5xx) may happen any
number of times, not for ever.

Lifecycle: the venue goes on trading, tasks that hold a copy proceed, and the
venue answers a candle request completely at last. Loading is strongly fair
although the code's loops only need weak fairness, because the bound
`MaxHolding` lets tasks keep each other from loading and the code does not.

Recorder: a batch comes due (`recorder_segment_seconds`), a failure is noted, a
live worker goes on. Faults are bounded, so the worker recovers in the end; a
fault while the recorder stops or while a failure is being noted ends the run
task, which `RowsSettle` names as the exception. Native streams: the market
moves, and a depth message comes between the opening of the socket and the REST
answer infinitely often (`UpdateInTime`, `Bridging`): a quiet book never bridges
and is retried every one or two seconds.

Streams: the venue answers, a waiting send goes on or fails, the recorder heals,
a valid update follows for a book that waits (`Awaited`), and the lifecycle
selects again (`lifecycle.py:178`, `:203`).

Confirmation: `evaluation_loop` survives every exception, its awaits end, time
passes. Labels: the worker runs its monitor again and again, also after a pass
that died. Research loop: it comes round every minute, a request ends, and the
requests of markets that are not `Down` do not all fail for ever, nor do the
steps between requests. Backfill: pressure, full
storage and errors do not hit the same step of the monitored policy for ever;
the bootstrap policy may be stopped every time.

## 5. Proofs

Eight modules `*_proofs.tla`. They hold for every value of the constants that
satisfies the assumption of their module: any number of setups, webhooks,
symbols, segments, maintainers or experiments, any bound on faults, deadlines,
queues and clocks. The assumptions only give the constants their types and the
least sizes with which the program makes sense; the one that says more is named
below.

**Delivery** (`AlertDelivery_proofs`). `TypeCorrect`; `OneCardPerPlan`,
`AlertedMeansDelivered`, `OneResult`, `UpdatesAreSound`, `UpdatesReachOrigin`,
`AttemptsAreFinal`, `ResultsPrecede`, `UpdatesAreWhole`, `NoOppositionVisible`;
`Implements`: every
step of delivery is a step of `CardContract` or a stutter; `LedgersFollow`:
while no fault has happened the three ledgers agree between passes.
The strengthening says which rows a task's position implies. A request not yet
issued from the positions before `post` has `cardPosts = 0`; an outbox row in a
state other than none or blocked excludes another claim; only the claimant of a
plan has a row; a v22 row that is taken over still says `dispatched = "no"`.
None of these is a property of a single ledger: a crash leaves the ledgers at
any prefix of the sequence of commits, and the invariant states which prefixes
there are. `ResultsPrecede` adds that an event whose edit is done, or a worker
past the edit, implies what has become of its result. `LedgersFollow` needs two
more layers: `OwnedInv` (a claim that is under way belongs to the setup the
evaluator works on), which crashes break only through their own action, and
`QuietInv`, which holds without faults. `NoOppositionVisible` needs that one
evaluator prepares cards one at a time and that the last look at the block and
the request are not separated by an await.

**Lifecycle** (`SignalLifecycle_proofs`). `TypeCorrect`: no cursor is ahead of
the venue; a candle request never outlives its task. `ClosedForGood`: whatever
copy a task holds, a closed row does not change. `NoStopBehind`: as long as
every save of a reconciliation reached both of its records, no stop lies behind
an active setup. The inductive invariant (`AllClean`) is that *every* place a
cursor can come from starts at or before the first stop of the path: the row,
the saved progress, every copy a task holds, and the start of a request in
flight. It is needed because any of them can become the row's cursor in a later
step. `OutcomesAreEarned` (`OutcomeTraded`, the first part of `OutcomeIsEarned`)
stands on it with `AllEarned`: what an outcome claims was traded, in the row and in
every copy, since a copy with an outcome may be saved after the row has moved. A
candle that overlaps the zone holds two trades that reach or cross it
(`OverlapReaches`). `TargetsFollowEntries`: candles that both enter and resolve a
setup hold the target after the zone (`CandlesInOrder`, which no run checks: it is
proved only). Both values of `QuietStart` are covered. The order across several
passes (`TargetFollows`) is model-checked only: with enough copies written back it
depends on where each of them left the cursor, and with `QuietStart` it fails
(section 6).

**Recorder** (`Recorder_proofs`). `TypeCorrect`: types, and the limits of the
queue and of all held rows; `Implements`: every step is a step of `Journal` or a
stutter; `RowsAccounted`, `CompleteForReaders`: while no written batch is
refilled; `FailsClosedAlways`; `LossesAreKnown`, which joins the last two. The
invariant orders the places a row can be in:
the journal precedes the batch, unless the batch is already in it, and both
precede the queue; gaps are disjoint from all of them. Whether the batch is in
the journal is not known to the run task after a failure, so the invariant
states it through the id: a batch whose id is not published follows the whole
journal. Without refills, the segment of a published id is *exactly* the batch
still held; that is why an acknowledgement loses nothing and a commit leaves
nothing out.

**Streams** (`StreamSync_proofs`). `TypeCorrect`, which says of every message in
flight that the venue did trade or update what it tells of, and of every tape
that it is no longer than allowed. `BooksExact`: a valid book is the venue's
book at its update, with none missed. The invariant is about the wire: the
messages of one book in `down` form a chain that starts at the book's update and
ends at the venue's (`Chain`, `Current`), where a snapshot starts it anew;
`Valid`: a valid book is of a selected symbol and `run` has a connection; `Linked`:
what is subscribed or requested is so on an open connection. A rotation, a shed
row or a reconnection each break the chain, and each makes its books invalid in
the same step; a rotation that removes a symbol leaves its messages in flight,
which is why the chain is stated of every symbol and not of the selected ones.

`CoverageIsHonest`: what a tape claims to cover it holds. `SubscriptionsHold`:
once a rotation and its requests are over, the selection is what the venue sends
(`Subscribed`, which no run checks: it is proved only). Both follow the requests.
`Predict`: when the requests in `up` are answered, what is subscribed is the
selection; during a rotation it still lacks `adding` and has `removing`
(`Rotating`), unless the connection was made after the rotation began
(`Rejoined`). `Uniform`: a request asks only for symbols that are subscribed, or
only for symbols that are not, and only one of the former can be refused.
`Covered`: a selected symbol that ends subscribed has an answer `Due`, which
empties its tape or ends the connection, or it stays subscribed and its tape
`Holds` every trade since its start, arrived or on its way. `Order`: those trades
are in order, so that the one cut from a full tape is its oldest.

**Confirmation** (`Confirmation_proofs`). `TypeCorrect`, `PricesHold`,
`GatesAreKept`, `DecisionsAreSound`, `DecisionsAreFrozen`, `DeferralsAreHonoured` (which no run
checks: it is proved only). One setup has three versions: the row, the
pass's copy and the tick's copy, each of which may become the row. `Sound` says
of any version that its decision was priced on the book it was measured on;
`PassInv` and `TickInv` how far the two copies may be behind the row (a tick's
copy of an undecided setup is rejected by `Store.signal` once the row is
confirmed); `LedgerInv` that the ledger and the row agree unless the save was lost;
`DeferInv` that a deferral seen by any version is in the row.

**Native books** (`Recorder_proofs`, last part). `BooksInSequence`: a book of
another venue that may qualify holds every update up to its last, and a tape
every trade since its start. `BookInv`: what a book has taken is *always* the
updates from its snapshot on, without a gap, whatever the task does next, since
a buffered message that does not bridge is refused and not skipped. `TapeInv`:
the tape together with the messages on the open socket is every trade since the
tape began; a lost socket ends the tape in the same step.

**Custody** (`Evidence_proofs`, first part). `TypeCorrect`, `SegmentsKept`, `NeedsKept`,
`CustodyHolds`, `ReplaysWhole`. `KeptInv`: every segment has at least one place to be read from,
and for every maintainer, by its position, which archives are private to it,
which are written but not named by rows, and which originals it may remove.
`LateInv`: a release under way still has every needed segment on its list only
if it was needed since. `ListInv`: while no lease was lost, what the reader has
listed is under its lease and no maintainer's lease touches it.

**Audit, recovery, venues** (`Evidence_proofs`, the rest), about `PartsSpec` of
`EvidenceParts`. `RebuiltOutcomesTrue`: what the audit rebuilds from evidence it finds
clean is what the market did. Both are walks: one over segments, some of them
lost, removed or unreadable, the other over the prints themselves. They are
recursive functions, and the facts about them need induction, which is proved
here from the well-foundedness of finite sets: a set of numbers has a least one
(`LeastNumber`), so what each step keeps holds after any number of them
(`Stepwise`), and a function that follows given steps exists (`Recursion`).
`AuditInv` says that the rows are the prints, in the order in which they were
recorded, and that each print is in a row, in a declared loss, or from when nothing
was recorded (`PrintsTold`). A clean walk rules out the last two between decision
and exit (`NothingHidden`), because a gap row or a broken chain marks the view for
good; then the walks meet the same prints (`WalkFollows`).
`RecoveredOutcomesWhole`: a recovered outcome rests on every trade from the decision to
its end, each once. `RecoveryInv`: a checkpoint is a run of trades without a hole
that began before the decision, on disk and in memory; and one that has an end is
not fed again. `FollowedStreams`: whatever scans, refreshes and failovers interleave,
the symbol of a followed setup stays in what its venue streams. `DeskInv`: it is
also *required* there (`Required`), so that a selection in flight cannot drop it,
and its venue is the primary or has a collector (`Collected`); a primary is
stopped only when nothing follows it (`StopsEmpty`). The proof refuted an earlier
form, in which only the moment of a collector's end was excepted: with two symbols
and room for one, TLC shows the trace told under `MarketDesk`. The run has
one symbol; the theorem covers the rest.

**Learning** (`Policies_proofs`, first half). `PlannerExact`: the planner, which takes
the earliest boundary three times over and refines the result, finds a split
exactly when there is one and returns one that satisfies the conditions: the
earliest boundaries dominate every split, and the refinement chooses among
splits. `TypeCorrect`, `PlansAreExact`, `HoldoutsUnseen`, `ChampionsProven`. The
ledger's reservations do not overlap and grow; a planned holdout starts after
the last one; all that an experiment saw ends with its reservation, and what it
is judged on starts with it. A standing champion changes only by degradation
while an operator is under way, so that a comparison made at the review still
holds at the installation.

**Policies** (`Policies_proofs`, second half). Each theorem is about `PartsSpec`, the
specification of the run: `PartSteps` shows that a step of the composition is a
step of one system and a stutter of the others, so the invariants are those of the
systems. `PublicIsEarned`: the word of a decided setup names the champion of the
decision, and stays with it (`WordInv`), while the check before the card reads the
registry of that moment. `AdmissionIsCurrent`: what get answers is what was put
last (`QueueInv`), because snapshots are at most as many as the queue holds, so that
a full queue has a row about a market to give way. `TurnIsUninterrupted`: a
confirmed row, in the table or in the hands of the thread, has its turn in units
that are over (`TurnInv`), and units that are over never change; a book or tape
that came back later than the start of the pressure fails the check before the
request. `BlocksAreFounded`: every family found malformed is disabled, for good
(`FamilyInv`). `HealthIsEarned` has two: the record counts from an instant only if
the checks from there to the last one all found what has to last, without a gap
(`VerdictInv`); a run of two windows stands for two windows assessed as bad, in the
row and in every copy, since either task may save its copy over the other's
(`RunInv`). `StoreOpensWhole`: how far an opener has come says which statements have
committed, whoever did them (`OpenerInv`), and a projection is exact from its
triggers on (`ShownInv`).

**Attempts** (`Research_proofs`, first part). `Invariance`, `OrdinalsExact`: an ordinal
marked exact counts every attempt in its window that left a row or a gap. The
list of gaps is bounded and merges neighbours, so old gaps are dropped: two gaps
of the list are at least `Merge + 1` apart, hence a full list spans more than
any task can be late, if `(MaxGaps - 1) * (Merge + 1) >= Flight`. That is the
one assumption with content; the code's 500 gaps a minute apart against a
scan of minutes satisfy it.

**Replay** (`Research_proofs`, second part), about `PartsSpec` of `Research`.
`ReplayHolds` is the invariant of the replay, `OutcomesExact` (`LabelsExact`) and
`NeededRowsKept` (no row is deleted that an unresolved outcome has not consumed)
follow from it. A position is carried from pass to pass by checkpoints, over rows
that vanish behind it, and its label is written long after the rows that decided
it. So the invariant says: every position, in the checkpoint or in a pass, is
the one the tape gives up to the cursor (`Tracks`), together with the last print
and the subscription it was heard under (`Carried`); what is deleted is needless, that
is older by `Margin` than the decision or the cursor of every outcome that waits
(`Needless`), and no control row is gone unread (`Whole`), unless `holed`; a label is
proven, or it is hopeless: no later row can complete it (`Labelled`). Tape rows
are only appended and with receipts that grow, so that proven stays proven and
hopeless stays hopeless.

**Stages** (`Research_proofs`, third part). `StagesBlind`: a stage is enrolled before
its parent has an outcome, unless a selection came before its sweep. Labels come
from what a selection took, and the sweep and the selection are not separated by
an await; so every path that was ever selected was swept or is counted as missed
(`Met`), and the invariant carries that along the jobs of the round to the labels.
It needs that setups are finitely many, and, since taking jobs out of a
queue is recursive, the induction of the audit again.

Left to TLC. Liveness, which the prover cannot do: `NotStranded`, `CloseIsSeen`,
`Closes`, `RowsSettle`, `Released`, `Resync`, `SetupEnds`, `Resolves`,
`Ingested`, `PathsRestored`. Of the safety properties, `HonestLabel`: six engines
(`PathEngines`) fold batches of candles, each into progress of its own shape, and are
compared with the market inside the candles. It would take an invariant per
engine and policy, and induction over the batches; the run explores every
market of three minutes with every batch of it instead. The library's induction
theorems take an operator as a parameter and cannot be used by the installed provers;
where the proofs above need induction, it is derived from well-founded sets, which
works for recursive functions over numbers and for one fact at a time.

## 6. Where the code differs from what it says

Two are runs of their own. **The gate that a second pass walks around**
(`confirm_gate`, `v8_gating.py:389`). The production gate is asked once. Under
v22 a provisional rejection takes the score back but not the gate's decision, so
the next pass clears the gates, skips the production gate and confirms a
setup whose `v8_gate` says blocked. `docs/USER_RUNBOOK.md:175` says that new
confirmations also face the V8 gates. An exception after the gate leads to the
same state.

**The market that keeps its place** (`research_starves`,
`scanner_research.py:289`). A request that raises leaves the `next_ms` of its jobs
as it is and ends the round (`:314`). While one market keeps failing, its jobs
are the oldest of every round, and jobs of the markets behind it are never
advanced, nor finished paths joined. The comment at `:276-277` says that neither queue may
starve the other; `Ingested` says what holds when no market is down.

The others were met while modelling, each in a trace of a model kept here. They
are given with the lines that disagree:

* **A close that is never seen** (`notifications.py:751`). The sent card commits
  in one transaction and the terminal event of a setup that closed meanwhile
  becomes `pending` in a later one. A crash in between leaves it `unseen`, which
  nothing selects again. `docs/V62_REPAIR.md:13-14` promises durable retried edits.
* **A stranded claim** (`identity.py:225`). The claim commits as `sending` before
  the request; a crash in between leaves a claim that no pass takes over. The
  comment at `scanner_confirmation.py:416` says that a deferred send must not
  strand a decision.
* **Two cards of one event** (`identity.py:229`). Taking over a blocked claim
  skips the duplicate check of the first; `identity.py:30-31` speaks of one
  visible opportunity.
* **A stop left behind** (`reconciliation.py:169`). Progress commits before the
  row; when the row's commit fails, the next pass starts after the stop candle.
  `docs/OPERATIONS.md:164-166` says that a restart continues with the original stop.
* **A path walked twice** (`storage.py:147-152`). The merge of the monitoring keys stops
  being one after `last_monitor_ms`, which stands first in the payload when the first tick
  met no trade (`QuietStart`). An older copy then puts the cursor back while
  `observed_entry_ms` stays, and the next tick counts a target that was traded before
  the entry: with `QuietStart = TRUE` in `lifecycle_copies`, TLC finds `OutcomeIsEarned`
  violated by a target, an entry, a tick between loading and saving of a
  health check, and a second tick. The comment at `reconciliation.py:39` asks for a target
  after the entry.
* **A delivered setup closed by its entry deadline** (`storage.py:181`). A task
  that still holds a `CONFIRMED` copy writes it over `ALERTED`. `README.md:257-258`
  says that the deadlines are separate.
* **Rows acknowledged and never written** (`storage.py:637`). A failed batch
  keeps its id and is filled up before the retry. If the worker had committed it,
  the retry is skipped as known, rows that joined included, and no gap declares
  them. `recorder_worker.py:3-4` calls publication idempotent.
* **Outcomes depend on where a replay resumed** (`ml/labels.py:179`). `Rework`
  freezes clean open positions as incomplete, where the docs protect them. And a
  silence that begins before the decision counts only for a replay that still
  meets the print before it (`ml/labels.py:254-286`): once that row is behind the
  cursor or deleted, the outcome is complete. `docs/PRIMARY_COMPLETENESS.md:122` requires
  agreement with strict full replay.
* **Plans of one venue** (`scanner.py:277`). A refresh holds its context across
  requests while the primary changes, and admits a setup of the new venue with
  candles of the old; `docs/MULTI_EXCHANGE.md:81` says that venues are not mixed.
* **Collectors that do not resume** (`cross_venue.py:326`). A collector whose task
  has ended is kept in `jobs` and not started again until selected anew;
  `docs/AUTONOMY_VERIFICATION.md:21` says that they resume.
* **A gap that is none** (`ml/completeness.py:485`). An unreadable segment is
  skipped and the silence it leaves is reported as a gap of the feed (`:806`).
* **Jobs that never end** (`setup_research.py:318`, `path_research.py:142`).
  Candles that end after the deadline are skipped, and a job finishes only when
  its cursor reaches it; deadlines are not on a minute (`horizons.py:69`), so a
  time exit never happens and the job is fetched again every minute. Since a
  market's request starts at its oldest cursor with 300 candles
  (`scanner_research.py:289-296`), after 300 minutes later jobs of the market get
  no new ones; the comment at 276-277 says that no job starves. The tests use
  deadlines on a minute.
* **A removed subscription that comes back** (`native_streams.py:311`). At Binance an
  error of the closing depth socket takes the place of the cancellation, and
  `except Exception` of `binance_depth_recovery` takes it for a gap: with a healthy
  recorder the depth is opened again, nobody cancels it a second time, and the
  `gather` of `select` (`:132`) waits for it under its lock. The comment at
  `:246-248` says that such an error must not turn a removed subscription into a
  reconnecting one, which holds in `run_symbol` only. `Released` names it as its
  exception, and `InSequence` holds for the book that goes on.
* **Migrations that are not one transaction** (`migrations.py:107`,
  `forward_power.py:77`). Both comments say that the statements are executed with
  the receipt in one transaction; under the default isolation of `sqlite3` a schema
  change commits on its own. Every statement can be repeated, so that the next start
  completes what a stop left; `Migrations` models them one by one. A backup that is
  cut off in the middle (`identity.py:53`, `observations.py:27`) is never completed:
  the next start finds the file and skips it.
* **Ranges that starve** (`ml/bootstrap.py:301`). A visit ends at the first range
  that raises, so a delisted symbol keeps later ones from their labels, and a
  range of more than 120 requests never finishes.

## 7. What is not modelled

Card layout, update cards for paused and resumed monitoring, alerts without a
setup, the batch of twenty and the timing of rate limits; expiry marks, LEGACY
horizons and retirement of old chart rows; the arithmetic of discovery, scoring,
flow, fits and statistics, which enters the models as free choices;
configuration and HTTP pages. Webhook health and the views of the operator have no
state that decisions depend on.

By module, what a reader might look for and not find:

* `AlertDelivery`: an event whose edit is deferred for ever (`notifications.py:558`,
  `:499`).
* `SignalLifecycle`: an entry seen by reconciliation and lost by `Store.monitor`
  (`storage.py:241`), the partial candle before a deadline (`reconciliation.py:26`),
  expiry while the tape is stale (`lifecycle.py:249`); runs with
  `QuietStart = TRUE` (the proofs cover it, section 6 says what it breaks).
* `Recorder`: gaps left at a clean stop (`storage.py:737`), the order of control
  rows within a segment (`storage.py:663`).
* `Confirmation`: windows under 900 s leave a `CONFIRMED` setup stale without
  retry (`Short` is `FALSE` in the runs); a reset and a snapshot during the first
  footprint await go unnoticed; the mid price is taken before the awaits.
* `Evidence`: a `writer_batch_v212` marker that stays; sidecars left by a crash;
  a cleanup that is `FAILED` for good after an expired claim.
* `PrimaryLabels`: rows that carry the cursor's receipt and are published later;
  `recording_retention.through_ms` is not advanced by the code as it is.
* `ModelRegistry`: a register that fails after its commit; a crash between
  `KeepPrevious` and `Install` makes a rollback a no-op.
* `MarketDesk`: a setup saved less than a second before a scan's last
  `streams.select`; a stream object restarted while it is being stopped; quotes in
  flight over a switch.
* `NativeBooks`: shed raw and depth rows.
* `PrintRecovery`: a missing print before the decision is asked for again for
  ever; an archive revised by the venue is not replayed.
* `PathEngines`: costs, extra stop policies, milestones; a swing's deadline
  inside a minute counts the whole minute.
* `AttemptLedger`: a deferral merged without widening (`forward_power.py:171`)
  and a failed hook (`storage.py:217`) leave neither row nor gap: `lost` names them.
* `ThesisHealth`: what prints, books and candles say is free (`Seen`).
* `GateFamilies`: one candidate and one venue change; thresholds as facts.
* `ReversalTurn`: `TurnHolds` ends with the first card.
* `Inference`: one setup; the models of other scopes; the numbers of a prediction.
* `Admission`: the forecast itself, and how long work that began goes on.
* `Migrations`: rows of other tables, and what a step does to them.
* `Forensics`: a gap row declared after the exit is not read; source mismatches,
  prospective eligibility and budgets.
