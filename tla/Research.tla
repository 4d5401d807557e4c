------------------------------- MODULE Research -------------------------------
(***************************************************************************)
(* Four systems beside each other, of which each behaviour runs the one    *)
(* that part names: the numbering of attempts (AttemptLedger), the jobs of *)
(* the research loop (ResearchQueue), the outcomes the worker restores     *)
(* from candles (HistoryBackfill), and those it replays from recorded      *)
(* prints (PrimaryLabels).  The others stay in their first state.          *)
(***************************************************************************)
EXTENDS AttemptLedger

CONSTANTS
  Parent, Market, Down, PathsOf, SweepLimit, Picked, Groups, MaxLeft, None,   \* ResearchQueue
  Row, Venue, At, Need, Gone, Span, SpanAt, Refused, BatchLimit,        \* HistoryBackfill
  MaxClock, MaxRows, MaxDies, LastDecide, Stale, Fill, Hold, Margin, Fresh  \* PrimaryLabels

VARIABLES
  part,
  plan, left, due, later, swept, labels, results, round, missed, late,
  mature, labelled, tried, wait, cached, work, list, boot,
  clock, tape, published, deleted, decided, twins, outcome, checkpoint, pass, lagged, holed, whole,
  failed, dies

queue == <<plan, left, due, later, swept, labels, results, round, missed, late>>
history == <<mature, labelled, tried, wait, cached, work, list, boot>>
replay ==
  <<clock, tape, published, deleted, decided, twins, outcome, checkpoint, pass, lagged, holed, whole,
    failed, dies>>
partsVars == <<part, vars, queue, history, replay>>

Queue == INSTANCE ResearchQueue WITH Limit <- SweepLimit
History == INSTANCE HistoryBackfill WITH Limit <- BatchLimit
Labels == INSTANCE PrimaryLabels WITH MaxNow <- MaxClock, now <- clock, label <- outcome

ASSUME ResearchAssumption == Queue!QueueAssumption /\ Labels!PrimaryLabelsAssumption

\* A part that does not run is at rest: nothing of it waits for fairness.
LedgerRests ==
  now = 1 /\ asof = [t \in Task |-> 0] /\ saved = <<>> /\ rows = {} /\ gaps = <<>> /\ lost = {}
QueueRests ==
  /\ plan = [p \in Parent |-> None] /\ left = 0 /\ due = <<>> /\ later = <<>> /\ swept = 0
  /\ labels = {} /\ results = {} /\ missed = {} /\ late = {}
  /\ round = [at |-> "rests", todo |-> <<>>, done |-> 0]
HistoryRests ==
  /\ mature = {} /\ labelled = {} /\ tried = <<>> /\ wait = {} /\ cached = 0
  /\ work = [kind |-> "rests", n |-> 0, begun |-> FALSE] /\ list = <<>> /\ boot = {}

ReplayRests == clock = MaxClock /\ Labels!Blank

PartsInit ==
  \/ part = "ledger" /\ Init /\ QueueRests /\ HistoryRests /\ ReplayRests
  \/ part = "queue" /\ LedgerRests /\ Queue!Init /\ HistoryRests /\ ReplayRests
  \/ part = "history" /\ LedgerRests /\ QueueRests /\ History!Init /\ ReplayRests
  \/ part = "replay" /\ LedgerRests /\ QueueRests /\ HistoryRests /\ Labels!Init
PartsNext ==
  /\ UNCHANGED part
  /\ \/ part = "ledger" /\ Next /\ UNCHANGED <<queue, history, replay>>
     \/ part = "queue" /\ Queue!Next /\ UNCHANGED <<vars, history, replay>>
     \/ part = "history" /\ History!Next /\ UNCHANGED <<vars, queue, replay>>
     \/ part = "replay" /\ Labels!Next /\ UNCHANGED <<vars, queue, history>>

PartsSpec == PartsInit /\ [][PartsNext]_partsVars
\* Fairness is that of the part that runs.
PartsFairness ==
  \/ part = "ledger"
  \/ part = "queue" /\ Queue!Fairness
  \/ part = "history" /\ History!Fairness
  \/ part = "replay" /\ Labels!Fairness
PartsFairSpec == PartsSpec /\ PartsFairness

\* A stage is enrolled before the outcome of its parent is known.
EnrolledBlind == Queue!EnrolledBlind
\* Every forward path is labelled and its result joined.
Ingested == Queue!Ingested
\* Every mature row whose history the venue has gets its label.
PathsRestored == History!PathsRestored
\* Resumed, interrupted and repeated, the replay of recorded prints completes no decision that
\* the tape does not, and excludes none that the whole tape completes.
LabelsExact == Labels!LabelsExact
\* Every decision gets its outcome.
Resolves == Labels!Resolves
=============================================================================
