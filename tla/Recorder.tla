------------------------------ MODULE Recorder ------------------------------
(***************************************************************************)
(* The recorder of storage.py (Recorder.offer, run, flush) and its writer  *)
(* process of recorder_worker.py (serve, ProcessWriter).                   *)
(*                                                                         *)
(* Feeds offer rows at any time.  The run task moves them from a bounded   *)
(* queue into a batch, hands the batch to a worker process under an id,    *)
(* and keeps it until the worker acknowledges.  The worker publishes it as *)
(* one segment, unless a segment of that id is there already.  A row the   *)
(* queue cannot take is dropped, and a control row in a later batch        *)
(* declares it missing.                                                    *)
(*                                                                         *)
(* A row is its number in the order offered.  Queue and batch are first in *)
(* first out, so each is the set of the rows in it.  All rows have the     *)
(* same size, and each drop concerns a market of its own.                  *)
(***************************************************************************)
EXTENDS Naturals, FiniteSets

CONSTANTS
  QueueSize,    \* queue_size
  ByteLimit,    \* queue_byte_limit, in rows
  SegmentRows,  \* recorder_segment_rows
  MaxOffers,    \* bound on the rows offered
  MaxFaults     \* bound on failures of the worker and of status writes

ASSUME RecorderAssumption ==
  /\ QueueSize \in Nat \ {0} /\ ByteLimit \in Nat \ {0} /\ SegmentRows \in Nat \ {0}
  /\ MaxOffers \in Nat /\ MaxFaults \in Nat

VARIABLES
  offers,     \* rows offered so far
  queue,      \* rows in the queue
  gaps,       \* dropped rows no batch declares yet
  batch,      \* rows the run task holds
  batchGaps,  \* dropped rows the control rows of the batch declare
  batchId,    \* id the batch was first written under, 0 before its first attempt
  lastId,     \* ids drawn so far
  joined,     \* history: the rows added to a batch after its first attempt
  healthy,    \* recorder.healthy
  running,    \* recorder.running
  at,         \* where the run task is
  worker,     \* the worker process and its answer
  segments,   \* the published segments
  faults

feed == <<offers, queue, gaps>>
held == <<batch, batchGaps, batchId, lastId, joined>>
vars == <<feed, held, healthy, running, at, worker, segments, faults>>

-----------------------------------------------------------------------------
\* Between passes, in writer.write, or ended: with nothing left, by a failure
\* while it was stopping, or by an exception of its own.
Ended == {"drained", "failed", "dead"}
RunAt == {"gather", "write"} \cup Ended

\* "idle": no request.  "busy": a request, nothing published.  "committed":
\* published, not answered.  "ok", "error": answered.  "gone": the process died
\* or was killed before its answer was read.
WorkerAt == {"idle", "busy", "committed", "ok", "error", "gone"}

Init ==
  /\ offers = 0 /\ queue = {} /\ gaps = {}
  /\ batch = {} /\ batchGaps = {} /\ batchId = 0 /\ lastId = 0 /\ joined = {}
  /\ healthy = TRUE /\ running = TRUE
  /\ at = "gather" /\ worker = "idle"
  /\ segments = {}
  /\ faults = 0

Fault == faults < MaxFaults /\ faults' = faults + 1

-----------------------------------------------------------------------------
(* offer.  The scanner offers nothing once the recorder is told to stop.    *)

\* pending_bytes
Pending == Cardinality(queue) + Cardinality(batch)

\* pressure
Pressed(percent) ==
  100 * Cardinality(queue) >= percent * QueueSize \/ 100 * Pending >= percent * ByteLimit

Full == Cardinality(queue) >= QueueSize \/ Pending + 1 > ByteLimit

Offer ==
  /\ running /\ offers < MaxOffers
  /\ offers' = offers + 1
  /\ UNCHANGED <<held, running, at, worker, segments, faults>>

Accept ==
  /\ Offer /\ ~Full
  /\ queue' = queue \cup {offers + 1}
  /\ UNCHANGED <<gaps, healthy>>

Drop == gaps' = gaps \cup {offers + 1} /\ UNCHANGED queue

\* Under pressure an optional row is shed.
Shed == Offer /\ Pressed(70) /\ Drop /\ UNCHANGED healthy

\* A critical row finds no room: the feeds are told to stop.
Overflow == Offer /\ Full /\ Drop /\ healthy' = FALSE

-----------------------------------------------------------------------------
(* run: one pass takes rows from the queue and writes the batch when due.   *)
Smaller(m, n) == IF m < n THEN m ELSE n

\* Control rows count, and may leave the batch longer than a segment.
Room ==
  LET used == Cardinality(batch) + Cardinality(batchGaps)
  IN  IF used < SegmentRows THEN SegmentRows - used ELSE 0

Taken(cut) == {n \in queue : n <= cut}

\* The rows up to "cut" are those a pass takes.
Takes(cut) == Cardinality(Taken(cut)) = Smaller(Room, Cardinality(queue))

\* A batch is due when it is full, under pressure, when the recorder stops, and
\* after recorder_segment_seconds: that is, at any time.
MustWrite(cut) ==
  \/ Cardinality(batch \cup Taken(cut)) + Cardinality(batchGaps) >= SegmentRows
  \/ 2 * Pending >= ByteLimit
  \/ ~running

Gather(cut) ==
  /\ at = "gather" /\ Takes(cut)
  /\ queue' = queue \ Taken(cut)
  /\ batch' = batch \cup Taken(cut)
  /\ joined' = IF batchId # 0 THEN joined \cup Taken(cut) ELSE joined

Keep(cut) ==
  /\ Gather(cut)
  /\ ~MustWrite(cut)
  /\ UNCHANGED <<offers, gaps, batchGaps, batchId, lastId, healthy, running, at, worker,
                 segments, faults>>

\* Mutant: every attempt draws an id of its own.
FreshId == lastId + 1

\* A retry keeps the id of the first attempt.
WriteId == IF batchId = 0 THEN lastId + 1 ELSE batchId

\* Mutant: a retry is sent without the control rows.
DeclaredOnce == IF batchId = 0 THEN gaps ELSE {}

\* The first attempt takes the gaps, a retry leaves newer ones for the next batch.
Declared == IF batchId = 0 THEN gaps ELSE batchGaps

Write(cut) ==
  /\ Gather(cut)
  /\ batch' # {}
  /\ batchGaps' = Declared
  /\ gaps' = IF batchId = 0 THEN {} ELSE gaps
  /\ batchId' = WriteId /\ lastId' = IF WriteId > lastId THEN WriteId ELSE lastId
  /\ at' = "write" /\ worker' = "busy"
  /\ UNCHANGED <<offers, healthy, running, segments, faults>>

Acked ==
  /\ at = "write" /\ worker = "ok"
  /\ batch' = {} /\ batchGaps' = {} /\ batchId' = 0
  /\ healthy' = TRUE
  /\ at' = "gather" /\ worker' = "idle"
  /\ UNCHANGED <<feed, lastId, joined, running, segments, faults>>

\* The exception is noted; the batch is kept and tried again, unless the recorder
\* is stopping.
Recover == healthy' = FALSE /\ at' = IF running THEN "gather" ELSE "failed"

WriteFailed ==
  /\ at = "write" /\ worker \in {"error", "gone"}
  /\ Recover
  /\ worker' = "idle"
  /\ UNCHANGED <<feed, held, running, segments, faults>>

\* The status of a pass cannot be stored, for another reason than a busy database.
StatusFailed ==
  /\ Fault
  /\ at = "gather"
  /\ Recover
  /\ UNCHANGED <<feed, held, running, worker, segments>>

\* Nor can the note of a failure: the run task ends.
NoteFailed ==
  /\ Fault
  /\ at = "gather" \/ (at = "write" /\ worker \in {"error", "gone"})
  /\ healthy' = FALSE /\ at' = "dead" /\ worker' = "idle"
  /\ UNCHANGED <<feed, held, running, segments>>

-----------------------------------------------------------------------------
(* The worker process.                                                     *)
Published == {s.id : s \in segments}

\* A batch of a known id counts as written.
WorkerSkips ==
  /\ worker = "busy" /\ batchId \in Published
  /\ worker' = "ok"
  /\ UNCHANGED <<feed, held, healthy, running, at, segments, faults>>

\* The files are written and hashed, then the segment is inserted.
WorkerCommits ==
  /\ worker = "busy" /\ batchId \notin Published
  /\ segments' = segments \cup {[id |-> batchId, rows |-> batch, gaps |-> batchGaps]}
  /\ worker' = "committed"
  /\ UNCHANGED <<feed, held, healthy, running, at, faults>>

WorkerAnswers ==
  /\ worker = "committed"
  /\ worker' = "ok"
  /\ UNCHANGED <<feed, held, healthy, running, at, segments, faults>>

\* The storage budget, a file or the database refuses; after the commit, the
\* sizes of the files or the note of the running batch.
WorkerErrs ==
  /\ Fault
  /\ worker \in {"busy", "committed"}
  /\ worker' = "error"
  /\ UNCHANGED <<feed, held, healthy, running, at, segments>>

\* It dies, or is killed when it has not answered in time.
WorkerGone ==
  /\ Fault
  /\ worker \in {"busy", "committed"}
  /\ worker' = "gone"
  /\ UNCHANGED <<feed, held, healthy, running, at, segments>>

-----------------------------------------------------------------------------
Stop ==
  /\ running /\ running' = FALSE
  /\ UNCHANGED <<feed, held, healthy, at, worker, segments, faults>>

\* Mutant: the run task looks at the queue only.
DrainedOfQueue ==
  /\ at = "gather" /\ ~running /\ queue = {}
  /\ at' = "drained"
  /\ UNCHANGED <<feed, held, healthy, running, worker, segments, faults>>

Drained ==
  /\ at = "gather" /\ ~running /\ queue = {} /\ batch = {}
  /\ at' = "drained"
  /\ UNCHANGED <<feed, held, healthy, running, worker, segments, faults>>

RunStep ==
  \/ \E cut \in 0..offers : Keep(cut) \/ Write(cut)
  \/ Acked \/ WriteFailed \/ Drained

WorkerStep == WorkerSkips \/ WorkerCommits \/ WorkerAnswers

Next ==
  \/ Accept \/ Shed \/ Overflow
  \/ RunStep \/ StatusFailed \/ NoteFailed
  \/ WorkerStep \/ WorkerErrs \/ WorkerGone
  \/ Stop

Spec == Init /\ [][Next]_vars

\* The time of a batch comes, failures are noted, and a live worker goes on.
Fairness ==
  /\ WF_vars(\E cut \in 0..offers : Write(cut))
  /\ WF_vars(Acked \/ WriteFailed \/ Drained)
  /\ WF_vars(WorkerStep)
FairSpec == Spec /\ Fairness

-----------------------------------------------------------------------------
(* Properties.                                                             *)
Offered == 1..offers
Segment == [id : 1..lastId, rows : SUBSET Offered, gaps : SUBSET Offered]

\* Types, and the bounds on what the recorder holds.
TypeOK ==
  /\ offers \in 0..MaxOffers
  /\ queue \subseteq Offered /\ gaps \subseteq Offered
  /\ batch \subseteq Offered /\ batchGaps \subseteq Offered
  /\ lastId \in Nat /\ batchId \in {0, lastId}
  /\ joined \subseteq Offered /\ healthy \in BOOLEAN /\ running \in BOOLEAN
  /\ at \in RunAt /\ worker \in WorkerAt
  /\ segments \subseteq Segment
  /\ faults \in 0..MaxFaults
  /\ Cardinality(queue) <= QueueSize /\ Pending <= ByteLimit

JournalRows == {n \in Offered : \E s \in segments : n \in s.rows}
JournalGaps == {n \in Offered : \E s \in segments : n \in s.gaps}

Promise == INSTANCE Journal WITH heard <- offers

\* The published segments implement Journal: whatever the worker's deaths, lost
\* acknowledgements and retries, no row is published twice or out of order, and none
\* is both published and declared missing (Recorder._flush, ProcessWriter.write).
JournalHolds == Promise!Spec

\* Every offered row is waiting, published, to be declared missing or declared; the
\* recorder forgets none.
NothingForgotten ==
  Offered \subseteq queue \cup batch \cup JournalRows \cup gaps \cup batchGaps \cup JournalGaps

\* What a reader may take for complete is complete: all that was offered before a
\* published row is in its segment or an earlier one, or is declared missing there.
NothingMissing ==
  \A s \in segments : \A e \in s.rows : \A n \in 1..e :
    \E t \in segments : t.id <= s.id /\ n \in t.rows \cup t.gaps

\* Both hold as long as no row joins a batch after its first attempt: if that
\* attempt was published, the retry is skipped and the row is written nowhere.
Refilled == joined # {}
AccountedUnlessRefilled == ~Refilled => NothingForgotten
CompleteUnlessRefilled == ~Refilled => NothingMissing

\* The recorder fails closed: while a failed batch waits for its retry, and once the
\* run task has ended with rows in its hands, the feeds find it unhealthy, whatever
\* overflows and acknowledgements came in between (Recorder.run, Recorder.offer).
FailsClosed ==
  healthy => /\ at \notin {"failed", "dead"}
             /\ at = "gather" => batchId = 0

\* No row is lost in silence: the segments declare it, or a rewritten batch has been
\* refilled, and as long as rows may still be lost the feeds know.
NothingLostSilently == CompleteUnlessRefilled /\ FailsClosed

\* Once the worker fails no more, a row the recorder holds leaves its hands and is
\* written, unless it joined a batch after its first attempt (then it may be in no
\* segment) or a failure ended the run task.
Settled(n) == n \notin queue \cup batch /\ n \in JournalRows \cup joined
RowsSettle ==
  \A n \in 1..MaxOffers :
    n \in queue \cup batch ~> Settled(n) \/ at \in {"failed", "dead"}
=============================================================================
