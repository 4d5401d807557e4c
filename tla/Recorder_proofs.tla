--------------------------- MODULE Recorder_proofs ---------------------------
(***************************************************************************)
(* Proofs about Recorder, for every queue size, byte limit, segment size   *)
(* and number of faults; and about the stream beside it in Recording, for  *)
(* every number of updates, trades and faults, and any lag of the answer.  *)
(***************************************************************************)
EXTENDS Recording, Sequences, FiniteSetTheorems, TLAPS

-----------------------------------------------------------------------------
(* The inductive invariant.                                                *)
Waiting == queue \cup batch

\* The types the argument needs; the bounds of TypeOK are proved last.
Types ==
  /\ offers \in Nat
  /\ queue \subseteq Offered /\ gaps \subseteq Offered
  /\ batch \subseteq Offered /\ batchGaps \subseteq Offered
  /\ lastId \in Nat /\ batchId \in {0, lastId}
  /\ joined \subseteq Offered
  /\ at \in RunAt /\ worker \in WorkerAt
  /\ segments \subseteq Segment

\* A request is under way only while the run task waits for it.
Stages ==
  /\ worker # "idle" <=> at = "write"
  /\ at = "write" => batchId # 0
  /\ worker \in {"ok", "committed"} => batchId \in Published
  /\ batchId = 0 => batchGaps = {}

\* Queue, batch and journal follow each other.  A batch whose id is published is in
\* the journal, in part at least.
Ordered ==
  /\ \A n \in queue : \A m \in batch \cup JournalRows : m < n
  /\ batchId \notin Published => \A n \in batch : \A m \in JournalRows : m < n

\* A dropped row is nowhere else, and is declared once.
Apart ==
  /\ gaps \cap (Waiting \cup JournalRows \cup batchGaps \cup JournalGaps) = {}
  /\ batchGaps \cap (Waiting \cup JournalRows) = {}
  /\ JournalGaps \cap (Waiting \cup JournalRows) = {}
  /\ batchId \notin Published => batchGaps \cap JournalGaps = {}

\* Without refills, the segment under the id of the batch is the batch, and what was
\* dropped after the first attempt follows the batch.
Exact ==
  ~Refilled =>
    /\ batchId \in Published =>
         \E s \in segments : s.id = batchId /\ s.rows = batch /\ s.gaps = batchGaps
    /\ batchId # 0 => \A g \in gaps : \A n \in batch : n < g

Inv == Types /\ Stages /\ Ordered /\ Apart

LInv == AccountedUnlessRefilled /\ CompleteUnlessRefilled /\ Exact

-----------------------------------------------------------------------------
(* Steps, by what they do to the rows.                                     *)
dataVars == <<feed, held, segments>>

Deed ==
  \/ Accept \/ Shed \/ Overflow
  \/ \E cut \in 0..offers : Keep(cut) \/ Write(cut)
  \/ Acked \/ WorkerCommits

\* What leaves all rows where they are.
Quiet ==
  \/ WriteFailed \/ Drained \/ StatusFailed \/ NoteFailed
  \/ WorkerSkips \/ WorkerAnswers \/ WorkerErrs \/ WorkerGone
  \/ Stop

LEMMA StepKinds == Next => Deed \/ Quiet
BY DEF Next, RunStep, WorkerStep, Deed, Quiet

LEMMA QuietKeeps == Quiet => UNCHANGED dataVars
BY DEF Quiet, dataVars, WriteFailed, Drained, StatusFailed, NoteFailed, WorkerSkips,
       WorkerAnswers, WorkerErrs, WorkerGone, Stop, feed, held

\* A drop joins the gaps.
Dropped ==
  /\ offers' = offers + 1 /\ gaps' = gaps \cup {offers + 1}
  /\ UNCHANGED <<queue, held, running, at, worker, segments>>

LEMMA Drops == Shed \/ Overflow => Dropped
BY DEF Shed, Overflow, Offer, Drop, Dropped

\* A commit adds the batch to the journal.
LEMMA CommitJournal ==
  ASSUME Types, WorkerCommits
  PROVE  /\ JournalRows' = JournalRows \cup batch
         /\ JournalGaps' = JournalGaps \cup batchGaps
         /\ Published' = Published \cup {batchId}
<1> DEFINE new == [id |-> batchId, rows |-> batch, gaps |-> batchGaps]
<1>1. segments' = segments \cup {new} /\ offers' = offers
  BY DEF WorkerCommits, feed
<1>2. batch \subseteq 1..offers /\ batchGaps \subseteq 1..offers
  BY DEF Types, Offered
<1>3. JournalRows' = {n \in 1..offers : \E s \in segments \cup {new} : n \in s.rows}
  BY <1>1 DEF JournalRows, Offered
<1>4. JournalGaps' = {n \in 1..offers : \E s \in segments \cup {new} : n \in s.gaps}
  BY <1>1 DEF JournalGaps, Offered
<1>5. new.rows = batch /\ new.gaps = batchGaps /\ new.id = batchId
  OBVIOUS
<1> HIDE DEF new
<1>6. JournalRows' = JournalRows \cup batch
  BY <1>2, <1>3, <1>5 DEF JournalRows, Offered
<1>7. JournalGaps' = JournalGaps \cup batchGaps
  BY <1>2, <1>4, <1>5 DEF JournalGaps, Offered
<1>8. Published' = Published \cup {batchId}
  BY <1>1, <1>5 DEF Published
<1> QED BY <1>6, <1>7, <1>8

\* The journal is made of segments alone: it grows with nothing else.
LEMMA JournalSame ==
  ASSUME Types, offers' \in Nat, offers <= offers', segments' = segments
  PROVE  /\ JournalRows' = JournalRows /\ JournalGaps' = JournalGaps
         /\ Published' = Published
<1>1. \A s \in segments : s.rows \subseteq 1..offers /\ s.gaps \subseteq 1..offers
  BY DEF Types, Segment, Offered
<1>2. offers \in Nat
  BY DEF Types
<1>3. JournalRows' = JournalRows
  BY <1>1, <1>2 DEF JournalRows, Offered
<1>4. JournalGaps' = JournalGaps
  BY <1>1, <1>2 DEF JournalGaps, Offered
<1> QED BY <1>3, <1>4 DEF Published

LEMMA JournalOffered ==
  /\ JournalRows \subseteq Offered /\ JournalGaps \subseteq Offered
BY DEF JournalRows, JournalGaps

\* A fresh id is not published.
LEMMA FreshIds ==
  ASSUME Types
  PROVE  /\ 0 \notin Published /\ lastId + 1 \notin Published
         /\ \A s \in segments : s.id \in Nat /\ s.id <= lastId
BY DEF Types, Published, Segment

\* Segments stay segments as rows and ids are added.
LEMMA SegmentsGrow ==
  ASSUME Types, offers' \in Nat, offers <= offers', lastId' \in Nat, lastId <= lastId'
  PROVE  Segment \subseteq Segment' /\ Offered \subseteq Offered'
BY DEF Types, Segment, Offered

-----------------------------------------------------------------------------
(* The invariant: initial states and steps.                                *)
LEMMA InitInv == Init => Inv /\ LInv
<1> SUFFICES ASSUME Init PROVE Inv /\ LInv
  OBVIOUS
<1> USE DEF Init
<1>1. Offered = {} /\ JournalRows = {} /\ JournalGaps = {} /\ Published = {}
  BY DEF Offered, JournalRows, JournalGaps, Published
<1>2. Types
  BY DEF Types, RunAt, WorkerAt
<1>3. Stages /\ Ordered
  BY <1>1 DEF Stages, Ordered
<1>4. Apart
  BY <1>1 DEF Apart, Waiting
<1>5. LInv
  BY <1>1 DEF LInv, AccountedUnlessRefilled, CompleteUnlessRefilled, NothingForgotten,
              NothingMissing, Exact
<1> QED BY <1>2, <1>3, <1>4, <1>5 DEF Inv

LEMMA StepTypes == Inv /\ Next => Types'
<1> SUFFICES ASSUME Inv, Next PROVE Types'
  OBVIOUS
<1> USE DEF Inv
<1>1. CASE Accept
  <2>1. offers' = offers + 1 /\ queue' = queue \cup {offers + 1}
        /\ UNCHANGED <<gaps, held, at, worker, segments>>
    BY <1>1 DEF Accept, Offer
  <2>2. Segment \subseteq Segment' /\ Offered \subseteq Offered'
    BY <2>1, SegmentsGrow DEF Types, held
  <2> QED BY <2>1, <2>2 DEF Types, held, Offered
<1>2. CASE Shed \/ Overflow
  <2>1. Dropped
    BY <1>2, Drops
  <2>2. Segment \subseteq Segment' /\ Offered \subseteq Offered'
    BY <2>1, SegmentsGrow DEF Types, held, Dropped
  <2> QED BY <2>1, <2>2 DEF Types, held, Offered, Dropped
<1>3. CASE \E cut \in 0..offers : Keep(cut)
  BY <1>3 DEF Keep, Gather, Taken, Types, Offered, Segment
<1>4. CASE \E cut \in 0..offers : Write(cut)
  <2>1. PICK cut \in 0..offers : Write(cut)
    BY <1>4
  <2>2. lastId' \in Nat /\ lastId <= lastId' /\ batchId' = lastId' /\ offers' = offers
    BY <2>1 DEF Write, WriteId, Types
  <2>3. Segment \subseteq Segment' /\ Offered' = Offered
    BY <2>2, SegmentsGrow DEF Types, Offered
  <2>4. segments' \subseteq Segment'
    BY <2>1, <2>3 DEF Write, Types
  <2>5. batch' \subseteq Offered /\ queue' \subseteq Offered /\ joined' \subseteq Offered
    BY <2>1 DEF Write, Gather, Taken, Types
  <2>6. gaps' \subseteq Offered /\ batchGaps' \subseteq Offered
    BY <2>1 DEF Write, Declared, Types
  <2>7. at' \in RunAt /\ worker' \in WorkerAt
    BY <2>1 DEF Write, RunAt, WorkerAt
  <2> QED BY <2>2, <2>3, <2>4, <2>5, <2>6, <2>7 DEF Types
<1>5. CASE Acked
  BY <1>5 DEF Acked, feed, Types, Offered, Segment, RunAt, WorkerAt
<1>6. CASE WorkerCommits
  <2>1. batchId \in 1..lastId
    BY <1>6 DEF WorkerCommits, Types, Stages
  <2>2. [id |-> batchId, rows |-> batch, gaps |-> batchGaps] \in Segment
    BY <2>1 DEF Types, Segment
  <2>3. Segment' = Segment /\ Offered' = Offered
    BY <1>6 DEF WorkerCommits, feed, held, Segment, Offered
  <2> QED BY <1>6, <2>2, <2>3 DEF WorkerCommits, feed, held, Types, WorkerAt
<1>7. CASE Quiet
  <2>1. Segment' = Segment /\ Offered' = Offered
    BY <1>7, QuietKeeps DEF dataVars, feed, held, Segment, Offered
  <2>2. at' \in RunAt /\ worker' \in WorkerAt
    BY <1>7 DEF Quiet, WriteFailed, Drained, StatusFailed, NoteFailed, WorkerSkips,
                WorkerAnswers, WorkerErrs, WorkerGone, Stop, Recover, RunAt, WorkerAt, Types,
                Ended
  <2> QED BY <1>7, <2>1, <2>2, QuietKeeps DEF dataVars, feed, held, Types
<1> QED BY <1>1, <1>2, <1>3, <1>4, <1>5, <1>6, <1>7, StepKinds DEF Deed

LEMMA StepStages == Inv /\ Next => Stages'
<1> SUFFICES ASSUME Inv, Next PROVE Stages'
  OBVIOUS
<1> USE DEF Inv
<1>1. CASE Accept
  BY <1>1 DEF Accept, Offer, held, Stages, Published
<1>2. CASE Shed \/ Overflow
  BY <1>2, Drops DEF Dropped, held, Stages, Published
<1>3. CASE \E cut \in 0..offers : Keep(cut)
  BY <1>3 DEF Keep, Stages, Published
<1>4. CASE \E cut \in 0..offers : Write(cut)
  <2>1. at' = "write" /\ worker' = "busy" /\ batchId' = WriteId
    BY <1>4 DEF Write
  <2> QED BY <2>1 DEF WriteId, Types, Stages
<1>5. CASE Acked
  BY <1>5 DEF Acked, Stages, Published
<1>6. CASE WorkerCommits
  <2>1. batchId \in Published' /\ batchId' = batchId
    BY <1>6, CommitJournal DEF WorkerCommits, held
  <2> QED BY <1>6, <2>1 DEF WorkerCommits, held, Stages, Types
<1>7. CASE Quiet
  <2>1. UNCHANGED <<batchId, batchGaps, Published>>
    BY <1>7, QuietKeeps DEF dataVars, held, Published
  <2>2. CASE WriteFailed \/ NoteFailed \/ StatusFailed \/ Drained
    BY <2>1, <2>2 DEF WriteFailed, NoteFailed, StatusFailed, Drained, Recover, Stages
  <2>3. CASE WorkerSkips \/ WorkerAnswers \/ WorkerErrs \/ WorkerGone
    BY <2>1, <2>3 DEF WorkerSkips, WorkerAnswers, WorkerErrs, WorkerGone, Stages
  <2>4. CASE Stop
    BY <2>1, <2>4 DEF Stop, Stages
  <2> QED BY <1>7, <2>2, <2>3, <2>4 DEF Quiet
<1> QED BY <1>1, <1>2, <1>3, <1>4, <1>5, <1>6, <1>7, StepKinds DEF Deed

LEMMA StepOrdered == Inv /\ Next => Ordered'
<1> SUFFICES ASSUME Inv, Next PROVE Ordered'
  OBVIOUS
<1> USE DEF Inv
<1>1. CASE Accept
  <2>1. offers' = offers + 1 /\ queue' = queue \cup {offers + 1}
        /\ UNCHANGED <<batch, batchId, segments>>
    BY <1>1 DEF Accept, Offer, held
  <2>2. UNCHANGED <<JournalRows, Published>>
    BY <2>1, JournalSame DEF Types
  <2>3. \A m \in batch \cup JournalRows : m < offers + 1
    BY JournalOffered DEF Types, Offered
  <2> QED BY <2>1, <2>2, <2>3 DEF Ordered
<1>2. CASE Shed \/ Overflow
  <2>1. Dropped
    BY <1>2, Drops
  <2>2. UNCHANGED <<JournalRows, Published>>
    BY <2>1, JournalSame DEF Types, Dropped
  <2> QED BY <2>1, <2>2 DEF Dropped, held, Ordered
<1>3. CASE \E cut \in 0..offers : Keep(cut) \/ Write(cut)
  <2>1. PICK cut \in 0..offers : Keep(cut) \/ Write(cut)
    BY <1>3
  <2>2. queue' = queue \ Taken(cut) /\ batch' = batch \cup Taken(cut)
        /\ UNCHANGED <<offers, segments>>
    BY <2>1 DEF Keep, Write, Gather
  <2>3. UNCHANGED <<JournalRows, Published>>
    BY <2>2, JournalSame DEF Types
  <2>4. Taken(cut) \subseteq queue
        /\ \A n \in queue \ Taken(cut) : \A m \in Taken(cut) : m < n
    BY DEF Taken, Types, Offered
  <2>5. \A n \in queue' : \A m \in batch' \cup JournalRows' : m < n
    BY <2>2, <2>3, <2>4 DEF Ordered
  <2>6. batchId \notin Published => \A n \in batch' : \A m \in JournalRows' : m < n
    BY <2>2, <2>3, <2>4 DEF Ordered
  <2>7. batchId \in Published => batchId' \in Published'
    <3>1. batchId \in Published => batchId # 0
      BY FreshIds
    <3> QED BY <2>1, <2>3, <3>1 DEF Keep, Write, WriteId
  <2> QED BY <2>5, <2>6, <2>7 DEF Ordered
<1>4. CASE Acked
  <2>1. UNCHANGED <<offers, queue, segments>> /\ batch' = {}
    BY <1>4 DEF Acked, feed
  <2>2. JournalRows' = JournalRows
    BY <2>1, JournalSame DEF Types
  <2> QED BY <2>1, <2>2 DEF Ordered
<1>5. CASE WorkerCommits
  <2>1. JournalRows' = JournalRows \cup batch /\ batchId' \in Published'
        /\ UNCHANGED <<queue, batch>>
    BY <1>5, CommitJournal DEF WorkerCommits, feed, held
  <2> QED BY <2>1 DEF Ordered
<1>6. CASE Quiet
  BY <1>6, QuietKeeps DEF dataVars, feed, held, Ordered, JournalRows, Published, Offered
<1> QED BY <1>1, <1>2, <1>3, <1>4, <1>5, <1>6, StepKinds DEF Deed

LEMMA StepApart == Inv /\ Next => Apart'
<1> SUFFICES ASSUME Inv, Next PROVE Apart'
  OBVIOUS
<1> USE DEF Inv
<1>0. /\ offers \in Nat
      /\ offers + 1 \notin queue \cup batch \cup gaps \cup batchGaps \cup JournalRows \cup JournalGaps
  BY JournalOffered DEF Types, Offered
<1>1. CASE Accept
  <2>1. offers' = offers + 1 /\ queue' = queue \cup {offers + 1}
        /\ UNCHANGED <<gaps, batch, batchGaps, batchId, segments>>
    BY <1>1 DEF Accept, Offer, held
  <2>2. UNCHANGED <<JournalRows, JournalGaps, Published>>
    BY <1>0, <2>1, JournalSame
  <2> QED BY <1>0, <2>1, <2>2 DEF Apart, Waiting
<1>2. CASE Shed \/ Overflow
  <2>1. Dropped
    BY <1>2, Drops
  <2>2. UNCHANGED <<JournalRows, JournalGaps, Published>>
    BY <1>0, <2>1, JournalSame DEF Dropped
  <2> QED BY <1>0, <2>1, <2>2 DEF Dropped, held, Apart, Waiting
<1>3. CASE \E cut \in 0..offers : Keep(cut) \/ Write(cut)
  <2>1. PICK cut \in 0..offers : Keep(cut) \/ Write(cut)
    BY <1>3
  <2>2. queue' = queue \ Taken(cut) /\ batch' = batch \cup Taken(cut)
        /\ UNCHANGED <<offers, segments>> /\ Taken(cut) \subseteq queue
    BY <2>1 DEF Keep, Write, Gather, Taken
  <2>3. UNCHANGED <<JournalRows, JournalGaps, Published>>
    BY <1>0, <2>2, JournalSame
  <2>4. Waiting' = Waiting
    BY <2>2 DEF Waiting
  <2>5. CASE UNCHANGED <<gaps, batchGaps, batchId>>
    BY <2>3, <2>4, <2>5 DEF Apart
  <2>6. CASE batchId = 0 /\ gaps' = {} /\ batchGaps' = gaps
    BY <2>3, <2>4, <2>6 DEF Apart
  <2>7. batchId = 0 \/ UNCHANGED <<gaps, batchGaps, batchId>>
    BY <2>1 DEF Keep, Write, Declared, WriteId
  <2>8. batchId = 0 /\ Write(cut) => gaps' = {} /\ batchGaps' = gaps
    BY DEF Write, Declared
  <2> QED BY <2>1, <2>5, <2>6, <2>7, <2>8 DEF Keep
<1>4. CASE Acked
  <2>1. UNCHANGED <<offers, queue, gaps, segments>> /\ batch' = {} /\ batchGaps' = {}
    BY <1>4 DEF Acked, feed
  <2>2. UNCHANGED <<JournalRows, JournalGaps>>
    BY <1>0, <2>1, JournalSame
  <2> QED BY <2>1, <2>2 DEF Apart, Waiting
<1>5. CASE WorkerCommits
  <2>1. /\ JournalRows' = JournalRows \cup batch /\ JournalGaps' = JournalGaps \cup batchGaps
        /\ batchId' \in Published'
        /\ UNCHANGED <<queue, gaps, batch, batchGaps>>
    BY <1>5, CommitJournal DEF WorkerCommits, feed, held
  <2> QED BY <2>1 DEF Apart, Waiting
<1>6. CASE Quiet
  BY <1>6, QuietKeeps DEF dataVars, feed, held, Apart, Waiting, JournalRows, JournalGaps,
                          Published, Offered
<1> QED BY <1>1, <1>2, <1>3, <1>4, <1>5, <1>6, StepKinds DEF Deed

\* Types, the order of rows and the separation of rows from gaps hold in every
\* reachable state, whatever the worker's failures (Recorder.run, ProcessWriter.write).
THEOREM InvHolds == Spec => []Inv
<1>1. Init => Inv
  BY InitInv
<1>2. Inv /\ [Next]_vars => Inv'
  <2>1. Inv /\ Next => Inv'
    BY StepTypes, StepStages, StepOrdered, StepApart DEF Inv
  <2>2. Inv /\ UNCHANGED vars => Inv'
    BY DEF vars, feed, held, Inv, Types, Stages, Ordered, Apart, Waiting, Offered, Segment,
           JournalRows, JournalGaps, Published
  <2> QED BY <2>1, <2>2
<1> QED BY <1>1, <1>2, PTL DEF Spec

-----------------------------------------------------------------------------
(* Nothing is forgotten, as long as no written batch is refilled.          *)
LEMMA RefilledStays == Next => (~Refilled' => ~Refilled)
<1>1. CASE Deed
  BY <1>1 DEF Deed, Accept, Shed, Overflow, Offer, held, Keep, Write, Gather, Acked, WorkerCommits, Refilled
<1>2. CASE Quiet
  BY <1>2, QuietKeeps DEF dataVars, held, Refilled
<1> QED BY <1>1, <1>2, StepKinds

\* A pass that does not refill: either the batch keeps its id and its gaps, or it
\* draws an id and takes the gaps.
LEMMA PassTakes ==
  ASSUME NEW cut \in 0..offers, Keep(cut) \/ Write(cut), ~Refilled'
  PROVE  /\ queue' = queue \ Taken(cut) /\ batch' = batch \cup Taken(cut)
         /\ UNCHANGED <<offers, segments>>
         /\ batchId # 0 => Taken(cut) = {}
         /\ \/ UNCHANGED <<gaps, batchGaps, batchId>>
            \/ batchId = 0 /\ gaps' = {} /\ batchGaps' = gaps /\ batchId' = lastId + 1
<1>1. /\ queue' = queue \ Taken(cut) /\ batch' = batch \cup Taken(cut)
      /\ batchId # 0 => Taken(cut) = {}
  BY DEF Keep, Write, Gather, Refilled
<1>2. CASE Keep(cut)
  BY <1>1, <1>2 DEF Keep
<1>3. CASE Write(cut)
  <2>1. CASE batchId = 0
    BY <1>1, <1>3, <2>1 DEF Write, WriteId, Declared
  <2>2. CASE batchId # 0
    BY <1>1, <1>3, <2>2 DEF Write, WriteId, Declared
  <2> QED BY <2>1, <2>2
<1> QED BY <1>2, <1>3

\* Every offered row stays in one of its places.
LEMMA StepForgets == Inv /\ LInv /\ Next => AccountedUnlessRefilled'
<1> SUFFICES ASSUME Inv, LInv, Next, ~Refilled' PROVE NothingForgotten'
  BY DEF AccountedUnlessRefilled
<1> USE DEF NothingForgotten
<1>0. ~Refilled /\ NothingForgotten /\ Types
  BY RefilledStays DEF LInv, AccountedUnlessRefilled, Inv
<1>1. CASE Accept \/ Shed \/ Overflow
  <2>1. /\ offers' = offers + 1 /\ UNCHANGED <<batch, batchGaps, segments>>
        /\ queue' \cup gaps' = queue \cup gaps \cup {offers + 1}
    BY <1>1, Drops DEF Accept, Offer, Dropped, held
  <2>2. UNCHANGED <<JournalRows, JournalGaps>>
    BY <1>0, <2>1, JournalSame DEF Types
  <2>3. Offered' \subseteq Offered \cup {offers + 1}
    BY <1>0, <2>1 DEF Offered, Types
  <2> QED BY <1>0, <2>1, <2>2, <2>3
<1>2. CASE \E cut \in 0..offers : Keep(cut) \/ Write(cut)
  <2>1. PICK cut \in 0..offers : Keep(cut) \/ Write(cut)
    BY <1>2
  <2>2. /\ queue' = queue \ Taken(cut) /\ batch' = batch \cup Taken(cut)
        /\ UNCHANGED <<offers, segments>>
        /\ \/ UNCHANGED <<gaps, batchGaps>>
           \/ batchId = 0 /\ batchGaps' = gaps
    BY <2>1, PassTakes
  <2>3. UNCHANGED <<JournalRows, JournalGaps, Offered>>
    BY <1>0, <2>2, JournalSame DEF Types, Offered
  <2>4. batchId = 0 => batchGaps = {}
    BY DEF Inv, Stages
  <2> QED BY <1>0, <2>2, <2>3, <2>4
<1>3. CASE Acked
  <2>1. batchId \in Published
    BY <1>3 DEF Acked, Inv, Stages
  <2>2. PICK s \in segments : s.rows = batch /\ s.gaps = batchGaps
    BY <1>0, <2>1 DEF LInv, Exact
  <2>3. batch \subseteq JournalRows /\ batchGaps \subseteq JournalGaps
    BY <1>0, <2>2 DEF Types, JournalRows, JournalGaps
  <2>4. UNCHANGED <<queue, gaps, offers, segments>>
    BY <1>3 DEF Acked, feed
  <2>5. UNCHANGED <<JournalRows, JournalGaps, Offered>>
    BY <1>0, <2>4, JournalSame DEF Types, Offered
  <2> QED BY <1>0, <2>3, <2>4, <2>5
<1>4. CASE WorkerCommits
  <2>1. UNCHANGED <<queue, gaps, batch, batchGaps, Offered>>
    BY <1>4 DEF WorkerCommits, feed, held, Offered
  <2> QED BY <1>0, <1>4, <2>1, CommitJournal
<1>5. CASE Quiet
  BY <1>0, <1>5, QuietKeeps
     DEF dataVars, feed, held, Offered, JournalRows, JournalGaps
<1> QED BY <1>1, <1>2, <1>3, <1>4, <1>5, StepKinds DEF Deed

\* A commit leaves nothing out before its rows; no other step publishes any.
LEMMA StepMisses == Inv /\ LInv /\ Next => CompleteUnlessRefilled'
<1> SUFFICES ASSUME Inv, LInv, Next, ~Refilled' PROVE NothingMissing'
  BY DEF CompleteUnlessRefilled
<1>0. ~Refilled /\ NothingForgotten /\ NothingMissing /\ Exact /\ Types
  BY RefilledStays DEF LInv, AccountedUnlessRefilled, CompleteUnlessRefilled, Inv
<1>1. CASE segments' = segments
  BY <1>0, <1>1 DEF NothingMissing
<1>2. CASE WorkerCommits
  <2> DEFINE new == [id |-> batchId, rows |-> batch, gaps |-> batchGaps]
  <2>1. segments' = segments \cup {new}
    BY <1>2 DEF WorkerCommits
  <2>2. new.rows = batch /\ new.gaps = batchGaps /\ new.id = batchId
    OBVIOUS
  <2> HIDE DEF new
  <2>3. \A s \in segments : s.id \in Nat /\ s.id <= batchId
    BY <1>0, <1>2, FreshIds DEF WorkerCommits, Inv, Stages, Types
  <2>4. ASSUME NEW e \in batch, NEW n \in 1..e
        PROVE  \E t \in segments \cup {new} : t.id <= new.id /\ n \in t.rows \cup t.gaps
    <3>1. e \in Nat /\ n \in Nat /\ n <= e /\ n \in Offered
      BY <1>0 DEF Types, Offered
    <3>2. n \notin queue
      BY <1>0, <3>1 DEF Inv, Ordered, Types, Offered
    <3>3. n \notin gaps
      BY <1>0, <1>2, <3>1 DEF Exact, WorkerCommits, Inv, Stages, Types, Offered
    <3>4. CASE n \in batch \cup batchGaps
      <4>1. new.id <= new.id
        BY <1>0, <2>2 DEF Types
      <4> QED BY <2>2, <3>4, <4>1
    <3>5. CASE n \in JournalRows \cup JournalGaps
      BY <2>2, <2>3, <3>5 DEF JournalRows, JournalGaps
    <3> QED BY <1>0, <3>1, <3>2, <3>3, <3>4, <3>5 DEF NothingForgotten
  <2> QED BY <1>0, <2>1, <2>2, <2>4 DEF NothingMissing
<1> QED
  BY <1>1, <1>2, StepKinds, QuietKeeps
     DEF Deed, dataVars, Accept, Shed, Overflow, Offer, Keep, Write, Acked

LEMMA StepExact == Inv /\ LInv /\ Next => Exact'
<1> SUFFICES ASSUME Inv, LInv, Next, ~Refilled'
    PROVE /\ batchId' \in Published' =>
               \E s \in segments' : s.id = batchId' /\ s.rows = batch' /\ s.gaps = batchGaps'
          /\ batchId' # 0 => \A g \in gaps' : \A n \in batch' : n < g
  BY DEF Exact
<1>0. ~Refilled /\ Types /\ Stages
      /\ (batchId \in Published =>
            \E s \in segments : s.id = batchId /\ s.rows = batch /\ s.gaps = batchGaps)
      /\ (batchId # 0 => \A g \in gaps : \A n \in batch : n < g)
  BY RefilledStays DEF LInv, Exact, Inv
<1>1. CASE Accept
  BY <1>0, <1>1 DEF Accept, Offer, held, Published
<1>2. CASE Shed \/ Overflow
  <2>1. \A n \in batch : n < offers + 1
    BY <1>0 DEF Types, Offered
  <2>2. gaps' = gaps \cup {offers + 1} /\ UNCHANGED <<batch, batchGaps, batchId, segments, Published>>
    BY <1>2, Drops DEF Dropped, held, Published
  <2> QED BY <1>0, <2>1, <2>2
<1>3. CASE \E cut \in 0..offers : Keep(cut) \/ Write(cut)
  <2>1. PICK cut \in 0..offers : Keep(cut) \/ Write(cut)
    BY <1>3
  <2>2. segments' = segments /\ Published' = Published
    BY <2>1, PassTakes DEF Published
  <2>3. 0 \notin Published /\ lastId + 1 \notin Published
    BY <1>0, FreshIds
  <2>4. \/ UNCHANGED <<gaps, batch, batchGaps, batchId>>
        \/ batchId = 0 /\ UNCHANGED batchId
        \/ batchId' = lastId + 1 /\ gaps' = {}
    BY <2>1, PassTakes
  <2> QED BY <1>0, <2>2, <2>3, <2>4
<1>4. CASE Acked
  <2>1. batchId' = 0 /\ Published' = Published
    BY <1>4 DEF Acked, Published
  <2> QED BY <1>0, <2>1, FreshIds
<1>5. CASE WorkerCommits
  <2> DEFINE new == [id |-> batchId, rows |-> batch, gaps |-> batchGaps]
  <2>1. new \in segments' /\ UNCHANGED <<gaps, batch, batchGaps, batchId>>
    BY <1>5 DEF WorkerCommits, feed, held
  <2>2. new.rows = batch /\ new.gaps = batchGaps /\ new.id = batchId
    OBVIOUS
  <2> HIDE DEF new
  <2> QED BY <1>0, <2>1, <2>2
<1>6. CASE Quiet
  BY <1>0, <1>6, QuietKeeps DEF dataVars, feed, held, Published
<1> QED BY <1>1, <1>2, <1>3, <1>4, <1>5, <1>6, StepKinds DEF Deed

LEMMA LInvHolds == Spec => []LInv
<1>1. Init => LInv
  BY InitInv
<1>2. Inv /\ LInv /\ [Next]_vars => LInv'
  <2>1. Inv /\ LInv /\ Next => LInv'
    BY StepForgets, StepMisses, StepExact DEF LInv
  <2>2. LInv /\ UNCHANGED vars => LInv'
    BY DEF vars, feed, held, LInv, AccountedUnlessRefilled, CompleteUnlessRefilled, Exact,
           Refilled, NothingForgotten, NothingMissing, Offered, JournalRows, JournalGaps, Published
  <2> QED BY <2>1, <2>2
<1> QED BY <1>1, <1>2, InvHolds, PTL DEF Spec

\* As long as no row joins a batch that has been written once, the recorder forgets
\* no row it was offered (Recorder.offer, Recorder.run).
THEOREM RowsAccounted == Spec => []AccountedUnlessRefilled
<1>1. LInv => AccountedUnlessRefilled
  BY DEF LInv
<1> QED BY <1>1, LInvHolds, PTL

\* And all that was offered before a published row is in its segment or an earlier
\* one, or is declared missing there: a reader may take it for complete.
THEOREM CompleteForReaders == Spec => []CompleteUnlessRefilled
<1>1. LInv => CompleteUnlessRefilled
  BY DEF LInv
<1> QED BY <1>1, LInvHolds, PTL

-----------------------------------------------------------------------------
(* Failing closed.                                                         *)
LEMMA StepCloses == FailsClosed /\ Next => FailsClosed'
<1> SUFFICES ASSUME FailsClosed, Next PROVE FailsClosed'
  OBVIOUS
<1> USE DEF FailsClosed
<1>1. CASE Accept \/ Shed \/ Overflow
  BY <1>1 DEF Accept, Shed, Overflow, Offer, held
<1>2. CASE \E cut \in 0..offers : Keep(cut) \/ Write(cut)
  BY <1>2 DEF Keep, Write
<1>3. CASE Acked
  BY <1>3 DEF Acked
<1>4. CASE WriteFailed \/ StatusFailed \/ NoteFailed
  BY <1>4 DEF WriteFailed, StatusFailed, NoteFailed, Recover
<1>5. CASE Drained \/ Stop
  BY <1>5 DEF Drained, Stop, held
<1>6. CASE WorkerSkips \/ WorkerCommits \/ WorkerAnswers \/ WorkerErrs \/ WorkerGone
  BY <1>6 DEF WorkerSkips, WorkerCommits, WorkerAnswers, WorkerErrs, WorkerGone, held
<1> QED BY <1>1, <1>2, <1>3, <1>4, <1>5, <1>6 DEF Next, RunStep, WorkerStep

\* The feeds never find a recorder healthy that waits to retry a batch, or whose run
\* task has failed (Recorder.run).
THEOREM FailsClosedAlways == Spec => []FailsClosed
<1>1. Init => FailsClosed
  BY DEF Init, FailsClosed
<1>2. FailsClosed /\ UNCHANGED vars => FailsClosed'
  BY DEF vars, held, FailsClosed
<1> QED BY <1>1, <1>2, StepCloses, PTL DEF Spec

\* No row is lost in silence, in the segments or to the feeds.
THEOREM LossesAreKnown == Spec => []NothingLostSilently
<1>1. CompleteUnlessRefilled /\ FailsClosed => NothingLostSilently
  BY DEF NothingLostSilently
<1> QED BY <1>1, CompleteForReaders, FailsClosedAlways, PTL

-----------------------------------------------------------------------------
(* The published segments implement Journal.                               *)
LEMMA StepImplements == Inv /\ Next => [Promise!Next]_Promise!vars
<1> SUFFICES ASSUME Inv, Next PROVE Promise!Next \/ UNCHANGED <<offers, segments>>
  BY DEF Promise!vars
<1>0. Types /\ offers \in Nat
  BY DEF Inv, Types
<1>1. CASE Accept \/ Shed \/ Overflow
  BY <1>1, Drops DEF Accept, Offer, Dropped, Promise!Next, Promise!Hear
<1>2. CASE WorkerCommits
  <2> DEFINE new == [id |-> batchId, rows |-> batch, gaps |-> batchGaps]
  <2>1. segments' = segments \cup {new} /\ offers' = offers /\ batchId \notin Published
    BY <1>2 DEF WorkerCommits, feed
  <2>2. new.rows = batch /\ new.gaps = batchGaps /\ new.id = batchId
    OBVIOUS
  <2> HIDE DEF new
  <2>3. new \notin segments
    BY <2>1, <2>2 DEF Published
  <2>4. new.rows \cup new.gaps \subseteq 1..offers /\ new.rows \cap new.gaps = {}
    BY <1>0, <2>2 DEF Types, Offered, Inv, Apart, Waiting
  <2>5. ASSUME NEW before \in segments PROVE Promise!Follows(new, before)
    <3>1. before.rows \subseteq JournalRows /\ before.gaps \subseteq JournalGaps
      BY <1>0 DEF Types, Segment, JournalRows, JournalGaps
    <3>2. before.id < new.id
      BY <1>0, <1>2, <2>1, <2>2, FreshIds DEF WorkerCommits, Published, Inv, Stages, Types
    <3>3. \A j \in before.rows, n \in new.rows : j < n
      BY <2>1, <2>2, <3>1 DEF Inv, Ordered
    <3>4. new.rows \cap before.gaps = {} /\ new.gaps \cap (before.rows \cup before.gaps) = {}
      BY <2>1, <2>2, <3>1 DEF Inv, Apart, Waiting
    <3> QED BY <3>2, <3>3, <3>4 DEF Promise!Follows
  <2>6. Promise!Publish(new)
    BY <2>1, <2>4, <2>5 DEF Promise!Publish
  <2> QED BY <2>1, <2>3, <2>6 DEF Promise!Next
<1>3. CASE UNCHANGED <<offers, segments>>
  BY <1>3
<1> QED
  BY <1>1, <1>2, <1>3, StepKinds, QuietKeeps
     DEF Deed, dataVars, feed, Keep, Write, Gather, Acked

\* Every step of the recorder and its worker is a step of Journal or hidden from the
\* reader: rows are published once and in order, never what is declared missing.
THEOREM Implements == Spec => JournalHolds
<1>1. Init => Promise!Init
  BY DEF Init, Promise!Init
<1>2. Inv /\ [Next]_vars => [Promise!Next]_Promise!vars
  BY StepImplements DEF vars, feed, Promise!vars
<1> QED BY <1>1, <1>2, InvHolds, PTL DEF Spec, JournalHolds, Promise!Spec

-----------------------------------------------------------------------------
(* The bounds on what the recorder holds.                                  *)
Caps ==
  /\ offers <= MaxOffers /\ faults \in 0..MaxFaults
  /\ healthy \in BOOLEAN /\ running \in BOOLEAN
  /\ Cardinality(queue) <= QueueSize /\ Pending <= ByteLimit

LEMMA Sizes ==
  ASSUME Types
  PROVE  /\ IsFiniteSet(queue) /\ Cardinality(queue) \in Nat
         /\ IsFiniteSet(batch) /\ Cardinality(batch) \in Nat
<1>1. IsFiniteSet(1..offers)
  BY FS_Interval DEF Types
<1>2. IsFiniteSet(queue) /\ IsFiniteSet(batch)
  BY <1>1, FS_Subset DEF Types, Offered
<1> QED BY <1>2, FS_CardinalityType

\* A pass moves rows: what the recorder holds neither grows nor shrinks.
LEMMA GatherKeepsSize ==
  ASSUME Types, NEW cut \in 0..offers, Gather(cut), Ordered
  PROVE  Cardinality(queue') <= Cardinality(queue) /\ Pending' = Pending
<1> DEFINE T == Taken(cut)
<1>1. T \in SUBSET queue /\ queue' = queue \ T /\ batch' = batch \cup T
  BY DEF Gather, Taken
<1> HIDE DEF T
<1>2. queue \cap T = T /\ batch \cap T = {}
  <2>1. queue \cap batch = {}
    BY DEF Ordered, Types, Offered
  <2> QED BY <1>1, <2>1
<1>3. IsFiniteSet(T) /\ Cardinality(T) \in Nat
  BY <1>1, Sizes, FS_Subset, FS_CardinalityType
<1>4. Cardinality(queue') = Cardinality(queue) - Cardinality(T)
  BY <1>1, <1>2, Sizes, FS_Difference
<1>5. Cardinality(batch') = Cardinality(batch) + Cardinality(T)
  <2>1. Cardinality({}) = 0
    BY FS_EmptySet
  <2>2. Cardinality(batch \cup T) = Cardinality(batch) + Cardinality(T) - Cardinality(batch \cap T)
    BY <1>3, Sizes, FS_Union
  <2>3. Cardinality(batch \cap T) = 0
    BY <1>2, <2>1
  <2>4. Cardinality(batch \cup T) = Cardinality(batch) + Cardinality(T)
    BY <1>3, <2>2, <2>3, Sizes
  <2> QED BY <1>1, <2>4
<1> QED BY <1>3, <1>4, <1>5, Sizes DEF Pending

LEMMA StepCaps == Inv /\ Caps /\ Next => Caps'
<1> SUFFICES ASSUME Inv, Caps, Next PROVE Caps'
  OBVIOUS
<1>0. Types /\ MaxOffers \in Nat /\ MaxFaults \in Nat /\ offers \in Nat
      /\ QueueSize \in Nat /\ ByteLimit \in Nat
  BY RecorderAssumption DEF Inv, Types
<1>1. CASE Accept
  <2>1. Cardinality(queue) < QueueSize /\ Pending + 1 <= ByteLimit
    BY <1>0, <1>1, Sizes DEF Accept, Full, Pending
  <2>2. Cardinality(queue') <= Cardinality(queue) + 1 /\ Cardinality(queue') \in Nat
    BY SMTT(30), <1>0, <1>1, Sizes, FS_AddElement DEF Accept
  <2>3. batch' = batch /\ offers' = offers + 1 /\ offers < MaxOffers
        /\ UNCHANGED <<faults, healthy, running>>
    BY <1>1 DEF Accept, Offer, held
  <2>4. Cardinality(queue') <= QueueSize /\ Pending' <= ByteLimit
    BY <1>0, <2>1, <2>2, <2>3, Sizes DEF Pending
  <2> QED BY <1>0, <2>3, <2>4 DEF Caps
<1>2. CASE Shed \/ Overflow
  <2>1. offers' = offers + 1 /\ offers < MaxOffers /\ UNCHANGED <<queue, batch, faults, running>>
    BY <1>2 DEF Shed, Overflow, Offer, Drop, held
  <2>2. healthy' \in BOOLEAN
    BY <1>2 DEF Shed, Overflow, Caps
  <2>3. Pending' = Pending
    BY <2>1 DEF Pending
  <2> QED BY <1>0, <2>1, <2>2, <2>3 DEF Caps
<1>3. CASE \E cut \in 0..offers : Keep(cut) \/ Write(cut)
  <2>1. PICK cut \in 0..offers : Keep(cut) \/ Write(cut)
    BY <1>3
  <2>2. Gather(cut) /\ UNCHANGED <<offers, faults, healthy, running>>
    BY <2>1 DEF Keep, Write
  <2>3. Cardinality(queue') <= Cardinality(queue) /\ Pending' = Pending
    BY <1>0, <2>2, GatherKeepsSize DEF Inv
  <2>4. queue' \subseteq 1..offers
    BY <1>0, <2>2 DEF Gather, Types, Offered
  <2>5. Cardinality(queue') \in Nat
    <3>1. IsFiniteSet(1..offers)
      BY <1>0, FS_Interval
    <3>2. IsFiniteSet(queue')
      BY <2>4, <3>1, FS_Subset
    <3> QED BY <3>2, FS_CardinalityType
  <2> QED BY <1>0, <2>2, <2>3, <2>5, Sizes DEF Caps
<1>4. CASE Acked
  <2>1. UNCHANGED <<offers, queue, faults, running>> /\ healthy' = TRUE /\ batch' = {}
    BY <1>4 DEF Acked, feed
  <2>2. Pending' <= Pending
    BY <1>0, <2>1, Sizes, FS_EmptySet DEF Pending
  <2>3. Pending \in Nat /\ Pending' \in Nat
    BY <1>0, <2>1, Sizes, FS_EmptySet DEF Pending
  <2> QED BY <1>0, <2>1, <2>2, <2>3 DEF Caps
<1>5. CASE WorkerCommits
  BY <1>5 DEF WorkerCommits, feed, held, Caps, Pending
<1>6. CASE Quiet
  <2>1. UNCHANGED <<offers, queue, batch>>
    BY <1>6, QuietKeeps DEF dataVars, feed, held
  <2>2. faults' \in 0..MaxFaults
    BY <1>0, <1>6 DEF Caps, Quiet, WriteFailed, Drained, StatusFailed, NoteFailed, Fault,
       WorkerSkips, WorkerAnswers, WorkerErrs, WorkerGone, Stop
  <2>3. healthy' \in BOOLEAN /\ running' \in BOOLEAN
    BY <1>6 DEF Caps, Quiet, WriteFailed, Drained, StatusFailed, NoteFailed, Recover,
       WorkerSkips, WorkerAnswers, WorkerErrs, WorkerGone, Stop
  <2> QED BY <2>1, <2>2, <2>3 DEF Caps, Pending
<1> QED BY <1>1, <1>2, <1>3, <1>4, <1>5, <1>6, StepKinds DEF Deed

\* Types, and neither the queue nor what the recorder holds in all outgrows its limit,
\* whatever is retried or refilled (Recorder.offer, Recorder.run).
THEOREM TypeCorrect == Spec => []TypeOK
<1>1. Init => Caps
  <2>1. Cardinality({}) = 0
    BY FS_EmptySet
  <2> QED BY <2>1, RecorderAssumption DEF Init, Caps, Pending
<1>2. Caps /\ UNCHANGED vars => Caps'
  BY DEF vars, feed, held, Caps, Pending
<1>3. Inv /\ Caps => TypeOK
  <2>1. Types /\ Caps => offers \in 0..MaxOffers
    BY DEF Types, Caps
  <2> QED BY <2>1 DEF Inv, Types, Caps, TypeOK
<1> QED BY <1>1, <1>2, <1>3, StepCaps, InvHolds, PTL DEF Spec

-----------------------------------------------------------------------------
(* The stream of another venue (NativeBooks).                              *)
Message == [from : Nat, to : Nat, pu : Nat, snap : BOOLEAN]

\* A message of the venue goes on from the one before it, or starts anew.
Continues(m) == m.snap \/ m.from = m.pu + 1

\* The book is without holes whether or not it may qualify.
BookInv ==
  /\ Lag \in Nat /\ venue \in {"binance", "okx"} /\ moved \in Nat /\ Lag <= moved
  /\ depth \in [at : {"off", "request", "follow"}, msgs : Seq(Message)]
  /\ \A i \in 1..Len(depth.msgs) : Continues(depth.msgs[i])
  /\ seq \in [last : Nat, bridged : BOOLEAN]
  /\ book \in [held : SUBSET Nat, valid : BOOLEAN] /\ book.held = 1..seq.last

\* The tape and what is under way to it are all trades since its start.
Trading == market.at # "off"
\* The trades up to one of them.
Unbroken == \E e \in Nat : tape.got = (tape.start + 1)..e
TapeInv ==
  /\ traded \in Nat
  /\ market \in [at : {"off", "open"}, msgs : Seq(Nat)]
  /\ tape \in [start : 0..traded, got : SUBSET Nat]
  /\ ~Trading => market.msgs = <<>> /\ Unbroken
  /\ Trading => /\ tape.start + Len(market.msgs) <= traded
                /\ tape.got = (tape.start + 1)..(traded - Len(market.msgs))
                /\ \A i \in 1..Len(market.msgs) : market.msgs[i] = traded - Len(market.msgs) + i

\* The first message, and those behind it.
LEMMA ReceivedFirst ==
  ASSUME NEW S, NEW q \in Seq(S), q # <<>>
  PROVE  /\ Len(q) \in Nat /\ Len(q) >= 1 /\ Head(q) \in S /\ Head(q) = q[1]
         /\ Tail(q) \in Seq(S) /\ Len(Tail(q)) = Len(q) - 1
         /\ \A i \in 1..Len(Tail(q)) : Tail(q)[i] = q[i + 1] /\ i + 1 \in 1..Len(q)
OBVIOUS

\* A message sent goes behind the others.
LEMMA SentLast ==
  ASSUME NEW S, NEW q \in Seq(S), NEW x \in S
  PROVE  /\ Append(q, x) \in Seq(S) /\ Len(Append(q, x)) = Len(q) + 1 /\ Len(q) \in Nat
         /\ Append(q, x)[Len(q) + 1] = x
         /\ \A i \in 1..Len(q) : Append(q, x)[i] = q[i]
OBVIOUS

\* Starting over is in sequence.
LEMMA Forgotten ==
  ASSUME BookInv, Native!Forget, UNCHANGED venue
  PROVE  BookInv'
<1>1. /\ depth' = [at |-> "off", msgs |-> <<>>] /\ seq' = [last |-> 0, bridged |-> FALSE]
      /\ book' = [held |-> {}, valid |-> FALSE] /\ moved' = Lag
  BY DEF Native!Forget, Native!Off, Native!Fresh, Native!NoBook
<1>2. 1..0 = {} OBVIOUS
<1>3. <<>> \in Seq(Message) /\ Len(<<>>) = 0 OBVIOUS
<1> QED BY <1>1, <1>2, <1>3 DEF BookInv

\* A tape that starts over holds nothing.
LEMMA TapeForgotten ==
  ASSUME TapeInv, UNCHANGED traded, market' = Native!Off, tape' = Native!NewTape
  PROVE  TapeInv'
<1>1. market' = [at |-> "off", msgs |-> <<>>] /\ tape' = [start |-> traded, got |-> {}]
  BY DEF Native!Off, Native!NewTape
<1>2. traded \in 0..traded /\ <<>> \in Seq(Nat) /\ traded \in Nat BY DEF TapeInv
<1>3. Unbroken'
  <2>1. (tape.start + 1)' = traded + 1 /\ (traded + 1)..traded = {} BY <1>1, <1>2
  <2> QED BY <1>1, <1>2, <2>1 DEF Unbroken
<1> QED BY <1>1, <1>2, <1>3 DEF TapeInv, Trading

\* A message is sent, or none: the book and the tape do not see it yet.
LEMMA MessageSent ==
  ASSUME BookInv, NEW m \in Message, Continues(m), moved' \in Nat, Lag <= moved', UNCHANGED <<venue, seq, book>>,
         depth' = Native!Sent(depth, m)
  PROVE  BookInv'
<1>1. CASE depth.at = "off" BY <1>1 DEF Native!Sent, BookInv
<1>2. CASE depth.at # "off"
  <2>1. depth' = [depth EXCEPT !.msgs = Append(depth.msgs, m)] BY <1>2 DEF Native!Sent
  <2>2. PICK q, r : q = depth.msgs /\ r = Append(q, m) OBVIOUS
  <2>3. q \in Seq(Message) /\ \A i \in 1..Len(q) : Continues(q[i]) BY <2>2 DEF BookInv
  <2>4. /\ r \in Seq(Message) /\ Len(r) = Len(q) + 1 /\ Len(q) \in Nat /\ r[Len(q) + 1] = m
        /\ \A i \in 1..Len(q) : r[i] = q[i]
    BY <2>2, <2>3, SentLast
  <2>5. depth'.msgs = r /\ depth' \in [at : {"off", "request", "follow"}, msgs : Seq(Message)]
    BY <2>1, <2>2, <2>4 DEF BookInv
  <2>6. \A i \in 1..Len(r) : Continues(r[i]) BY <2>3, <2>4
  <2> QED BY <2>5, <2>6 DEF BookInv
<1> QED BY <1>1, <1>2

\* The next message is old, or goes on where the book ends.
LEMMA DepthTaken ==
  ASSUME BookInv, Native!TakeDepth
  PROVE  BookInv'
<1> DEFINE m == Head(depth.msgs)
<1>1. /\ depth.msgs # <<>> /\ UNCHANGED <<venue, moved>> /\ depth' = [depth EXCEPT !.msgs = Tail(depth.msgs)]
      /\ \/ UNCHANGED <<seq, book>>
         \/ /\ Native!Follows(m)
            /\ seq' = [last |-> m.to, bridged |-> TRUE]
            /\ book' = [valid |-> TRUE,
                        held |-> IF m.snap THEN 1..m.to ELSE book.held \cup (m.from..m.to)]
  BY DEF Native!TakeDepth, Native!Following
<1>2. depth.msgs \in Seq(Message) /\ \A i \in 1..Len(depth.msgs) : Continues(depth.msgs[i]) BY DEF BookInv
<1>3. m \in Message /\ Continues(m) BY <1>1, <1>2, ReceivedFirst
<1>4. depth' \in [at : {"off", "request", "follow"}, msgs : Seq(Message)]
      /\ \A i \in 1..Len(depth'.msgs) : Continues(depth'.msgs[i])
  <2>1. PICK q, r : q = depth.msgs /\ r = Tail(q) OBVIOUS
  <2>2. /\ r \in Seq(Message) /\ Len(q) \in Nat /\ Len(r) = Len(q) - 1
        /\ \A i \in 1..Len(r) : r[i] = q[i + 1] /\ i + 1 \in 1..Len(q)
    BY <1>1, <1>2, <2>1, ReceivedFirst
  <2>3. \A i \in 1..Len(r) : Continues(r[i]) BY <1>2, <2>1, <2>2
  <2>4. depth'.msgs = r /\ depth' \in [at : {"off", "request", "follow"}, msgs : Seq(Message)]
    BY <1>1, <2>1, <2>2 DEF BookInv
  <2> QED BY <2>3, <2>4
<1>5. CASE UNCHANGED <<seq, book>> BY <1>1, <1>4, <1>5 DEF BookInv
<1>6. CASE /\ Native!Follows(m)
           /\ seq' = [last |-> m.to, bridged |-> TRUE]
           /\ book' = [valid |-> TRUE,
                       held |-> IF m.snap THEN 1..m.to ELSE book.held \cup (m.from..m.to)]
  <2>1. /\ m.from \in Nat /\ m.to \in Nat /\ m.pu \in Nat /\ m.snap \in BOOLEAN /\ seq.last \in Nat
        /\ book.held = 1..seq.last /\ venue \in {"binance", "okx"}
    BY <1>3 DEF Message, BookInv
  <2>2. ASSUME ~m.snap PROVE m.from <= seq.last + 1 /\ seq.last <= m.to /\ m.from >= 1
    <3>1. m.from = m.pu + 1 BY <1>3, <2>2 DEF Continues
    <3> QED BY <1>6, <2>1, <2>2, <3>1 DEF Native!Follows, Native!Spans
  <2>3. book'.held = 1..m.to /\ seq'.last = m.to
    <3>1. CASE m.snap BY <3>1, <1>6
    <3>2. CASE ~m.snap
      <4>1. (1..seq.last) \cup (m.from..m.to) = 1..m.to BY <2>1, <2>2, <3>2
      <4> QED BY <4>1, <3>2, <1>6, <2>1
    <3> QED BY <3>1, <3>2
  <2>4. seq' \in [last : Nat, bridged : BOOLEAN] /\ book' \in [held : SUBSET Nat, valid : BOOLEAN]
    BY <1>6, <2>1
  <2> QED BY <1>1, <1>4, <2>3, <2>4 DEF BookInv
<1> QED BY <1>1, <1>5, <1>6

\* The snapshot is a book without holes.
LEMMA SnapshotTaken ==
  ASSUME BookInv, NEW k \in (moved - Lag)..moved, Native!Snapshot(k)
  PROVE  BookInv'
<1>1. /\ depth' = [depth EXCEPT !.at = "follow"] /\ seq' = [last |-> k, bridged |-> FALSE]
      /\ book' = [held |-> 1..k, valid |-> FALSE] /\ UNCHANGED <<venue, moved>>
  BY DEF Native!Snapshot
<1>2. k \in Nat BY DEF BookInv
<1> QED BY <1>1, <1>2 DEF BookInv

\* A socket is opened: a snapshot comes first, or nothing.
LEMMA SocketOpened ==
  ASSUME BookInv, UNCHANGED <<venue, moved, seq, book>>,
         \/ UNCHANGED depth
         \/ depth' = [at |-> "request", msgs |-> <<>>]
         \/ depth' = [at |-> "follow", msgs |-> <<[from |-> moved, to |-> moved, pu |-> moved, snap |-> TRUE]>>]
  PROVE  BookInv'
<1>1. CASE UNCHANGED depth BY <1>1 DEF BookInv
<1>2. CASE depth' = [at |-> "request", msgs |-> <<>>]
  <2>1. <<>> \in Seq(Message) /\ Len(<<>>) = 0 OBVIOUS
  <2> QED BY <1>2, <2>1 DEF BookInv
<1>3. CASE depth' = [at |-> "follow", msgs |-> <<[from |-> moved, to |-> moved, pu |-> moved, snap |-> TRUE]>>]
  <2>1. PICK m : m = [from |-> moved, to |-> moved, pu |-> moved, snap |-> TRUE] OBVIOUS
  <2>2. m \in Message /\ Continues(m) BY <2>1 DEF BookInv, Message, Continues
  <2>3. <<m>> \in Seq(Message) /\ Len(<<m>>) = 1 /\ <<m>>[1] = m BY <2>2
  <2>4. depth' = [at |-> "follow", msgs |-> <<m>>] BY <1>3, <2>1
  <2> QED BY <2>2, <2>3, <2>4 DEF BookInv
<1> QED BY <1>1, <1>2, <1>3

\* A trade of the venue is under way, or lost with a socket that is closed.
LEMMA TradeSent ==
  ASSUME TapeInv, Native!Trade
  PROVE  TapeInv'
<1>1. traded' = traded + 1 /\ market' = Native!Sent(market, traded + 1) /\ UNCHANGED tape BY DEF Native!Trade
<1>2. /\ traded \in Nat /\ traded + 1 \in Nat /\ market.msgs \in Seq(Nat) /\ tape.start \in Nat
      /\ tape \in [start : 0..traded', got : SUBSET Nat]
  BY <1>1 DEF TapeInv
<1>3. CASE ~Trading BY <1>1, <1>2, <1>3 DEF TapeInv, Unbroken, Trading, Native!Sent
<1>4. CASE Trading
  <2>1. market' = [market EXCEPT !.msgs = Append(market.msgs, traded + 1)] BY <1>1, <1>4 DEF Native!Sent, Trading
  <2>2. PICK q, r, x : q = market.msgs /\ x = traded + 1 /\ r = Append(q, x) OBVIOUS
  <2>3. /\ q \in Seq(Nat) /\ tape.start + Len(q) <= traded /\ tape.got = (tape.start + 1)..(traded - Len(q))
        /\ \A i \in 1..Len(q) : q[i] = traded - Len(q) + i
    BY <1>4, <2>2 DEF TapeInv
  <2>4. /\ r \in Seq(Nat) /\ Len(r) = Len(q) + 1 /\ Len(q) \in Nat /\ r[Len(q) + 1] = x
        /\ \A i \in 1..Len(q) : r[i] = q[i]
    BY <1>2, <2>2, <2>3, SentLast
  <2>5. market'.at = market.at /\ market'.msgs = r /\ market' \in [at : {"off", "open"}, msgs : Seq(Nat)]
    BY <2>1, <2>2, <2>4 DEF TapeInv
  <2>6. traded' - Len(r) = traded - Len(q) BY <1>1, <1>2, <2>4
  <2>7. ASSUME NEW i \in 1..Len(r) PROVE r[i] = traded' - Len(r) + i
    <3>1. CASE i \in 1..Len(q)
      <4>1. r[i] = traded - Len(q) + i BY <2>3, <2>4, <3>1
      <4> QED BY <4>1, <2>6
    <3>2. CASE i = Len(q) + 1
      <4>1. traded - Len(q) + (Len(q) + 1) = traded + 1 BY <1>2, <2>4
      <4> QED BY <4>1, <2>2, <2>4, <2>6, <3>2
    <3> QED BY <3>1, <3>2, <2>4
  <2>8. tape.start + Len(r) <= traded' BY <1>1, <1>2, <2>3, <2>4
  <2> QED BY <1>1, <1>2, <1>4, <2>3, <2>5, <2>6, <2>7, <2>8 DEF TapeInv, Trading
<1> QED BY <1>3, <1>4

\* The next trade follows the tape.
LEMMA TradeTaken ==
  ASSUME TapeInv, Native!TakeTrade
  PROVE  TapeInv'
<1>1. /\ market.msgs # <<>> /\ UNCHANGED traded
      /\ tape' = [tape EXCEPT !.got = tape.got \cup {Head(market.msgs)}]
      /\ market' = [market EXCEPT !.msgs = Tail(market.msgs)]
  BY DEF Native!TakeTrade
<1>2. Trading BY <1>1 DEF TapeInv
<1>3. PICK q, r : q = market.msgs /\ r = Tail(market.msgs) OBVIOUS
<1>4. q \in Seq(Nat) /\ q # <<>> BY <1>1, <1>3 DEF TapeInv
<1>5. /\ Len(q) \in Nat /\ Len(q) >= 1 /\ Head(q) = q[1] /\ r \in Seq(Nat) /\ Len(r) = Len(q) - 1
      /\ \A i \in 1..Len(r) : r[i] = q[i + 1] /\ i + 1 \in 1..Len(q)
  BY <1>3, <1>4, ReceivedFirst
<1>6. /\ traded \in Nat /\ tape.start \in Nat /\ tape.start + Len(q) <= traded
      /\ tape.got = (tape.start + 1)..(traded - Len(q))
      /\ \A i \in 1..Len(q) : q[i] = traded - Len(q) + i
  BY <1>2, <1>3 DEF TapeInv
<1>7. Head(q) = traded - Len(q) + 1 BY <1>5, <1>6
<1>8. tape.got \cup {Head(q)} = (tape.start + 1)..(traded - Len(r)) BY <1>5, <1>6, <1>7
<1>9. ASSUME NEW i \in 1..Len(r) PROVE r[i] = traded - Len(r) + i
  <2>1. r[i] = traded - Len(q) + (i + 1) BY <1>5, <1>6
  <2> QED BY <2>1, <1>5, <1>6
<1>10. tape' \in [start : 0..traded, got : SUBSET Nat] /\ tape'.start = tape.start
       /\ tape'.got = tape.got \cup {Head(q)}
  BY SMTT(30), <1>1, <1>3, <1>5, <1>6, <1>7 DEF TapeInv
<1>11. market' \in [at : {"off", "open"}, msgs : Seq(Nat)] /\ market'.at = market.at /\ market'.msgs = r
  BY <1>1, <1>3, <1>5 DEF TapeInv
<1> QED BY SMTT(30), <1>1, <1>2, <1>5, <1>6, <1>8, <1>9, <1>10, <1>11 DEF TapeInv, Trading

\* The trades begin with an empty tape.
LEMMA MarketOpened ==
  ASSUME TapeInv, Native!OpenMarket
  PROVE  TapeInv'
<1>1. /\ market' = [at |-> "open", msgs |-> <<>>] /\ tape' = [start |-> traded, got |-> {}] /\ UNCHANGED traded
  BY DEF Native!OpenMarket, Native!NewTape
<1>2. traded \in Nat /\ <<>> \in Seq(Nat) /\ Len(<<>>) = 0 /\ (traded + 1)..(traded - 0) = {}
      /\ traded \in 0..traded
  BY DEF TapeInv
<1> QED BY <1>1, <1>2 DEF TapeInv, Trading

\* Every error, stop and start forgets book and tape, the book alone, with or
\* without an end of the trades, or neither.
Starts ==
  \/ Native!Forget /\ market' = Native!Off /\ UNCHANGED tape
  \/ Native!Forget /\ market' = Native!Off /\ tape' = Native!NewTape
  \/ Native!Forget /\ UNCHANGED <<market, tape>>
  \/ UNCHANGED <<moved, depth, market, seq, book, tape>>

\* Whatever starts over is in sequence.
LEMMA Starting ==
  ASSUME BookInv, TapeInv, Starts, UNCHANGED <<venue, traded>>
  PROVE  BookInv' /\ TapeInv'
<1>1. CASE Native!Forget /\ market' = Native!Off /\ tape' = Native!NewTape
  BY <1>1, Forgotten, TapeForgotten
<1>2. CASE Native!Forget /\ UNCHANGED <<market, tape>>
  BY <1>2, Forgotten DEF TapeInv, Unbroken, Trading
<1>3. CASE UNCHANGED <<moved, depth, market, seq, book, tape>>
  BY <1>3 DEF BookInv, TapeInv, Unbroken, Trading
<1>4. CASE Native!Forget /\ market' = Native!Off /\ UNCHANGED tape
  <2>1. market' = [at |-> "off", msgs |-> <<>>] /\ <<>> \in Seq(Nat) BY <1>4 DEF Native!Off
  <2>2. Unbroken'
    <3>1. CASE Trading
      <4>1. traded \in Nat /\ Len(market.msgs) \in Nat /\ tape.start \in Nat BY DEF TapeInv
      <4>2. /\ tape.start + Len(market.msgs) <= traded
            /\ tape.got = (tape.start + 1)..(traded - Len(market.msgs))
        BY <3>1 DEF TapeInv
      <4>3. traded - Len(market.msgs) \in Nat BY <4>1, <4>2
      <4> QED BY <1>4, <4>2, <4>3 DEF Unbroken
    <3>2. CASE ~Trading BY <1>4, <3>2 DEF TapeInv, Unbroken
    <3> QED BY <3>1, <3>2
  <2>3. TapeInv'
    <3>1. traded' \in Nat /\ tape' \in [start : 0..traded', got : SUBSET Nat] /\ ~Trading'
      BY <1>4, <2>1 DEF TapeInv, Trading
    <3>2. market' \in [at : {"off", "open"}, msgs : Seq(Nat)] /\ market'.msgs = <<>> BY <2>1
    <3> QED BY <2>2, <3>1, <3>2 DEF TapeInv
  <2> QED BY <1>4, <2>3, Forgotten
<1> QED BY <1>1, <1>2, <1>3, <1>4 DEF Starts

\* Every step of the stream keeps book and tape in sequence.
LEMMA NativeSteps == BookInv /\ TapeInv /\ Native!Next => BookInv' /\ TapeInv'
<1> SUFFICES ASSUME BookInv, TapeInv, Native!Next PROVE BookInv' /\ TapeInv' OBVIOUS
<1>1. ASSUME NEW w \in 1..2, Native!Update(w) PROVE BookInv' /\ TapeInv'
  <2>1. /\ moved' = moved + w /\ UNCHANGED <<venue, traded, market, seq, book, tape>>
        /\ depth' = Native!Sent(depth, [from |-> moved + 1, to |-> moved + w, pu |-> moved, snap |-> FALSE])
    BY <1>1 DEF Native!Update, Native!Moves
  <2>2. PICK m : m = [from |-> moved + 1, to |-> moved + w, pu |-> moved, snap |-> FALSE] OBVIOUS
  <2>3. m \in Message /\ Continues(m) /\ moved' \in Nat /\ Lag <= moved'
    BY <2>1, <2>2 DEF BookInv, Message, Continues
  <2>4. depth' = Native!Sent(depth, m) BY <2>1, <2>2
  <2>5. BookInv' BY <2>1, <2>3, <2>4, MessageSent
  <2> QED BY <2>1, <2>5 DEF TapeInv, Unbroken, Trading
<1>2. ASSUME NEW w \in 1..2, Native!Skips(w) PROVE BookInv' /\ TapeInv'
  <2>1. moved' = moved + w /\ UNCHANGED <<venue, traded, depth, market, seq, book, tape>>
    BY <1>2 DEF Native!Skips, Native!Moves
  <2> QED BY <2>1 DEF BookInv, TapeInv, Unbroken, Trading
<1>3. CASE Native!Trade
  <2>1. UNCHANGED <<venue, moved, depth, seq, book>> BY <1>3 DEF Native!Trade
  <2> QED BY <1>3, <2>1, TradeSent DEF BookInv
<1>4. CASE Native!Top \/ Native!NoteFails \/ Native!CapacityRaises \/ Native!MarketFails \/ Native!Cancelled
           \/ Native!ClosingFails \/ Native!Select \/ Native!Retry \/ Native!Heal \/ Native!Hurt \/ Native!Deselect
  <2>1. Starts /\ UNCHANGED <<venue, traded>>
    BY <1>4 DEF Starts, Native!Top, Native!NoteFails, Native!CapacityRaises, Native!MarketFails, Native!Cancelled,
      Native!ClosingFails, Native!Select, Native!Retry, Native!Heal, Native!Hurt, Native!Deselect,
      Native!Swallowed, Native!TaskError, Native!Reset, Native!feed
  <2> QED BY <2>1, Starting
<1>5. CASE Native!DepthGap \/ Native!DepthFails
  <2>1. Starts /\ UNCHANGED <<venue, traded>>
    BY <1>5 DEF Starts, Native!DepthGap, Native!DepthFails, Native!DepthError, Native!TaskError, Native!Reset
  <2> QED BY <2>1, Starting
<1>6. CASE Native!OpenMarket
  <2>1. /\ UNCHANGED <<venue, moved, seq, book>>
        /\ \/ UNCHANGED depth
           \/ depth' = [at |-> "follow", msgs |-> <<[from |-> moved, to |-> moved, pu |-> moved, snap |-> TRUE]>>]
    BY <1>6 DEF Native!OpenMarket
  <2> QED BY <1>6, <2>1, MarketOpened, SocketOpened
<1>7. CASE Native!OpenDepth
  <2>1. /\ UNCHANGED <<venue, moved, seq, book, market, tape, traded>> /\ depth' = [at |-> "request", msgs |-> <<>>]
    BY <1>7 DEF Native!OpenDepth
  <2> QED BY <2>1, SocketOpened DEF TapeInv, Unbroken, Trading
<1>8. CASE Native!TakeTrade
  <2>1. UNCHANGED <<venue, moved, depth, seq, book>> BY <1>8 DEF Native!TakeTrade
  <2> QED BY <1>8, <2>1, TradeTaken DEF BookInv
<1>9. CASE Native!TakeDepth
  <2>1. UNCHANGED <<traded, market, tape>> BY <1>9 DEF Native!TakeDepth
  <2> QED BY <1>9, <2>1, DepthTaken DEF TapeInv, Unbroken, Trading
<1>10. ASSUME NEW k \in (moved - Lag)..moved, Native!Snapshot(k) PROVE BookInv' /\ TapeInv'
  <2>1. UNCHANGED <<traded, market, tape>> BY <1>10 DEF Native!Snapshot
  <2> QED BY <1>10, <2>1, SnapshotTaken DEF TapeInv, Unbroken, Trading
<1> QED BY <1>1, <1>2, <1>3, <1>4, <1>5, <1>6, <1>7, <1>8, <1>9, <1>10 DEF Native!Next

\* A book that may qualify has no hole, whatever order snapshot and buffered messages came in,
\* and a tape has every trade since its start, whatever was cut, skipped, raised or cancelled
\* (native_streams.py, SequencedBook.apply, binance_depth and run_symbol).
THEOREM BooksInSequence == PartsSpec => []InSequence
<1>1. PartsInit => BookInv /\ TapeInv
  <2> SUFFICES ASSUME PartsInit PROVE BookInv /\ TapeInv OBVIOUS
  <2>1. /\ Lag \in Nat /\ Venues \subseteq {"binance", "okx"} BY RecordingAssumption DEF Native!NativeAssumption
  <2>2. /\ venue \in {"binance", "okx"} /\ moved \in Nat /\ traded = 0
        /\ depth = [at |-> "off", msgs |-> <<>>] /\ market = [at |-> "off", msgs |-> <<>>]
        /\ seq = [last |-> 0, bridged |-> FALSE] /\ book = [held |-> {}, valid |-> FALSE]
        /\ tape = [start |-> traded, got |-> {}]
    BY <2>1 DEF PartsInit, NativeRests, Native!Init, Native!Off, Native!Fresh, Native!NoBook, Native!NewTape
  <2>3. 1..0 = {} /\ <<>> \in Seq(Message) /\ <<>> \in Seq(Nat) /\ Len(<<>>) = 0 OBVIOUS
  <2>4. Lag <= moved
    BY <2>1 DEF PartsInit, NativeRests, Native!Init
  <2>5. BookInv BY <2>1, <2>2, <2>3, <2>4 DEF BookInv
  <2>6. 0 \in 0..traded /\ tape.start = 0 /\ tape.got = {} BY <2>2
  <2>7. TapeInv
    <3>1. (tape.start + 1)..0 = {} BY <2>6
    <3> QED BY <2>2, <2>3, <2>6, <3>1 DEF TapeInv, Unbroken, Trading
  <2> QED BY <2>5, <2>7
<1>2. BookInv /\ TapeInv /\ [PartsNext]_partsVars => (BookInv /\ TapeInv)'
  <2> SUFFICES ASSUME BookInv, TapeInv, [PartsNext]_partsVars PROVE BookInv' /\ TapeInv' OBVIOUS
  <2>1. CASE UNCHANGED native BY <2>1 DEF native, BookInv, TapeInv, Unbroken, Trading
  <2>2. CASE Native!Next BY <2>2, NativeSteps
  <2> QED BY <2>1, <2>2 DEF PartsNext, partsVars
<1>3. BookInv /\ TapeInv => InSequence
  <2> SUFFICES ASSUME BookInv, TapeInv PROVE InSequence OBVIOUS
  <2>1. book.held = 1..seq.last BY DEF BookInv
  <2>2. ASSUME NEW i \in tape.got PROVE (tape.start + 1)..i \subseteq tape.got
    <3>1. traded \in Nat /\ tape.start \in Nat /\ Len(market.msgs) \in Nat BY DEF TapeInv
    <3>2. PICK e \in Int : tape.got = (tape.start + 1)..e
      <4>1. CASE Trading
        <5>1. tape.got = (tape.start + 1)..(traded - Len(market.msgs)) BY <4>1 DEF TapeInv
        <5> QED BY <3>1, <5>1
      <4>2. CASE ~Trading BY <4>2 DEF TapeInv, Unbroken
      <4> QED BY <4>1, <4>2
    <3> QED BY <2>2, <3>1, <3>2
  <2> QED BY <2>1, <2>2 DEF InSequence, Native!InSequence
<1> QED BY <1>1, <1>2, <1>3, PTL DEF PartsSpec
=============================================================================
