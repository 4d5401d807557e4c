---------------------------- MODULE ResearchQueue ----------------------------
(***************************************************************************)
(* The research loop (scanner_research.py): once a minute it follows the   *)
(* ended setups, enrols the paired stages of new paths                     *)
(* (forward_power.sweep), advances the jobs of the markets that waited     *)
(* longest with one request for candles each, and joins finished paths to  *)
(* their policy opportunities (forward_evidence.py).                       *)
(*                                                                         *)
(* A request is an await: the desk saves setups meanwhile.  Any failure    *)
(* ends the round.  What a job sees in its candles is PathEngines; here it *)
(* needs some rounds with candles, or never ends.                          *)
(***************************************************************************)
EXTENDS Naturals, FiniteSets, Sequences

CONSTANTS
  Parent,   \* setups whose path is researched
  Market,
  Down,     \* markets whose requests may fail for ever
  PathsOf,  \* per setup: the kinds and markets of path it may be saved with
  Limit,    \* rows of one sweep, of one ingestion
  Picked,   \* jobs of one round
  Groups,   \* markets of one round
  MaxLeft,  \* bound: rounds with candles that a path needs
  None

Kinds == {"forward", "delivery", "control", "endless"}
QueueAssumption ==
  /\ Limit \in Nat \ {0} /\ Picked \in Nat \ {0} /\ Groups \in Nat \ {0}
  /\ MaxLeft \in Nat \ {0} /\ IsFiniteSet(Parent) /\ Down \subseteq Market
  /\ PathsOf \in [Parent -> SUBSET [kind : Kinds, market : Market]]
  /\ None \notin UNION {PathsOf[p] : p \in Parent} /\ None \notin {"stage", "not_enrolled"}

VARIABLES
  plan,     \* the path of a setup, fixed when it is registered
  left,     \* rounds with candles a path still needs
  due,      \* setup_path_jobs and swing_path_jobs by next_ms, as the round began
  later,    \* the jobs it has advanced, whose next_ms is a minute ahead
  swept,    \* evidence_power_paths by trigger: none, "stage", "not_enrolled"
  labels,   \* setup_path_labels, swing_path_labels
  results,  \* policy_results
  round,    \* how far the loop is, the jobs it selected, the groups it did
  missed,   \* history: parents some selection came before their sweep
  late      \* history: parents whose stage was enrolled after their label

vars == <<plan, left, due, later, swept, labels, results, round, missed, late>>

Path == Parent \X {"own", "stage"}
Own(p) == <<p, "own">>
Stage(p) == <<p, "stage">>
Idle == [at |-> "idle", todo |-> <<>>, done |-> 0]
Elems(s) == {s[i] : i \in DOMAIN s}
\* The members of s that are in S, in their order.
Those(s, S) ==
  LET those[n \in 0..Len(s)] ==
        IF n = 0 THEN <<>>
        ELSE IF s[n] \in S THEN Append(those[n - 1], s[n]) ELSE those[n - 1]
  IN those[Len(s)]
MarketOf(j) == plan[j[1]].market
Ends(j) == plan[j[1]].kind # "endless"

TypeOK ==
  /\ plan \in [Parent -> {None} \cup UNION {PathsOf[p] : p \in Parent}]
  /\ left \in [Path -> 0..MaxLeft]
  /\ due \in Seq(Path) /\ later \in Seq(Path)
  /\ swept \in [Parent -> {None, "stage", "not_enrolled"}]
  /\ labels \subseteq Path /\ results \subseteq Parent
  /\ round.at \in {"idle", "late", "paths", "ingest"} /\ round.todo \in Seq(Path)
  /\ missed \subseteq Parent /\ late \subseteq Parent

Init ==
  /\ plan = [p \in Parent |-> None] /\ left = [j \in Path |-> 0]
  /\ due = <<>> /\ later = <<>>
  /\ swept = [p \in Parent |-> None] /\ labels = {} /\ results = {}
  /\ round = Idle /\ missed = {} /\ late = {}

(***************************************************************************)
(* Saves of the desk: register, enroll_control and the delivered stage, in *)
(* the transaction of the save.  A swing path may never complete.          *)
(***************************************************************************)
Save(p, c, n) ==
  /\ plan[p] = None
  /\ plan' = [plan EXCEPT ![p] = c]
  /\ left' = [left EXCEPT ![Own(p)] = n]
  /\ due' = Append(due, Own(p))
  /\ UNCHANGED <<later, swept, labels, results, round, missed, late>>

(***************************************************************************)
(* A round.                                                                *)
(***************************************************************************)
\* It comes a minute after the last one: every job is due.
Begin ==
  /\ round.at = "idle"
  /\ round' = [Idle EXCEPT !.at = "late"]
  /\ due' = due \o later /\ later' = <<>>
  /\ UNCHANGED <<plan, left, swept, labels, results, missed, late>>

\* sweep: a delivered path gets its delayed entries, a forward path its
\* trade-through stage, or a mark that it got none; once each.
Unswept(kind) ==
  {p \in Parent : plan[p] # None /\ plan[p].kind = kind /\ swept[p] = None}
Taken(S) ==
  {T \in SUBSET S : Cardinality(T) = Limit \/ (T = S /\ Cardinality(S) < Limit)}
Oldest(q) == SubSeq(q, 1, IF Len(q) < Picked THEN Len(q) ELSE Picked)
Enroll(taken, staged, n) ==
  /\ swept' = [p \in Parent |-> IF p \notin taken THEN swept[p]
                                ELSE IF p \in staged THEN "stage" ELSE "not_enrolled"]
  /\ late' = late \cup {p \in staged : Own(p) \in labels}
  /\ left' = [j \in Path |-> IF \E p \in staged : j = Stage(p) THEN n ELSE left[j]]
  /\ \E new \in [1..Cardinality(staged) -> {Stage(p) : p \in staged}] :
       /\ Elems(new) = {Stage(p) : p \in staged}
       /\ due' = due \o new

\* Without an await between them: the observations have their candles, the
\* sweep ends or fails, the jobs of the round are selected.
SweepAndSelect(failed, n) ==
  /\ round.at = "late"
  /\ \E d \in Taken(Unswept("delivery")), f \in Taken(Unswept("forward")) :
       LET taken == IF failed THEN {} ELSE d \cup f
           all == Unswept("delivery") \cup Unswept("forward")
       IN /\ \E staged \in SUBSET taken : Enroll(taken, staged, n)
          /\ missed' = missed \cup (all \ taken)
  /\ round' = [at |-> "paths", todo |-> Oldest(due'), done |-> 0]
  /\ UNCHANGED <<plan, later, labels, results>>

\* The group of the job that waited longest.
First == MarketOf(round.todo[1])
OfFirst(q) == {j \in Elems(q) : MarketOf(j) = First}
GroupNow == Those(due, OfFirst(due))
Group == Those(round.todo, OfFirst(round.todo))

\* One request for the group, one transaction per job.  The request starts at
\* the oldest cursor and returns a bounded number of candles: beside a job
\* that never ends the others may get none.
Remaining(j, news) == IF news /\ Ends(j) THEN left[j] - 1 ELSE left[j]
KeepsPlace(rest, group) == [due |-> group \o rest, later |-> later]
Requeued(rest, group) == [due |-> rest, later |-> later \o group]
Advance(m) ==
  /\ round.at = "paths" /\ round.done < Groups /\ round.todo # <<>> /\ First = m
  /\ \E news \in IF \A j \in Elems(Group) : Ends(j) THEN {TRUE} ELSE BOOLEAN :
       left' = [j \in Path |-> IF j \in Elems(Group) THEN Remaining(j, news) ELSE left[j]]
  /\ labels' = labels \cup {j \in Elems(Group) : left'[j] = 0}
  /\ LET q == Requeued(Those(due, Elems(due) \ Elems(Group)),
                       Those(Group, {j \in Elems(Group) : left'[j] # 0}))
     IN due' = q.due /\ later' = q.later
  /\ round' = [round EXCEPT !.todo = Those(@, Elems(@) \ OfFirst(@)),
                            !.done = @ + 1]
  /\ UNCHANGED <<plan, swept, results, missed, late>>

RequestsEnd ==
  /\ round.at = "paths" /\ (round.todo = <<>> \/ round.done = Groups)
  /\ round' = [Idle EXCEPT !.at = "ingest"]
  /\ UNCHANGED <<plan, left, due, later, swept, labels, results, missed, late>>

\* ingest_paths, and the round is over.
Finished == {p \in Parent : plan[p] # None /\ plan[p].kind = "forward" /\ Own(p) \in labels}
Ingest ==
  /\ round.at = "ingest"
  /\ \E T \in Taken(Finished \ results) : results' = results \cup T
  /\ round' = Idle
  /\ UNCHANGED <<plan, left, due, later, swept, labels, missed, late>>

\* A failed request, or a stop of the process, ends the round where it is.
RoundFails ==
  /\ round.at # "idle"
  /\ round' = Idle
  /\ UNCHANGED <<plan, left, due, later, swept, labels, results, missed, late>>

Next ==
  \/ \E p \in Parent, n \in 1..MaxLeft : \E c \in PathsOf[p] : Save(p, c, n)
  \/ Begin
  \/ \E failed \in BOOLEAN, n \in 1..MaxLeft : SweepAndSelect(failed, n)
  \/ \E m \in Market : Advance(m)
  \/ RequestsEnd \/ Ingest \/ RoundFails

\* The loop comes round every minute; a request ends, in candles or in an error;
\* the requests of a market that is not down, and the steps between requests, do
\* not fail for ever.
Request == (\E m \in Market : Advance(m)) \/ (round.at = "paths" /\ RoundFails)
Fairness ==
  /\ WF_vars(Begin) /\ WF_vars(Request)
  /\ SF_vars(\E failed \in BOOLEAN, n \in 1..MaxLeft : SweepAndSelect(failed, n))
  /\ SF_vars(\E m \in Market \ Down : Advance(m))
  /\ SF_vars(RequestsEnd) /\ SF_vars(Ingest)
Spec == Init /\ [][Next]_vars
FairSpec == Spec /\ Fairness

(***************************************************************************)
(* Properties.                                                             *)
(***************************************************************************)
\* "Paired research stages enroll before any advance can finish their parents"
\* (scanner_research.py): a stage enrolled with its parent's outcome known is
\* one that an earlier sweep failed to see, or had no room for.
EnrolledBlind == late \subseteq missed

\* Every forward path is labelled and its result joined, whatever waits beside
\* it, unless a job of its market never ends.  No market is down here.
Forward(p) == plan[p] # None /\ plan[p].kind = "forward"
Blocked(p) == \E q \in Parent : /\ plan[q] # None /\ plan[p] # None
                               /\ plan[q].kind = "endless" /\ plan[q].market = plan[p].market
Ingested ==
  \A p \in {q \in Parent : \E c \in PathsOf[q] : c.kind = "forward"} :
    Forward(p) ~> (p \in results \/ Blocked(p))

\* "Neither queue may starve the other" (scanner_research.py): the same when the
\* market of another path is down.  Its job keeps its place before the others,
\* and its error ends every round there, so that they wait for ever.
Served(p) == Forward(p) /\ plan[p].market \notin Down
NeitherStarves ==
  \A p \in {q \in Parent : \E c \in PathsOf[q] : c.kind = "forward"} :
    Served(p) ~> (p \in results \/ Blocked(p))
=============================================================================
