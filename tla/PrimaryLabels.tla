---------------------------- MODULE PrimaryLabels ----------------------------
(***************************************************************************)
(* How recorded prints become the outcomes that models learn from: the     *)
(* replay of ml/labels.py over the rows of ml/recordings.py, its durable   *)
(* checkpoint (ml/checkpoint.py), the passes that run it (ml/cli.py), and  *)
(* the deletion of rows that no outcome needs any more (retention.py).     *)
(*                                                                         *)
(* The tape of one market grows with the clock and is published later.  A  *)
(* pass walks what is published, resumes the positions of the checkpoint,  *)
(* commits every outcome as it is known and the checkpoint at its end; it  *)
(* may die anywhere.  An outcome is written once and never replaced.       *)
(***************************************************************************)
EXTENDS Naturals, Sequences, FiniteSets

CONSTANTS
  MaxNow,     \* bound of the clock
  MaxRows,    \* bound of the tape
  MaxDies,    \* passes that die
  LastDecide, \* no decision is captured later
  Stale,      \* trade_stale_ms
  Fill,       \* fill_window_ms of a paper position
  Hold,       \* its horizon, with the grace of a minute below one tick
  Margin,     \* the fifteen minutes kept before what is needed, and kept always
  Fresh       \* the age at which a checkpoint no longer releases rows

PrimaryLabelsAssumption ==
  /\ {MaxNow, MaxRows, MaxDies, LastDecide, Stale, Fill, Hold, Margin, Fresh} \subseteq Nat
  /\ Fill <= Hold /\ LastDecide + Hold < MaxNow
  /\ 0 < Margin /\ Stale <= Margin

VARIABLES
  now,
  tape,       \* what the recorder admitted: rows of a receipt and a kind
  published,  \* how many of them are committed in segments
  deleted,    \* the indices of those that cleanup removed
  decided,    \* ml_snapshots of stage "decision": their time, or 0
  twins,      \* the two decisions are evaluations of one opportunity
  label,      \* ml_labels of policy prints-v1
  checkpoint, \* primary_materialization
  pass,       \* the pass that holds primary-label.lock
  lagged,     \* history: decisions that a pass met behind the published tape
  holed,      \* history: a control was deleted that no pass had consumed
  whole,      \* history: decisions labelled by a pass that did not resume
  failed,     \* no monitor has succeeded lately
  dies

tapes == <<tape, published, deleted, holed>>
labels == <<label, lagged, whole>>
vars == <<now, tapes, decided, twins, labels, checkpoint, pass, failed, dies>>

Decisions == 1 .. 2
Times == 0 .. MaxNow
Kinds == {"subscribed", "gap", "in", "out"}   \* prints inside the entry zone, or at target or stop
Rows == [at : Times, kind : Kinds]
Trades == {"in", "out"}
Trade(i) == tape[i].kind \in Trades

Positions == [state : {"open", "entered", "exited"}, gap : BOOLEAN, late : BOOLEAN, exit : Times]
NoPosition == [state |-> "none", gap |-> FALSE, late |-> FALSE, exit |-> 0]
Opened(gap, late) == [state |-> "open", gap |-> gap, late |-> late, exit |-> 0]

NoLabel == [kind |-> "none", exit |-> 0]
Unlabelled(d) == decided[d] > 0 /\ label[d] = NoLabel

NoCheckpoint ==
  [cursor |-> 0, saved |-> 0, subscribed |-> FALSE, last |-> 0,
   open |-> [d \in Decisions |-> NoPosition]]
NoPass ==
  [pc |-> "idle", resumes |-> TRUE, from |-> 0, upto |-> 0, i |-> 1, until |-> 0, at |-> 0,
   pending |-> {}, subscribed |-> FALSE, last |-> 0, open |-> [d \in Decisions |-> NoPosition]]

\* One acknowledgement is recorded, nothing is decided.
Blank ==
  /\ tape = <<[at |-> 1, kind |-> "subscribed"]>> /\ published = 1
  /\ deleted = {} /\ holed = FALSE
  /\ decided = [d \in Decisions |-> 0] /\ twins = FALSE
  /\ label = [d \in Decisions |-> NoLabel] /\ lagged = {} /\ whole = {}
  /\ checkpoint = NoCheckpoint /\ pass = NoPass /\ failed = FALSE /\ dies = 0
Init == now = 2 /\ Blank

-----------------------------------------------------------------------------
(* The recorder and the desk.                                              *)

\* The acknowledgement or the loss that stands last among the first n rows.
SubscribedAfter(n) ==
  \E i \in 1..n : tape[i].kind = "subscribed" /\ \A j \in i+1..n : tape[j].kind # "gap"

Live == SubscribedAfter(Len(tape))

\* A pass reads the rows and decisions it took at its start, so that what the desk does
\* meanwhile commutes with its steps: it happens before the pass or after it.
Between == pass = NoPass

\* A row is committed before the grace of a deadline is over.
Tick ==
  /\ Between /\ now < MaxNow /\ published = Len(tape) /\ now' = now + 1
  /\ UNCHANGED <<tapes, decided, twins, labels, checkpoint, pass, failed, dies>>

\* One row per receipt: prints also arrive after rows were lost and declared so.
Admit ==
  /\ Between /\ Len(tape) < MaxRows /\ \A i \in 1..Len(tape) : tape[i].at < now
  /\ \E kind \in Kinds :
       /\ kind = "subscribed" => ~Live
       /\ kind = "gap" => Live
       /\ tape' = Append(tape, [at |-> now, kind |-> kind])
  /\ UNCHANGED <<now, published, deleted, holed, decided, twins, labels, checkpoint, pass, failed, dies>>

Publish ==
  /\ Between /\ published < Len(tape) /\ published' = Len(tape)
  /\ UNCHANGED <<now, tape, deleted, holed, decided, twins, labels, checkpoint, pass, failed, dies>>

\* FeatureStore.capture at a confirmed decision, which rests on a covered tape and is
\* later than every row received before it.
Capture(d) ==
  /\ Between /\ decided[d] = 0 /\ now <= LastDecide /\ Live /\ \A i \in 1..Len(tape) : tape[i].at < now
  /\ \A e \in Decisions : e < d => decided[e] > 0
  /\ decided' = [decided EXCEPT ![d] = now]
  /\ twins' \in IF d = 2 THEN BOOLEAN ELSE {twins}
  /\ UNCHANGED <<now, tapes, labels, checkpoint, pass, failed, dies>>

-----------------------------------------------------------------------------
(* One row, for one position: PaperPosition and the coverage around it.    *)

\* A decision becomes a position at the first row that is not older.
Activated(d, p, r) ==
  IF p = NoPosition /\ d \in pass.pending /\ decided[d] <= r.at /\ label[d] = NoLabel
    THEN Opened(~pass.subscribed \/ r.at - decided[d] > Stale, FALSE)
    ELSE p

\* Mutant: only a declared loss breaks the coverage, not silence.
ContinuityDeclared(p, r) ==
  IF p # NoPosition /\ r.kind = "gap" THEN [p EXCEPT !.gap = TRUE] ELSE p

Continuity(p, r) ==
  LET stale == r.kind \in Trades /\ pass.last > 0 /\ r.at - pass.last > Stale
  IN IF p # NoPosition /\ (r.kind = "gap" \/ stale) THEN [p EXCEPT !.gap = TRUE] ELSE p

\* on_trade: the entry within its window, then target, stop or horizon.
Traded(d, p, r) ==
  CASE p.state = "open" /\ r.kind = "in" /\ r.at <= decided[d] + Fill -> [p EXCEPT !.state = "entered"]
    [] p.state = "open" /\ r.kind \in Trades /\ r.at > decided[d] + Fill ->
         [p EXCEPT !.state = "exited", !.exit = r.at, !.late = TRUE]
    [] p.state = "entered" /\ (r.kind = "out" \/ (r.kind \in Trades /\ r.at >= decided[d] + Hold)) ->
         [p EXCEPT !.state = "exited", !.exit = r.at, !.late = @ \/ r.at > decided[d] + Hold]
    [] OTHER -> p

Walked(d, r) == Traded(d, Continuity(Activated(d, pass.open[d], r), r), r)

\* Mutant: the grace of a deadline never ends.
ExpiredNever(d, at) == FALSE

Expired(d, at) == at > decided[d] + Hold

\* primary_outcome: complete only with an entry, a timely exit and no gap.
Outcome(p) ==
  IF p.state = "exited" /\ ~p.gap /\ ~p.late
    THEN [kind |-> "complete", exit |-> p.exit]
    ELSE [kind |-> "incomplete", exit |-> 0]

\* finish: an outcome that cannot change any more is written, once.
Settled(d, p, at) == p.gap \/ p.state = "exited" \/ Expired(d, at)
Written(done, open) ==
  [d \in Decisions |-> IF d \in done /\ label[d] = NoLabel THEN Outcome(open[d]) ELSE label[d]]
Without(done, open) == [d \in Decisions |-> IF d \in done THEN NoPosition ELSE open[d]]
Marked(done) == whole' = IF pass.resumes THEN whole ELSE whole \cup done

-----------------------------------------------------------------------------
(* A pass.                                                                 *)

Less(a, b) == IF a > b THEN a - b ELSE 0

\* Repeated evaluations of one opportunity are excluded, not sampled again.
Duplicates == IF twins /\ Unlabelled(2) THEN {2} ELSE {}
Excluded == [d \in Decisions |-> IF d \in Duplicates THEN [kind |-> "duplicate", exit |-> 0] ELSE label[d]]

\* The positions of the checkpoint that were not labelled since.
Restored == [d \in Decisions |-> IF Excluded[d] = NoLabel THEN checkpoint.open[d] ELSE NoPosition]

\* monitor: the incremental pass, when there is something to resolve; the worker sleeps
\* between two of them.
Resume ==
  /\ pass = NoPass /\ checkpoint.saved < now /\ \E d \in Decisions : Unlabelled(d)
  /\ label' = Excluded
  /\ pass' = [pc |-> "walk", resumes |-> TRUE, from |-> checkpoint.cursor, upto |-> published,
              i |-> 1, until |-> now, at |-> checkpoint.cursor,
              pending |-> {d \in Decisions : decided[d] > 0 /\ Excluded[d] = NoLabel
                                                /\ checkpoint.open[d] = NoPosition},
              subscribed |-> checkpoint.subscribed, last |-> checkpoint.last, open |-> Restored]
  /\ UNCHANGED <<now, tapes, decided, twins, lagged, whole, checkpoint, failed, dies>>

\* cycle, when no monitor has succeeded lately: a pass that resumes nothing, from a quarter
\* of an hour before what is unresolved.
Rework ==
  /\ failed /\ pass = NoPass /\ \E d \in Decisions : Unlabelled(d)
  /\ LET open == {d \in Decisions : Unlabelled(d)}
     IN \E first \in open :
          LET from == Less(decided[first], Margin)
          IN /\ \A d \in open : decided[first] <= decided[d]
             /\ pass' = [NoPass EXCEPT !.pc = "walk", !.resumes = FALSE, !.from = from,
                                       !.upto = published, !.at = from, !.pending = open]
  /\ failed' = FALSE
  /\ UNCHANGED <<now, tapes, decided, twins, labels, checkpoint, dies>>

\* The next row: those of the window that were published when the pass began.
Walk ==
  /\ pass.pc = "walk" /\ pass.i <= pass.upto
  /\ IF pass.i \in deleted \/ tape[pass.i].at <= pass.from
       THEN pass' = [pass EXCEPT !.i = @ + 1] /\ UNCHANGED labels
       ELSE LET r == tape[pass.i]
                open == [d \in Decisions |-> Walked(d, r)]
                done == {d \in Decisions : open[d] # NoPosition
                                             /\ (open[d].state = "exited" \/ Expired(d, r.at))}
            IN /\ label' = Written(done, open) /\ Marked(done)
               /\ pass' = [pass EXCEPT !.i = @ + 1, !.at = r.at, !.open = Without(done, open),
                             !.pending = @ \ {d \in @ : decided[d] <= r.at},
                             !.subscribed = IF r.kind = "gap" THEN FALSE ELSE @ \/ r.kind = "subscribed",
                             !.last = IF r.kind \in Trades THEN r.at ELSE @]
               /\ UNCHANGED lagged
  /\ UNCHANGED <<now, tapes, decided, twins, checkpoint, failed, dies>>

\* The live cutoff of an incremental pass: a decision behind the published tape is taken
\* up with the mark that nothing covers it.
Ending(d) ==
  CASE pass.open[d] # NoPosition ->
         [pass.open[d] EXCEPT !.late = @ \/ (pass.resumes /\ Expired(d, pass.until))]
    [] d \in pass.pending /\ pass.resumes -> Opened(FALSE, TRUE)
    [] OTHER -> NoPosition

WalkEnds ==
  /\ pass.pc = "walk" /\ pass.i > pass.upto
  /\ LET open == [d \in Decisions |-> Ending(d)]
         at == IF pass.until > pass.at THEN pass.until ELSE pass.at
         done == {d \in Decisions : open[d] # NoPosition /\ Settled(d, open[d], at)}
     IN /\ label' = Written(done, open) /\ Marked(done)
        /\ lagged' = IF pass.resumes THEN lagged \cup pass.pending ELSE lagged
        /\ pass' = IF pass.resumes
                     THEN [pass EXCEPT !.pc = "save", !.i = 1, !.upto = 0, !.open = Without(done, open), !.pending = {}]
                     ELSE NoPass
  /\ UNCHANGED <<now, tapes, decided, twins, checkpoint, failed, dies>>

\* The checkpoint commits after the labels.
Save ==
  /\ pass.pc = "save"
  /\ checkpoint' = [cursor |-> pass.at, saved |-> now, subscribed |-> pass.subscribed,
                    last |-> pass.last, open |-> pass.open]
  /\ pass' = NoPass /\ failed' = FALSE
  /\ UNCHANGED <<now, tapes, decided, twins, labels, dies>>

Die ==
  /\ pass # NoPass /\ dies < MaxDies /\ dies' = dies + 1
  /\ pass' = NoPass /\ failed' = (failed \/ pass.resumes)
  /\ UNCHANGED <<now, tapes, decided, twins, labels, checkpoint>>

-----------------------------------------------------------------------------
(* Cleanup.                                                                *)

\* consumed_cursor: a fresh checkpoint that holds the decision's open position.
Consumed(d) ==
  /\ checkpoint.open[d] # NoPosition /\ checkpoint.open[d].state # "exited"
  /\ now - checkpoint.saved <= Fresh
  /\ decided[d] <= checkpoint.cursor

ProtectedFrom(d) ==
  Less(IF Consumed(d) THEN checkpoint.cursor ELSE decided[d], Margin)

\* The floor, the outcomes that are not resolved, and the lease of a running pass.
Protected(i) ==
  \/ tape[i].at >= Less(now, Margin)
  \/ \E d \in Decisions : Unlabelled(d) /\ tape[i].at >= ProtectedFrom(d)
  \/ pass # NoPass /\ tape[i].at >= pass.from

Prune ==
  /\ \E gone \in SUBSET {i \in 1..published : ~Protected(i)} :
       /\ gone \ deleted # {} /\ \A i \in gone : 1..i \subseteq gone
       /\ deleted' = deleted \cup gone
       /\ holed' = (holed \/ \E i \in gone \ deleted :
                      tape[i].at > checkpoint.cursor /\ ~Trade(i))
  /\ UNCHANGED <<now, tape, published, decided, twins, labels, checkpoint, pass, failed, dies>>

Next ==
  \/ Tick \/ Admit \/ Publish \/ \E d \in Decisions : Capture(d)
  \/ Resume \/ Rework \/ Walk \/ WalkEnds \/ Save \/ Die \/ Prune

\* The worker runs its monitor again and again, also after a pass that died.
Fairness ==
  /\ WF_vars(Tick) /\ WF_vars(Publish) /\ WF_vars(Resume)
  /\ WF_vars(Walk) /\ WF_vars(WalkEnds) /\ WF_vars(Save)
Spec == Init /\ [][Next]_vars /\ Fairness

-----------------------------------------------------------------------------
TypeOK ==
  /\ now \in Times /\ tape \in Seq(Rows) /\ published \in 0..Len(tape) /\ deleted \subseteq 1..published
  /\ decided \in [Decisions -> 0..LastDecide] /\ twins \in BOOLEAN
  /\ label \in [Decisions -> [kind : {"none", "complete", "incomplete", "duplicate"}, exit : Times]]
  /\ checkpoint \in [cursor : Times, saved : Times, subscribed : BOOLEAN, last : Times,
                     open : [Decisions -> {p \in Positions : p.state # "exited"} \cup {NoPosition}]]
  /\ pass \in [pc : {"idle", "walk", "save"}, resumes : BOOLEAN, from : Times, upto : 0..published,
               i : 1..MaxRows + 1, until : Times, at : Times, pending : SUBSET Decisions,
               subscribed : BOOLEAN, last : Times, open : [Decisions -> Positions \cup {NoPosition}]]
  /\ lagged \subseteq Decisions /\ whole \subseteq Decisions /\ holed \in BOOLEAN /\ failed \in BOOLEAN /\ dies \in 0..MaxDies

(* What the tape says of a decision, whoever replays it and when.          *)
\* Row a is the first that is not older than the decision.
Begins(a, d) == tape[a].at >= decided[d] /\ \A i \in 1..a-1 : tape[i].at < decided[d]

\* A print so long after the last one, of those from row s on, that nothing covers the time between.
Silent(s, i) ==
  /\ Trade(i) /\ \E j \in s..i-1 : Trade(j)
  /\ \A j \in s..i-1 : Trade(j) => tape[i].at - tape[j].at > Stale

\* No loss and no silence from the entry of the decision to row x, for a replay from row s on.
Covered(s, a, x, d) ==
  /\ SubscribedAfter(a - 1) /\ tape[a].at - decided[d] <= Stale
  /\ \A i \in a..x : tape[i].kind # "gap" /\ ~Silent(s, i)

\* Row x completes the position of d that row a begins: entered in time, left at the first
\* print that ends it.
Completed(a, x, d) ==
  /\ Trade(x) /\ tape[x].at <= decided[d] + Hold
  /\ \E e \in a..x-1 :
       /\ tape[e].kind = "in" /\ tape[e].at <= decided[d] + Fill
       /\ \A i \in a..e-1 : tape[i].kind # "in"
       /\ \A i \in e+1..x-1 : tape[i].kind # "out"
       /\ tape[x].kind = "out" \/ tape[x].at = decided[d] + Hold

\* A complete outcome is what the tape gives from the decision on, without a break, although
\* it was resumed from checkpoints, after passes that died, over rows of which many are gone
\* (labels.py, test_incremental_restart_matches_full_replay).
CompleteIsEarned ==
  \A d \in Decisions : label[d].kind = "complete" =>
    \E x \in 1..Len(tape) : \E a \in 1..x :
      tape[x].at = label[d].exit /\ Begins(a, d) /\ Covered(a, a, x, d) /\ Completed(a, x, d)

\* A resumed replay excludes no outcome that a replay of the whole tape completes, unless it
\* met the decision behind the published tape or a control it never saw was deleted.
ExcludedIsUnproven ==
  \A d \in Decisions : (label[d].kind = "incomplete" /\ d \notin lagged \cup whole /\ ~holed) =>
    \A x \in 1..Len(tape) : \A a \in 1..x :
      ~(Begins(a, d) /\ Covered(1, a, x, d) /\ Completed(a, x, d))

\* Resumed, interrupted and repeated, the replay completes no decision that the tape from the
\* decision on does not, and excludes none that the whole tape completes.
LabelsExact == CompleteIsEarned /\ ExcludedIsUnproven

\* Cleanup removes no row that an unresolved outcome has not consumed (retention.py,
\* docs/PRIMARY_COMPLETENESS.md on retention loss).
UnconsumedHeld ==
  \A d \in Decisions : Unlabelled(d) =>
    \A i \in deleted : tape[i].at < decided[d] \/ (checkpoint.open[d] # NoPosition /\ tape[i].at <= checkpoint.cursor)

\* Every decision gets its outcome, whatever dies and whatever is recorded.
Resolves == \A d \in Decisions : decided[d] > 0 ~> label[d] # NoLabel

=============================================================================
