------------------------------- MODULE Forensics -------------------------------
(***************************************************************************)
(* The audit of one frozen decision against the recorded prints            *)
(* (ml/completeness.py): a walk over the segments around the decision      *)
(* that says why its outcome is or is not known, and rebuilds it.          *)
(*                                                                         *)
(* The world it looks at: a market prints, the desk follows it or not, a   *)
(* print may be lost, a lost interval is declared by a control row later.  *)
(* Every row is a segment of its own; segments are pruned, damaged and     *)
(* unlinked.  Verdict is the audit asked for at this instant.              *)
(***************************************************************************)
EXTENDS Integers, Sequences, FiniteSets

CONSTANTS
  Decision, Fill, Horizon,   \* the decision, the entry window and the horizon
  Warm,                   \* how far before the decision it reads (15 min)
  Stale,                  \* silence that ends coverage (trade_stale_ms)
  Grace,                  \* read after the horizon (60 s)
  MaxNow, MaxLost, MaxHarm \* bounds: the clock, prints lost, segments harmed

AuditAssumption ==
  /\ Decision \in Nat \ {0} /\ Fill \in Nat /\ Horizon \in Nat
  /\ Warm \in Nat /\ Stale \in Nat /\ Grace \in Nat
  /\ MaxNow \in Nat /\ MaxLost \in Nat /\ MaxHarm \in Nat

VARIABLES
  now,
  prints,    \* per instant what the market printed, "none" if nothing
  missed,    \* instants whose print was lost while the desk followed
  follows,   \* the desk is subscribed to the market
  owed,      \* first lost instant no row tells of, 0 when none
  segs,      \* the committed segments
  label      \* the stored label and when it became available

vars == <<now, prints, missed, follows, owed, segs, label>>

\* A print inside the zone, or at the stop or the target.
Price == {"zone", "hit"}
Kind == Price \cup {"subscribed", "gap", "removed"}
Segment == [at : 1..MaxNow, kind : Kind, from : 1..MaxNow, chained : BOOLEAN,
            fate : {"raw", "damaged", "pruned", "consumed"}]
Label == [is : {"none", "complete", "incomplete"}, at : 0..MaxNow]
TypeOK ==
  /\ now \in 0..MaxNow /\ prints \in Seq(Price \cup {"none"}) /\ Len(prints) = now
  /\ missed \subseteq 1..now /\ follows \in BOOLEAN /\ owed \in 0..MaxNow
  /\ segs \in Seq(Segment) /\ label \in Label

----------------------------------------------------------------------------
\* The paper position of the decision (PaperPosition.on_trade): one fill.
NoPosition == [in |-> FALSE, exit |-> 0, why |-> "none"]
Traded(p, t, price) ==
  IF t < Decision \/ p.exit # 0 THEN p
  ELSE IF ~p.in /\ price = "zone" /\ t <= Decision + Fill THEN [p EXCEPT !.in = TRUE]
  ELSE IF ~p.in /\ t > Decision + Fill THEN [p EXCEPT !.exit = t, !.why = "missed_fill"]
  ELSE IF p.in /\ price = "hit" THEN [p EXCEPT !.exit = t, !.why = "level"]
  ELSE IF p.in /\ t >= Decision + Horizon THEN [p EXCEPT !.exit = t, !.why = "time_stop"]
  ELSE p
Settled(p) == p.in /\ p.exit # 0 /\ p.exit <= Decision + Horizon

\* The interval the audit reads: up to the label, if there is one.
From == IF Decision > Warm THEN Decision - Warm ELSE 1
Until ==
  LET frozen == Decision + Horizon + Grace
      seen == IF label.is = "none" THEN now ELSE IF label.at > Decision THEN label.at ELSE Decision
      first == IF now < frozen THEN now ELSE frozen
  IN IF first < seen THEN first ELSE seen

Fresh == [last |-> 0, sub |-> 0, prev |-> 0, gaps |-> {}, unsure |-> FALSE, valid |-> TRUE,
          decided |-> FALSE, ready |-> FALSE, pos |-> NoPosition]

\* gap: only what reaches into the interval after the decision counts.
Gap(v, kind, a, b) ==
  IF b >= Decision /\ a <= Until THEN [v EXCEPT !.gaps = @ \cup {kind}] ELSE v
\* check_decision: once, with what was known before the decision.
Checked(v) ==
  IF v.decided THEN v
  ELSE [v EXCEPT !.decided = TRUE,
                 !.ready = v.sub # 0 /\ v.last # 0 /\ v.last <= Decision /\ Decision - v.last <= Stale]

\* The link to the segment before.
Linked(v, s) ==
  LET w == [v EXCEPT !.prev = s.at]
  IN IF v.prev = 0 \/ s.chained THEN w
     ELSE [Gap(w, "chain", v.prev, s.at) EXCEPT !.valid = FALSE, !.sub = 0]

\* A segment that cannot be read: pruned with no checkpoint past it that holds
\* the position is a loss, anything else leaves the verdict open.
UnreadOpen(v, s) == [v EXCEPT !.unsure = TRUE]
Unread(v, s) ==
  LET w == [v EXCEPT !.valid = FALSE]
  IN IF s.fate = "pruned" /\ label.is = "none" /\ s.at >= Decision
       THEN Gap(w, "retention", s.at, s.at)
       ELSE [w EXCEPT !.unsure = TRUE]

\* A row of the segment.
Row(v, s) ==
  CASE s.kind = "subscribed" -> [v EXCEPT !.sub = s.at, !.last = 0]
    [] s.kind \in {"gap", "removed"} -> [Gap(v, "feed", s.from, s.at) EXCEPT !.sub = 0]
    [] OTHER ->
         LET silent == v.last # 0 /\ s.at - v.last > Stale
             w == IF silent THEN Gap(v, "feed", v.last, s.at) ELSE v
         IN [w EXCEPT !.last = s.at, !.pos = Traded(@, s.at, s.kind)]
Read(v, s) ==
  IF s.at < From \/ s.at > Until THEN v
  ELSE Row(IF s.at >= Decision THEN Checked(v) ELSE v, s)

\* A settled position on clean evidence needs nothing later.
Closed(v) == v.pos.exit # 0 /\ v.valid /\ v.ready /\ v.gaps = {}
Walk(v, s) ==
  IF s.at < From \/ s.at > Until \/ Closed(v) THEN v
  ELSE LET w == Linked(v, s) IN IF s.fate = "raw" THEN Read(w, s) ELSE Unread(w, s)

Manifests == {i \in DOMAIN segs : segs[i].at \in From..Until}
Walked[n \in 0..Len(segs)] == IF n = 0 THEN Fresh ELSE Walk(Walked[n - 1], segs[n])
Evidence == Checked(Walked[Len(segs)])

Rebuilt(v) == v.valid /\ Manifests # {} /\ v.ready /\ v.gaps = {} /\ Settled(v.pos)
Mature == now >= Decision + Horizon

\* audit_candidate, the tests in their order.
Verdict ==
  LET v == Evidence
      clean == v.valid /\ Manifests # {}
  IN CASE label.is = "complete" -> "COMPLETE"
       [] "retention" \in v.gaps -> "RETENTION_LOSS"
       [] "chain" \in v.gaps -> "RECORDER_CHAIN_GAP"
       [] "feed" \in v.gaps -> "REAL_TRADE_FEED_GAP"
       [] ~v.ready /\ ~v.unsure /\ Manifests # {} -> "NOT_READY"
       [] Rebuilt(v) /\ label.is = "incomplete" -> "LABELER_FALSE_GAP"
       [] v.pos.why = "missed_fill" /\ clean /\ v.ready -> "NO_ENTRY"
       [] label.is = "none" /\ ~Mature /\ v.ready /\ clean -> "STILL_OPEN"
       [] label.is = "none" /\ ~Mature -> "HORIZON_NOT_MATURE"
       [] v.unsure -> "UNKNOWN_INCOMPLETE"
       [] v.last # 0 /\ Until - v.last > Stale -> "REAL_TRADE_FEED_GAP"
       [] OTHER -> "UNKNOWN_INCOMPLETE"

----------------------------------------------------------------------------
Commit(kind, from) ==
  segs' = Append(segs, [at |-> now + 1, kind |-> kind, from |-> from, chained |-> TRUE, fate |-> "raw"])
Instant(p) == now < MaxNow /\ now' = now + 1 /\ prints' = Append(prints, p)

Quiet == Instant("none") /\ UNCHANGED <<missed, follows, owed, segs, label>>
Unseen(p) == ~follows /\ Instant(p) /\ UNCHANGED <<missed, follows, owed, segs, label>>
\* While a loss is owed the recorder may already take prints again.
Recorded(p) ==
  /\ follows /\ Instant(p) /\ Commit(p, now + 1)
  /\ UNCHANGED <<missed, follows, owed, label>>
Lost(p) ==
  /\ follows /\ Instant(p) /\ Cardinality(missed) < MaxLost
  /\ missed' = missed \cup {now + 1} /\ owed' = IF owed = 0 THEN now + 1 ELSE owed
  /\ UNCHANGED <<follows, segs, label>>
Subscribe ==
  /\ ~follows /\ follows' = TRUE /\ Instant("none") /\ Commit("subscribed", now + 1)
  /\ UNCHANGED <<missed, owed, label>>
Drop ==
  /\ follows /\ follows' = FALSE /\ Instant("none")
  /\ Commit("removed", IF owed = 0 THEN now + 1 ELSE owed) /\ owed' = 0
  /\ UNCHANGED <<missed, label>>
Declare ==
  /\ owed # 0 /\ Instant("none") /\ Commit("gap", owed) /\ owed' = 0
  /\ UNCHANGED <<missed, follows, label>>

Harmed == Cardinality({i \in DOMAIN segs : segs[i].fate # "raw" \/ ~segs[i].chained})
Harm(i) ==
  /\ Harmed < MaxHarm /\ segs[i].fate = "raw" /\ segs[i].chained
  /\ \/ \E f \in {"damaged", "pruned", "consumed"} : segs' = [segs EXCEPT ![i].fate = f]
     \/ i > 1 /\ segs' = [segs EXCEPT ![i].chained = FALSE]
  /\ UNCHANGED <<now, prints, missed, follows, owed, label>>
\* The labeler freezes an outcome.
Freeze(is) ==
  /\ label.is = "none" /\ now > Decision
  /\ label' = [is |-> is, at |-> now]
  /\ UNCHANGED <<now, prints, missed, follows, owed, segs>>
\* The market was subscribed to at instant 1.
Init ==
  /\ now = 1 /\ prints = <<"none">> /\ missed = {} /\ follows = TRUE /\ owed = 0
  /\ segs = <<[at |-> 1, kind |-> "subscribed", from |-> 1, chained |-> TRUE, fate |-> "raw"]>>
  /\ label = [is |-> "none", at |-> 0]
Next ==
  \/ Quiet \/ Subscribe \/ Drop \/ Declare
  \/ \E p \in Price : Unseen(p) \/ Recorded(p) \/ Lost(p)
  \/ \E i \in DOMAIN segs : Harm(i)
  \/ \E is \in {"complete", "incomplete"} : Freeze(is)
Spec == Init /\ [][Next]_vars

\* What the position would have done on everything the market printed.
Played[t \in 0..now] ==
  IF t = 0 THEN NoPosition
  ELSE IF prints[t] = "none" THEN Played[t - 1] ELSE Traded(Played[t - 1], t, prints[t])
Truth == Played[now]
\* Told by a row the audit reads before it can stop.
Told(t, by) ==
  \E i \in DOMAIN segs : segs[i].kind \in {"gap", "removed"} /\ t \in segs[i].from..segs[i].at /\ segs[i].at <= by

\* An outcome the audit rebuilds is the one the market made: no print between
\* the decision and the exit is missing from it, unless the loss of a print
\* is declared only after the exit, where the walk ends.
RebuiltIsTrue ==
  LET v == Evidence
  IN (Rebuilt(v) /\ \A t \in missed : t \in Decision..v.pos.exit => Told(t, v.pos.exit))
       => Truth = v.pos

=============================================================================
