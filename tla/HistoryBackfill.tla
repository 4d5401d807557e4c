---------------------------- MODULE HistoryBackfill ----------------------------
(***************************************************************************)
(* Outcomes restored from the candles of the venues (ml/monitored.py and   *)
(* ml/bootstrap.py) by the worker (ml/cli.py: monitor).  A round visits    *)
(* the venues one after another, first for the monitored policy and then   *)
(* for the bootstrap policy.  Before each visit, and before each request   *)
(* of the monitored policy, measured pressure on the live recording ends   *)
(* the work.  The worker may die anywhere.                                 *)
(*                                                                         *)
(* Monitored rows wait in the order of their last attempt; what a pass has *)
(* fetched of a path stays cached.  Bootstrap ranges are asked in order of *)
(* their symbols and one that raises ends the visit.                       *)
(***************************************************************************)
EXTENDS Naturals, Sequences, FiniteSets, SequencesExt

CONSTANTS
  Row,      \* monitored rows, numbers in the order they sort in untried
  Venue,    \* <<venue, ...>>, the order of the visits
  At,       \* venue of a row
  Need,     \* chunks of its path up to the candle that decides it
  Gone,     \* rows whose history the venue no longer has
  Span,    \* bootstrap ranges, numbers in the order of the visit
  SpanAt,  \* venue of a range
  Refused,  \* ranges the venue answers with an error, or longer than a budget
  Limit     \* rows of a pass (100)

VARIABLES
  mature,    \* rows whose setup ended or whose deadline passed
  labelled,  \* rows with a label of the monitored policy
  tried,     \* rows in the order of their last attempt
  wait,      \* rows whose retry_after has not come
  cached,    \* chunks of a row's path on disk
  work,      \* the visit: kind, place in Venue, and whether it has begun
  list,      \* rows or ranges left of the visit
  boot       \* ranges with labels of the bootstrap policy

vars == <<mature, labelled, tried, wait, cached, work, list, boot>>

Idle == [kind |-> "idle", n |-> 0, begun |-> FALSE]
Visit(k, n) == [kind |-> k, n |-> n, begun |-> FALSE]
TypeOK ==
  /\ mature \subseteq Row /\ labelled \subseteq mature /\ wait \subseteq Row
  /\ tried \in Seq(Row) /\ IsInjective(tried)
  /\ cached \in [Row -> Nat] /\ boot \subseteq Span
  /\ work \in [kind : {"idle", "monitored", "bootstrap"}, n : Nat, begun : BOOLEAN]
  /\ list \in Seq(Row \cup Span)

\* A row is due again at the end of the queue.
KeepsTurn(r) == tried' = tried
Attempted(r) == tried' = Append(SelectSeq(tried, LAMBDA x : x # r), r)

\* pending: untried rows first, then by the last attempt.
Pending(v) ==
  LET open(r) == At[r] = v /\ r \in mature \ (labelled \cup wait)
      untried == SetToSortSeq({r \in Row : open(r) /\ r \notin ToSet(tried)}, <)
      all == untried \o SelectSeq(tried, open)
  IN SubSeq(all, 1, IF Len(all) < Limit THEN Len(all) ELSE Limit)
\* merged_ranges of the candidates without a label.
Spans(v) == SetToSortSeq({g \in Span \ boot : SpanAt[g] = v}, <)

\* The visit after this one.
After(w) ==
  IF w.n < Len(Venue) THEN Visit(w.kind, w.n + 1)
  ELSE IF w.kind = "monitored" THEN Visit("bootstrap", 1) ELSE Idle

Mature(r) ==
  /\ mature' = mature \cup {r}
  /\ UNCHANGED <<labelled, tried, wait, cached, work, list, boot>>
\* retry_after passes.
Due(r) ==
  /\ wait' = wait \ {r}
  /\ UNCHANGED <<mature, labelled, tried, cached, work, list, boot>>

\* What is left of the visit; the next one follows when nothing is.
Leaves(rest) ==
  /\ list' = rest
  /\ work' = IF rest = <<>> THEN After(work) ELSE [work EXCEPT !.begun = TRUE]

\* monitor, whose other steps go before.
Round ==
  /\ work = Idle /\ work' = Visit("monitored", 1)
  /\ UNCHANGED <<mature, labelled, tried, wait, cached, list, boot>>
Begin(w) ==
  /\ work = w /\ w # Idle /\ ~w.begun
  /\ Leaves(IF w.kind = "monitored" THEN Pending(Venue[w.n]) ELSE Spans(Venue[w.n]))
  /\ UNCHANGED <<mature, labelled, tried, wait, cached, boot>>
\* Pressure before a visit raises through monitor: the round is over.
Yields ==
  /\ work # Idle /\ ~work.begun /\ work' = Idle
  /\ UNCHANGED <<mature, labelled, tried, wait, cached, list, boot>>
\* A visit ends early: its 45 seconds are over between two rows, the storage
\* is nearly full, a bootstrap request fails, or there is pressure before a
\* request of the monitored policy.  No attempt is saved.
Ends ==
  /\ work.begun /\ Leaves(<<>>)
  /\ UNCHANGED <<mature, labelled, tried, wait, cached, boot>>

Path(r) == work.begun /\ work.kind = "monitored" /\ r = Head(list)
\* One chunk of the path is fetched and cached; the last one decides the row.
Fetch(r) ==
  /\ Path(r) /\ r \notin Gone
  /\ cached' = [cached EXCEPT ![r] = @ + 1]
  /\ IF cached'[r] = Need[r]
       THEN labelled' = labelled \cup {r} /\ Attempted(r) /\ Leaves(Tail(list))
       ELSE UNCHANGED <<labelled, tried, list, work>>
  /\ UNCHANGED <<mature, wait, boot>>
\* save_attempt: the request raises or candles are missing, or the time is
\* over while it is asked.
Defer(r, rest) ==
  /\ Path(r) /\ Attempted(r) /\ wait' = wait \cup {r} /\ Leaves(rest)
  /\ UNCHANGED <<mature, labelled, cached, boot>>
Fails(r) == Defer(r, Tail(list))
TimeOver(r) == Defer(r, <<>>)

\* One range: requests, labels of all its rows.
Ask(g) ==
  /\ work.begun /\ work.kind = "bootstrap" /\ g = Head(list)
  /\ IF g \in Refused THEN boot' = boot /\ Leaves(<<>>)
                      ELSE boot' = boot \cup {g} /\ Leaves(Tail(list))
  /\ UNCHANGED <<mature, labelled, tried, wait, cached>>

Crash ==
  /\ work # Idle /\ work' = Idle /\ list' = <<>>
  /\ UNCHANGED <<mature, labelled, tried, wait, cached, boot>>

Init ==
  /\ mature = {} /\ labelled = {} /\ tried = <<>> /\ wait = {}
  /\ cached = [r \in Row |-> 0] /\ work = Idle /\ list = <<>> /\ boot = {}
Next ==
  \/ Round \/ Begin(work) \/ Yields \/ Ends \/ Crash
  \/ \E r \in Row : Mature(r) \/ Due(r) \/ Fetch(r) \/ Fails(r) \/ TimeOver(r)
  \/ \E g \in Span : Ask(g)

\* The worker goes round again and again; pressure, full storage, errors and
\* the death of the worker do not hit the same step of the monitored policy for
\* ever.  A visit of the bootstrap policy may end early every time.
Fairness ==
  /\ WF_vars(Round) /\ WF_vars(work.kind = "bootstrap" /\ (Begin(work) \/ Ends))
  /\ \A n \in DOMAIN Venue : SF_vars(Begin(Visit("monitored", n)))
  /\ \A r \in Row : WF_vars(Due(r)) /\ SF_vars(Fetch(r) \/ (r \in Gone /\ Fails(r)))
Spec == Init /\ [][Next]_vars
FairSpec == Spec /\ Fairness

\* "A broken old path cannot starve later horizons" (ml/monitored.py:143):
\* every mature row whose history the venue still has gets its label.
PathsRestored ==
  \A r \in Row \ Gone : (r \in mature) ~> (r \in labelled)
=============================================================================
