----------------------------- MODULE GateFamilies -----------------------------
(***************************************************************************)
(* What the production gate says of a candidate (v8_gating.py): eight      *)
(* families of evidence, of which each supports the candidate, opposes it, *)
(* is neutral, or has nothing to say.  Three are refreshed once a minute   *)
(* across an await, one is read from the store, four are computed at the   *)
(* decision (v8_runtime.py), with the clock that the pass read before its  *)
(* own awaits.  A family found malformed, or of a later instant than that  *)
(* clock, says nothing more until the process restarts.                    *)
(*                                                                         *)
(* The numbers of a reading are reduced to the facts that evaluate asks    *)
(* of them; directions are those of the candidate.                         *)
(***************************************************************************)
EXTENDS Integers

Families ==
  {"spot_perp", "ofi", "breadth", "anchored", "liquidation", "volatility", "context_ev", "opportunity"}
Continuations == {"trend_pullback", "breakout_retest", "breakout_acceptance"}
Reversals == {"liquidity_sweep", "range_rejection"}
Candidates == [family : Continuations \cup Reversals \cup {"other"}, altIntraday : BOOLEAN]

Cached == {"spot_perp", "liquidation", "volatility"}
Computed == {"ofi", "anchored", "context_ev", "opportunity"}

CONSTANTS
  Facts,        \* [Families -> SUBSET SUBSET STRING]: what readings may say
  Ttl,          \* [Families -> Nat]: TTLS, and the limits of decorate_signal
  SourceTtl,    \* [Families -> Nat]: of the observation underneath
  Enabled,      \* v8_gate_<name> of the settings
  Decided,      \* the candidates considered
  MaxNow, MaxReadings, MaxFaults

GateAssumption ==
  /\ Facts \in [Families -> SUBSET SUBSET STRING]
  /\ Ttl \in [Families -> Nat] /\ SourceTtl \in [Families -> Nat]
  /\ Enabled \subseteq Families /\ Decided \subseteq Candidates
  /\ MaxNow \in Nat /\ MaxReadings \in Nat /\ MaxFaults \in Nat

VARIABLES
  now,
  book,         \* event_ms of the book
  row,          \* what a refresh in flight has read before its await
  cache,        \* v8_cache of the symbol, and v8_breadth
  pass,         \* "idle", "open" across its awaits, "decided", or "raised"
  asof,         \* the clock the pass read when it began
  evidence,     \* that of the candidate
  disabled,     \* v8_disabled of the scanner
  gate,         \* v8_gate of the candidate
  malformed,    \* history: families found malformed since the start
  readings, faults

observed == <<row, cache, readings>>
decision == <<pass, asof, evidence, disabled, gate, malformed>>
gateVars == <<now, book, observed, decision, faults>>

\* own: of the venue of the candidate.  at is available_ms, seen source_ms.  A
\* reading says "malformed" when it has what invalid_reason refuses.
Reading(own, at, seen, f) == [own |-> own, at |-> at, seen |-> seen, says |-> f]
Nothing == Reading(FALSE, 0, 0, {})
NoEvidence == [n \in Families |-> Nothing]
NoRow == [n \in {} |-> Nothing]

NoState == [state |-> "UNAVAILABLE", ready |-> FALSE]
Ready(s) == [state |-> s, ready |-> TRUE]
Undecided == [n \in Families |-> NoState]

Init ==
  /\ now = 1 /\ book = 1 /\ row = NoRow /\ cache = NoRow /\ readings = 0 /\ faults = 0
  /\ pass = "idle" /\ asof = 0 /\ evidence = NoEvidence
  /\ disabled = {} /\ gate = Undecided /\ malformed = {}

-----------------------------------------------------------------------------
(* The families, of a reading that says f.                                 *)
Judgement(ready, adverse, support) ==
  IF ~ready THEN NoState ELSE Ready(IF adverse THEN "ADVERSE" ELSE IF support THEN "SUPPORT" ELSE "NEUTRAL")

\* leveraged: the perp alone moves, with open interest and basis; split: the two
\* markets move apart.  with: both move with the candidate.
SpotPerp(c, f) ==
  Judgement({"covered", "returns"} \subseteq f,
            c.altIntraday /\ c.family \in Continuations /\ {"leveraged", "split"} \cap f # {}, "with" \in f)

\* Book, bands and microprice have to agree, in strength and persistence.
Ofi(c, f) ==
  Judgement({"covered", "baseline"} \subseteq f, {"strong", "against"} \subseteq f, {"strong", "with"} \subseteq f)

\* A candidate that diverges from the market, or follows it loosely, is not opposed.
Breadth(c, f) ==
  LET concerned == c.altIntraday /\ c.family \in Continuations /\ "stable" \in f /\ "independent" \notin f
      few == concerned /\ "led" \in f /\ "residuals" \notin f
  IN  Judgement("production" \in f /\ ~few,
                concerned /\ (\/ "against" \in f
                               \/ {"led", "lagging"} \subseteq f),
                concerned /\ "with" \in f)

\* wrong and right: acceptance on that side of the anchored price; area: of value, by
\* a profile of the last minute; failed and reclaimed: of the anchored price itself.
Anchored(c, f) ==
  LET breakout == c.family \in {"breakout_retest", "breakout_acceptance"} /\ "failed" \in f
                    /\ {"wrong", "areaWrong"} \cap f # {}
      pullback == c.family = "trend_pullback" /\ {"wrong", "structure"} \subseteq f
      reclaim == c.family \in Reversals /\ {"reclaimed", "rejected"} \cap f # {}
      lost == c.family \in Reversals /\ ~reclaim /\ {"wrong", "areaWrong", "structure"} \subseteq f
  IN  Judgement("production" \in f, breakout \/ pullback \/ lost,
                reclaim \/ (c.family \notin Reversals /\ "right" \in f))

Liquidation(c, f) ==
  Judgement({"production", "baseline"} \subseteq f,
            "cascade" \in f \/ (c.family \in Continuations /\ "opposingExhaustion" \in f),
            c.family \in Reversals /\ "supportiveExhaustion" \in f)

\* After a shock only a reversal that has stabilised since passes.
Volatility(c, f) ==
  Judgement("known" \in f,
            "shock" \in f /\ ~(c.family \in Reversals /\ {"stabilized", "afterShock", "executable"} \subseteq f),
            "normalized" \in f)

ContextEv(c, f) == Judgement("mature" \in f, "negative" \in f, "positive" \in f)

\* Informational: it suppresses a card, and blocks nothing.
Opportunity(c, f) == Judgement(TRUE, {"capacityUsed", "outranked"} \subseteq f, FALSE)

Judged(n, c, f) ==
  CASE n = "spot_perp" -> SpotPerp(c, f)       [] n = "ofi" -> Ofi(c, f)
    [] n = "breadth" -> Breadth(c, f)          [] n = "anchored" -> Anchored(c, f)
    [] n = "liquidation" -> Liquidation(c, f)  [] n = "volatility" -> Volatility(c, f)
    [] n = "context_ev" -> ContextEv(c, f)     [] n = "opportunity" -> Opportunity(c, f)

-----------------------------------------------------------------------------
(* refresh of v8_runtime.py, one symbol of it, and the feed.               *)

\* Everything but the spot market is read before the await, and stamped then.
RefreshBegins(own, l, v) ==
  /\ row = NoRow /\ readings < MaxReadings /\ readings' = readings + 1
  /\ l \in Facts["liquidation"] /\ v \in Facts["volatility"]
  /\ row' = [n \in {"liquidation", "volatility"} |->
               Reading(own, now, now, IF n = "liquidation" THEN l ELSE v)]
  /\ UNCHANGED <<now, book, cache, decision, faults>>

RefreshEnds(s) ==
  /\ row # NoRow /\ s \in Facts["spot_perp"] /\ row' = NoRow
  /\ cache' = [n \in Cached \cup DOMAIN cache |->
                 IF n = "spot_perp" THEN Reading(row["volatility"].own, now, row["volatility"].at, s)
                 ELSE IF n \in Cached THEN row[n] ELSE cache[n]]
  /\ UNCHANGED <<now, book, readings, decision, faults>>

\* The row before it stays.
RefreshFails ==
  /\ row # NoRow /\ faults < MaxFaults /\ faults' = faults + 1 /\ row' = NoRow
  /\ UNCHANGED <<now, book, cache, readings, decision>>

\* The symbol is no longer followed.
Dropped ==
  /\ "spot_perp" \in DOMAIN cache
  /\ cache' = [n \in DOMAIN cache \ Cached |-> cache[n]]
  /\ UNCHANGED <<now, book, row, readings, decision, faults>>

BreadthBuilt(own, b) ==
  /\ readings < MaxReadings /\ readings' = readings + 1 /\ b \in Facts["breadth"]
  /\ cache' = [n \in {"breadth"} \cup DOMAIN cache |->
                 IF n = "breadth" THEN Reading(own, now, now, b) ELSE cache[n]]
  /\ UNCHANGED <<now, book, row, decision, faults>>

BookMoves == book # now /\ book' = now /\ UNCHANGED <<now, observed, decision, faults>>

Advance == now < MaxNow /\ now' = now + 1 /\ UNCHANGED <<book, observed, decision, faults>>

-----------------------------------------------------------------------------
(* The pass of the confirmation engine.                                    *)

\* The candidate of a pass that raised is taken up again with what it was given.
Begin(again) ==
  /\ pass # "open" /\ pass' = "open" /\ asof' = now /\ gate' = Undecided
  /\ again => pass = "raised"
  /\ evidence' = IF again THEN evidence ELSE NoEvidence
  /\ UNCHANGED <<now, book, observed, disabled, malformed, faults>>

\* decorate_signal: a cached reading of the venue and of age replaces what is
\* there.  The book may have moved since asof: then it is not fresh, and says nothing.
Decorated(said) ==
  [n \in Families |->
     CASE n = "ofi" -> Reading(TRUE, asof, book, IF book <= asof THEN said[n] ELSE {})
       [] n \in Computed \ {"ofi"} -> Reading(TRUE, asof, asof, said[n])
       [] n \in DOMAIN cache /\ cache[n].own /\ asof - cache[n].at \in 0 .. Ttl[n] -> cache[n]
       [] OTHER -> evidence[n]]

\* invalid_reason: of a later instant, of two epochs, or not a number.
Invalid(e) == {n \in Families : "malformed" \in e[n].says \/ e[n].at > asof \/ e[n].seen > asof}

\* Mutated: what is malformed now says nothing now.
DisabledNow(e) == Invalid(e)

Disabled(e) == disabled \cup Invalid(e)

Fresh(n, r) == r.own /\ asof - r.at <= Ttl[n] /\ asof - r.seen <= SourceTtl[n]

States(c, e) ==
  [n \in Families |->
     IF n \in Enabled \ Disabled(e) /\ Fresh(n, e[n]) THEN Judged(n, c, e[n].says) ELSE NoState]

Adverse(g) == {n \in Families : g[n] = Ready("ADVERSE")}
Blocking(g) == Adverse(g) \ {"opportunity"}

\* apply_new_candidate, of a candidate that has passed everything else.
Decide(c, said) ==
  /\ pass = "open" /\ pass' = "decided"
  /\ LET e == Decorated(said)
     IN  /\ evidence' = e /\ gate' = States(c, e) /\ disabled' = Disabled(e)
         /\ malformed' = malformed \cup Invalid(e)
  /\ UNCHANGED <<now, book, observed, asof, faults>>

\* What decorates it fails after it has written a part.
Raises(said) ==
  /\ pass = "open" /\ pass' = "raised" /\ faults < MaxFaults /\ faults' = faults + 1
  /\ evidence' = Decorated(said)
  /\ UNCHANGED <<now, book, observed, asof, disabled, gate, malformed>>

\* Another gate stopped the candidate.
Passes == pass = "open" /\ pass' = "idle"
          /\ UNCHANGED <<now, book, observed, asof, evidence, disabled, gate, malformed, faults>>

Restart ==
  /\ faults < MaxFaults /\ faults' = faults + 1
  /\ row' = NoRow /\ cache' = [n \in DOMAIN cache \ Cached |-> cache[n]]
  /\ disabled' = {} /\ malformed' = {}
  /\ pass' = IF pass = "open" THEN "idle" ELSE pass
  /\ UNCHANGED <<now, book, readings, asof, evidence, gate>>

Said ==
  [ofi : Facts["ofi"], anchored : Facts["anchored"], context_ev : Facts["context_ev"],
   opportunity : Facts["opportunity"]]

Next ==
  \/ \E own \in BOOLEAN, l \in Facts["liquidation"], v \in Facts["volatility"] : RefreshBegins(own, l, v)
  \/ \E s \in Facts["spot_perp"] : RefreshEnds(s)
  \/ RefreshFails \/ Dropped \/ BookMoves \/ Advance
  \/ \E own \in BOOLEAN, b \in Facts["breadth"] : BreadthBuilt(own, b)
  \/ \E again \in BOOLEAN : Begin(again)
  \/ \E c \in Decided, said \in Said : Decide(c, said)
  \/ \E said \in Said : Raises(said)
  \/ Passes \/ Restart

Spec == Init /\ [][Next]_gateVars
-----------------------------------------------------------------------------
TypeOK ==
  /\ now \in Nat /\ book \in Nat /\ asof \in Nat /\ readings \in Nat /\ faults \in Nat
  /\ pass \in {"idle", "open", "decided", "raised"}
  /\ DOMAIN row \in {{}, {"liquidation", "volatility"}} /\ DOMAIN cache \subseteq Cached \cup {"breadth"}
  /\ DOMAIN evidence = Families /\ disabled \subseteq Families /\ malformed \subseteq Families
  /\ gate \in [Families -> [state : {"UNAVAILABLE", "NEUTRAL", "ADVERSE", "SUPPORT"}, ready : BOOLEAN]]

\* A candidate is blocked only on evidence of its own venue that was in its time
\* at the decision, whatever refreshes, awaits and failed passes left behind, and
\* by no family that has been found malformed since the process started
\* (invalid_reason: "disables only its feature for this process").
BlockedOnEvidence ==
  pass = "decided" =>
    \A n \in Blocking(gate) :
      /\ n \notin malformed
      /\ evidence[n].own /\ evidence[n].at \in asof - Ttl[n] .. asof
=============================================================================
