------------------------------ MODULE MCPolicies ------------------------------
(* Small instances of the seven systems of Policies, in one run.             *)
EXTENDS Policies, TLC

CONSTANTS old, new, health, other, market, task1

\* Of a fit: one row for each part, and seven instants in which three experiments
\* find a holdout each.
OneEach == <<1, 1, 1, 1>>
Apart == <<1, 3, 5, 7, 9, 11>>
AnyTrainer == Permutations(Trainers)

\* Two models of recorded prints and one of the bootstrap.
ThreeModels == 1 .. 3
Tracks == <<"primary", "primary", "bootstrap">>

\* One adverse reading of each family, and two families that may be malformed.
AdverseFacts == [n \in {"spot_perp", "ofi", "breadth", "anchored", "liquidation", "volatility",
                        "context_ev", "opportunity"} |->
  CASE n = "spot_perp" -> {{"covered", "returns", "leveraged"}, {"malformed"}}
    [] n = "ofi" -> {{"covered", "baseline", "strong", "against"}}
    [] n = "breadth" -> {{"production", "stable", "against"}}
    [] n = "anchored" -> {{"production", "failed", "wrong"}}
    [] n = "liquidation" -> {{"production", "baseline", "cascade"}}
    [] n = "volatility" -> {{"known", "shock"}}
    [] n = "context_ev" -> {{"mature", "negative"}, {"malformed"}}
    [] n = "opportunity" -> {{"capacityUsed", "outranked"}}]
FamilyNames == DOMAIN AdverseFacts
Ttls == [n \in FamilyNames |-> IF n = "breadth" THEN 1 ELSE 0]
SourceTtls == [n \in FamilyNames |-> 1]
TwoCandidates ==
  {[family |-> "breakout_retest", altIntraday |-> TRUE], [family |-> "liquidity_sweep", altIntraday |-> TRUE]}

\* Units of silence, of pressure beyond the level, and of a price above it.
ThreeSlots ==
  {[seen |-> FALSE, price |-> 0, against |-> 0], [seen |-> TRUE, price |-> -1, against |-> 1],
   [seen |-> TRUE, price |-> 1, against |-> -1]}

\* Observations that last, that fail the structure at once, or that are incomplete.
LastingAt(x) == [complete |-> TRUE, flow |-> TRUE, book |-> FALSE, structure |-> x, higherFrame |-> x,
                 auction |-> TRUE, factor |-> TRUE, later |-> TRUE, secondary |-> 0]
FiveObservations ==
  {LastingAt(FALSE), LastingAt(TRUE), [LastingAt(FALSE) EXCEPT !.flow = FALSE, !.auction = FALSE],
   [LastingAt(FALSE) EXCEPT !.later = FALSE], [LastingAt(TRUE) EXCEPT !.complete = FALSE]}

\* Two snapshots of the desk and two rows about markets, of which two may wait.
Snapshots == {health, other}
MarketRows == {market, task1}
TwoLoads == {{}, {"lag"}}

\* A process of an earlier version, which knows three steps, and one of this version.
Openers == {old, new}
StepsKnown == (old :> 3) @@ (new :> 7)
Checksums == [o \in Openers |-> [i \in 1 .. 7 |-> 0]]
=============================================================================
