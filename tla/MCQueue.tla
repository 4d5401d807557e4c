-------------------------------- MODULE MCQueue --------------------------------
(* The research loop with a market that is down.                              *)
EXTENDS ResearchQueue

CONSTANTS a, c, m1, m2

\* A path of a setup in one market, and a swing path in the other.
Paths == [p \in {a, c} |-> IF p = a THEN {[kind |-> "forward", market |-> m1]}
                                    ELSE {[kind |-> "endless", market |-> m2]}]
=============================================================================
