------------------------------ MODULE MCResearch ------------------------------
(* Values for the loops of the research worker and for its replay. *)
EXTENDS Research

CONSTANTS a, b, c, m1, m2

\* A path that ends beside one that is swept with it, in one market; in the
\* other a path that ends or does not.  One of a kind at a time.
Paths ==
  [p \in {a, b, c} |->
     CASE p = a -> {[kind |-> "forward", market |-> m1]}
       [] p = b -> {[kind |-> "delivery", market |-> m1]}
       [] OTHER -> {[kind |-> k, market |-> m2] : k \in {"control", "endless"}}]

\* Two rows of the second venue, the first of them lost; a bootstrap range of
\* each venue, the first of them refused.
Venues == <<"binance", "okx">>
Second == <<"okx", "okx">>
Chunks == <<1, 2>>
=============================================================================
