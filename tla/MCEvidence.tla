------------------------------ MODULE MCEvidence ------------------------------
(* Two segments, two tasks that maintain and one fault; an audit with a       *)
(* decision at 3, to be filled within one instant and over within two; three  *)
(* trades on three days of two instants, of which REST serves the last; three *)
(* minutes of candles; one symbol of two venues with room for one stream.     *)
EXTENDS EvidenceParts

EveryKind == {"setup", "delayed", "swing", "late", "proxy", "entered"}
=============================================================================
