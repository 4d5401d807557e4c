------------------------------ MODULE Journal ------------------------------
(***************************************************************************)
(* What the recorder promises a reader of the published segments: segments *)
(* are only added, an offered row is in at most one of them and they are   *)
(* in the order offered, and a row declared missing is in none and is      *)
(* declared once.  Queues, batches, retries and the worker process are out *)
(* of sight.                                                               *)
(***************************************************************************)
EXTENDS Naturals

VARIABLES heard, segments

vars == <<heard, segments>>

Init == heard = 0 /\ segments = {}

Hear == heard' = heard + 1 /\ UNCHANGED segments

\* Segment s may follow the segment before.
Follows(s, before) ==
  /\ before.id < s.id
  /\ \A j \in before.rows, n \in s.rows : j < n
  /\ s.rows \cap before.gaps = {}
  /\ s.gaps \cap (before.rows \cup before.gaps) = {}

Publish(s) ==
  /\ s.rows \cup s.gaps \subseteq 1..heard /\ s.rows \cap s.gaps = {}
  /\ \A before \in segments : Follows(s, before)
  /\ segments' = segments \cup {s}
  /\ UNCHANGED heard

Next == Hear \/ \E s \in segments' \ segments : Publish(s)

Spec == Init /\ [][Next]_vars
=============================================================================
