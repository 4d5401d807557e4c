-------------------------- MODULE MCAlertDelivery --------------------------
(* Small instances of AlertDelivery for TLC.                               *)
EXTENDS AlertDelivery

CONSTANTS s1, s2, s3, p1, p2, p3

\* Two unrelated setups of different plans.
OwnPlan == [s \in Signals |-> IF s = s1 THEN p1 ELSE IF s = s2 THEN p2 ELSE p3]
OwnEvent == OwnPlan

\* s1 and s2 recognize one plan.
SharedPlan == [s \in Signals |-> IF s \in {s1, s2} THEN p1 ELSE p3]

Unopposed == {}
\* s1 and s2 oppose each other.
Opposed12 == {<<s1, s2>>, <<s2, s1>>}
=============================================================================
