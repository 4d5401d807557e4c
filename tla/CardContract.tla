---------------------------- MODULE CardContract ----------------------------
(***************************************************************************)
(* What delivery promises a reader of the Discord channel, in terms of the *)
(* requests the desk issues and the setups it has closed:                  *)
(*   - the card of an economic plan is requested once, for one setup, and  *)
(*     never for a setup already closed;                                   *)
(*   - the result of a setup is requested once, after its card and its     *)
(*     close.                                                              *)
(* Crashes, retries, claims, outbox rows and webhooks are out of sight.    *)
(***************************************************************************)
EXTENDS Naturals

CONSTANTS Signals, Plan

VARIABLES closed, cards, results

vars == <<closed, cards, results>>

Init ==
  /\ closed = {}
  /\ cards = [s \in Signals |-> 0]
  /\ results = [s \in Signals |-> 0]

PostCard(s) ==
  /\ s \notin closed
  /\ \A t \in Signals : Plan[t] = Plan[s] => cards[t] = 0
  /\ cards' = [cards EXCEPT ![s] = 1]
  /\ UNCHANGED <<closed, results>>

Close(s) ==
  /\ s \notin closed
  /\ closed' = closed \cup {s}
  /\ UNCHANGED <<cards, results>>

PostResult(s) ==
  /\ s \in closed /\ cards[s] = 1 /\ results[s] = 0
  /\ results' = [results EXCEPT ![s] = 1]
  /\ UNCHANGED <<closed, cards>>

Next == \E s \in Signals : PostCard(s) \/ Close(s) \/ PostResult(s)

Spec == Init /\ [][Next]_vars
=============================================================================
