------------------------------- MODULE Inference -------------------------------
(***************************************************************************)
(* What learned models say of one setup (ml/inference.py), and when its    *)
(* card may go to the public channel on their word (delivery_eligible,     *)
(* send_public of notifications.py).                                       *)
(*                                                                         *)
(* The pass that decides the setup asks one model, on the features frozen  *)
(* by the first such decision, and sends in the same pass or a later one.  *)
(* Meanwhile the operator and the trainer, processes of their own, change  *)
(* the champion, register and degrade models, and artifacts are damaged    *)
(* (ModelRegistry).  The claim and the request are AlertDelivery's.        *)
(*                                                                         *)
(* Models are numbered in the order of their creation.  What a model says  *)
(* of the frozen features does not change: it is free, and fixed.          *)
(***************************************************************************)
EXTENDS Naturals, FiniteSets

CONSTANTS
  Models,       \* 1 .. n
  Track,        \* [Models -> {"primary", "monitored", "bootstrap"}]
  Filter,       \* ml_filter_research; the policies of v2.2 ask without it
  Fresh,        \* 60 s
  MaxNow,
  MaxChanges    \* bound on the changes of the registry

InferenceAssumption ==
  /\ Models = 1 .. Cardinality(Models)
  /\ Track \in [Models -> {"primary", "monitored", "bootstrap"}]
  /\ Filter \in BOOLEAN /\ Fresh \in Nat /\ MaxNow \in Nat /\ MaxChanges \in Nat

VARIABLES
  now,
  said,         \* of the frozen features: which models fit them, accept them, have a cohort
  registered, approved, degraded, damaged,   \* the registry
  champion,     \* ml_champion, 0 for none
  predictions,  \* ml_predictions of the setup: when, 0 for none, and whether accepted
  setup,        \* its state, gates, validation_status and model_version
  cleared,      \* the setup passed the check of the public channel: with what, and when
  decider,      \* history: the champion at the last decision
  changes

inferenceVars ==
  <<now, said, registered, approved, degraded, damaged, champion, predictions, setup, cleared, decider, changes>>
registryVars == <<registered, approved, degraded, damaged, champion>>

NoPrediction == [at |-> 0, accepted |-> FALSE]
NotCleared == [model |-> 0, at |-> 0, sound |-> FALSE]

\* An accepting model fits, and a cohort belongs to a model that accepts.
Init ==
  /\ now = 1
  /\ said \in [fits : SUBSET Models, accepts : SUBSET Models, cohorts : SUBSET Models]
  /\ said.accepts \subseteq said.fits /\ said.cohorts \subseteq said.accepts
  /\ registered = {} /\ approved = {} /\ degraded = {} /\ damaged = {} /\ champion = 0
  /\ predictions = [m \in Models |-> NoPrediction]
  /\ setup = [state |-> "PENDING", gated |-> FALSE, status |-> "unvalidated", model |-> 0]
  /\ cleared = NotCleared /\ decider = 0 /\ changes = 0

-----------------------------------------------------------------------------
(* select_compatible.                                                      *)
Rank(m) == CASE Track[m] = "primary" -> 0 [] Track[m] = "monitored" -> 1 [] Track[m] = "bootstrap" -> 2

\* Recorded prints before monitored paths before the bootstrap; the champion before
\* the newest of its track.
Before(m, k) ==
  \/ Rank(m) < Rank(k)
  \/ Rank(m) = Rank(k) /\ (m = champion \/ (k # champion /\ m > k))

Usable == (registered \cap said.fits) \ (degraded \cup damaged)
First(ms) == CHOOSE m \in ms : \A k \in ms \ {m} : Before(m, k)
Selected == IF Usable = {} THEN 0 ELSE First(Usable)
Skipped == {m \in registered \ Usable : Selected = 0 \/ Before(m, Selected)}

-----------------------------------------------------------------------------
(* apply.                                                                  *)

\* Nothing said before is kept.
Answer(status, model, refused) == [status |-> status, model |-> model, refused |-> refused]

\* No compatible model: a model of recorded prints that cannot speak is a refusal.
Abstention ==
  Answer(IF Skipped = {} THEN "unvalidated" ELSE "abstained", 0,
         Filter /\ \E m \in Skipped : Track[m] = "primary")

\* The champion validates a setup without gates, which it accepts as one of a cohort.
Validates(m, gated, refused) == m = champion /\ m \in said.cohorts /\ ~gated /\ ~refused

Prediction(gated) ==
  LET m == Selected
      advisory == Track[m] # "primary"
      refused == Filter /\ ~advisory /\ m \notin said.accepts
  IN  Answer(CASE advisory -> "challenger"
               [] ~advisory /\ Validates(m, gated, refused) -> "validated"
               [] OTHER -> "research", m, refused)

\* An error on the way to the prediction, or after it.
Failure == Answer("abstained", Selected, Filter /\ (Selected = 0 \/ Track[Selected] = "primary"))

\* The table keeps the first prediction of a model on the frozen features.
Predicted(m) ==
  IF m = 0 \/ predictions[m].at # 0 THEN predictions
  ELSE [predictions EXCEPT ![m] = [at |-> now, accepted |-> m \in said.accepts]]

\* A decision of the pass, with what the gates of the policy say.
Decide(gated, answer, table) ==
  /\ setup.state = "PENDING"
  /\ setup' = [state |-> IF gated \/ answer.refused THEN "PENDING" ELSE "CONFIRMED",
               gated |-> gated \/ answer.refused, status |-> answer.status, model |-> answer.model]
  /\ predictions' = table /\ decider' = champion
  /\ UNCHANGED <<now, said, registryVars, cleared, changes>>

Asks(gated) ==
  IF Selected = 0 THEN Decide(gated, Abstention, predictions)
  ELSE Decide(gated, Prediction(gated), Predicted(Selected))

AsksInVain(gated, late) == Decide(gated, Failure, IF late THEN Predicted(Selected) ELSE predictions)

\* The learned models are turned off.
AsksNone(gated) == Decide(gated, Answer("unvalidated", 0, FALSE), predictions)

-----------------------------------------------------------------------------
(* send_public.                                                            *)

\* Registry.champion.
Standing == IF champion \in degraded \/ champion \notin approved THEN 0 ELSE champion

\* Mutated: the word of the decision is enough.
EligibleThen(m) == setup.status = "validated"

\* delivery_eligible asks the registry and the table, whatever the setup says.
Eligible(m) ==
  /\ setup.status = "validated" /\ ~setup.gated
  /\ m # 0 /\ Standing = m /\ m \notin damaged
  /\ predictions[m].accepted /\ now - predictions[m].at <= Fresh

Clear ==
  /\ setup.state = "CONFIRMED" /\ Eligible(setup.model)
  /\ cleared' = [model |-> setup.model, at |-> now,
                 sound |-> champion = setup.model /\ champion \in approved \ (degraded \cup damaged)]
  /\ setup' = [setup EXCEPT !.state = "SENT"]
  /\ UNCHANGED <<now, said, registryVars, predictions, decider, changes>>

\* Its trigger expires, or its stop is met.
Closes ==
  /\ setup.state \in {"PENDING", "CONFIRMED"} /\ setup' = [setup EXCEPT !.state = "CLOSED"]
  /\ UNCHANGED <<now, said, registryVars, predictions, cleared, decider, changes>>

-----------------------------------------------------------------------------
(* The registry, as other processes change it.                             *)
Live == setup.state \in {"PENDING", "CONFIRMED"}
Changes ==
  /\ Live /\ changes < MaxChanges /\ changes' = changes + 1
  /\ UNCHANGED <<now, said, predictions, setup, cleared, decider>>

Register ==
  /\ Changes /\ Models \ registered # {}
  /\ registered' = registered \cup {Cardinality(registered) + 1}
  /\ UNCHANGED <<approved, degraded, damaged, champion>>

\* promote, which models of paper paths never pass, and rollback.
Promote(m) ==
  /\ Changes /\ m \in registered \ (degraded \cup damaged) /\ Track[m] = "primary" /\ champion # m
  /\ champion' = m /\ approved' = approved \cup {m}
  /\ UNCHANGED <<registered, degraded, damaged>>

Degrade(m) ==
  /\ Changes /\ m \in registered /\ degraded' = degraded \cup {m}
  /\ UNCHANGED <<registered, approved, damaged, champion>>

Damage(m) ==
  /\ Changes /\ m \in registered /\ damaged' = damaged \cup {m}
  /\ UNCHANGED <<registered, approved, degraded, champion>>

Tick ==
  /\ Live /\ now < MaxNow /\ now' = now + 1
  /\ UNCHANGED <<said, registryVars, predictions, setup, cleared, decider, changes>>

Next ==
  \/ \E gated \in BOOLEAN : Asks(gated) \/ AsksNone(gated) \/ \E late \in BOOLEAN : AsksInVain(gated, late)
  \/ Clear \/ Closes \/ Register \/ Tick
  \/ \E m \in Models : Promote(m) \/ Degrade(m) \/ Damage(m)

Spec == Init /\ [][Next]_inferenceVars
-----------------------------------------------------------------------------
TypeOK ==
  /\ now \in Nat
  /\ said \in [fits : SUBSET Models, accepts : SUBSET Models, cohorts : SUBSET Models]
  /\ registered \subseteq Models /\ approved \subseteq Models
  /\ degraded \subseteq Models /\ damaged \subseteq Models
  /\ champion \in Models \cup {0} /\ decider \in Models \cup {0}
  /\ predictions \in [Models -> [at : Nat, accepted : BOOLEAN]]
  /\ setup \in [state : {"PENDING", "CONFIRMED", "SENT", "CLOSED"}, gated : BOOLEAN,
                status : {"unvalidated", "abstained", "challenger", "research", "validated"},
                model : Models \cup {0}]
  /\ cleared \in [model : Models \cup {0}, at : Nat, sound : BOOLEAN]
  /\ changes \in Nat

\* A setup goes to the public channel only on the word of the champion: that which
\* stood when it was decided and stands sound when it is sent, which was asked at
\* most a minute before, and which accepted it as one of a proven cohort; however
\* the champion changed meanwhile (apply, delivery_eligible).
PublicEarned ==
  cleared.model # 0 =>
    /\ cleared.model = decider /\ cleared.sound /\ Track[cleared.model] = "primary"
    /\ cleared.model \in said.cohorts
    /\ predictions[cleared.model].at # 0 /\ cleared.at <= predictions[cleared.model].at + Fresh
=============================================================================
