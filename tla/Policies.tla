------------------------------- MODULE Policies -------------------------------
(***************************************************************************)
(* Seven systems beside each other, of which each behaviour runs the one   *)
(* that running names: the registry of models with the fits behind it         *)
(* (ModelRegistry), what its models say of a setup (Inference), the        *)
(* production gate (GateFamilies), the staged confirmation of a reversal   *)
(* (ReversalTurn), the health of a published setup (ThesisHealth), the     *)
(* admission of optional work (Admission, over MetadataWriter), and the    *)
(* opening of the store (Migrations).  The others stay in their first      *)
(* state.                                                                  *)
(***************************************************************************)
EXTENDS ModelRegistry

CONSTANTS
  Models, Track, Filter, PredictionTtl, MaxAsks, MaxChanges,                 \* Inference
  Facts, FamilyTtl, SourceTtl, Enabled, Decided, MaxGate, MaxReadings, MaxFailures,  \* GateFamilies
  Slots, Known, Onsets, Late, Trigger, SequenceTtl, MaxUnits, MaxResets,     \* ReversalTurn
  Seen, Hold, Gap, MinuteLength, Near, MaxHealth, MaxRestarts,                     \* ThesisHealth
  Global, Market, Capacity, MaxOffers, MaxFaults, Health, Minute, Hour, SampleTtl, Loads, MaxWork,
                                                                             \* Admission
  Opener, Knows, Sum, Setup, Text, MaxStops, MaxWrites                       \* Migrations

VARIABLES
  running,
  clock, frozen, registered, approvals, degradations, damaged, deployed, predictions, candidate,
  cleared, decider, changes,
  gateClock, book, row, cache, pass, asof, evidence, disabled, gate, malformed, readings, failures,
  tape, feeds, stage, sequence, task, sent, broken, resets,
  healthClock, verdict, setup, copies, at, began, notices, checks, assessed, restarts,
  writer, pending, overlay, kv, offers, latest, failed, faults, workClock, sample, last, samples,
  admitted,
  made, receipts, table, shown, saved, known, cards, claimed, copy, opener, before, stops, writes

Learned == INSTANCE Inference WITH
  Fresh <- PredictionTtl, MaxNow <- MaxAsks, now <- clock, said <- frozen, approved <- approvals,
  degraded <- degradations, champion <- deployed, setup <- candidate

Gate == INSTANCE GateFamilies WITH
  Ttl <- FamilyTtl, MaxNow <- MaxGate, MaxFaults <- MaxFailures, now <- gateClock, faults <- failures

Turn == INSTANCE ReversalTurn WITH Early <- Onsets, Ttl <- SequenceTtl, MaxNow <- MaxUnits

Thesis == INSTANCE ThesisHealth WITH
  Minute <- MinuteLength, MaxNow <- MaxHealth, MaxDeaths <- MaxRestarts, clock <- healthClock

Work == INSTANCE Admission WITH
  Fresh <- SampleTtl, MaxNow <- MaxWork, now <- workClock, said <- samples

Store == INSTANCE Migrations WITH sent <- cards, at <- opener

ASSUME PoliciesAssumption ==
  /\ Learned!InferenceAssumption /\ Gate!GateAssumption /\ Turn!ReversalAssumption
  /\ Thesis!ThesisAssumption /\ Work!MetadataAssumption /\ Work!AdmissionAssumption
  /\ Store!MigrationAssumption

inference ==
  <<clock, frozen, registered, approvals, degradations, damaged, deployed, predictions, candidate,
    cleared, decider, changes>>
gates == <<gateClock, book, row, cache, pass, asof, evidence, disabled, gate, malformed, readings, failures>>
reversal == <<tape, feeds, stage, sequence, task, sent, broken, resets>>
thesis == <<healthClock, verdict, setup, copies, at, began, notices, checks, assessed, restarts>>
admission ==
  <<writer, pending, overlay, kv, offers, latest, failed, faults, workClock, sample, last, samples,
    admitted>>
opening ==
  <<made, receipts, table, shown, saved, known, cards, claimed, copy, opener, before, stops, writes>>
partsVars == <<running, vars, inference, gates, reversal, thesis, admission, opening>>

PartsInit ==
  /\ running \in {"registry", "inference", "gates", "reversal", "thesis", "admission", "opening"}
  /\ Init /\ Learned!Init /\ Gate!Init /\ Turn!Init /\ Thesis!Init /\ Work!AdmissionInit /\ Store!Init
  /\ running # "inference" => frozen.fits = {}
  /\ running # "thesis" => ~setup.higher

PartsNext ==
  /\ UNCHANGED running
  /\ \/ running = "registry" /\ Next
        /\ UNCHANGED <<inference, gates, reversal, thesis, admission, opening>>
     \/ running = "inference" /\ Learned!Next
        /\ UNCHANGED <<vars, gates, reversal, thesis, admission, opening>>
     \/ running = "gates" /\ Gate!Next
        /\ UNCHANGED <<vars, inference, reversal, thesis, admission, opening>>
     \/ running = "reversal" /\ Turn!Next
        /\ UNCHANGED <<vars, inference, gates, thesis, admission, opening>>
     \/ running = "thesis" /\ Thesis!Next
        /\ UNCHANGED <<vars, inference, gates, reversal, admission, opening>>
     \/ running = "admission" /\ Work!AdmissionNext
        /\ UNCHANGED <<vars, inference, gates, reversal, thesis, opening>>
     \/ running = "opening" /\ Store!Next
        /\ UNCHANGED <<vars, inference, gates, reversal, thesis, admission>>

PartsSpec == PartsInit /\ [][PartsNext]_partsVars

-----------------------------------------------------------------------------
\* A setup goes to the public channel on the word of the champion that decided it.
PublicEarned == Learned!PublicEarned

\* A candidate is blocked only on its own, timely and well-formed evidence.
BlockedOnEvidence == Gate!BlockedOnEvidence

\* A staged reversal is sent on a turn that nothing interrupted.
TurnHolds == Turn!TurnHolds

\* What the health task says of a setup has lasted.
HealthEarned == Thesis!HealthEarned

\* Work is never admitted on a sample that a newer one has replaced.
AdmittedOnNewest == Work!AdmittedOnNewest

\* What a version relies on is there once it has opened the store.
OpenedWhole == Store!OpenedWhole
=============================================================================
