---------------------------- MODULE EvidenceParts ----------------------------
(***************************************************************************)
(* Five systems beside each other, of which each behaviour runs the one    *)
(* that part names: the custody of the recorded segments (Evidence), the   *)
(* audit of one decision against them (Forensics), the recovery of an      *)
(* outcome from the venue's trades (PrintRecovery), the outcomes read off  *)
(* candles (PathEngines), and the choice of the venue that is followed and *)
(* recorded (MarketDesk).  The others are at rest.                         *)
(***************************************************************************)
EXTENDS Evidence

CONSTANTS
  Decision, Fill, Horizon, Warm, Stale, Grace, MaxNow, MaxLost, MaxHarm,      \* Forensics
  Trades, Days, DayLen, Decides, Over, Young, Page, MaxSkips,                 \* PrintRecovery
  Kinds, Minutes, Deadlines, Window, Decay, Delay, Limit, MaxHoles,              \* PathEngines
  Venue, Symbol, FirstVenue, Capacity, MaxSetups, MaxFails,                   \* MarketDesk
  None

VARIABLES
  part,
  now, prints, missed, follows, owed, segs, label,
  pNow, pAt, pEnds, pHoles, pDisk, pMem, pLabel,
  cPrice, cHoles, cJob, cLabel,
  primary, ready, peers, coll, jobs, runner, fails, setups, context, cache,
  refresh, lock, seen

audit == <<now, prints, missed, follows, owed, segs, label>>
recovery == <<pNow, pAt, pEnds, pHoles, pDisk, pMem, pLabel>>
candles == <<cPrice, cHoles, cJob, cLabel>>
desk == <<primary, ready, peers, coll, jobs, runner, fails, setups, context, cache,
          refresh, lock, seen>>

Audit == INSTANCE Forensics
Recovery == INSTANCE PrintRecovery WITH
  Decision <- Decides, MaxHoles <- MaxSkips, now <- pNow, at <- pAt, ends <- pEnds,
  holes <- pHoles, disk <- pDisk, mem <- pMem, label <- pLabel
Candles == INSTANCE PathEngines WITH Bars <- Minutes,
  price <- cPrice, holes <- cHoles, job <- cJob, label <- cLabel
Desk == INSTANCE MarketDesk WITH First <- FirstVenue

ASSUME PartsAssumption ==
  /\ Audit!AuditAssumption /\ Recovery!RecoveryAssumption
  /\ Candles!PathAssumption /\ Desk!DeskAssumption

\* A part that does not run is at rest.
RecoveryRests ==
  pNow = 0 /\ pAt = 0 /\ pEnds = 0 /\ pHoles = 0 /\ pDisk = 0 /\ pMem = 0 /\ pLabel = 0
CandlesRest == cPrice = 0 /\ cHoles = 0 /\ cJob = 0 /\ cLabel = 0

PartsInit ==
  /\ Init /\ Audit!Init /\ Desk!Init
  /\ \/ part = "custody" /\ RecoveryRests /\ CandlesRest
     \/ part \in {"audit", "desk"} /\ RecoveryRests /\ CandlesRest /\ need = {}
     \/ part = "recovery" /\ Recovery!Init /\ CandlesRest /\ need = {}
     \/ part = "candles" /\ RecoveryRests /\ Candles!Init /\ need = {}
PartsNext ==
  /\ UNCHANGED part
  /\ \/ part = "custody" /\ Next /\ UNCHANGED <<audit, recovery, candles, desk>>
     \/ part = "audit" /\ Audit!Next /\ UNCHANGED <<vars, recovery, candles, desk>>
     \/ part = "recovery" /\ Recovery!Next /\ UNCHANGED <<vars, audit, candles, desk>>
     \/ part = "candles" /\ Candles!Next /\ UNCHANGED <<vars, audit, recovery, desk>>
     \/ part = "desk" /\ Desk!Next /\ UNCHANGED <<vars, audit, recovery, candles>>
partsVars == <<part, vars, audit, recovery, candles, desk>>
PartsSpec == PartsInit /\ [][PartsNext]_partsVars

\* What the audit rebuilds from clean evidence is what the market did.
RebuiltIsTrue == part = "audit" => Audit!RebuiltIsTrue
\* A recovered outcome rests on every trade from the decision to the exit.
RecoveredWhole == part = "recovery" => Recovery!RecoveredWhole
\* A result that claims to be complete is what the market did.
HonestLabel == part = "candles" => Candles!HonestLabel
\* A followed setup's symbol stays streamed through switches of the venue.
HistoryKept == Desk!HistoryKept
=============================================================================
