\* Two trainers, three experiments, one death; and the six systems beside.
SPECIFICATION PartsSpec
CONSTANTS
  Need <- OneEach
  MinTotal = 4
  MinTimes = 4
  Embargo = 0
  PathTotal = 5
  Trainers = {worker, manual}
  DecidedAt <- Apart
  Early = {1, 2, 3, 4}
  Start = 9
  MaxNow = 12
  MaxFits = 3
  MaxDeaths = 1
  Models <- ThreeModels
  Track <- Tracks
  Filter = TRUE
  PredictionTtl = 0
  MaxAsks = 2
  MaxChanges = 4
  Facts <- AdverseFacts
  FamilyTtl <- Ttls
  SourceTtl <- SourceTtls
  Enabled <- FamilyNames
  Decided <- TwoCandidates
  MaxGate = 2
  MaxReadings = 2
  MaxFailures = 1
  Slots <- ThreeSlots
  Known = 1
  Onsets = 1
  Late = 1
  Trigger = 2
  SequenceTtl = 1
  MaxUnits = 6
  MaxResets = 1
  Seen <- FiveObservations
  Hold = 2
  Gap = 1
  MinuteLength = 2
  Near = 2
  MaxHealth = 3
  MaxRestarts = 1
  Global <- Snapshots
  Market <- MarketRows
  Capacity = 2
  MaxOffers = 3
  MaxFaults = 1
  Health = health
  Minute = 1
  Hour = 1
  SampleTtl = 1
  Loads <- TwoLoads
  MaxWork = 2
  Opener <- Openers
  Knows <- StepsKnown
  Sum <- Checksums
  Setup = {s1}
  Text = {"x"}
  MaxStops = 1
  MaxWrites = 2
  old = old
  new = new
  health = health
  other = other
  market = market
  task1 = task1
SYMMETRY AnyTrainer
CHECK_DEADLOCK FALSE
INVARIANTS HoldoutUnseen PublicEarned BlockedOnEvidence TurnHolds HealthEarned AdmittedOnNewest OpenedWhole
PROPERTIES ChampionProven
