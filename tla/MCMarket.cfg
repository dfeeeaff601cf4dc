\* A release that is deployed, or cannot be, has no successor.
SPECIFICATION GameSpec
CHECK_DEADLOCK FALSE
INVARIANTS
  SupplyIsSumOfBalances
  OnlyReviewedRelease
  MigrationsSerialized
  ReleasedAsPlanned
  NothingSentInVain
  AcceptedCodeIsBuilt
  GateHolds
PROPERTIES
  TradesEnrichMarket
  DeploymentCompleted
CONSTANTS
  Day = 1
  ClaimCooldown = 1
  RaidMarch = 1
  BoostDuration = 2
  MaxBuildingLevel = 1
  BasisPoints = 10
  PrestigeBonus = 1
  MarketFee = 1
  GoldUnit = 3
  SecondSlotAt = 1
  ThirdSlotAt = 2
  InitialStock = 2
  InitialLevel <- MCInitialLevel
  Rate <- MCRate
  Capacity <- MCCapacity
  BuildingCost <- MCBuildingCost
  BuildDuration <- MCBuildDuration
  TroopCost <- MCTroopCost
  NoAccount = NoAccount
  Account = {alice, bob}
  Game = Game
  Nullifier = {n1}
  Distributor = {distributor}
  Delays = {}
  MaxTime = 2
  TriedBuildings = {}
  TriedTraining = {}
  TriedParties = {}
  TriedHours = {}
  TriedTrades <- MCTrades
  TriedLimits = {0, 9}
  TriedDeadlines = {0, 1}
  TriedMarkets <- MCMarkets
  TriedAmounts = {4, 99}
  TriedRewards = {8}
  Unlimited = 99
  MaxSupply = 8
  Runner = {r1, r2}
  Steps = 4
  Governed = {3}
  MaxForeign = 1
  MaxFaults = 2
  Migrator = {m1, m2}
  NoMigrator = NoMigrator
  Image <- MCImages
  MaxStarts = 4
  MaxBreaks = 2
  Candidate = {c1, c2}
  Treasury = 2
  MaxCancels = 1
  MaxWord = 3
  MaxEdits = 2
  Compiled <- MCCompiled
  TriedReferences <- MCReferences
  TriedTrees <- MCTrees
  TriedValues <- MCValues
  TriedCodes <- MCCodes
  AdminWord = 2
  Historical <- MCHistorical
  TriedSources <- MCSources
  V1Signatures <- MCSignatures
  Namespace <- MCNamespace
  BoundFields <- MCFields
  BoundSlot <- MCSlot
  V1Namespace <- MCV1
  TriedBudgets = {2, 4, 6}
  RuntimeLimit = 4
