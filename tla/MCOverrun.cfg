\* The clock stops at MaxTime: the last states have no successor.
SPECIFICATION QueueSpec
CHECK_DEADLOCK FALSE
INVARIANT LevelsWithinMaximum
CONSTANTS
  Day = 2
  ClaimCooldown = 2
  RaidMarch = 1
  BoostDuration = 2
  MaxBuildingLevel = 3
  BasisPoints = 2
  PrestigeBonus = 1
  MarketFee = 1
  GoldUnit = 10
  SecondSlotAt = 1
  ThirdSlotAt = 2
  InitialStock = 2
  InitialLevel <- MCInitialLevel
  Rate <- MCRate
  Capacity <- MCCapacity
  BuildingCost <- MCBuildingCost
  BuildDuration <- MCBuildDuration
  TroopCost <- MCTroopCost
  NoAccount = NoAccount
  Account = {alice}
  Game = Game
  Nullifier = {}
  Distributor = {}
  Delays = {1, 3}
  MaxTime = 5
  TriedBuildings <- MCBuildings
  TriedTraining = {}
  TriedParties = {}
  TriedHours = {1}
  TriedTrades = {}
  TriedLimits = {}
  TriedDeadlines = {}
  TriedMarkets = {}
  TriedAmounts = {}
  TriedRewards = {}
  Unlimited = 99
  MaxSupply = 0
