\* The clock stops at MaxTime: the last states have no successor.
SPECIFICATION RaidSpec
CHECK_DEADLOCK FALSE
INVARIANTS
  WldConserved
PROPERTIES
  VillagesKeepAccount
  SurplusOnlyDonated
  ContractsImplemented
SYMMETRY Neighbours
CONSTANTS
  Day = 2
  ClaimCooldown = 2
  RaidMarch = 1
  BoostDuration = 2
  MaxBuildingLevel = 1
  BasisPoints = 2
  PrestigeBonus = 1
  MarketFee = 1
  GoldUnit = 10
  SecondSlotAt = 2
  ThirdSlotAt = 2
  InitialStock = 30
  InitialLevel <- MCInitialLevel
  Rate <- MCRate
  Capacity <- MCCapacity
  BuildingCost <- MCBuildingCost
  BuildDuration <- MCBuildDuration
  TroopCost <- MCTroopCost
  NoAccount = NoAccount
  Account = {alice, bob}
  Game = Game
  Nullifier = {}
  Distributor = {}
  Delays = {1}
  MaxTime = 3
  TriedBuildings = {"townhall"}
  TriedTraining <- MCTraining
  TriedParties <- MCParties
  TriedHours = {}
  TriedTrades = {}
  TriedLimits = {}
  TriedDeadlines = {}
  TriedMarkets = {}
  TriedAmounts = {}
  TriedRewards = {}
  Unlimited = 99
  MaxSupply = 0
  r1 = r1
  r2 = r2
  uni = uni
  swap = swap
  Recipient = {r1, r2}
  Bps = 3
  Period = 2
  FirstSplit <- TwoWays
  TriedSplits <- MCSplits
  Inflows = {}
  SplitterDelays = {1}
  EndOfTime = 3
  MaxIncome = 0
  MaxVersion = 2
  Router = {uni, swap}
  NoRouter = NoRouter
  VaultBps = 2
  Routes <- MCRoutes
  Credits = {}
  Donations = {1}
  Requests = {0, 1}
  Quotes = {0, 1}
  Refunds = {0, 1}
  Fills = {1, 2}
  MaxFunding = 0
  Player = {player}
  InitialWld = 7
  WldUnit = 3
  BoostHours = {1, 2}
