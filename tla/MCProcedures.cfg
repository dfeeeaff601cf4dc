\* A plan ends with its goal, and the clock of the splitter stops.
SPECIFICATION Spec
CHECK_DEADLOCK FALSE
INVARIANTS
  PaidAsBooked
  HardCap
  PlanNeverStalls
PROPERTIES
  ClaimsHold
CONSTANTS
  r1 = r1
  r2 = r2
  r3 = r3
  Recipient = {r1, r2, r3}
  Bps = 4
  Period = 3
  FirstSplit <- TwoWays
  TriedSplits <- MCSplits
  Inflows = {1, 3}
  SplitterDelays = {1, 5}
  EndOfTime = 12
  MaxIncome = 8
  MaxVersion = 3
  Day = 86400
  ClaimCooldown = 60
  RaidMarch = 60
  BoostDuration = 3600
  MaxBuildingLevel = 7
  BasisPoints = 10000
  PrestigeBonus = 1000
  MarketFee = 150
  GoldUnit = 1
  SecondSlotAt = 2
  ThirdSlotAt = 3
  InitialStock = 80
  InitialLevel <- MCInitialLevel
  Rate <- MCRate
  Capacity <- MCCapacity
  BuildingCost <- MCBuildingCost
  BuildDuration <- MCBuildDuration
  TroopCost <- MCTroopCost
  NoAccount = NoAccount
  NoBuilding = NoBuilding
  Villages <- MCVillages
  Goal <- MCGoal
  d1 = d1
  d2 = d2
  alice = alice
  bob = bob
  i1 = i1
  i2 = i2
  Grantee = {alice, bob}
  Distributor = {d1, d2}
  Issuer = {i1, i2}
  NoIssuer = NoIssuer
  NoDistributor = NoDistributor
  RewardId = {1, 2, 3}
  Nonce = {1, 2}
  Signed <- MCSigned
  TriedConfigs <- MCConfigs
  MaxTime = 3
