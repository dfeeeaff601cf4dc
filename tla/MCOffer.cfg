\* The plan ends with its goal.
SPECIFICATION PlanSpec
CHECK_DEADLOCK FALSE
INVARIANTS
  OfferIsIndependent
CONSTANTS
  Day = 86400
  ClaimCooldown = 60
  RaidMarch = 60
  BoostDuration = 3600
  MaxBuildingLevel = 7
  BasisPoints = 10000
  PrestigeBonus = 1000
  MarketFee = 150
  GoldUnit = 1
  SecondSlotAt = 2
  ThirdSlotAt = 3
  InitialStock = 80
  InitialLevel <- MCInitialLevel
  Rate <- MCRate
  Capacity <- MCCapacity
  BuildingCost <- MCBuildingCost
  BuildDuration <- MCBuildDuration
  TroopCost <- MCTroopCost
  NoAccount = NoAccount
  NoBuilding = NoBuilding
  Villages <- MCVillages
  Goal <- MCGoal
