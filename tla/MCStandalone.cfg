\* The demo's moves run out, and a curve is compared to its end: no successor is left.
SPECIFICATION Spec
CHECK_DEADLOCK FALSE
INVARIANTS
  AlwaysReplayable
  SettledBlocksComplete
  DurationsHold
  VillagesHold
PROPERTIES
  TableHolds
  RunsEnd
  NothingConjured
CONSTANTS
  MaxHead = 5
  Block <- MCBlock
  NoBlock <- MCNoBlock
  Height <- MCHeight
  Parent <- MCParent
  Transaction = {"t"}
  Emitted <- MCEmitted
  Chains <- MCChains
  Runner = {r1, r2}
  StartBlock = 1
  Confirmations = 1
  RollbackDepth = 1
  MaxBlockRange = 3
  Lag = 1
  MaxReorg = 2
  FinalHeight = 1
  MaxReorgs = 2
  HorizonDays <- MCHorizonDays
  DemoTab = {t1, t2}
  TriedSaves <- MCSaves
  TriedBuildings = {"timber", "warehouse"}
  TriedTroops = {1}
  TriedSwaps <- MCSwaps
  TriedArmies <- MCArmies
  Delays <- MCDelays
  MaxClock = 120
  MaxLevel = 4
  MaxMoves = 3
