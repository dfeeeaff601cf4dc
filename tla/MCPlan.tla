------------------------------- MODULE MCPlan -------------------------------
(***************************************************************************)
(* The real prices and capacities.  The second slot opens with the second  *)
(* workshop and the third with the third.  The plan is opened for a new    *)
(* village, and for two that have a workshop and little else.              *)
(***************************************************************************)
EXTENDS BuildPlan, GameTables

AllLevels == 0 .. MaxBuildingLevel + 2

MCInitialLevel ==
  [b \in Building |->
     IF b \in {"timber", "claypit", "quarry", "warehouse"} THEN 1 ELSE 0]

Neglected(workshop) ==
  [b \in Building |->
     CASE b = "workshop"                 -> workshop
       [] b = "warehouse"                -> 1
       [] b \in {"goldmine", "barracks"} -> 0
       [] OTHER                          -> 2]

MCVillages == {MCInitialLevel, Neglected(2), Neglected(3)}
MCGoal == [goldmine |-> 1, townhall |-> 5, timber |-> 4]
MCRate == [r \in Resource |-> 0]
MCCapacity == [l \in AllLevels |-> CapacityAt(l)]
MCBuildingCost == [b \in Building |-> [l \in AllLevels |-> BuildingCostAt(b, l)]]
MCBuildDuration == [l \in AllLevels |-> IF l < 3 THEN 1 ELSE 2]
MCTroopCost == [t \in Troop |-> [r \in Resource |-> 0]]
=============================================================================
