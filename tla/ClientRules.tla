---------------------------- MODULE ClientRules ----------------------------
(***************************************************************************)
(* The client's copies of rules of the contract                            *)
(* (src/world-game/projections.js), which it plans and recommends with.    *)
(***************************************************************************)
EXTENDS CivilizationRules

\* Faulty variant: the level that a town hall asks of the warehouse is one less.
FaultyRequired(b, next) ==
  [c \in Building |->
     IF b = "townhall" /\ c \in {"timber", "claypit", "quarry"} THEN next
     ELSE IF b = "townhall" /\ c = "warehouse" /\ next >= 3 THEN next - 2
     ELSE IF b = "townhall" /\ c = "workshop" /\ next >= 5 THEN next - 3
     ELSE IF b = "warehouse" /\ c = "townhall" THEN 1
     ELSE IF b = "workshop" /\ c \in {"townhall", "timber", "claypit", "quarry"} THEN 2
     ELSE IF b = "goldmine" /\ c = "townhall" THEN 4
     ELSE IF b = "goldmine" /\ c = "workshop" THEN 2
     ELSE IF b = "barracks" /\ c = "townhall" THEN 3
     ELSE IF b = "barracks" /\ c = "workshop" THEN 1
     ELSE 0]

\* getContractRequirementsForLevel, with 0 for a building that is not required.
Required(b, next) ==
  [c \in Building |->
     IF b = "townhall" /\ c \in {"timber", "claypit", "quarry"} THEN next
     ELSE IF b = "townhall" /\ c = "warehouse" /\ next >= 3 THEN next - 1
     ELSE IF b = "townhall" /\ c = "workshop" /\ next >= 5 THEN next - 3
     ELSE IF b = "warehouse" /\ c = "townhall" THEN 1
     ELSE IF b = "workshop" /\ c \in {"townhall", "timber", "claypit", "quarry"} THEN 2
     ELSE IF b = "goldmine" /\ c = "townhall" THEN 4
     ELSE IF b = "goldmine" /\ c = "workshop" THEN 2
     ELSE IF b = "barracks" /\ c = "townhall" THEN 3
     ELSE IF b = "barracks" /\ c = "workshop" THEN 1
     ELSE 0]

\* baseCosts
Base(b) ==
  LET C(w, c, s, g, f) == [price  |-> [wood |-> w, clay |-> c, stone |-> s, gold |-> g],
                           factor |-> f]
  IN  [townhall  |-> C(280, 260, 240, 0, 160),
       timber    |-> C(35, 20, 15, 0, 146),
       claypit   |-> C(25, 40, 20, 0, 147),
       quarry    |-> C(30, 25, 45, 0, 148),
       warehouse |-> C(45, 45, 35, 0, 152),
       workshop  |-> C(90, 110, 105, 15, 160),
       goldmine  |-> C(130, 120, 150, 0, 166),
       barracks  |-> C(125, 145, 105, 25, 162)][b]

\* getContractBuildingCost of a building at a level.
Cost(b, level) ==
  LET grown[n \in 0 .. level] ==
        IF n = 0 THEN Base(b).price
        ELSE [r \in Resource |-> CeilDiv(grown[n - 1][r] * Base(b).factor, 100)]
  IN  IF b = "workshop" /\ level <= 1 THEN [grown[level] EXCEPT !["gold"] = 0]
                                      ELSE grown[level]
=============================================================================
