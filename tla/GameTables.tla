----------------------------- MODULE GameTables -----------------------------
(***************************************************************************)
(* The curves of contracts/src/CivilizationGame.sol themselves, for the    *)
(* constants that CivilizationRules leaves open.                           *)
(***************************************************************************)
EXTENDS Integers

\* Wood, clay, stone and gold of the first level, and what percentage of a
\* level's price the next one costs (_buildingCost).
Curve ==
  [townhall  |-> <<280, 260, 240, 0, 160>>,
   timber    |-> <<35, 20, 15, 0, 146>>,
   claypit   |-> <<25, 40, 20, 0, 147>>,
   quarry    |-> <<30, 25, 45, 0, 148>>,
   warehouse |-> <<45, 45, 35, 0, 152>>,
   workshop  |-> <<90, 110, 105, 15, 160>>,
   goldmine  |-> <<130, 120, 150, 0, 166>>,
   barracks  |-> <<125, 145, 105, 25, 162>>]

\* One of the amounts, raised level by level and rounded up (_ceilMul).
Raised(first, percent, level) ==
  LET f[n \in 0 .. level] ==
        IF n = 0 THEN first ELSE (f[n - 1] * percent + 99) \div 100
  IN  f[level]

\* _buildingCost of a building at a level.  Gold production requires the second
\* workshop: both are free of CGOLD.
BuildingCostAt(b, level) ==
  LET Amount(i) == Raised(Curve[b][i], Curve[b][5], level)
  IN  [wood |-> Amount(1), clay |-> Amount(2), stone |-> Amount(3),
       gold |-> IF b = "workshop" /\ level <= 1 THEN 0 ELSE Amount(4)]

\* _capacity of a warehouse level.
CapacityAt(warehouse) ==
  LET f[n \in 0 .. warehouse] ==
        IF n <= 1 THEN 500 ELSE (f[n - 1] * 17 + 5) \div 10
  IN  f[warehouse]
=============================================================================
