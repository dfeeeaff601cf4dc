-------------------------------- MODULE MCRaid --------------------------------
(***************************************************************************)
(* The two things that players do to one another's property, each explored *)
(* on its own.                                                             *)
(*                                                                         *)
(* "raid": two neighbours train two spearmen, raid each other with them,   *)
(* claim, raise the townhall and prestige, also while parties march in     *)
(* either direction.  The maximum level is one and one job runs at a time. *)
(* Wood and gold are produced, 20 and 12 a second; the combat figures are  *)
(* the real ones: a spearman has power 10 and carries 18 units, a townhall *)
(* defends with 20, so that the party beats a townhall alone and loses     *)
(* against a townhall with a garrison.                                     *)
(*                                                                         *)
(* "boost": one player with enough WLD for two boosts or more, which go to *)
(* the vault and to the splitter; an odd price, so that the halves differ, *)
(* and both governance switches.                                           *)
(***************************************************************************)
EXTENDS CivilizationGame, WldRevenue, TLC

VARIABLE stage

RaidInit == Init /\ RevenueInit /\ stage \in {"raid", "boost"}

RaidNext ==
  /\ UNCHANGED stage
  /\ \/ stage = "raid"  /\ Next        /\ UNCHANGED revenueVars
     \/ stage = "boost" /\ RevenueNext /\ UNCHANGED vars

RaidSpec == RaidInit /\ [][RaidNext]_<<stage, vars, revenueVars>>

----------------------------------------------------------------------------
AllLevels == 0 .. (MaxBuildingLevel + 2)

MCInitialLevel == [b \in Building |-> IF b = "townhall" THEN 0 ELSE 1]

MCRate == [r \in Resource |-> CASE r = "wood" -> 40 [] r = "gold" -> 24 [] OTHER -> 0]
MCCapacity == [l \in AllLevels |-> 50]
MCBuildingCost == [b \in Building |-> [l \in AllLevels |-> [r \in Resource |-> 0]]]
MCBuildDuration == [l \in AllLevels |-> 1]
MCTroopCost ==
  [t \in Troop |-> [r \in Resource |-> IF r = "wood" THEN 15 ELSE 0]]

Men(n) == [t \in Troop |-> IF t = "spear" THEN n ELSE 0]
MCTraining == {[troop |-> "spear", amount |-> 2]}
MCParties == {Men(2)}
Neighbours == Permutations(Account)

----------------------------------------------------------------------------
CONSTANTS r1, r2, uni, swap

Give(r, n) == [to |-> r, share |-> n]
TwoWays    == <<Give(r1, 2), Give(r2, 1)>>
MCSplits   == {<<Give(r2, 2), Give(r1, 1)>>}
MCRoutes   == {[router |-> uni, threshold |-> 1, maxBatch |-> 2, slippage |-> 1],
             [router |-> swap, threshold |-> 2, maxBatch |-> 3, slippage |-> 0]}
=============================================================================
