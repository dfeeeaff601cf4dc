------------------------------- MODULE MCQueue -------------------------------
(***************************************************************************)
(* One wallet that fills, boosts and empties its construction slots and    *)
(* prestiges.  The maximum level is three, the workshop opens the second   *)
(* slot at level one and the third at level two, only wood is produced and *)
(* only the timber camp costs some: this instance is about jobs, slots,    *)
(* levels and what completing a job late does to production.               *)
(***************************************************************************)
EXTENDS VillageProjection

\* What a wallet can do that has nobody to raid and no market.
QueueNext ==
  \/ \E d \in Delays : Tick(d)
  \/ \E a \in Account :
       \/ RegisterWallet(a)
       \/ Claim(a)
       \/ \E b \in TriedBuildings : Upgrade(a, b)
       \/ \E s \in Slot : CompleteUpgrade(a, s)
       \/ \E s \in Slot, hours \in TriedHours : BoostConstruction(a, s, hours)
       \/ Prestige(a)

QueueSpec == Init /\ [][QueueNext]_vars

----------------------------------------------------------------------------
AllLevels == 0 .. (MaxBuildingLevel + 2)

Nothing == [r \in Resource |-> 0]

MCInitialLevel ==
  [b \in Building |->
     CASE b \in {"claypit", "quarry"}               -> 3
       [] b \in {"timber", "townhall", "warehouse"} -> 2
       [] OTHER                                     -> 0]

MCRate == [r \in Resource |-> IF r = "wood" THEN 1 ELSE 0]
MCCapacity == [l \in AllLevels |-> 2 + l]
MCBuildingCost ==
  [b \in Building |-> [l \in AllLevels |->
     IF b = "timber" THEN [Nothing EXCEPT !["wood"] = 2] ELSE Nothing]]
MCBuildDuration == [l \in AllLevels |-> IF l < 3 THEN 1 ELSE 3]
MCTroopCost == [t \in Troop |-> Nothing]
MCBuildings == {"townhall", "timber", "workshop"}
=============================================================================
