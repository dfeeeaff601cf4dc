------------------------- MODULE CivilizationRules -------------------------
(***************************************************************************)
(* The rules of contracts/src/CivilizationGame.sol that touch one village  *)
(* (struct Player) at a time: production, storage, construction slots,     *)
(* casualties, loot and market quotes.  Each operator is one private       *)
(* function of the contract; it takes and returns the values the Solidity  *)
(* code reads and writes, so that the actions of CivilizationGame are      *)
(* compositions of them exactly as the external functions are.             *)
(*                                                                         *)
(* Amounts are naturals.  uint256 arithmetic is checked in Solidity 0.8,   *)
(* so an overflow reverts the transaction and is no behaviour.             *)
(***************************************************************************)
EXTENDS Integers

CONSTANTS
  Day,                \* "1 days", also MAX_OFFLINE_SECONDS (24 hours)
  ClaimCooldown,      \* CLAIM_COOLDOWN (60 seconds)
  RaidMarch,          \* RAID_MARCH_DURATION (1 minutes)
  BoostDuration,      \* BOOST_DURATION (1 hours)
  MaxBuildingLevel,   \* MAX_BUILDING_LEVEL (30)
  BasisPoints,        \* BASIS_POINTS (10_000)
  PrestigeBonus,      \* PRESTIGE_BONUS_BPS (1_000)
  MarketFee,          \* MARKET_FEE_BPS (150)
  GoldUnit,           \* GOLD_UNIT (1e18)
  SecondSlotAt,       \* workshop level that opens slot 1 (11)
  ThirdSlotAt,        \* workshop level that opens slot 2 (21)
  InitialStock,       \* wood, clay and stone of a new village (80)
  InitialLevel,       \* levels of a new village (0,1,1,1,1,0,0,0)
  Rate,               \* units per day and building level (300, 270, 240, 12)
  Capacity,           \* _capacity: warehouse level -> capacity
  BuildingCost,       \* _buildingCost: building -> level -> price
  BuildDuration,      \* buildDuration: next level -> seconds
  TroopCost,          \* _troopCost: troop -> price of one
  NoAccount           \* address(0)

Building == {"townhall", "timber", "claypit", "quarry",
             "warehouse", "workshop", "goldmine", "barracks"}
Troop    == {"spear", "archer", "rider"}
Primary  == {"wood", "clay", "stone"}
Resource == Primary \cup {"gold"}
Slot     == 0 .. 2

\* Three slots may each hold a job started at the last level below the
\* maximum, so a building can end two levels above it.
TopLevel == MaxBuildingLevel + 2
Level    == 0 .. TopLevel

Price == [Resource -> Nat]

ASSUME ClockAssumption ==
  /\ Day \in Nat \ {0}
  /\ ClaimCooldown \in Nat
  /\ RaidMarch \in Nat
  /\ BoostDuration \in Nat \ {0}

ASSUME ScaleAssumption ==
  /\ MaxBuildingLevel \in Nat \ {0}
  /\ BasisPoints \in Nat \ {0}
  /\ PrestigeBonus \in Nat
  /\ MarketFee \in 1 .. BasisPoints
  /\ GoldUnit \in Nat \ {0}
  /\ SecondSlotAt \in Nat
  /\ ThirdSlotAt \in Nat
  /\ SecondSlotAt <= ThirdSlotAt

ASSUME CurveAssumption ==
  /\ Rate \in [Resource -> Nat]
  /\ Capacity \in [Level -> Nat]
  /\ \A l \in Level, m \in Level : l <= m => Capacity[l] <= Capacity[m]
  /\ BuildingCost \in [Building -> [Level -> Price]]
  /\ BuildDuration \in [Level -> Nat]
  /\ TroopCost \in [Troop -> Price]

\* A new village owns no more than its warehouse holds and starts below the
\* maximum level.
ASSUME NewVillageAssumption ==
  /\ InitialLevel \in [Building -> 0 .. MaxBuildingLevel]
  /\ InitialStock \in Nat
  /\ InitialStock <= Capacity[InitialLevel["warehouse"]]

MaxOffline    == Day
FractionScale == Day * BasisPoints

MinOf(x, y) == IF x < y THEN x ELSE y
MaxOf(x, y) == IF x > y THEN x ELSE y

CeilDiv(n, d) == IF n = 0 THEN 0 ELSE (n - 1) \div d + 1

CeilPercent(n, percent) == IF n = 0 THEN 0 ELSE (n * percent + 99) \div 100

----------------------------------------------------------------------------
(* Villages. *)

NoConstruction ==
  [pending |-> FALSE, building |-> "townhall", completesAt |-> 0]

NoTroops == [t \in Troop |-> 0]

NoRaid == [defender |-> NoAccount, arrivesAt |-> 0, party |-> NoTroops]

\* struct Player of one account, with the jobs of ConstructionQueue beside
\* Player.construction, which is slot 0.  Gold is never kept in storage: what
\* the field yields is minted as CGOLD when it is claimed.
NewVillage(t) ==
  [registered    |-> TRUE,
   lastAccruedAt |-> t,
   lastClaimedAt |-> 0,
   stored        |-> [r \in Primary |-> InitialStock],
   field         |-> [r \in Resource |-> 0],
   remainder     |-> [r \in Resource |-> 0],
   level         |-> InitialLevel,
   troops        |-> NoTroops,
   raid          |-> NoRaid,
   jobs          |-> [s \in Slot |-> NoConstruction],
   prestigeCount |-> 0]

\* The zeroed storage of an account that never registered.
NoVillage ==
  [NewVillage(0) EXCEPT !.registered = FALSE,
                        !.stored     = [r \in Primary |-> 0],
                        !.level      = [b \in Building |-> 0]]

StorageOf(p) == Capacity[p.level["warehouse"]]

\* Faulty variant for mutation testing: the stock already stored is forgotten.
FaultyRoomFor(p, r) == StorageOf(p)

\* _resourceRoom, and the room _claimOne and _loot compute for themselves.
RoomFor(p, r) == MaxOf(0, StorageOf(p) - p.stored[r])

----------------------------------------------------------------------------
(* Production. *)

Producer ==
  [wood |-> "timber", clay |-> "claypit", stone |-> "quarry", gold |-> "goldmine"]

Multiplier(p) == BasisPoints + p.prestigeCount * PrestigeBonus

\* Production of one resource per second, in units of 1/FractionScale.
RateOf(p, r) == Rate[r] * p.level[Producer[r]] * Multiplier(p)

\* Faulty variant: every settlement starts from a zero fraction.
FaultyProduced(p, t, r) ==
  LET units == MinOf(t - p.lastAccruedAt, MaxOffline) * RateOf(p, r)
      whole == p.field[r] + units \div FractionScale
  IN  IF whole >= StorageOf(p)
      THEN [whole |-> StorageOf(p), fraction |-> 0]
      ELSE [whole |-> whole, fraction |-> units % FractionScale]

\* _accruedField and _accrueOne: whole units and the retained fraction of
\* resource r at time t >= p.lastAccruedAt.  A full field drops the fraction.
Produced(p, t, r) ==
  LET elapsed == MinOf(t - p.lastAccruedAt, MaxOffline)
      units   == elapsed * RateOf(p, r) + p.remainder[r]
      whole   == p.field[r] + units \div FractionScale
  IN  IF p.field[r] >= StorageOf(p) \/ whole >= StorageOf(p)
      THEN [whole |-> StorageOf(p), fraction |-> 0]
      ELSE [whole |-> whole, fraction |-> units % FractionScale]

\* _accrueUntil
AccrueUntil(p, t) ==
  IF t <= p.lastAccruedAt
  THEN p
  ELSE [p EXCEPT !.field         = [r \in Resource |-> Produced(p, t, r).whole],
                 !.remainder     = [r \in Resource |-> Produced(p, t, r).fraction],
                 !.lastAccruedAt = t]

----------------------------------------------------------------------------
(* Construction. *)

SlotCapacity(workshop) ==
  IF workshop >= ThirdSlotAt THEN 3 ELSE IF workshop >= SecondSlotAt THEN 2 ELSE 1

Bit(b) == IF b THEN 1 ELSE 0

\* _activeConstructionCount
ActiveJobs(p) ==
  Bit(p.jobs[0].pending) + Bit(p.jobs[1].pending) + Bit(p.jobs[2].pending)

\* Faulty variant: the number of jobs in use serves as the next slot.
FaultyIsNextSlot(p, s) == s = ActiveJobs(p)

\* _nextConstructionSlot picks the first slot that is free.
IsNextSlot(p, s) ==
  /\ ~ p.jobs[s].pending
  /\ \A e \in Slot : e < s => p.jobs[e].pending

\* _requireBuildingRequirements
BuildingAllowed(level, b) ==
  LET next == level[b] + 1 IN
  /\ b = "townhall" =>
       /\ \A r \in Primary : level[Producer[r]] >= next
       /\ next >= 3 => level["warehouse"] >= next - 1
       /\ next >= 5 => level["workshop"] >= next - 3
  /\ b = "warehouse" => level["townhall"] >= 1
  /\ b = "workshop" =>
       \A c \in {"townhall", "timber", "claypit", "quarry"} : level[c] >= 2
  /\ b = "goldmine" => level["townhall"] >= 4 /\ level["workshop"] >= 2
  /\ b = "barracks" => level["townhall"] >= 3 /\ level["workshop"] >= 1

\* Faulty variant: the stretch after the completion gets a window of its own.
FaultyFinish(p, s, t) ==
  LET job    == p.jobs[s]
      before == AccrueUntil(p, MinOf(t, job.completesAt))
      raised == [before EXCEPT !.level[job.building] = @ + 1]
  IN  [AccrueUntil(raised, t) EXCEPT !.jobs[s] = NoConstruction]

\* _finishConstruction: production up to the completion at the old rate, then
\* at the new one, both inside a single offline window from lastAccruedAt.
\* What lies beyond the window is discarded.
Finish(p, s, t) ==
  LET job       == p.jobs[s]
      cappedEnd == MinOf(t, p.lastAccruedAt + MaxOffline)
      before    == AccrueUntil(p, MinOf(cappedEnd, job.completesAt))
      raised    == [before EXCEPT !.level[job.building] = @ + 1]
      after     == AccrueUntil(raised, cappedEnd)
  IN  [after EXCEPT !.lastAccruedAt = IF cappedEnd < t THEN t ELSE @,
                    !.jobs[s]       = NoConstruction]

----------------------------------------------------------------------------
(* Troops and raids. *)

\* _requireTroopRequirements
TroopAllowed(level, t) ==
  /\ level["barracks"] >= 1
  /\ t = "archer" => level["barracks"] >= 2
  /\ t = "rider"  => level["barracks"] >= 3 /\ level["workshop"] >= 2

Headcount(party) == party["spear"] + party["archer"] + party["rider"]

Power(party) == 10 * party["spear"] + 17 * party["archer"] + 31 * party["rider"]

\* _defense
Defense(p) == MaxOf(1, (Power(p.troops) * 65) \div 100 + p.level["townhall"] * 20)

\* _casualties: 8% of a winning and 38% of a losing party, rounded up.
Survivors(party, won) ==
  [t \in Troop |-> party[t] - CeilPercent(party[t], IF won THEN 8 ELSE 38)]

\* A beaten garrison loses 6% of each troop, rounded down.
Garrison(troops, won) ==
  [t \in Troop |-> troops[t] - (IF won THEN (troops[t] * 6) \div 100 ELSE 0)]

\* _loot: field stock only, wood before clay before stone before gold, within
\* the party's transport capacity and the attacker's free storage.
Loot(attacker, defender, transport) ==
  LET Taken(r, left) == MinOf(defender.field[r], MinOf(left, RoomFor(attacker, r)))
      wood  == Taken("wood", transport)
      clay  == Taken("clay", transport - wood)
      stone == Taken("stone", transport - wood - clay)
      gold  == MinOf(defender.field["gold"], transport - wood - clay - stone)
  IN  [wood |-> wood, clay |-> clay, stone |-> stone, gold |-> gold]

NoLoot == [r \in Resource |-> 0]

\* Faulty variant: the gold is minted for the attacker and left in the field.
FaultyPlunderedGold(p, stolen) ==
  [p EXCEPT !.field = [r \in Resource |->
                         IF r = "gold" THEN p.field[r] ELSE p.field[r] - stolen[r]]]

\* The defender's side of _loot.
Plundered(p, stolen) ==
  [p EXCEPT !.field = [r \in Resource |-> p.field[r] - stolen[r]]]

----------------------------------------------------------------------------
(* The market. *)

\* Faulty variant: the buyer's price is rounded down as well.
FaultyBuyGoldIn(amount, price) ==
  (amount * price * (BasisPoints + MarketFee)) \div BasisPoints

\* quoteMarket: what a buyer pays, rounded up, and a seller gets, rounded down.
BuyGoldIn(amount, price) ==
  CeilDiv(amount * price * (BasisPoints + MarketFee), BasisPoints)

SellGoldOut(amount, price) ==
  (amount * price * (BasisPoints - MarketFee)) \div BasisPoints
=============================================================================
