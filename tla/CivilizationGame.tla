-------------------------- MODULE CivilizationGame --------------------------
(***************************************************************************)
(* contracts/src/CivilizationGame.sol: villages, construction, raids,      *)
(* prestige, the CGOLD ledger and the resource market.  A transaction is   *)
(* one atomic step; a call that reverts changes nothing and is no step.    *)
(* The WLD legs of boostConstruction and the best-effort monthly payout    *)
(* that ends every village call (not the market's) touch no state of this  *)
(* contract; they are the subject of WldRevenue.                           *)
(***************************************************************************)
EXTENDS CivilizationRules, FiniteSets, Functions

CONSTANTS
  Account,            \* wallets
  Game,               \* address(this), the holder of the market reserve
  Nullifier,          \* World ID nullifier hashes
  Distributor         \* contracts that can be configured to mint rewards

\* What the environment may pass to a call, and how far the model runs.
CONSTANTS
  Delays,             \* seconds between two blocks
  MaxTime,            \* bound: the last block timestamp
  TriedBuildings,     \* buildings that upgrade is called for
  TriedTraining,      \* [troop, amount] pairs that train is called for
  TriedParties,       \* raiding parties
  TriedHours,         \* boost lengths
  TriedTrades,        \* [resource, amount] pairs that are bought and sold
  TriedLimits,        \* maxGoldIn and minGoldOut
  TriedDeadlines,     \* deadlines of market orders
  TriedMarkets,       \* [resource, price, inventory] that governance configures
  TriedAmounts,       \* CGOLD amounts approved, transferred and burned
  TriedRewards,       \* reward amounts
  Unlimited,          \* type(uint256).max, the allowance that is not spent
  MaxSupply           \* bound: rewards are minted up to this total supply

Holder == Account \cup {Game}

\* An address has 20 bytes.
ASSUME AccountAssumption ==
  /\ IsFiniteSet(Account)
  /\ NoAccount \notin Account
  /\ Game \notin Account
  /\ NoAccount # Game

ASSUME InputAssumption ==
  /\ Delays \subseteq Nat
  /\ MaxTime \in Nat
  /\ TriedBuildings \subseteq Building
  /\ TriedTraining \subseteq [troop : Troop, amount : Nat \ {0}]
  /\ TriedParties \subseteq [Troop -> Nat]
  /\ TriedHours \subseteq Nat \ {0}
  /\ TriedTrades \subseteq [resource : Primary, amount : Nat \ {0}]
  /\ TriedLimits \subseteq Nat
  /\ TriedDeadlines \subseteq Nat
  /\ TriedMarkets \subseteq [resource : Primary, price : Nat \ {0}, inventory : Nat]
  /\ TriedAmounts \subseteq Nat
  /\ TriedRewards \subseteq Nat
  /\ Unlimited \in Nat
  /\ MaxSupply \in Nat

VARIABLES
  now,            \* block.timestamp
  village,        \* GameStorage.players and ConstructionQueue
  gold,           \* GameStorage.balanceOf, in CGOLD wei
  totalSupply,    \* GameStorage.totalSupply
  allowance,      \* GameStorage.allowance
  nullifierOwner, \* GameStorage.nullifierOwner
  price,          \* MarketStorage.priceWeiPerUnit, 0 when not configured
  inventory,      \* MarketStorage.inventory
  distributor     \* MarketStorage.distributor

ledger == <<gold, totalSupply>>
market == <<price, inventory, distributor>>
vars   == <<now, village, gold, totalSupply, allowance, nullifierOwner, price,
            inventory, distributor>>

Init ==
  /\ now = 1
  /\ village = [a \in Account |-> NoVillage]
  /\ gold = [h \in Holder |-> 0]
  /\ totalSupply = 0
  /\ allowance = [o \in Account |-> [s \in Account |-> 0]]
  /\ nullifierOwner = [n \in Nullifier |-> NoAccount]
  /\ price = [r \in Primary |-> 0]
  /\ inventory = [r \in Primary |-> 0]
  /\ distributor = NoAccount

----------------------------------------------------------------------------
(* The CGOLD ledger: _mintGold, _burnGold and _transferGold. *)

MintGold(h, value) ==
  /\ gold' = [gold EXCEPT ![h] = @ + value]
  /\ totalSupply' = totalSupply + value

\* Faulty variant: the balance goes down, the supply does not.
FaultyBurnGold(h, value) ==
  /\ gold[h] >= value
  /\ gold' = [gold EXCEPT ![h] = @ - value]
  /\ UNCHANGED totalSupply

\* The supply is subtracted with checked arithmetic like the balance.
BurnGold(h, value) ==
  /\ gold[h] >= value
  /\ totalSupply >= value
  /\ gold' = [gold EXCEPT ![h] = @ - value]
  /\ totalSupply' = totalSupply - value

TransferGold(from, to, value) ==
  LET paid == [gold EXCEPT ![from] = @ - value] IN
  /\ gold[from] >= value
  /\ gold' = [paid EXCEPT ![to] = @ + value]
  /\ UNCHANGED totalSupply

Transfer(a, to, value) ==
  /\ TransferGold(a, to, value)
  /\ UNCHANGED <<now, village, allowance, nullifierOwner, market>>

Approve(a, spender, value) ==
  /\ allowance' = [allowance EXCEPT ![a][spender] = value]
  /\ UNCHANGED <<now, village, ledger, nullifierOwner, market>>

TransferFrom(a, from, to, value) ==
  /\ allowance[from][a] >= value
  /\ allowance' = IF allowance[from][a] = Unlimited
                  THEN allowance
                  ELSE [allowance EXCEPT ![from][a] = @ - value]
  /\ TransferGold(from, to, value)
  /\ UNCHANGED <<now, village, nullifierOwner, market>>

Burn(a, value) ==
  /\ BurnGold(a, value)
  /\ UNCHANGED <<now, village, allowance, nullifierOwner, market>>

MintReward(d, recipient, value) ==
  /\ d = distributor
  /\ totalSupply + value <= MaxSupply
  /\ MintGold(recipient, value)
  /\ UNCHANGED <<now, village, allowance, nullifierOwner, market>>

----------------------------------------------------------------------------
(* Villages. *)

Registered(a) == village[a].registered

\* _accrue: the village after production is settled to block.timestamp.
Settled(a) == AccrueUntil(village[a], now)

RegisterWallet(a) ==
  /\ ~ Registered(a)
  /\ village' = [village EXCEPT ![a] = NewVillage(now)]
  /\ UNCHANGED <<now, ledger, allowance, nullifierOwner, market>>

\* registerWorldId and registerWorldIdLegacy share this state change; proof
\* verification is external and either succeeds or reverts.
RegisterWorldId(a, n) ==
  /\ ~ Registered(a)
  /\ nullifierOwner[n] = NoAccount
  /\ nullifierOwner' = [nullifierOwner EXCEPT ![n] = a]
  /\ village' = [village EXCEPT ![a] = NewVillage(now)]
  /\ UNCHANGED <<now, ledger, allowance, market>>

ClaimAvailableAt(p) ==
  IF p.lastClaimedAt = 0 THEN 0 ELSE p.lastClaimedAt + ClaimCooldown

Claim(a) ==
  LET p       == Settled(a)
      claimed == [r \in Primary |-> MinOf(p.field[r], RoomFor(p, r))]
      coins   == p.field["gold"]
  IN
  /\ Registered(a)
  /\ now >= ClaimAvailableAt(village[a])
  /\ coins > 0 \/ \E r \in Primary : claimed[r] > 0
  /\ village' = [village EXCEPT ![a] =
       [p EXCEPT !.stored = [r \in Primary |-> p.stored[r] + claimed[r]],
                 !.field  = [r \in Resource |->
                               IF r = "gold" THEN 0 ELSE p.field[r] - claimed[r]],
                 !.lastClaimedAt = now]]
  /\ MintGold(a, coins * GoldUnit)
  /\ UNCHANGED <<now, allowance, nullifierOwner, market>>

\* _spend: protected resources and CGOLD, or the call reverts.
CanSpend(p, cost) == \A r \in Primary : p.stored[r] >= cost[r]

StoredAfter(p, cost) == [r \in Primary |-> p.stored[r] - cost[r]]

BelowMaximum(p, b) == p.level[b] < MaxBuildingLevel

Upgrade(a, b) ==
  LET p    == Settled(a)
      cost == BuildingCost[b][p.level[b]]
  IN
  /\ Registered(a)
  /\ BelowMaximum(p, b)
  /\ BuildingAllowed(p.level, b)
  /\ ActiveJobs(p) < SlotCapacity(p.level["workshop"])
  /\ CanSpend(p, cost)
  /\ \E s \in Slot :
       /\ IsNextSlot(p, s)
       /\ village' = [village EXCEPT ![a] =
            [p EXCEPT !.stored  = StoredAfter(p, cost),
                      !.jobs[s] = [pending     |-> TRUE,
                                   building    |-> b,
                                   completesAt |-> now + BuildDuration[p.level[b] + 1]]]]
  /\ BurnGold(a, cost["gold"] * GoldUnit)
  /\ UNCHANGED <<now, allowance, nullifierOwner, market>>

CompleteUpgrade(a, s) ==
  LET job == village[a].jobs[s] IN
  /\ Registered(a)
  /\ job.pending
  /\ now >= job.completesAt
  /\ village' = [village EXCEPT ![a] = Finish(@, s, now)]
  /\ UNCHANGED <<now, ledger, allowance, nullifierOwner, market>>

\* Production is not settled here: only the timer of the job moves.
BoostConstruction(a, s, hours) ==
  LET job == village[a].jobs[s] IN
  /\ Registered(a)
  /\ job.pending
  /\ now < job.completesAt
  /\ hours * BoostDuration <= job.completesAt - now
  /\ village' = [village EXCEPT ![a].jobs[s].completesAt = @ - hours * BoostDuration]
  /\ UNCHANGED <<now, ledger, allowance, nullifierOwner, market>>

Train(a, t, amount) ==
  LET p    == Settled(a)
      cost == [r \in Resource |-> amount * TroopCost[t][r]]
  IN
  /\ Registered(a)
  /\ TroopAllowed(p.level, t)
  /\ CanSpend(p, cost)
  /\ village' = [village EXCEPT ![a] =
       [p EXCEPT !.stored = StoredAfter(p, cost), !.troops[t] = @ + amount]]
  /\ BurnGold(a, cost["gold"] * GoldUnit)
  /\ UNCHANGED <<now, allowance, nullifierOwner, market>>

\* Faulty variant: the party marches and stays at home.
FaultyStartRaid(a, d, party) ==
  LET p == Settled(a) IN
  /\ Registered(a)
  /\ d # a
  /\ Registered(d)
  /\ Headcount(party) > 0
  /\ village[a].raid.defender = NoAccount
  /\ \A t \in Troop : party[t] <= p.troops[t]
  /\ village' = [village EXCEPT ![a] =
       [p EXCEPT !.raid = [defender  |-> d,
                           arrivesAt |-> now + RaidMarch,
                           party     |-> party]]]
  /\ UNCHANGED <<now, ledger, allowance, nullifierOwner, market>>

StartRaid(a, d, party) ==
  LET p == Settled(a) IN
  /\ Registered(a)
  /\ d # a
  /\ Registered(d)
  /\ Headcount(party) > 0
  /\ village[a].raid.defender = NoAccount
  /\ \A t \in Troop : party[t] <= p.troops[t]
  /\ village' = [village EXCEPT ![a] =
       [p EXCEPT !.troops = [t \in Troop |-> p.troops[t] - party[t]],
                 !.raid   = [defender  |-> d,
                             arrivesAt |-> now + RaidMarch,
                             party     |-> party]]]
  /\ UNCHANGED <<now, ledger, allowance, nullifierOwner, market>>

\* Casualties come before the loot; the loot sees both villages settled.
ResolveRaid(a) ==
  LET raid   == village[a].raid
      d      == raid.defender
      p      == Settled(a)
      q      == Settled(d)
      won    == Power(raid.party) >= Defense(q)
      home   == Survivors(raid.party, won)
      stolen == IF won THEN Loot(p, q, Headcount(raid.party) * 18) ELSE NoLoot
  IN
  /\ Registered(a)
  /\ d # NoAccount
  /\ now >= raid.arrivesAt
  /\ village' = [village EXCEPT
       ![a] = [p EXCEPT !.troops = [t \in Troop |-> p.troops[t] + home[t]],
                        !.raid   = NoRaid,
                        !.stored = [r \in Primary |-> p.stored[r] + stolen[r]]],
       ![d] = [Plundered(q, stolen) EXCEPT !.troops = Garrison(q.troops, won)]]
  /\ MintGold(a, stolen["gold"] * GoldUnit)
  /\ UNCHANGED <<now, allowance, nullifierOwner, market>>

\* Faulty variant: only the legacy construction is looked at.
FaultyPrestige(a) ==
  LET p == village[a] IN
  /\ Registered(a)
  /\ p.level["townhall"] = MaxBuildingLevel
  /\ ~ p.jobs[0].pending
  /\ village' = [village EXCEPT ![a] =
       [NewVillage(now) EXCEPT !.prestigeCount = p.prestigeCount + 1,
                               !.jobs = [p.jobs EXCEPT ![0] = NoConstruction]]]
  /\ UNCHANGED <<now, ledger, allowance, nullifierOwner, market>>

\* The queue jobs are not deleted: none may be pending.  A raid that is still
\* marching is deleted with its troops.
Prestige(a) ==
  LET p == village[a] IN
  /\ Registered(a)
  /\ p.level["townhall"] = MaxBuildingLevel
  /\ ActiveJobs(p) = 0
  /\ village' = [village EXCEPT ![a] =
       [NewVillage(now) EXCEPT !.prestigeCount = p.prestigeCount + 1,
                               !.jobs = [p.jobs EXCEPT ![0] = NoConstruction]]]
  /\ UNCHANGED <<now, ledger, allowance, nullifierOwner, market>>

----------------------------------------------------------------------------
(* The market. *)

OpenDeadline(deadline) == deadline # 0 /\ now <= deadline

MoveInventory(r, delta) == inventory' = [inventory EXCEPT ![r] = @ + delta]

BuyResource(a, r, amount, maxGoldIn, deadline) ==
  LET p      == Settled(a)
      goldIn == BuyGoldIn(amount, price[r])
  IN
  /\ Registered(a)
  /\ OpenDeadline(deadline)
  /\ price[r] > 0
  /\ goldIn <= maxGoldIn
  /\ inventory[r] >= amount
  /\ RoomFor(p, r) >= amount
  /\ TransferGold(a, Game, goldIn)
  /\ MoveInventory(r, -amount)
  /\ village' = [village EXCEPT ![a] = [p EXCEPT !.stored[r] = @ + amount]]
  /\ UNCHANGED <<now, allowance, nullifierOwner, price, distributor>>

SellResource(a, r, amount, minGoldOut, deadline) ==
  LET p       == Settled(a)
      goldOut == SellGoldOut(amount, price[r])
  IN
  /\ Registered(a)
  /\ OpenDeadline(deadline)
  /\ price[r] > 0
  /\ goldOut >= minGoldOut
  /\ p.stored[r] >= amount
  /\ village' = [village EXCEPT ![a] = [p EXCEPT !.stored[r] = @ - amount]]
  /\ MoveInventory(r, amount)
  /\ TransferGold(Game, a, goldOut)
  /\ UNCHANGED <<now, allowance, nullifierOwner, price, distributor>>

\* The inventory is overwritten, not adjusted.
ConfigureMarket(r, newPrice, newInventory) ==
  /\ price' = [price EXCEPT ![r] = newPrice]
  /\ inventory' = [inventory EXCEPT ![r] = newInventory]
  /\ UNCHANGED <<now, village, ledger, allowance, nullifierOwner, distributor>>

ConfigureRewardDistributor(d) ==
  /\ distributor' = d
  /\ UNCHANGED <<now, village, ledger, allowance, nullifierOwner, price, inventory>>

----------------------------------------------------------------------------
Tick(d) ==
  /\ now + d <= MaxTime
  /\ now' = now + d
  /\ UNCHANGED <<village, ledger, allowance, nullifierOwner, market>>

VillageStep(a) ==
  \/ RegisterWallet(a)
  \/ \E n \in Nullifier : RegisterWorldId(a, n)
  \/ Claim(a)
  \/ \E b \in TriedBuildings : Upgrade(a, b)
  \/ \E s \in Slot : CompleteUpgrade(a, s)
  \/ \E s \in Slot, hours \in TriedHours : BoostConstruction(a, s, hours)
  \/ \E o \in TriedTraining : Train(a, o.troop, o.amount)
  \/ \E d \in Account, party \in TriedParties : StartRaid(a, d, party)
  \/ ResolveRaid(a)
  \/ Prestige(a)

TradeStep(a) ==
  \E o \in TriedTrades, limit \in TriedLimits, deadline \in TriedDeadlines :
    \/ BuyResource(a, o.resource, o.amount, limit, deadline)
    \/ SellResource(a, o.resource, o.amount, limit, deadline)

TokenStep(a) ==
  \E value \in TriedAmounts :
    \/ \E to \in Holder : Transfer(a, to, value)
    \/ \E spender \in Account : Approve(a, spender, value)
    \/ \E from \in Account, to \in Holder : TransferFrom(a, from, to, value)
    \/ Burn(a, value)

GovernanceStep ==
  \/ \E m \in TriedMarkets : ConfigureMarket(m.resource, m.price, m.inventory)
  \/ \E d \in Distributor \cup {NoAccount} : ConfigureRewardDistributor(d)

RewardStep ==
  \E d \in Distributor, h \in Holder, value \in TriedRewards : MintReward(d, h, value)

Next ==
  \/ \E d \in Delays : Tick(d)
  \/ \E a \in Account : VillageStep(a) \/ TradeStep(a) \/ TokenStep(a)
  \/ GovernanceStep
  \/ RewardStep

Spec == Init /\ [][Next]_vars

----------------------------------------------------------------------------
(* Types. *)

Party == [Troop -> Nat]

Job == [pending : BOOLEAN, building : Building, completesAt : Nat]

Raid == [defender : Account \cup {NoAccount}, arrivesAt : Nat, party : Party]

Village ==
  [registered    : BOOLEAN,
   lastAccruedAt : Nat,
   lastClaimedAt : Nat,
   stored        : [Primary -> Nat],
   field         : [Resource -> Nat],
   remainder     : [Resource -> 0 .. FractionScale - 1],
   level         : [Building -> Level],
   troops        : Party,
   raid          : Raid,
   jobs          : [Slot -> Job],
   prestigeCount : Nat]

\* Balances, stocks and troops are unsigned and levels index the curves.
TypeOK ==
  /\ now \in Nat
  /\ village \in [Account -> Village]
  /\ gold \in [Holder -> Nat]
  /\ totalSupply \in Nat
  /\ allowance \in [Account -> [Account -> Nat]]
  /\ nullifierOwner \in [Nullifier -> Account \cup {NoAccount}]
  /\ price \in [Primary -> Nat]
  /\ inventory \in [Primary -> Nat]
  /\ distributor \in Distributor \cup {NoAccount}

----------------------------------------------------------------------------
(* Invariants. *)

\* No village ever holds more than its warehouse: not through production, a
\* claim, a raid on somebody else, a market order or a prestige that shrinks
\* the warehouse under full stocks (claim, _loot, buyResource, _accrueOne).
StorageWithinCapacity ==
  \A a \in Account :
    /\ \A r \in Primary : village[a].stored[r] <= StorageOf(village[a])
    /\ \A r \in Resource : village[a].field[r] <= StorageOf(village[a])

\* A village never runs more jobs than its workshop allows, although the
\* workshop level that admitted a job can be lost to a prestige.
SlotsWithinWorkshop ==
  \A a \in Account :
    ActiveJobs(village[a]) <= SlotCapacity(village[a].level["workshop"])

JobsFor(p, b) ==
  Bit(p.jobs[0].pending /\ p.jobs[0].building = b)
  + Bit(p.jobs[1].pending /\ p.jobs[1].building = b)
  + Bit(p.jobs[2].pending /\ p.jobs[2].building = b)

\* upgrade compares the maximum with the current level and not with the level
\* the jobs under way will reach; the overrun is at most two levels.
OverrunBounded ==
  \A a \in Account, b \in Building :
    village[a].level[b] + JobsFor(village[a], b) <= TopLevel

\* MAX_BUILDING_LEVEL as the constant's name and the documents read it.
LevelsWithinMaximum ==
  \A a \in Account, b \in Building : village[a].level[b] <= MaxBuildingLevel

\* The ERC-20 supply is the sum of the balances over claims, loot, costs,
\* rewards, burns, transfers and trades.
SupplyIsSumOfBalances == totalSupply = SumFunction(gold)

\* How often a village is settled within one offline window does not matter:
\* fractions are carried from settlement to settlement (accrualRemainder).
ProductionIndependentOfSettlement ==
  \A a \in Account : \A t, u \in now .. MaxTime :
    t <= u /\ u - village[a].lastAccruedAt <= MaxOffline =>
      AccrueUntil(AccrueUntil(village[a], t), u) = AccrueUntil(village[a], u)

----------------------------------------------------------------------------
(* Action properties. *)

SameReign(a) ==
  /\ village'[a].registered = village[a].registered
  /\ village'[a].prestigeCount = village[a].prestigeCount

Units(p, r) == p.field[r] * FractionScale + p.remainder[r]

\* A step credits a village with at most one offline window of production, at
\* the better of the rates before and after it, and never leaves time behind
\* that a later step could credit again (_accrueForCompletion).
OneOfflineWindow ==
  [][\A a \in Account : SameReign(a) =>
       LET p == village[a]
           q == village'[a]
           credited == IF q.lastAccruedAt = p.lastAccruedAt
                       THEN 0
                       ELSE MinOf(now - p.lastAccruedAt, MaxOffline)
       IN  /\ q.lastAccruedAt \in {p.lastAccruedAt, now}
           /\ \A r \in Resource :
                Units(q, r) - Units(p, r) <= credited * MaxOf(RateOf(p, r), RateOf(q, r))
    ]_vars

\* Within a reign a building gains a level only by finishing a job for it, and
\* a job ends only by raising its building: none is lost, overwritten by a
\* new job or finished twice.
NoJobLost ==
  [][\A a \in Account : SameReign(a) =>
       \A b \in Building :
         LET before == village[a].level[b] + JobsFor(village[a], b)
             after  == village'[a].level[b] + JobsFor(village'[a], b)
         IN  /\ village'[a].level[b] \in village[a].level[b] .. before
             /\ after = before \/ (after = before + 1 /\ Upgrade(a, b))
    ]_vars

\* The queue through upgrades, late completions, boosts and prestiges: no more jobs
\* than slots, and each of them ends in one level of its building.
JobsHold == []SlotsWithinWorkshop /\ NoJobLost

Army(p, t) == p.troops[t] + p.raid.party[t]

\* Troops at home and on the march only grow by training: a raid reserves,
\* returns and loses them, and is never fought twice with the same party.
TroopsOnlyFromTraining ==
  [][\A a \in Account, t \in Troop :
       Army(village'[a], t) > Army(village[a], t) =>
         \E o \in TriedTraining : o.troop = t /\ Train(a, t, o.amount)
    ]_vars

\* What a village owns of a resource once its production is settled.
Wealth(a, r) ==
  LET p == AccrueUntil(village[a], now)
  IN  p.field[r] + (IF r = "gold" THEN 0 ELSE p.stored[r])

TotalWealth(r) == SumFunction([a \in Account |-> Wealth(a, r)])

\* Raids and claims move goods, costs destroy them and trades exchange them
\* with the market; none of these creates any.  Loot and claims turn field
\* gold into exactly as much CGOLD.
NoGoodsFromNothing ==
  [][(\E a \in Account :
        \/ Claim(a) \/ ResolveRaid(a) \/ TradeStep(a)
        \/ \E b \in TriedBuildings : Upgrade(a, b)
        \/ \E o \in TriedTraining : Train(a, o.troop, o.amount)) =>
       /\ \A r \in Primary :
            TotalWealth(r)' + inventory'[r] <= TotalWealth(r) + inventory[r]
       /\ TotalWealth("gold")' * GoldUnit + totalSupply'
            <= TotalWealth("gold") * GoldUnit + totalSupply
    ]_vars

\* What villages own adds up: no stock exceeds its warehouse, goods come from
\* production and troops from training, however raids, trades and claims interleave.
VillagesKeepAccount ==
  []StorageWithinCapacity /\ NoGoodsFromNothing /\ TroopsOnlyFromTraining

\* The reserve together with the inventory at the configured price.
MarketWorth == gold[Game] + SumFunction([r \in Primary |-> inventory[r] * price[r]])

\* Every trade of a wallet leaves the market strictly richer, so that no
\* sequence of purchases and sales at one price drains the reserve
\* (quoteMarket rounds up for the buyer and down for the seller).
TradesEnrichMarket ==
  [][(\E a \in Account : TradeStep(a)) => MarketWorth' > MarketWorth]_vars
=============================================================================
