------------------------------- MODULE DemoGame -------------------------------
(***************************************************************************)
(* The walletless demo (src/game.js, src/demo/storage.js and what app.js   *)
(* and game-actions.js do in demo mode): a village that lives in the       *)
(* memory of a tab and is written to the browser's storage as a whole, by  *)
(* every command and by a timer.  Tabs share the storage and nothing else; *)
(* the last one to write wins.                                             *)
(*                                                                         *)
(* Amounts of resources are in hundredths, since production is fractional, *)
(* and time in seconds; the clock is the browser's and can be set back.    *)
(***************************************************************************)
EXTENDS Integers

CONSTANTS
  DemoTab,
  TriedSaves,       \* what an earlier visit may have left in the storage
  TriedBuildings, TriedTroops, TriedSwaps, TriedArmies,   \* what a player tries
  Delays,           \* by how much the clock moves between two steps
  MaxClock, MaxLevel, MaxMoves   \* bounds of the clock, of levels and of moves

VARIABLES
  game,    \* the state of each tab
  saved,   \* what the storage holds
  now,
  moves    \* how many commands were carried out and how often the clock was moved

demoVars == <<game, saved, now, moves>>

Least(a, b) == IF a < b THEN a ELSE b
AtLeastZero(a) == IF a > 0 THEN a ELSE 0
CeilOf(a, b) == (a + b - 1) \div b

----------------------------------------------------------------------------
(* The tables. *)

Resource == {"wood", "clay", "stone", "gold"}
Troop    == {"spear", "archer", "rider"}
Building == {"townhall", "timber", "claypit", "quarry", "warehouse", "workshop",
             "goldmine", "barracks"}

Amounts(w, c, s, g) == [wood |-> w, clay |-> c, stone |-> s, gold |-> g]
Hundredths(a) == [r \in Resource |-> 100 * a[r]]

\* BUILDINGS: the first price, and what percentage of a level's the next one costs.
DemoCurve ==
  [townhall  |-> <<Amounts(55, 65, 75, 0), 158>>,
   timber    |-> <<Amounts(35, 20, 15, 0), 146>>,
   claypit   |-> <<Amounts(25, 40, 20, 0), 147>>,
   quarry    |-> <<Amounts(30, 25, 45, 0), 148>>,
   warehouse |-> <<Amounts(45, 45, 35, 0), 152>>,
   workshop  |-> <<Amounts(90, 110, 105, 15), 160>>,
   goldmine  |-> <<Amounts(130, 120, 150, 0), 166>>,
   barracks  |-> <<Amounts(125, 145, 105, 25), 162>>]

\* getBuildingCost
DemoPrice(b, level) ==
  [r \in Resource |->
     IF b = "workshop" /\ level = 0 /\ r = "gold" THEN 0
     ELSE 100 * CeilOf(DemoCurve[b][1][r] * DemoCurve[b][2] ^ level, 100 ^ level)]
DemoCost(s, b) == DemoPrice(b, s.buildings[b])

\* What a level of a building requires (getRequirements).
DemoRequired(b, level) ==
  CASE b = "townhall" ->
         IF level = 1 THEN {}
         ELSE ({"timber", "claypit", "quarry"} \X {level})
                \cup (IF level >= 3 THEN {<<"warehouse", level - 1>>} ELSE {})
                \cup (IF level >= 5 THEN {<<"workshop", level - 3>>} ELSE {})
    [] b = "warehouse" -> {<<"townhall", 1>>}
    [] b = "workshop"  -> {"townhall", "timber", "claypit", "quarry"} \X {2}
    [] b = "goldmine"  -> {<<"townhall", 4>>, <<"workshop", 2>>}
    [] b = "barracks"  -> {<<"townhall", 3>>, <<"workshop", 1>>}
    [] OTHER           -> {}

Meets(s, requirements) == \A q \in requirements : s.buildings[q[1]] >= q[2]

\* TROOPS
TroopCost ==
  [spear  |-> Hundredths(Amounts(22, 16, 8, 1)),
   archer |-> Hundredths(Amounts(30, 22, 12, 2)),
   rider  |-> Hundredths(Amounts(45, 35, 24, 4))]
TroopRequired ==
  [spear  |-> {<<"barracks", 1>>},
   archer |-> {<<"barracks", 2>>, <<"workshop", 1>>},
   rider  |-> {<<"barracks", 3>>, <<"workshop", 2>>}]

Soldiers(army) == army["spear"] + army["archer"] + army["rider"]
Attack(army)   == 10 * army["spear"] + 17 * army["archer"] + 31 * army["rider"]

\* DEMO_TARGETS: the defense and the field, in whole units.
Target  == {"river", "ash", "iron"}
Defense == [river |-> 54, ash |-> 128, iron |-> 245]
Field   == [river |-> Amounts(135, 85, 70, 12), ash |-> Amounts(245, 210, 160, 28),
            iron |-> Amounts(410, 340, 320, 55)]

\* INTERNAL_VALUES, in twentieths.
Worth == [wood |-> 20, clay |-> 22, stone |-> 25]

CollectionCooldown == 60
MarchDuration      == 60
OfflineLimit       == 8 * 60 * 60

----------------------------------------------------------------------------
(* States. *)

Closed  == [tab |-> "closed"]
Empty   == [save |-> "none"]
NoMarch == [army |-> "at home"]

\* createInitialState
NewGame ==
  [resources |-> Hundredths(Amounts(240, 220, 210, 45)),
   unclaimed |-> Hundredths(Amounts(0, 0, 0, 0)),
   buildings |-> [b \in Building |->
                    IF b \in {"workshop", "goldmine", "barracks"} THEN 0 ELSE 1],
   troops    |-> [u \in Troop |-> 0],
   fields    |-> Field,
   gatherAvailableAt |-> 0,
   march     |-> NoMarch,
   last      |-> now]

\* loadDemoState: a save of an earlier version has "loot" where fields were later.
Migrated(save) ==
  IF "fields" \in DOMAIN save THEN save
  ELSE [x \in (DOMAIN save \ {"loot"}) \cup {"fields"} |->
          IF x = "fields" THEN save.loot ELSE save[x]]
Loaded == IF saved = Empty THEN NewGame ELSE Migrated(saved)

\* getCapacity: 500 * 1.7 ^ (level - 1), rounded.
CapacityAt(level) == 100 * ((1000 * 17 ^ level + 10 ^ level) \div (2 * 10 ^ level))
Capacity(s) == CapacityAt(AtLeastZero(s.buildings["warehouse"] - 1))

\* getProduction, a second.
Production(s) ==
  Amounts(55 * s.buildings["timber"], 50 * s.buildings["claypit"],
          46 * s.buildings["quarry"], 13 * s.buildings["goldmine"])

Elapsed(s) == Least(OfflineLimit, AtLeastZero(now - s.last))

\* Faulty variant: the time of the settlement is not noted.
FaultySettle(s) ==
  [s EXCEPT !.unclaimed =
     [r \in Resource |->
        Least(Capacity(s), s.unclaimed[r] + Production(s)[r] * Elapsed(s))]]

\* settle
Settle(s) ==
  [s EXCEPT !.unclaimed =
     [r \in Resource |->
        Least(Capacity(s), s.unclaimed[r] + Production(s)[r] * Elapsed(s))],
     !.last = now]

CanPay(s, cost) == \A r \in Resource : s.resources[r] >= cost[r]
Pay(s, cost) == [s EXCEPT !.resources = [r \in Resource |-> s.resources[r] - cost[r]]]

Available(s, army) == \A u \in Troop : army[u] <= s.troops[u]

----------------------------------------------------------------------------
(* What is taken for granted: of the powers in prices and capacities, up to the *)
(* highest level; of what a player tries; and of saves of earlier visits.       *)

ASSUME PowersAssumption ==
  /\ MaxLevel \in Nat \ {0}
  /\ \A level \in 0 .. MaxLevel : CapacityAt(level) \in Nat
  /\ \A level \in 0 .. MaxLevel - 1 :
       /\ CapacityAt(level) <= CapacityAt(level + 1)
       /\ \A b \in Building : DemoPrice(b, level) \in [Resource -> Nat]
  /\ CapacityAt(0) = 50000

ASSUME TriedAssumption ==
  /\ TriedBuildings \subseteq Building /\ TriedTroops \subseteq Nat
  /\ TriedSwaps \subseteq [from : DOMAIN Worth, to : DOMAIN Worth, amount : Nat]
  /\ TriedArmies \subseteq [Troop -> Nat]
  /\ Delays \subseteq Int /\ MaxClock \in Nat

\* A stock is not overdrawn or over capacity, in the warehouse or in the field.
StocksFit(s) ==
  \A r \in Resource :
    /\ s.resources[r] >= 0 /\ s.resources[r] <= Capacity(s)
    /\ s.unclaimed[r] >= 0 /\ s.unclaimed[r] <= Capacity(s)

MarchersAreThere(s) == s.march # NoMarch => Available(s, s.march.army)

\* A village as a visit leaves it.
Sound(s) ==
  /\ DOMAIN s = {"resources", "unclaimed", "buildings", "troops", "fields",
                 "gatherAvailableAt", "march", "last"}
  /\ s.resources \in [Resource -> Int] /\ s.unclaimed \in [Resource -> Int]
  /\ s.buildings \in [Building -> 0 .. MaxLevel]
  /\ s.troops \in [Troop -> Nat]
  /\ s.fields \in [Target -> [Resource -> Nat]]
  /\ s.march = NoMarch \/ s.march \in [target : Target, army : [Troop -> Nat],
                                        arrivesAt : Int]
  /\ s.last \in Int
  /\ StocksFit(s)
  /\ MarchersAreThere(s)

ASSUME SavesAssumption == \A save \in TriedSaves : Sound(Migrated(save))

----------------------------------------------------------------------------
(* Commands. *)

DemoIsOpen(t) == game[t] # Closed

DemoInit ==
  /\ game = [t \in DemoTab |-> Closed]
  /\ saved \in {Empty} \cup TriedSaves
  /\ now = 0
  /\ moves = 0

\* createRuntime loads and the first render settles.
OpenDemo(t) ==
  /\ ~ DemoIsOpen(t)
  /\ game' = [game EXCEPT ![t] = Settle(Loaded)]
  /\ UNCHANGED <<saved, now, moves>>

CloseDemo(t) ==
  /\ DemoIsOpen(t)
  /\ game' = [game EXCEPT ![t] = Closed]
  /\ UNCHANGED <<saved, now, moves>>

\* demo(): the state a command leaves is saved, and settled by the next render.
Keeps(t, s) ==
  /\ game' = [game EXCEPT ![t] = Settle(s)]
  /\ saved' = s
  /\ UNCHANGED now

Leaves(t, s) ==
  /\ moves < MaxMoves
  /\ moves' = moves + 1
  /\ Keeps(t, s)

\* The timer; and what is left of a command that settles first and is refused.
TimerSaves(t) ==
  /\ DemoIsOpen(t)
  /\ Keeps(t, Settle(game[t]))
  /\ UNCHANGED moves

\* upgradeBuilding
DemoUpgrade(t, b) ==
  LET s    == Settle(game[t])
      cost == DemoCost(s, b)
  IN  /\ s.buildings[b] < MaxLevel
      /\ Meets(s, DemoRequired(b, s.buildings[b] + 1))
      /\ CanPay(s, cost)
      /\ Leaves(t, [Pay(s, cost) EXCEPT !.buildings[b] = @ + 1])

\* startGathering: what fits in the warehouse is moved.
DemoGather(t) ==
  LET s == Settle(game[t])
      collected == [r \in Resource |->
                      Least(s.unclaimed[r], AtLeastZero(Capacity(s) - s.resources[r]))]
  IN  /\ now >= game[t].gatherAvailableAt
      /\ Leaves(t, [s EXCEPT
                      !.resources = [r \in Resource |-> s.resources[r] + collected[r]],
                      !.unclaimed = [r \in Resource |-> s.unclaimed[r] - collected[r]],
                      !.gatherAvailableAt = now + CollectionCooldown])

\* ... and a refusal saves what has not been settled yet.
GatherTooEarly(t) ==
  /\ now < game[t].gatherAvailableAt
  /\ Keeps(t, game[t])
  /\ UNCHANGED moves

\* A quotient of floating point numbers, rounded down, in hundredths: one that
\* is a whole number may come out below it.
RoundedDown(n, d) ==
  {100 * (n \div d)} \cup (IF n % d = 0 THEN {100 * (n \div d - 1)} ELSE {})

\* Faulty variant: the output is not cut to what fits.
FaultyReceived(s, to, output) == output

Received(s, to, output) ==
  Least(output, AtLeastZero(Capacity(s) - s.resources[to]))

Swapped(s, from, to, amount, received) ==
  [s EXCEPT !.resources = [r \in Resource |->
     s.resources[r] + (IF r = to THEN received ELSE 0)
                    - (IF r = from THEN amount ELSE 0)]]

\* swapInternal
DemoSwap(t, from, to, amount) ==
  LET s == Settle(game[t])
  IN  /\ from # to
      /\ amount > 0
      /\ s.resources[from] >= 100 * amount
      /\ \E output \in RoundedDown(amount * Worth[from], Worth[to]) :
           /\ Received(s, to, output) # 0
           /\ Leaves(t, Swapped(s, from, to, 100 * amount, Received(s, to, output)))

\* maxTrainableAmount and validateTrainingAmount: of each resource that a troop
\* costs, how many the stock pays for; none if it is not a whole number.
Trainable(s, u, amount) ==
  /\ amount >= 1
  /\ \A r \in Resource :
       TroopCost[u][r] > 0 =>
         s.resources[r] % 100 = 0 /\ amount <= s.resources[r] \div TroopCost[u][r]

\* train and trainTroop
DemoTrain(t, u, amount) ==
  LET s    == Settle(game[t])
      cost == [r \in Resource |-> TroopCost[u][r] * amount]
  IN  /\ Trainable(game[t], u, amount)
      /\ Meets(s, TroopRequired[u])
      /\ CanPay(s, cost)
      /\ Leaves(t, [Pay(s, cost) EXCEPT !.troops[u] = @ + amount])

\* startRaidMarch: nobody leaves yet, the army is only noted.
DemoMarch(t, target, army) ==
  LET s == Settle(game[t])
  IN  /\ s.march = NoMarch
      /\ Soldiers(army) > 0
      /\ Available(s, army)
      /\ Leaves(t, [s EXCEPT !.march =
                      [target |-> target, army |-> army, arrivesAt |-> now + MarchDuration]])

\* casualties: eight in a hundred after a victory, thirty-eight after a defeat.
Casualties(army, won) ==
  [u \in Troop |-> Least(army[u], CeilOf(army[u] * (IF won THEN 8 ELSE 38), 100))]

\* loot: what the army can carry, split as the field is.
Loot(field, load) ==
  LET total == field["wood"] + field["clay"] + field["stone"] + field["gold"]
  IN  [r \in Resource |->
         IF total = 0 THEN 0 ELSE Least(field[r], (field[r] * load) \div total)]

\* sendRaid
Fought(s, target, army) ==
  LET won    == Attack(army) >= Defense[target]
      field  == s.fields[target]
      stolen == IF won THEN Loot(field, 18 * Soldiers(army)) ELSE Amounts(0, 0, 0, 0)
  IN  [s EXCEPT
         !.troops = [u \in Troop |-> s.troops[u] - Casualties(army, won)[u]],
         !.fields = [@ EXCEPT ![target] = [r \in Resource |-> field[r] - stolen[r]]],
         !.resources = [r \in Resource |->
                          Least(Capacity(s), s.resources[r] + 100 * stolen[r])]]

\* Faulty variant: the march is not struck off.
FaultyArrives(t) ==
  LET m == game[t].march
      s == Settle(game[t])
  IN  /\ m # NoMarch
      /\ now >= m.arrivesAt
      /\ Keeps(t, IF Available(s, m.army) THEN Fought(s, m.target, m.army) ELSE s)
      /\ UNCHANGED moves

\* resolveRaidMarch, by the timer: the march is over, and an army that is not
\* there any more does not fight.
DemoArrives(t) ==
  LET m == game[t].march
      s == [Settle(game[t]) EXCEPT !.march = NoMarch]
  IN  /\ m # NoMarch
      /\ now >= m.arrivesAt
      /\ Keeps(t, IF Available(s, m.army) THEN Fought(s, m.target, m.army) ELSE s)
      /\ UNCHANGED moves

\* reset
DemoReset(t) ==
  /\ DemoIsOpen(t)
  /\ game' = [game EXCEPT ![t] = Settle(NewGame)]
  /\ saved' = Empty
  /\ UNCHANGED <<now, moves>>

ClockMoves(d) ==
  /\ now + d \in 0 .. MaxClock
  /\ moves < MaxMoves
  /\ moves' = moves + 1
  /\ now' = now + d
  /\ UNCHANGED <<game, saved>>

DemoNext ==
  \/ \E t \in DemoTab :
       \/ OpenDemo(t) \/ CloseDemo(t)
       \/ /\ DemoIsOpen(t)
          /\ \/ TimerSaves(t) \/ DemoGather(t) \/ GatherTooEarly(t)
             \/ DemoArrives(t) \/ DemoReset(t)
             \/ \E b \in TriedBuildings : DemoUpgrade(t, b)
             \/ \E x \in TriedSwaps : DemoSwap(t, x.from, x.to, x.amount)
             \/ \E u \in Troop, n \in TriedTroops : DemoTrain(t, u, n)
             \/ \E target \in Target, army \in TriedArmies : DemoMarch(t, target, army)
  \/ \E d \in Delays : ClockMoves(d)

DemoSpec == DemoInit /\ [][DemoNext]_demoVars

----------------------------------------------------------------------------
(* Properties. *)

Alive == {game[t] : t \in {x \in DemoTab : DemoIsOpen(x)}} \cup ({saved} \ {Empty})

\* Whatever tabs overwrite each other: no stock is overdrawn or over capacity, in
\* the warehouse or in the field.
StocksHold == \A s \in Alive : StocksFit(s)

\* An army on the march is not taken out of the troops, and yet it is there when
\* it arrives: no march ends without its battle.
MarchersStay == \A s \in Alive : MarchersAreThere(s)

\* Whatever the tabs overwrite: every village, in memory or saved, has stocks that fit
\* and an army where its march says it is.
VillagesHold == StocksHold /\ MarchersStay

\* What the three exchangeable resources are worth, in stock, field and the
\* fields of all targets.
Wealth(s) ==
  LET of(r) == s.resources[r] + s.unclaimed[r]
               + 100 * (s.fields["river"][r] + s.fields["ash"][r] + s.fields["iron"][r])
  IN  20 * of("wood") + 22 * of("clay") + 25 * of("stone")

\* ... and with what production has added since the last settlement.
Due(s) ==
  LET p == Production(s)
  IN  Wealth(s) + (20 * p["wood"] + 22 * p["clay"] + 25 * p["stone"]) * Elapsed(s)

\* No command and no timer creates wealth: they move it, spend it or lose it, as
\* amounts are exchanged, rounded, looted and cut to what fits.  Only the clock
\* adds to it, and what a second has added is not added by the next command again.
NothingConjured ==
  [][\A t \in DemoTab :
       DemoIsOpen(t) /\ DemoIsOpen(t)' /\ saved' # Empty /\ UNCHANGED now =>
         Due(game[t])' <= Due(game[t])]_demoVars
=============================================================================
