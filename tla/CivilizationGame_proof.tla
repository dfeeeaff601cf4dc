------------------------ MODULE CivilizationGame_proof ------------------------
(***************************************************************************)
(* Proofs about CivilizationGame for every number of wallets and every     *)
(* value of the game's constants.  The inductive invariant IInv adds to    *)
(* the types, for every village, the storage bounds, the slot bound and    *)
(* the level bound.  The last is what keeps levels inside the cost and     *)
(* capacity curves: upgrade compares the current level, so only the jobs   *)
(* under way together with the level give a bound that a completion        *)
(* preserves.                                                              *)
(*                                                                         *)
(* The first half of the module shows that each rule of CivilizationRules  *)
(* maps villages that satisfy VillageOK to villages that satisfy it, the   *)
(* second half that each action preserves IInv.  The sections after that   *)
(* build on IInv: the ledger's sum (LedgerSums), settlements composed by   *)
(* carrying remainders (DivisionCarried, ProducedCarried), what each step  *)
(* does to a village's time, jobs and troops (StepEffect), the market's    *)
(* worth under a trade (FeeIsKept), the goods of all villages and of the   *)
(* market together (OneVillageGains, RaidGains), and what the page makes   *)
(* of a village between two reads (GrowthIsProduction, CollectAccepted,    *)
(* UpgradeIsAccepted).                                                     *)
(***************************************************************************)
EXTENDS VillageProjection, SumTheorems

Fits(p) ==
  /\ \A r \in Primary : p.stored[r] <= StorageOf(p)
  /\ \A r \in Resource : p.field[r] <= StorageOf(p)

QueueOK(p) ==
  /\ ActiveJobs(p) <= SlotCapacity(p.level["workshop"])
  /\ \A b \in Building : p.level[b] + JobsFor(p, b) <= TopLevel

VillageOK(p) == p \in Village /\ Fits(p) /\ QueueOK(p)

VillagesOK == village \in [Account -> Village] /\ \A a \in Account : VillageOK(village[a])

IInv == TypeOK /\ VillagesOK

----------------------------------------------------------------------------
(* Villages keep their shape under the rules. *)

\* The derived scales are positive and every level has a capacity.
LEMMA ScaleFacts ==
  /\ FractionScale \in Nat \ {0}
  /\ TopLevel \in Nat
  /\ \A l \in Level : Capacity[l] \in Nat
BY ClockAssumption, ScaleAssumption, CurveAssumption DEF FractionScale, TopLevel, Level

\* The rate of a village depends on its levels and prestige only.
LEMMA RateTyped ==
  ASSUME NEW p \in Village, NEW r \in Resource
  PROVE  RateOf(p, r) \in Nat
<1>1. Producer[r] \in Building
  BY DEF Producer, Resource, Primary, Building
<1>2. p.level[Producer[r]] \in Nat
  BY <1>1, ScaleFacts DEF Village, Level
<1>3. Multiplier(p) \in Nat
  BY ScaleAssumption DEF Multiplier, Village
<1>4. Rate[r] \in Nat
  BY CurveAssumption
<1>5. Rate[r] * p.level[Producer[r]] \in Nat
  BY <1>2, <1>4
<1> QED
  BY <1>3, <1>5 DEF RateOf

\* One resource of _accruedField stays within the storage capacity, and the
\* retained fraction is less than one unit.
LEMMA ProducedBounded ==
  ASSUME NEW p \in Village, NEW t \in Nat, t >= p.lastAccruedAt, NEW r \in Resource,
         p.field[r] <= StorageOf(p)
  PROVE  /\ Produced(p, t, r).whole \in Nat
         /\ Produced(p, t, r).whole <= StorageOf(p)
         /\ Produced(p, t, r).fraction \in 0 .. FractionScale - 1
<1>1. RateOf(p, r) \in Nat
  BY RateTyped
<1>2. MinOf(t - p.lastAccruedAt, MaxOffline) \in Nat
  BY ClockAssumption DEF MinOf, MaxOffline, Village
<1> DEFINE units == MinOf(t - p.lastAccruedAt, MaxOffline) * RateOf(p, r) + p.remainder[r]
<1>3. units \in Nat
  <2>1. p.remainder[r] \in Nat
    BY ScaleFacts DEF Village
  <2>2. MinOf(t - p.lastAccruedAt, MaxOffline) * RateOf(p, r) \in Nat
    BY <1>1, <1>2
  <2> QED BY <2>1, <2>2
<1> HIDE DEF units
<1>4. units \div FractionScale \in Nat /\ units % FractionScale \in 0 .. FractionScale - 1
  BY <1>3, ScaleFacts
<1>5. StorageOf(p) \in Nat /\ p.field[r] \in Nat
  BY ScaleFacts DEF StorageOf, Village, Building
<1> QED
  BY <1>4, <1>5, ScaleFacts DEF Produced, units

\* Settling production touches only the field, its fractions and the accrual
\* time, and keeps the field within the storage capacity.
LEMMA AccrueKeeps ==
  ASSUME NEW p \in Village, Fits(p), NEW t \in Nat
  PROVE  LET q == AccrueUntil(p, t) IN
         /\ q \in Village
         /\ Fits(q)
         /\ q.jobs = p.jobs
         /\ q.level = p.level
<1>1. CASE t <= p.lastAccruedAt
  BY <1>1 DEF AccrueUntil
<1>2. CASE ~ t <= p.lastAccruedAt
  <2> DEFINE field == [r \in Resource |-> Produced(p, t, r).whole]
             remainder == [r \in Resource |-> Produced(p, t, r).fraction]
  <2>1. p \in Village /\ p.lastAccruedAt \in Nat /\ t > p.lastAccruedAt
    BY <1>2 DEF Village
  <2>2. \A r \in Resource : p.field[r] <= StorageOf(p)
    BY DEF Fits
  <2>3. \A r \in Resource :
          /\ Produced(p, t, r).whole \in Nat
          /\ Produced(p, t, r).whole <= StorageOf(p)
          /\ Produced(p, t, r).fraction \in 0 .. FractionScale - 1
    BY <2>1, <2>2, ProducedBounded
  <2>4. /\ field \in [Resource -> Nat]
        /\ remainder \in [Resource -> 0 .. FractionScale - 1]
        /\ \A r \in Resource : field[r] <= StorageOf(p)
    BY <2>3
  <2> HIDE DEF field, remainder
  <2> DEFINE q == [p EXCEPT !.field = field, !.remainder = remainder,
                            !.lastAccruedAt = t]
  <2>5. AccrueUntil(p, t) = q
    BY <1>2 DEF AccrueUntil, field, remainder
  <2>6. q \in Village
    BY <2>1, <2>4 DEF Village
  <2>7. /\ q.jobs = p.jobs /\ q.level = p.level /\ q.stored = p.stored
        /\ q.field = field /\ q.lastAccruedAt = t
    BY <2>1 DEF Village
  <2>8. Fits(q)
    BY <2>4, <2>7 DEF Fits, StorageOf
  <2> QED
    BY <2>5, <2>6, <2>7, <2>8
<1> QED
  BY <1>1, <1>2

\* An account that never registered and a village just founded satisfy the
\* village invariant; a founded village owns what its warehouse can hold.
LEMMA FreshVillages ==
  ASSUME NEW t \in Nat
  PROVE  VillageOK(NewVillage(t)) /\ VillageOK(NoVillage)
<1>1. 0 \in Level /\ 0 .. MaxBuildingLevel \subseteq Level /\ TopLevel = MaxBuildingLevel + 2
  BY ScaleAssumption DEF Level, TopLevel
<1>2. NoTroops \in Party /\ NoRaid \in Raid /\ NoConstruction \in Job
  BY DEF NoTroops, Party, NoRaid, Raid, NoConstruction, Job, Building
<1>3. /\ InitialLevel \in [Building -> 0 .. MaxBuildingLevel]
      /\ InitialStock \in Nat
      /\ InitialStock <= Capacity[InitialLevel["warehouse"]]
  BY NewVillageAssumption
<1>4. 0 \in 0 .. FractionScale - 1
  BY ScaleFacts
<1>5. \A u \in Nat : NewVillage(u) \in Village
  BY <1>1, <1>2, <1>3, <1>4 DEF NewVillage, Village
<1>6. NoVillage \in Village
  <2>1. NewVillage(0) \in Village
    BY <1>5
  <2>2. [r \in Primary |-> 0] \in [Primary -> Nat] /\ [b \in Building |-> 0] \in [Building -> Level]
    BY <1>1
  <2> QED
    BY <2>1, <2>2 DEF NoVillage, Village
<1>7. "warehouse" \in Building /\ "workshop" \in Building
  BY DEF Building
<1>8. Fits(NewVillage(t))
  <2>1. Capacity[InitialLevel["warehouse"]] \in Nat
    BY <1>1, <1>3, <1>7, ScaleFacts
  <2> QED
    BY <1>3, <2>1 DEF Fits, NewVillage, StorageOf
<1>9. QueueOK(NewVillage(t))
  <2>1. /\ NewVillage(t).level = InitialLevel
        /\ NewVillage(t).jobs = [s \in Slot |-> NoConstruction]
    BY DEF NewVillage
  <2>2. \A b \in Building : InitialLevel[b] \in Nat /\ InitialLevel[b] <= TopLevel
    BY <1>1, <1>3, ScaleAssumption
  <2> QED
    BY <1>7, <2>1, <2>2, ScaleAssumption
    DEF QueueOK, ActiveJobs, JobsFor, Bit, SlotCapacity, NoConstruction, Slot
<1>10. Fits(NoVillage) /\ QueueOK(NoVillage)
  <2>1. /\ NoVillage.stored = [r \in Primary |-> 0]
        /\ NoVillage.field = [r \in Resource |-> 0]
        /\ NoVillage.level = [b \in Building |-> 0]
        /\ NoVillage.jobs = [s \in Slot |-> NoConstruction]
    BY DEF NoVillage, NewVillage
  <2>2. Capacity[0] \in Nat
    BY <1>1, ScaleFacts
  <2>3. Fits(NoVillage)
    BY <1>7, <2>1, <2>2 DEF Fits, StorageOf
  <2>4. QueueOK(NoVillage)
    BY <1>1, <1>7, <2>1, ScaleAssumption
    DEF QueueOK, ActiveJobs, JobsFor, Bit, SlotCapacity, NoConstruction, Slot
  <2> QED
    BY <2>3, <2>4
<1> QED
  BY <1>5, <1>6, <1>8, <1>9, <1>10 DEF VillageOK

\* Settling a village keeps its invariant: jobs and levels are untouched.
LEMMA SettleKeeps ==
  ASSUME NEW p, VillageOK(p), NEW t \in Nat
  PROVE  /\ VillageOK(AccrueUntil(p, t))
         /\ AccrueUntil(p, t).jobs = p.jobs
         /\ AccrueUntil(p, t).level = p.level
<1> DEFINE q == AccrueUntil(p, t)
<1>1. q \in Village /\ Fits(q) /\ q.jobs = p.jobs /\ q.level = p.level
  BY AccrueKeeps DEF VillageOK
<1> HIDE DEF q
<1>2. QueueOK(q)
  BY <1>1 DEF VillageOK, QueueOK, ActiveJobs, JobsFor
<1> QED
  BY <1>1, <1>2 DEF VillageOK, q

Raised(p, s) == [p EXCEPT !.level[p.jobs[s].building] = @ + 1]

\* Raising the building of a pending job keeps the level in range, because the
\* level bound already counted the job, and keeps the storage bounds, because
\* capacity does not shrink with the level.  Once the slot is free the queue
\* bounds hold for the new level.
LEMMA RaiseKeeps ==
  ASSUME NEW p, VillageOK(p), NEW s \in Slot, p.jobs[s].pending
  PROVE  /\ Raised(p, s) \in Village
         /\ Fits(Raised(p, s))
         /\ Raised(p, s).jobs = p.jobs
         /\ \A w : /\ w.level = Raised(p, s).level
                   /\ w.jobs = [p.jobs EXCEPT ![s] = NoConstruction]
                   => QueueOK(w)
<1> DEFINE b     == p.jobs[s].building
           level == [p.level EXCEPT ![b] = @ + 1]
           jobs  == [p.jobs EXCEPT ![s] = NoConstruction]
           q     == [p EXCEPT !.level = level]
<1>1. /\ p \in Village /\ p.level \in [Building -> Level] /\ p.jobs \in [Slot -> Job]
      /\ b \in Building
  BY DEF VillageOK, Village, Job
<1>2. p.level[b] + JobsFor(p, b) <= TopLevel
  BY <1>1 DEF VillageOK, QueueOK
<1>3. JobsFor(p, b) \in Nat /\ JobsFor(p, b) >= 1
  BY <1>1 DEF JobsFor, Bit, Slot, Job
<1>4. level \in [Building -> Level] /\ level[b] = p.level[b] + 1
  BY <1>1, <1>2, <1>3, ScaleFacts DEF Level
<1>5. jobs \in [Slot -> Job]
  BY <1>1 DEF Job, NoConstruction, Building
<1>6. q \in Village
  BY <1>1, <1>4 DEF Village
<1>7. q.level = level /\ q.jobs = p.jobs /\ q.stored = p.stored /\ q.field = p.field
  BY <1>1 DEF Village
<1>8. Fits(q)
  <2>1. level["warehouse"] \in Level /\ p.level["warehouse"] \in Level
    BY <1>1, <1>4 DEF Building
  <2>2. p.level["warehouse"] <= level["warehouse"]
    BY <1>1, <2>1 DEF Level, Building
  <2>3. Capacity[p.level["warehouse"]] <= Capacity[level["warehouse"]]
    BY <2>1, <2>2, CurveAssumption
  <2>4. StorageOf(p) \in Nat /\ StorageOf(q) \in Nat /\ StorageOf(p) <= StorageOf(q)
    BY <1>7, <2>1, <2>3, ScaleFacts DEF StorageOf
  <2>5. /\ \A r \in Primary : p.stored[r] \in Nat /\ p.stored[r] <= StorageOf(p)
        /\ \A r \in Resource : p.field[r] \in Nat /\ p.field[r] <= StorageOf(p)
    BY <1>1 DEF VillageOK, Fits, Village
  <2> QED
    BY <1>7, <2>4, <2>5 DEF Fits
<1>9. ASSUME NEW w, w.level = q.level, w.jobs = jobs
      PROVE  ActiveJobs(w) <= SlotCapacity(w.level["workshop"])
  <2>1. p.level["workshop"] \in Nat /\ level["workshop"] \in Nat
        /\ p.level["workshop"] <= level["workshop"]
    BY <1>1, <1>4, ScaleFacts DEF Level, Building
  <2>2. SlotCapacity(p.level["workshop"]) <= SlotCapacity(level["workshop"])
    BY <2>1, ScaleAssumption DEF SlotCapacity
  <2>3. ActiveJobs(w) <= ActiveJobs(p)
    BY <1>1, <1>5, <1>9 DEF ActiveJobs, Bit, NoConstruction, Slot, Job
  <2>4. ActiveJobs(p) <= SlotCapacity(p.level["workshop"])
    BY DEF VillageOK, QueueOK
  <2>5. ActiveJobs(p) \in Int /\ ActiveJobs(w) \in Int
    BY DEF ActiveJobs, Bit
  <2>6. SlotCapacity(p.level["workshop"]) \in Int /\ SlotCapacity(level["workshop"]) \in Int
    BY DEF SlotCapacity
  <2> QED
    BY <1>7, <1>9, <2>2, <2>3, <2>4, <2>5, <2>6
<1>10. ASSUME NEW w, w.level = q.level, w.jobs = jobs, NEW c \in Building
       PROVE  w.level[c] + JobsFor(w, c) <= TopLevel
  <2>1. p.level[c] + JobsFor(p, c) <= TopLevel
    BY DEF VillageOK, QueueOK
  <2>2. CASE c = b
    <3>1. JobsFor(w, c) = JobsFor(p, c) - 1
      BY <1>1, <1>5, <1>10, <2>2 DEF JobsFor, Bit, NoConstruction, Slot, Job
    <3> QED
      BY <1>1, <1>3, <1>4, <1>7, <1>10, <2>1, <2>2, <3>1, ScaleFacts DEF Level
  <2>3. CASE c # b
    <3>1. JobsFor(w, c) = JobsFor(p, c)
      BY <1>1, <1>5, <1>10, <2>3 DEF JobsFor, Bit, NoConstruction, Slot, Job
    <3> QED
      BY <1>1, <1>4, <1>7, <1>10, <2>1, <2>3, <3>1
  <2> QED
    BY <2>2, <2>3
<1>11. Raised(p, s) = q
  BY <1>1 DEF Raised, Village
<1> QED
  BY <1>6, <1>7, <1>8, <1>9, <1>10, <1>11 DEF QueueOK

\* _finishConstruction keeps the village invariant whenever it is called.
LEMMA FinishKeeps ==
  ASSUME NEW p, VillageOK(p), NEW s \in Slot, p.jobs[s].pending, NEW t \in Nat
  PROVE  VillageOK(Finish(p, s, t))
<1> DEFINE job       == p.jobs[s]
           cappedEnd == MinOf(t, p.lastAccruedAt + MaxOffline)
           before    == AccrueUntil(p, MinOf(cappedEnd, job.completesAt))
           raised    == [before EXCEPT !.level[job.building] = @ + 1]
           after     == AccrueUntil(raised, cappedEnd)
           last      == IF cappedEnd < t THEN t ELSE after.lastAccruedAt
           jobs      == [after.jobs EXCEPT ![s] = NoConstruction]
           q         == [after EXCEPT !.lastAccruedAt = last, !.jobs = jobs]
<1>1. p \in Village /\ p.lastAccruedAt \in Nat /\ job \in Job
  BY DEF VillageOK, Village
<1>2. cappedEnd \in Nat /\ MinOf(cappedEnd, job.completesAt) \in Nat
  BY <1>1, ClockAssumption DEF MinOf, MaxOffline, Job
<1>3. VillageOK(before) /\ before.jobs = p.jobs
  BY <1>2, SettleKeeps
<1> HIDE DEF cappedEnd, before
<1>4. /\ raised \in Village /\ Fits(raised) /\ raised.jobs = p.jobs
      /\ \A w : w.level = raised.level /\ w.jobs = [p.jobs EXCEPT ![s] = NoConstruction]
                => QueueOK(w)
  <2>1. raised = Raised(before, s) /\ before.jobs[s].pending
    BY <1>3 DEF Raised
  <2> HIDE DEF raised
  <2>2. /\ Raised(before, s) \in Village
        /\ Fits(Raised(before, s))
        /\ Raised(before, s).jobs = before.jobs
        /\ \A w : /\ w.level = Raised(before, s).level
                  /\ w.jobs = [before.jobs EXCEPT ![s] = NoConstruction]
                  => QueueOK(w)
    BY <1>3, <2>1, RaiseKeeps
  <2> QED
    BY <1>3, <2>1, <2>2
<1> HIDE DEF raised
<1>5. after \in Village /\ Fits(after) /\ after.jobs = p.jobs /\ after.level = raised.level
  BY <1>2, <1>4, AccrueKeeps
<1> HIDE DEF after
<1>6. jobs \in [Slot -> Job] /\ last \in Nat
  BY <1>1, <1>5 DEF Village, Job, NoConstruction, Building
<1>7. q \in Village
  BY <1>5, <1>6 DEF Village
<1>8. /\ q.level = after.level /\ q.jobs = [p.jobs EXCEPT ![s] = NoConstruction]
      /\ q.stored = after.stored /\ q.field = after.field
  BY <1>5 DEF Village
<1>9. Fits(q)
  BY <1>5, <1>8 DEF Fits, StorageOf
<1>10. QueueOK(q)
  BY <1>4, <1>5, <1>8
<1>11. q = Finish(p, s, t)
  BY <1>5 DEF Finish, Village, cappedEnd, before, raised, after
<1> QED
  BY <1>7, <1>9, <1>10, <1>11 DEF VillageOK

\* A change of stocks or troops that fits the storage leaves the queue alone.
LEMMA StockKeeps ==
  ASSUME NEW p, VillageOK(p), NEW q \in Village, Fits(q),
         q.level = p.level, q.jobs = p.jobs
  PROVE  VillageOK(q)
BY DEF VillageOK, QueueOK, ActiveJobs, JobsFor

\* The facts about a village that the actions compute with.
LEMMA VillageFacts ==
  ASSUME NEW p, VillageOK(p)
  PROVE  /\ p \in Village
         /\ StorageOf(p) \in Nat
         /\ p.stored \in [Primary -> Nat] /\ p.field \in [Resource -> Nat]
         /\ p.troops \in Party /\ p.raid \in Raid
         /\ p.level \in [Building -> Level] /\ p.jobs \in [Slot -> Job]
         /\ \A r \in Primary : p.stored[r] <= StorageOf(p)
         /\ \A r \in Resource : p.field[r] <= StorageOf(p)
         /\ \A r \in Primary : RoomFor(p, r) \in Nat /\ RoomFor(p, r) <= StorageOf(p) - p.stored[r]
<1>1. p \in Village
  BY DEF VillageOK
<1>2. p.level["warehouse"] \in Level
  BY <1>1 DEF Village, Building
<1>3. StorageOf(p) \in Nat
  BY <1>2, ScaleFacts DEF StorageOf
<1>4. \A r \in Primary : p.stored[r] \in Nat /\ p.stored[r] <= StorageOf(p)
  BY <1>1 DEF VillageOK, Fits, Village
<1>5. \A r \in Primary : RoomFor(p, r) \in Nat /\ RoomFor(p, r) <= StorageOf(p) - p.stored[r]
  BY <1>3, <1>4 DEF RoomFor, MaxOf
<1> QED
  BY <1>1, <1>3, <1>5 DEF VillageOK, Fits, Village

\* _loot takes no more than the field holds, brings no more than the attacker
\* can store and, over all resources, no more than the party can carry.
LEMMA LootBounded ==
  ASSUME NEW p, VillageOK(p), NEW d, VillageOK(d), NEW transport \in Nat
  PROVE  LET stolen == Loot(p, d, transport) IN
         /\ stolen \in [Resource -> Nat]
         /\ \A r \in Resource : stolen[r] <= d.field[r]
         /\ \A r \in Primary : p.stored[r] + stolen[r] <= StorageOf(p)
         /\ stolen["wood"] + stolen["clay"] + stolen["stone"] + stolen["gold"] <= transport
<1> DEFINE Taken(r, left) == MinOf(d.field[r], MinOf(left, RoomFor(p, r)))
           wood   == Taken("wood", transport)
           clay   == Taken("clay", transport - wood)
           stone  == Taken("stone", transport - wood - clay)
           coins  == MinOf(d.field["gold"], transport - wood - clay - stone)
           stolen == Loot(p, d, transport)
<1>1. \A r \in Resource : d.field[r] \in Nat
  BY VillageFacts
<1>2. \A r \in Primary : RoomFor(p, r) \in Nat /\ RoomFor(p, r) <= StorageOf(p) - p.stored[r]
  BY VillageFacts
<1>3. ASSUME NEW r \in Primary, NEW left \in Nat
      PROVE  /\ Taken(r, left) \in Nat /\ Taken(r, left) <= left
             /\ Taken(r, left) <= d.field[r] /\ Taken(r, left) <= RoomFor(p, r)
  BY <1>1, <1>2 DEF MinOf, Resource
<1> HIDE DEF Taken
<1>4. wood \in Nat /\ wood <= transport /\ wood <= d.field["wood"] /\ wood <= RoomFor(p, "wood")
  BY <1>3 DEF Primary
<1>5. /\ clay \in Nat /\ wood + clay <= transport
      /\ clay <= d.field["clay"] /\ clay <= RoomFor(p, "clay")
  <2>1. transport - wood \in Nat
    BY <1>4
  <2> QED
    BY <1>3, <1>4, <2>1 DEF Primary
<1>6. /\ stone \in Nat /\ wood + clay + stone <= transport
      /\ stone <= d.field["stone"] /\ stone <= RoomFor(p, "stone")
  <2>1. transport - wood - clay \in Nat
    BY <1>4, <1>5
  <2> QED
    BY <1>3, <1>4, <1>5, <2>1 DEF Primary
<1>7. coins \in Nat /\ wood + clay + stone + coins <= transport /\ coins <= d.field["gold"]
  BY <1>1, <1>4, <1>5, <1>6 DEF MinOf, Resource
<1>8. stolen = [wood |-> wood, clay |-> clay, stone |-> stone, gold |-> coins]
  BY DEF Loot, Taken
<1> HIDE DEF wood, clay, stone, coins
<1>9. stolen \in [Resource -> Nat]
  BY <1>4, <1>5, <1>6, <1>7, <1>8 DEF Resource, Primary
<1>10. \A r \in Resource : stolen[r] <= d.field[r]
  BY <1>4, <1>5, <1>6, <1>7, <1>8 DEF Resource, Primary
<1>11. \A r \in Primary : stolen[r] \in Nat /\ stolen[r] <= RoomFor(p, r)
  BY <1>4, <1>5, <1>6, <1>8 DEF Primary
<1>12. \A r \in Primary : p.stored[r] + stolen[r] <= StorageOf(p)
  <2>1. StorageOf(p) \in Nat /\ \A r \in Primary : p.stored[r] \in Nat
    BY VillageFacts
  <2> QED
    BY <1>2, <1>11, <2>1
<1> QED
  BY <1>4, <1>5, <1>6, <1>7, <1>8, <1>9, <1>10, <1>12

\* Casualties never exceed the troops they are taken from.
LEMMA CasualtiesBounded ==
  ASSUME NEW party \in Party, NEW won \in BOOLEAN
  PROVE  Survivors(party, won) \in Party /\ Garrison(party, won) \in Party
<1>1. \A n \in Nat : n - CeilPercent(n, 8) \in Nat /\ n - CeilPercent(n, 38) \in Nat
  BY DEF CeilPercent
<1>2. \A n \in Nat : n - (n * 6) \div 100 \in Nat
  OBVIOUS
<1>3. \A t \in Troop : party[t] \in Nat
  BY DEF Party
<1> QED
  BY <1>1, <1>2, <1>3 DEF Survivors, Garrison, Party

----------------------------------------------------------------------------
(* Steps. *)

\* Replacing one village by one that satisfies the invariant.
LEMMA OneVillage ==
  ASSUME VillagesOK, NEW a \in Account, NEW q, VillageOK(q),
         village' = [village EXCEPT ![a] = q]
  PROVE  VillagesOK'
BY DEF VillagesOK, VillageOK, Fits, QueueOK, StorageOf, ActiveJobs, JobsFor

\* The ledger's balances and supply stay natural numbers.
LEMMA LedgerTyped ==
  ASSUME TypeOK, NEW h \in Holder, NEW value \in Nat,
         \/ MintGold(h, value)
         \/ BurnGold(h, value)
         \/ \E to \in Holder : TransferGold(h, to, value)
  PROVE  gold' \in [Holder -> Nat] /\ totalSupply' \in Nat
<1>1. gold \in [Holder -> Nat] /\ totalSupply \in Nat
  BY DEF TypeOK
<1>2. CASE MintGold(h, value)
  BY <1>1, <1>2 DEF MintGold
<1>3. CASE BurnGold(h, value)
  BY <1>1, <1>3 DEF BurnGold
<1>4. ASSUME NEW to \in Holder, TransferGold(h, to, value)
      PROVE  gold' \in [Holder -> Nat] /\ totalSupply' \in Nat
  BY <1>1, <1>4 DEF TransferGold
<1> QED
  BY <1>2, <1>3, <1>4

\* A settled village of the state satisfies the invariant.
LEMMA SettledOK ==
  ASSUME IInv, NEW a \in Account
  PROVE  /\ VillageOK(Settled(a))
         /\ Settled(a).jobs = village[a].jobs
         /\ Settled(a).level = village[a].level
<1>1. VillageOK(village[a]) /\ now \in Nat
  BY DEF IInv, VillagesOK, TypeOK
<1> QED
  BY <1>1, SettleKeeps DEF Settled

\* A step that changes one village, keeps it well formed and leaves the rest
\* of the state to well-typed values preserves the invariant.
LEMMA VillageStepKeeps ==
  ASSUME IInv, NEW a \in Account, NEW q, VillageOK(q),
         village' = [village EXCEPT ![a] = q],
         gold' \in [Holder -> Nat], totalSupply' \in Nat,
         UNCHANGED <<now, allowance, price, distributor>>,
         nullifierOwner' \in [Nullifier -> Account \cup {NoAccount}],
         inventory' \in [Primary -> Nat]
  PROVE  IInv'
<1>1. VillagesOK'
  BY OneVillage DEF IInv
<1>2. TypeOK'
  BY <1>1 DEF IInv, TypeOK, VillagesOK
<1> QED
  BY <1>1, <1>2 DEF IInv

\* registerWallet and registerWorldId found a village.
LEMMA RegisterKeeps ==
  ASSUME IInv, NEW a \in Account,
         RegisterWallet(a) \/ \E n \in Nullifier : RegisterWorldId(a, n)
  PROVE  IInv'
<1>1. VillageOK(NewVillage(now))
  BY FreshVillages DEF IInv, TypeOK
<1>2. village' = [village EXCEPT ![a] = NewVillage(now)]
  BY DEF RegisterWallet, RegisterWorldId
<1>3. /\ gold' \in [Holder -> Nat] /\ totalSupply' \in Nat
      /\ UNCHANGED <<now, allowance, price, distributor>>
      /\ nullifierOwner' \in [Nullifier -> Account \cup {NoAccount}]
      /\ inventory' \in [Primary -> Nat]
  BY DEF IInv, TypeOK, RegisterWallet, RegisterWorldId, ledger, market
<1> HIDE DEF IInv
<1> QED
  BY <1>1, <1>2, <1>3, VillageStepKeeps

\* claim moves no more into storage than there is room for.
LEMMA ClaimKeeps ==
  ASSUME IInv, NEW a \in Account, Claim(a)
  PROVE  IInv'
<1> DEFINE p       == Settled(a)
           claimed == [r \in Primary |-> MinOf(p.field[r], RoomFor(p, r))]
           stored  == [r \in Primary |-> p.stored[r] + claimed[r]]
           field   == [r \in Resource |-> IF r = "gold" THEN 0 ELSE p.field[r] - claimed[r]]
           q       == [p EXCEPT !.stored = stored, !.field = field, !.lastClaimedAt = now]
<1>1. VillageOK(p)
  BY SettledOK
<1> HIDE DEF p
<1>2. now \in Nat /\ GoldUnit \in Nat
  BY ScaleAssumption DEF IInv, TypeOK
<1>3. \A r \in Primary :
        /\ claimed[r] \in Nat /\ claimed[r] <= p.field[r]
        /\ p.stored[r] + claimed[r] <= StorageOf(p)
  BY <1>1, VillageFacts DEF MinOf, Resource
<1> HIDE DEF claimed
<1>4. stored \in [Primary -> Nat] /\ \A r \in Primary : stored[r] <= StorageOf(p)
  BY <1>1, <1>3, VillageFacts
<1>5. field \in [Resource -> Nat] /\ \A r \in Resource : field[r] <= StorageOf(p)
  BY <1>1, <1>3, VillageFacts DEF Resource
<1> HIDE DEF stored, field
<1>6. q \in Village /\ q.stored = stored /\ q.field = field /\ q.level = p.level /\ q.jobs = p.jobs
  <2>1. p \in Village
    BY <1>1 DEF VillageOK
  <2> QED
    BY <1>2, <1>4, <1>5, <2>1 DEF Village
<1>7. VillageOK(q)
  BY <1>1, <1>4, <1>5, <1>6, StockKeeps DEF Fits, StorageOf
<1>8. village' = [village EXCEPT ![a] = q] /\ MintGold(a, p.field["gold"] * GoldUnit)
  BY DEF Claim, q, p, stored, field, claimed
<1>9. p.field["gold"] * GoldUnit \in Nat
  BY <1>1, <1>2, VillageFacts DEF Resource
<1>10. gold' \in [Holder -> Nat] /\ totalSupply' \in Nat
  BY <1>8, <1>9, LedgerTyped DEF IInv, Holder
<1>11. /\ UNCHANGED <<now, allowance, price, distributor>>
       /\ nullifierOwner' \in [Nullifier -> Account \cup {NoAccount}]
       /\ inventory' \in [Primary -> Nat]
  BY DEF Claim, IInv, TypeOK, market
<1> HIDE DEF q
<1> QED
  BY <1>7, <1>8, <1>10, <1>11, VillageStepKeeps

\* _spend never takes more than is stored.
LEMMA SpendBounded ==
  ASSUME NEW p, VillageOK(p), NEW cost \in Price, CanSpend(p, cost)
  PROVE  /\ StoredAfter(p, cost) \in [Primary -> Nat]
         /\ \A r \in Primary : StoredAfter(p, cost)[r] <= StorageOf(p)
         /\ cost["gold"] * GoldUnit \in Nat
<1>1. /\ p.stored \in [Primary -> Nat] /\ StorageOf(p) \in Nat
      /\ \A r \in Primary : p.stored[r] <= StorageOf(p)
  BY VillageFacts
<1>2. \A r \in Resource : cost[r] \in Nat
  BY DEF Price
<1>3. \A r \in Primary : p.stored[r] >= cost[r] /\ cost[r] \in Nat
  BY <1>2 DEF CanSpend, Resource
<1>4. cost["gold"] \in Nat /\ GoldUnit \in Nat
  BY <1>2, ScaleAssumption DEF Resource
<1> QED
  BY <1>1, <1>3, <1>4 DEF StoredAfter

\* upgrade fills a free slot below the workshop's capacity for a building below
\* the maximum level: three jobs can then end at most two levels above it.
LEMMA UpgradeKeeps ==
  ASSUME IInv, NEW a \in Account, NEW b \in Building, Upgrade(a, b)
  PROVE  IInv'
<1> DEFINE p      == Settled(a)
           cost   == BuildingCost[b][p.level[b]]
           stored == StoredAfter(p, cost)
<1>1. VillageOK(p) /\ p \in Village
  BY SettledOK DEF VillageOK
<1> HIDE DEF p
<1>2. /\ p.level \in [Building -> Level] /\ p.jobs \in [Slot -> Job]
      /\ p.level[b] \in Nat /\ p.level[b] < MaxBuildingLevel
      /\ now \in Nat /\ MaxBuildingLevel \in Nat
  BY <1>1, ScaleAssumption, ScaleFacts
  DEF Village, Level, Upgrade, BelowMaximum, p, IInv, TypeOK
<1>3. cost \in Price /\ CanSpend(p, cost)
  BY <1>2, CurveAssumption DEF Upgrade, p
<1> HIDE DEF cost
<1>4. /\ stored \in [Primary -> Nat]
      /\ \A r \in Primary : stored[r] <= StorageOf(p)
      /\ cost["gold"] * GoldUnit \in Nat
  BY <1>1, <1>3, SpendBounded
<1> HIDE DEF stored
<1>5. PICK s \in Slot :
        /\ IsNextSlot(p, s)
        /\ village' = [village EXCEPT ![a] =
             [p EXCEPT !.stored  = stored,
                       !.jobs[s] = [pending     |-> TRUE,
                                    building    |-> b,
                                    completesAt |-> now + BuildDuration[p.level[b] + 1]]]]
  BY DEF Upgrade, p, cost, stored
<1> DEFINE job  == [pending |-> TRUE, building |-> b,
                    completesAt |-> now + BuildDuration[p.level[b] + 1]]
           jobs == [p.jobs EXCEPT ![s] = job]
           q    == [p EXCEPT !.stored = stored, !.jobs = jobs]
<1>6. job \in Job
  <2>1. p.level[b] + 1 \in Level
    BY <1>2 DEF Level, TopLevel
  <2>2. BuildDuration[p.level[b] + 1] \in Nat
    BY <2>1, CurveAssumption
  <2> QED
    BY <1>2, <2>2 DEF Job
<1>7. ~ p.jobs[s].pending /\ jobs \in [Slot -> Job]
  BY <1>2, <1>5, <1>6 DEF IsNextSlot
<1>8. jobs[s] = job /\ \A e \in Slot : e # s => jobs[e] = p.jobs[e]
  BY <1>2
<1>9. job.pending /\ job.building = b
  OBVIOUS
<1> HIDE DEF job, jobs
<1>10. q \in Village
  BY <1>1, <1>4, <1>7 DEF Village
<1>11. q.stored = stored /\ q.jobs = jobs /\ q.level = p.level /\ q.field = p.field
  BY <1>1 DEF Village
<1>12. Fits(q)
  BY <1>1, <1>4, <1>11 DEF VillageOK, Fits, StorageOf
<1>13. QueueOK(q)
  <2>1. ActiveJobs(q) = ActiveJobs(p) + 1
    BY <1>7, <1>8, <1>9, <1>11 DEF ActiveJobs, Bit, Slot
  <2>2. ActiveJobs(p) < SlotCapacity(p.level["workshop"])
    BY DEF Upgrade, p
  <2>3. ActiveJobs(p) \in Int /\ SlotCapacity(p.level["workshop"]) \in Int
    BY DEF ActiveJobs, Bit, SlotCapacity
  <2>4. ASSUME NEW c \in Building
        PROVE  q.level[c] + JobsFor(q, c) <= TopLevel
    <3>1. CASE c = b
      <4>1. JobsFor(q, c) \in Nat /\ JobsFor(q, c) <= 3
        BY DEF JobsFor, Bit
      <4> QED
        BY <1>2, <1>11, <3>1, <4>1 DEF TopLevel
    <3>2. CASE c # b
      <4>1. JobsFor(q, c) = JobsFor(p, c)
        BY <1>7, <1>8, <1>9, <1>11, <3>2 DEF JobsFor, Bit, Slot
      <4>2. p.level[c] + JobsFor(p, c) <= TopLevel
        BY <1>1 DEF VillageOK, QueueOK
      <4> QED
        BY <1>11, <4>1, <4>2
    <3> QED
      BY <3>1, <3>2
  <2> QED
    BY <1>11, <2>1, <2>2, <2>3, <2>4 DEF QueueOK
<1>14. VillageOK(q)
  BY <1>10, <1>12, <1>13 DEF VillageOK
<1>15. village' = [village EXCEPT ![a] = q]
  BY <1>1, <1>5 DEF jobs, job, Village
<1>16. BurnGold(a, cost["gold"] * GoldUnit)
  BY DEF Upgrade, p, cost
<1>17. gold' \in [Holder -> Nat] /\ totalSupply' \in Nat
  BY <1>4, <1>16, LedgerTyped DEF IInv, Holder
<1>18. /\ UNCHANGED <<now, allowance, price, distributor>>
       /\ nullifierOwner' \in [Nullifier -> Account \cup {NoAccount}]
       /\ inventory' \in [Primary -> Nat]
  BY DEF Upgrade, IInv, TypeOK, market
<1> HIDE DEF q
<1> QED
  BY <1>14, <1>15, <1>17, <1>18, VillageStepKeeps

\* completeUpgrade
LEMMA CompleteUpgradeKeeps ==
  ASSUME IInv, NEW a \in Account, NEW s \in Slot, CompleteUpgrade(a, s)
  PROVE  IInv'
<1>1. VillageOK(Finish(village[a], s, now))
  <2>1. VillageOK(village[a]) /\ village[a].jobs[s].pending /\ now \in Nat
    BY DEF IInv, VillagesOK, TypeOK, CompleteUpgrade
  <2> QED
    BY <2>1, FinishKeeps
<1>2. village' = [village EXCEPT ![a] = Finish(village[a], s, now)]
  BY DEF CompleteUpgrade
<1>3. /\ gold' \in [Holder -> Nat] /\ totalSupply' \in Nat
      /\ UNCHANGED <<now, allowance, price, distributor>>
      /\ nullifierOwner' \in [Nullifier -> Account \cup {NoAccount}]
      /\ inventory' \in [Primary -> Nat]
  BY DEF IInv, TypeOK, CompleteUpgrade, ledger, market
<1> QED
  BY <1>1, <1>2, <1>3, VillageStepKeeps

\* boostConstruction brings the completion forward, but not before now.
LEMMA BoostKeeps ==
  ASSUME IInv, NEW a \in Account, NEW s \in Slot, NEW hours \in TriedHours,
         BoostConstruction(a, s, hours)
  PROVE  IInv'
<1> DEFINE p    == village[a]
           till == p.jobs[s].completesAt - hours * BoostDuration
           jobs == [p.jobs EXCEPT ![s] = [p.jobs[s] EXCEPT !.completesAt = till]]
           q    == [p EXCEPT !.jobs = jobs]
<1>1. VillageOK(p) /\ p \in Village /\ p.jobs \in [Slot -> Job] /\ now \in Nat
  BY DEF IInv, VillagesOK, VillageOK, Village, TypeOK
<1>2. till \in Nat
  <2>1. hours * BoostDuration \in Nat
    BY InputAssumption, ClockAssumption
  <2>2. p.jobs[s].completesAt \in Nat
    BY <1>1 DEF Job
  <2> QED
    BY <1>1, <2>1, <2>2 DEF BoostConstruction
<1>3. village' = [village EXCEPT ![a] = q]
  BY <1>1 DEF BoostConstruction, IInv, TypeOK, Village
<1> HIDE DEF till, p
<1>4. jobs \in [Slot -> Job]
  BY <1>1, <1>2 DEF Job
<1>5. \A e \in Slot : jobs[e].pending = p.jobs[e].pending /\ jobs[e].building = p.jobs[e].building
  BY <1>1 DEF Job
<1> HIDE DEF jobs
<1>6. q \in Village
  BY <1>1, <1>4 DEF Village
<1>7. q.jobs = jobs /\ q.level = p.level /\ q.stored = p.stored /\ q.field = p.field
  BY <1>1 DEF Village
<1> HIDE DEF q
<1>8. ActiveJobs(q) = ActiveJobs(p) /\ \A b \in Building : JobsFor(q, b) = JobsFor(p, b)
  BY <1>5, <1>7 DEF ActiveJobs, JobsFor, Slot
<1>9. VillageOK(q)
  BY <1>1, <1>6, <1>7, <1>8 DEF VillageOK, Fits, StorageOf, QueueOK
<1>10. /\ gold' \in [Holder -> Nat] /\ totalSupply' \in Nat
       /\ UNCHANGED <<now, allowance, price, distributor>>
       /\ nullifierOwner' \in [Nullifier -> Account \cup {NoAccount}]
       /\ inventory' \in [Primary -> Nat]
  BY DEF IInv, TypeOK, BoostConstruction, ledger, market
<1> QED
  BY <1>3, <1>9, <1>10, VillageStepKeeps

\* train pays from storage and adds to the garrison.
LEMMA TrainKeeps ==
  ASSUME IInv, NEW a \in Account, NEW o \in TriedTraining, Train(a, o.troop, o.amount)
  PROVE  IInv'
<1> DEFINE p      == Settled(a)
           cost   == [r \in Resource |-> o.amount * TroopCost[o.troop][r]]
           stored == StoredAfter(p, cost)
           troops == [p.troops EXCEPT ![o.troop] = @ + o.amount]
           q      == [p EXCEPT !.stored = stored, !.troops = troops]
<1>1. VillageOK(p) /\ p \in Village /\ p.troops \in Party
  BY SettledOK DEF VillageOK, Village
<1> HIDE DEF p
<1>2. o.troop \in Troop /\ o.amount \in Nat
  BY InputAssumption
<1>3. cost \in Price
  <2>1. \A r \in Resource : TroopCost[o.troop][r] \in Nat
    BY <1>2, CurveAssumption DEF Price
  <2> QED
    BY <1>2, <2>1 DEF Price
<1>4. CanSpend(p, cost)
  BY DEF Train, p
<1> HIDE DEF cost
<1>5. /\ stored \in [Primary -> Nat]
      /\ \A r \in Primary : stored[r] <= StorageOf(p)
      /\ cost["gold"] * GoldUnit \in Nat
  BY <1>1, <1>3, <1>4, SpendBounded
<1>6. troops \in Party
  BY <1>1, <1>2 DEF Party
<1>7. village' = [village EXCEPT ![a] = q] /\ BurnGold(a, cost["gold"] * GoldUnit)
  BY <1>1 DEF Train, p, cost, Village
<1> HIDE DEF stored, troops
<1>8. q \in Village
  BY <1>1, <1>5, <1>6 DEF Village
<1>9. q.stored = stored /\ q.field = p.field /\ q.level = p.level /\ q.jobs = p.jobs
  BY <1>1 DEF Village
<1> HIDE DEF q
<1>10. Fits(q)
  BY <1>1, <1>5, <1>9 DEF VillageOK, Fits, StorageOf
<1>11. VillageOK(q)
  BY <1>1, <1>8, <1>9, <1>10, StockKeeps
<1>12. gold' \in [Holder -> Nat] /\ totalSupply' \in Nat
  BY <1>5, <1>7, LedgerTyped DEF IInv, Holder
<1>13. /\ UNCHANGED <<now, allowance, price, distributor>>
       /\ nullifierOwner' \in [Nullifier -> Account \cup {NoAccount}]
       /\ inventory' \in [Primary -> Nat]
  BY DEF Train, IInv, TypeOK, market
<1> QED
  BY <1>7, <1>11, <1>12, <1>13, VillageStepKeeps

\* startRaid sends at most the troops that are at home.
LEMMA StartRaidKeeps ==
  ASSUME IInv, NEW a \in Account, NEW d \in Account, NEW party \in TriedParties,
         StartRaid(a, d, party)
  PROVE  IInv'
<1> DEFINE p      == Settled(a)
           troops == [t \in Troop |-> p.troops[t] - party[t]]
           raid   == [defender |-> d, arrivesAt |-> now + RaidMarch, party |-> party]
           q      == [p EXCEPT !.troops = troops, !.raid = raid]
<1>1. VillageOK(p) /\ p \in Village /\ p.troops \in Party
  BY SettledOK DEF VillageOK, Village
<1>2. \A t \in Troop : party[t] <= p.troops[t]
  BY DEF StartRaid
<1>3. village' = [village EXCEPT ![a] = q]
  BY DEF StartRaid
<1> HIDE DEF p
<1>4. party \in Party
  BY InputAssumption DEF Party
<1>5. troops \in Party
  BY <1>1, <1>2, <1>4 DEF Party
<1>6. raid \in Raid
  BY <1>4, ClockAssumption DEF Raid, IInv, TypeOK
<1> HIDE DEF troops, raid
<1>7. q \in Village
  BY <1>1, <1>5, <1>6 DEF Village
<1>8. q.stored = p.stored /\ q.field = p.field /\ q.level = p.level /\ q.jobs = p.jobs
  BY <1>1 DEF Village
<1> HIDE DEF q
<1>9. Fits(q)
  BY <1>1, <1>8 DEF VillageOK, Fits, StorageOf
<1>10. VillageOK(q)
  BY <1>1, <1>7, <1>8, <1>9, StockKeeps
<1>11. /\ gold' \in [Holder -> Nat] /\ totalSupply' \in Nat
       /\ UNCHANGED <<now, allowance, price, distributor>>
       /\ nullifierOwner' \in [Nullifier -> Account \cup {NoAccount}]
       /\ inventory' \in [Primary -> Nat]
  BY DEF IInv, TypeOK, StartRaid, ledger, market
<1> QED
  BY <1>3, <1>10, <1>11, VillageStepKeeps

\* resolveRaid changes two villages: casualties never exceed the troops, the
\* attacker has room for what is taken and the defender had it in the field.
LEMMA ResolveRaidKeeps ==
  ASSUME IInv, NEW a \in Account, ResolveRaid(a)
  PROVE  IInv'
<1> DEFINE raid   == village[a].raid
           d      == raid.defender
           p      == Settled(a)
           q      == Settled(d)
           won    == Power(raid.party) >= Defense(q)
           home   == Survivors(raid.party, won)
           stolen == IF won THEN Loot(p, q, Headcount(raid.party) * 18) ELSE NoLoot
           troops == [t \in Troop |-> p.troops[t] + home[t]]
           stored == [r \in Primary |-> p.stored[r] + stolen[r]]
           field  == [r \in Resource |-> q.field[r] - stolen[r]]
           guard  == Garrison(q.troops, won)
           winner == [p EXCEPT !.troops = troops, !.raid = NoRaid, !.stored = stored]
           victim == [Plundered(q, stolen) EXCEPT !.troops = guard]
<1>1. raid \in Raid /\ d \in Account
  BY DEF IInv, TypeOK, Village, Raid, ResolveRaid
<1>2. /\ village' = [village EXCEPT ![a] = winner, ![d] = victim]
      /\ MintGold(a, stolen["gold"] * GoldUnit)
      /\ UNCHANGED <<now, allowance, nullifierOwner, market>>
  BY DEF ResolveRaid
<1>3. VillageOK(p) /\ p \in Village /\ p.troops \in Party
  BY SettledOK DEF VillageOK, Village
<1>4. VillageOK(q) /\ q \in Village /\ q.troops \in Party
  BY <1>1, SettledOK DEF VillageOK, Village
<1>5. raid.party \in Party /\ Headcount(raid.party) * 18 \in Nat
  BY <1>1 DEF Raid, Headcount, Party, Troop
<1>6. won \in BOOLEAN
  OBVIOUS
<1> HIDE DEF raid, d, p, q, won
<1>7. home \in Party /\ guard \in Party
  BY <1>4, <1>5, <1>6, CasualtiesBounded
<1>8. /\ stolen \in [Resource -> Nat]
      /\ \A r \in Resource : stolen[r] <= q.field[r]
      /\ \A r \in Primary : p.stored[r] + stolen[r] <= StorageOf(p)
  <2>1. CASE won
    BY <1>3, <1>4, <1>5, <2>1, LootBounded
  <2>2. CASE ~ won
    <3>1. \A r \in Resource : q.field[r] \in Nat
      BY <1>4, VillageFacts
    <3>2. \A r \in Primary : p.stored[r] \in Nat /\ p.stored[r] <= StorageOf(p)
      BY <1>3, VillageFacts
    <3> QED
      BY <2>2, <3>1, <3>2 DEF NoLoot, Resource
  <2> QED
    BY <2>1, <2>2
<1> HIDE DEF home, stolen, guard
<1>9. troops \in Party
  BY <1>3, <1>7 DEF Party
<1>10. stored \in [Primary -> Nat] /\ \A r \in Primary : stored[r] <= StorageOf(p)
  BY <1>3, <1>8, VillageFacts DEF Resource
<1>11. field \in [Resource -> Nat] /\ \A r \in Resource : field[r] <= StorageOf(q)
  <2>1. StorageOf(q) \in Nat /\ \A r \in Resource : q.field[r] \in Nat /\ q.field[r] <= StorageOf(q)
    BY <1>4, VillageFacts
  <2> QED
    BY <1>8, <2>1
<1>12. VillageOK(winner)
  <2> HIDE DEF troops, stored
  <2>1. NoRaid \in Raid
    BY DEF NoRaid, Raid, NoTroops, Party
  <2>2. winner \in Village
    BY <1>3, <1>9, <1>10, <2>1 DEF Village
  <2>3. winner.stored = stored /\ winner.field = p.field /\ winner.level = p.level /\ winner.jobs = p.jobs
    BY <1>3 DEF Village
  <2> HIDE DEF winner
  <2>4. Fits(winner)
    BY <1>3, <1>10, <2>3 DEF VillageOK, Fits, StorageOf
  <2> QED
    BY <1>3, <2>2, <2>3, <2>4, StockKeeps
<1>13. VillageOK(victim)
  <2>1. victim = [q EXCEPT !.field = field, !.troops = guard]
    BY DEF Plundered
  <2> HIDE DEF field, victim
  <2>2. victim \in Village
    BY <1>4, <1>7, <1>11, <2>1 DEF Village
  <2>3. victim.stored = q.stored /\ victim.field = field /\ victim.level = q.level /\ victim.jobs = q.jobs
    BY <1>4, <2>1 DEF Village
  <2>4. Fits(victim)
    BY <1>4, <1>11, <2>3 DEF VillageOK, Fits, StorageOf
  <2> QED
    BY <1>4, <2>2, <2>3, <2>4, StockKeeps
<1> HIDE DEF winner, victim
<1>14. village' \in [Account -> Village] /\ \A x \in Account : VillageOK(village'[x])
  BY <1>1, <1>2, <1>12, <1>13 DEF IInv, VillagesOK, VillageOK
<1>15. VillagesOK'
  BY <1>14 DEF VillagesOK, VillageOK, Fits, QueueOK, StorageOf, ActiveJobs, JobsFor
<1>16. gold' \in [Holder -> Nat] /\ totalSupply' \in Nat
  <2>1. stolen["gold"] * GoldUnit \in Nat
    BY <1>8, ScaleAssumption DEF Resource
  <2> QED
    BY <1>2, <2>1, LedgerTyped DEF IInv, Holder
<1>17. TypeOK'
  BY <1>2, <1>14, <1>16 DEF IInv, TypeOK, market
<1> QED
  BY <1>15, <1>17 DEF IInv

\* prestige founds the village anew: no job may be pending, so that the initial
\* workshop and the initial levels satisfy the queue bounds.
LEMMA PrestigeKeeps ==
  ASSUME IInv, NEW a \in Account, Prestige(a)
  PROVE  IInv'
<1> DEFINE p    == village[a]
           n    == NewVillage(now)
           jobs == [p.jobs EXCEPT ![0] = NoConstruction]
           q    == [n EXCEPT !.prestigeCount = p.prestigeCount + 1, !.jobs = jobs]
<1>1. VillageOK(p) /\ p \in Village /\ p.jobs \in [Slot -> Job] /\ p.prestigeCount \in Nat
  BY DEF IInv, VillagesOK, VillageOK, Village
<1>2. VillageOK(n) /\ n \in Village
  BY FreshVillages DEF IInv, TypeOK, VillageOK
<1>3. n.level = InitialLevel
  BY DEF NewVillage
<1>4. village' = [village EXCEPT ![a] = q] /\ ActiveJobs(p) = 0
  BY DEF Prestige
<1>5. jobs \in [Slot -> Job]
  BY <1>1 DEF Job, NoConstruction, Building
<1>6. \A s \in Slot : ~ jobs[s].pending
  BY <1>1, <1>4 DEF ActiveJobs, Bit, Slot, NoConstruction, Job
<1> HIDE DEF p, n, jobs
<1>7. q \in Village
  <2>1. n \in Village /\ p.prestigeCount + 1 \in Nat
    BY <1>1, <1>2
  <2> QED
    BY <1>5, <2>1 DEF Village
<1>8. q.jobs = jobs /\ q.level = n.level /\ q.stored = n.stored /\ q.field = n.field
  BY <1>2 DEF Village
<1> HIDE DEF q
<1>9. Fits(q)
  BY <1>2, <1>8 DEF VillageOK, Fits, StorageOf
<1>10. QueueOK(q)
  <2>1. ActiveJobs(q) = 0 /\ \A b \in Building : JobsFor(q, b) = 0
    BY <1>6, <1>8 DEF ActiveJobs, JobsFor, Bit, Slot
  <2>2. \A b \in Building : q.level[b] \in Nat /\ q.level[b] <= TopLevel
    BY <1>3, <1>8, NewVillageAssumption, ScaleAssumption DEF TopLevel
  <2> QED
    BY <2>1, <2>2 DEF QueueOK, SlotCapacity
<1>11. VillageOK(q)
  BY <1>7, <1>9, <1>10 DEF VillageOK
<1>12. /\ gold' \in [Holder -> Nat] /\ totalSupply' \in Nat
       /\ UNCHANGED <<now, allowance, price, distributor>>
       /\ nullifierOwner' \in [Nullifier -> Account \cup {NoAccount}]
       /\ inventory' \in [Primary -> Nat]
  BY DEF IInv, TypeOK, Prestige, ledger, market
<1> QED
  BY <1>4, <1>11, <1>12, VillageStepKeeps

\* A trade exchanges protected stock, which a purchase must have room for and a
\* sale must own, for CGOLD of the reserve.
LEMMA TradeKeeps ==
  ASSUME IInv, NEW a \in Account, TradeStep(a)
  PROVE  IInv'
<1>1. PICK o \in TriedTrades, limit \in TriedLimits, deadline \in TriedDeadlines :
        \/ BuyResource(a, o.resource, o.amount, limit, deadline)
        \/ SellResource(a, o.resource, o.amount, limit, deadline)
  BY DEF TradeStep
<1> DEFINE p       == Settled(a)
           r       == o.resource
           n       == o.amount
           goldIn  == BuyGoldIn(n, price[r])
           goldOut == SellGoldOut(n, price[r])
<1>2. r \in Primary /\ n \in Nat
  BY InputAssumption
<1>3. goldIn \in Nat /\ goldOut \in Nat
  <2>1. price[r] \in Nat
    BY <1>2 DEF IInv, TypeOK
  <2>2. n * price[r] \in Nat
    BY <1>2, <2>1
  <2>3. BasisPoints + MarketFee \in Nat /\ BasisPoints - MarketFee \in Nat
        /\ BasisPoints \in Nat \ {0}
    BY ScaleAssumption
  <2>4. n * price[r] * (BasisPoints + MarketFee) \in Nat
        /\ n * price[r] * (BasisPoints - MarketFee) \in Nat
    BY <2>2, <2>3
  <2> QED
    BY <2>3, <2>4 DEF BuyGoldIn, SellGoldOut, CeilDiv
<1>4. VillageOK(p) /\ p \in Village
  BY SettledOK DEF VillageOK
<1>5. /\ p.stored \in [Primary -> Nat] /\ StorageOf(p) \in Nat
      /\ \A x \in Primary : p.stored[x] <= StorageOf(p)
      /\ RoomFor(p, r) <= StorageOf(p) - p.stored[r]
      /\ RoomFor(p, r) \in Nat
  BY <1>2, <1>4, VillageFacts
<1>6. inventory \in [Primary -> Nat] /\ gold \in [Holder -> Nat]
  BY DEF IInv, TypeOK
<1>7. ASSUME NEW stored \in [Primary -> Nat], \A x \in Primary : stored[x] <= StorageOf(p)
      PROVE  VillageOK([p EXCEPT !.stored = stored])
  <2> DEFINE q == [p EXCEPT !.stored = stored]
  <2>1. q \in Village
    BY <1>4, <1>7 DEF Village
  <2>2. q.stored = stored /\ q.field = p.field /\ q.level = p.level /\ q.jobs = p.jobs
    BY <1>4 DEF Village
  <2> HIDE DEF q
  <2>3. Fits(q)
    BY <1>4, <1>7, <2>2 DEF VillageOK, Fits, StorageOf
  <2>4. VillageOK(q)
    BY <1>4, <2>1, <2>2, <2>3, StockKeeps
  <2> QED
    BY <2>4 DEF q
<1>8. CASE BuyResource(a, r, n, limit, deadline)
  <2> DEFINE stored == [p.stored EXCEPT ![r] = @ + n]
  <2>1. /\ village' = [village EXCEPT ![a] = [p EXCEPT !.stored = stored]]
        /\ inventory' = [inventory EXCEPT ![r] = @ + (-n)]
        /\ TransferGold(a, Game, goldIn)
        /\ inventory[r] >= n /\ RoomFor(p, r) >= n
        /\ UNCHANGED <<now, allowance, nullifierOwner, price, distributor>>
    BY <1>8 DEF BuyResource, MoveInventory
  <2> HIDE DEF p, goldIn, goldOut, r, n
  <2>2. stored \in [Primary -> Nat] /\ \A x \in Primary : stored[x] <= StorageOf(p)
    BY <1>2, <1>5, <2>1
  <2> HIDE DEF stored
  <2>3. VillageOK([p EXCEPT !.stored = stored])
    BY <1>7, <2>2
  <2>4. inventory' \in [Primary -> Nat]
    BY <1>2, <1>6, <2>1
  <2>5. gold' \in [Holder -> Nat] /\ totalSupply' \in Nat
    BY <1>3, <2>1, LedgerTyped DEF IInv, Holder
  <2>6. nullifierOwner' \in [Nullifier -> Account \cup {NoAccount}]
    BY <2>1 DEF IInv, TypeOK
  <2> QED
    BY <2>1, <2>3, <2>4, <2>5, <2>6, VillageStepKeeps
<1>9. CASE SellResource(a, r, n, limit, deadline)
  <2> DEFINE stored == [p.stored EXCEPT ![r] = @ - n]
  <2>1. /\ village' = [village EXCEPT ![a] = [p EXCEPT !.stored = stored]]
        /\ inventory' = [inventory EXCEPT ![r] = @ + n]
        /\ TransferGold(Game, a, goldOut)
        /\ p.stored[r] >= n
        /\ UNCHANGED <<now, allowance, nullifierOwner, price, distributor>>
    BY <1>9 DEF SellResource, MoveInventory
  <2> HIDE DEF p, goldIn, goldOut, r, n
  <2>2. stored \in [Primary -> Nat] /\ \A x \in Primary : stored[x] <= StorageOf(p)
    BY <1>2, <1>5, <2>1
  <2> HIDE DEF stored
  <2>3. VillageOK([p EXCEPT !.stored = stored])
    BY <1>7, <2>2
  <2>4. inventory' \in [Primary -> Nat]
    BY <1>2, <1>6, <2>1
  <2>5. gold' \in [Holder -> Nat] /\ totalSupply' \in Nat
    BY <1>3, <2>1, LedgerTyped DEF IInv, Holder
  <2>6. nullifierOwner' \in [Nullifier -> Account \cup {NoAccount}]
    BY <2>1 DEF IInv, TypeOK
  <2> QED
    BY <2>1, <2>3, <2>4, <2>5, <2>6, VillageStepKeeps
<1> QED
  BY <1>1, <1>8, <1>9

\* Steps that leave every village as it is.
LEMMA OtherStepKeeps ==
  ASSUME IInv, UNCHANGED village, TypeOK'
  PROVE  IInv'
BY DEF IInv, VillagesOK, VillageOK, Fits, QueueOK, StorageOf, ActiveJobs, JobsFor

\* Token calls, rewards, governance and the clock keep the types.
LEMMA TokenKeeps ==
  ASSUME IInv, NEW a \in Account, TokenStep(a)
  PROVE  IInv'
<1>1. PICK value \in TriedAmounts :
        \/ \E to \in Holder : Transfer(a, to, value)
        \/ \E spender \in Account : Approve(a, spender, value)
        \/ \E from \in Account, to \in Holder : TransferFrom(a, from, to, value)
        \/ Burn(a, value)
  BY DEF TokenStep
<1>2. TypeOK /\ value \in Nat /\ a \in Holder
  BY InputAssumption DEF IInv, Holder
<1>3. ASSUME NEW to \in Holder, Transfer(a, to, value)
      PROVE  IInv'
  <2>1. gold' \in [Holder -> Nat] /\ totalSupply' \in Nat
    BY <1>2, <1>3, LedgerTyped DEF Transfer
  <2>2. TypeOK' /\ UNCHANGED village
    BY <1>2, <1>3, <2>1 DEF TypeOK, Transfer, market
  <2> QED
    BY <2>2, OtherStepKeeps
<1>4. ASSUME NEW spender \in Account, Approve(a, spender, value)
      PROVE  IInv'
  <2>1. allowance' \in [Account -> [Account -> Nat]]
    BY <1>2, <1>4 DEF TypeOK, Approve
  <2>2. TypeOK' /\ UNCHANGED village
    BY <1>2, <1>4, <2>1 DEF TypeOK, Approve, ledger, market
  <2> QED
    BY <2>2, OtherStepKeeps
<1>5. ASSUME NEW from \in Account, NEW to \in Holder, TransferFrom(a, from, to, value)
      PROVE  IInv'
  <2>1. gold' \in [Holder -> Nat] /\ totalSupply' \in Nat
    BY <1>2, <1>5, LedgerTyped DEF TransferFrom, Holder
  <2>2. allowance' \in [Account -> [Account -> Nat]]
    BY <1>2, <1>5 DEF TypeOK, TransferFrom
  <2>3. TypeOK' /\ UNCHANGED village
    BY <1>2, <1>5, <2>1, <2>2 DEF TypeOK, TransferFrom, market
  <2> QED
    BY <2>3, OtherStepKeeps
<1>6. CASE Burn(a, value)
  <2>1. gold' \in [Holder -> Nat] /\ totalSupply' \in Nat
    BY <1>2, <1>6, LedgerTyped DEF Burn
  <2>2. TypeOK' /\ UNCHANGED village
    BY <1>2, <1>6, <2>1 DEF TypeOK, Burn, market
  <2> QED
    BY <2>2, OtherStepKeeps
<1> QED
  BY <1>1, <1>3, <1>4, <1>5, <1>6

LEMMA GovernanceKeeps ==
  ASSUME IInv, GovernanceStep \/ RewardStep \/ \E d \in Delays : Tick(d)
  PROVE  IInv'
<1>1. TypeOK
  BY DEF IInv
<1>2. ASSUME NEW m \in TriedMarkets, ConfigureMarket(m.resource, m.price, m.inventory)
      PROVE  TypeOK' /\ UNCHANGED village
  <2>1. m.price \in Nat /\ m.inventory \in Nat
    BY InputAssumption
  <2> QED
    BY <1>1, <1>2, <2>1 DEF TypeOK, ConfigureMarket, ledger
<1>3. ASSUME NEW d \in Distributor \cup {NoAccount}, ConfigureRewardDistributor(d)
      PROVE  TypeOK' /\ UNCHANGED village
  BY <1>1, <1>3 DEF TypeOK, ConfigureRewardDistributor, ledger
<1>4. ASSUME NEW d, NEW h \in Holder, NEW value \in TriedRewards, MintReward(d, h, value)
      PROVE  TypeOK' /\ UNCHANGED village
  <2>1. value \in Nat
    BY InputAssumption
  <2>2. gold' \in [Holder -> Nat] /\ totalSupply' \in Nat
    BY <1>1, <1>4, <2>1, LedgerTyped DEF MintReward
  <2> QED
    BY <1>1, <1>4, <2>2 DEF TypeOK, MintReward, market
<1>5. ASSUME NEW d \in Delays, Tick(d)
      PROVE  TypeOK' /\ UNCHANGED village
  <2>1. now' \in Nat
    BY <1>1, <1>5, InputAssumption DEF TypeOK, Tick
  <2> QED
    BY <1>1, <1>5, <2>1 DEF TypeOK, Tick, ledger, market
<1> QED
  BY <1>2, <1>3, <1>4, <1>5, OtherStepKeeps DEF GovernanceStep, RewardStep

----------------------------------------------------------------------------
(* The invariant of the specification. *)

LEMMA InitIInv == Init => IInv
<1> SUFFICES ASSUME Init
             PROVE  IInv
  OBVIOUS
<1>1. VillageOK(NoVillage) /\ NoVillage \in Village
  BY FreshVillages DEF VillageOK
<1> QED
  BY <1>1 DEF Init, IInv, TypeOK, VillagesOK

LEMMA NextIInv == IInv /\ [Next]_vars => IInv'
<1> SUFFICES ASSUME IInv, [Next]_vars
             PROVE  IInv'
  OBVIOUS
<1>1. ASSUME NEW a \in Account, VillageStep(a)
      PROVE  IInv'
  <2>1. CASE RegisterWallet(a) \/ \E n \in Nullifier : RegisterWorldId(a, n)
    BY <2>1, RegisterKeeps
  <2>2. CASE Claim(a)
    BY <2>2, ClaimKeeps
  <2>3. CASE \E b \in TriedBuildings : Upgrade(a, b)
    BY <2>3, UpgradeKeeps, InputAssumption
  <2>4. CASE \E s \in Slot : CompleteUpgrade(a, s)
    BY <2>4, CompleteUpgradeKeeps
  <2>5. CASE \E s \in Slot, hours \in TriedHours : BoostConstruction(a, s, hours)
    BY <2>5, BoostKeeps
  <2>6. CASE \E o \in TriedTraining : Train(a, o.troop, o.amount)
    BY <2>6, TrainKeeps
  <2>7. CASE \E d \in Account, party \in TriedParties : StartRaid(a, d, party)
    BY <2>7, StartRaidKeeps
  <2>8. CASE ResolveRaid(a)
    BY <2>8, ResolveRaidKeeps
  <2>9. CASE Prestige(a)
    BY <2>9, PrestigeKeeps
  <2> QED
    BY <1>1, <2>1, <2>2, <2>3, <2>4, <2>5, <2>6, <2>7, <2>8, <2>9 DEF VillageStep
<1>2. ASSUME NEW a \in Account, TradeStep(a) \/ TokenStep(a)
      PROVE  IInv'
  BY <1>2, TradeKeeps, TokenKeeps
<1>3. CASE GovernanceStep \/ RewardStep \/ \E d \in Delays : Tick(d)
  BY <1>3, GovernanceKeeps
<1>4. CASE UNCHANGED vars
  <2>1. UNCHANGED village /\ TypeOK'
    BY <1>4 DEF vars, IInv, TypeOK
  <2> QED
    BY <2>1, OtherStepKeeps
<1> QED
  BY <1>1, <1>2, <1>3, <1>4 DEF Next

\* IInv holds in every reachable state.
THEOREM Invariance == Spec => []IInv
BY InitIInv, NextIInv, PTL DEF Spec

\* Balances, stocks, troops, fractions and levels keep their types: no
\* subtraction of the contract can underflow once its guard holds.
THEOREM TypeCorrect == Spec => []TypeOK
<1>1. IInv => TypeOK
  BY DEF IInv
<1> QED
  BY <1>1, Invariance, PTL

\* No sequence of production, claims, raids, trades, completions and prestiges
\* leaves a village with more than its warehouse holds.
THEOREM StorageSafe == Spec => []StorageWithinCapacity
<1>1. IInv => StorageWithinCapacity
  BY DEF IInv, VillagesOK, VillageOK, Fits, StorageWithinCapacity
<1> QED
  BY <1>1, Invariance, PTL

\* A village never runs more jobs than its workshop opens slots for.
THEOREM SlotsSafe == Spec => []SlotsWithinWorkshop
<1>1. IInv => SlotsWithinWorkshop
  BY DEF IInv, VillagesOK, VillageOK, QueueOK, SlotsWithinWorkshop
<1> QED
  BY <1>1, Invariance, PTL

\* Buildings overrun the maximum level by two at most.
THEOREM OverrunSafe == Spec => []OverrunBounded
<1>1. IInv => OverrunBounded
  BY DEF IInv, VillagesOK, VillageOK, QueueOK, OverrunBounded
<1> QED
  BY <1>1, Invariance, PTL

----------------------------------------------------------------------------
(* The CGOLD ledger adds up. *)

\* Changing one balance changes their sum by the difference.
LEMMA BalancesSum ==
  ASSUME NEW f \in [Holder -> Int], NEW x \in Holder, NEW v \in Int
  PROVE  SumFunction([f EXCEPT ![x] = v]) = SumFunction(f) + (v - f[x])
<1>1. IsFiniteSet(Holder)
  BY AccountAssumption, FS_AddElement DEF Holder
<1>2. SumFunction([f EXCEPT ![x] = v]) = SumFunction(f) + v - f[x]
  BY <1>1, SumUpdate
<1>3. SumFunction(f) \in Int /\ f[x] \in Int
  BY <1>1, SumInt DEF SumFunction
<1> QED
  BY <1>2, <1>3

\* A mint, a burn and a transfer, to oneself too, change the supply by as much
\* as the sum of the balances.
LEMMA LedgerSums ==
  ASSUME TypeOK, SupplyIsSumOfBalances, NEW h \in Holder, NEW value \in Nat,
         \/ MintGold(h, value)
         \/ BurnGold(h, value)
         \/ \E to \in Holder : TransferGold(h, to, value)
  PROVE  SupplyIsSumOfBalances'
<1>1. gold \in [Holder -> Int] /\ totalSupply \in Int /\ gold[h] \in Int
  BY DEF TypeOK
<1>2. totalSupply = SumFunction(gold)
  BY DEF SupplyIsSumOfBalances
<1>3. CASE MintGold(h, value)
  <2>1. gold' = [gold EXCEPT ![h] = gold[h] + value] /\ gold[h] + value \in Int
    BY <1>1, <1>3 DEF MintGold
  <2>2. SumFunction(gold') = SumFunction(gold) + ((gold[h] + value) - gold[h])
    BY <1>1, <2>1, BalancesSum
  <2> QED
    BY <1>1, <1>2, <1>3, <2>2 DEF MintGold, SupplyIsSumOfBalances
<1>4. CASE BurnGold(h, value)
  <2>1. gold' = [gold EXCEPT ![h] = gold[h] - value] /\ gold[h] - value \in Int
    BY <1>1, <1>4 DEF BurnGold
  <2>2. SumFunction(gold') = SumFunction(gold) + ((gold[h] - value) - gold[h])
    BY <1>1, <2>1, BalancesSum
  <2> QED
    BY <1>1, <1>2, <1>4, <2>2 DEF BurnGold, SupplyIsSumOfBalances
<1>5. ASSUME NEW to \in Holder, TransferGold(h, to, value)
      PROVE  SupplyIsSumOfBalances'
  <2> DEFINE paid == [gold EXCEPT ![h] = gold[h] - value]
  <2>1. gold' = [paid EXCEPT ![to] = paid[to] + value]
    BY <1>5 DEF TransferGold
  <2>2. paid \in [Holder -> Int] /\ gold[h] - value \in Int
    BY <1>1
  <2>3. SumFunction(paid) = SumFunction(gold) + ((gold[h] - value) - gold[h])
    BY <1>1, <2>2, BalancesSum
  <2> HIDE DEF paid
  <2>4. paid[to] \in Int /\ paid[to] + value \in Int
    BY <2>2
  <2>5. SumFunction(gold') = SumFunction(paid) + ((paid[to] + value) - paid[to])
    BY <2>1, <2>2, <2>4, BalancesSum
  <2> QED
    BY <1>1, <1>2, <1>5, <2>3, <2>4, <2>5 DEF TransferGold, SupplyIsSumOfBalances
<1> QED
  BY <1>3, <1>4, <1>5

GoldMoves ==
  \E h \in Holder, value \in Nat :
    \/ MintGold(h, value)
    \/ BurnGold(h, value)
    \/ \E to \in Holder : TransferGold(h, to, value)

\* What a buyer pays and a seller gets are natural numbers.
LEMMA QuotesTyped ==
  ASSUME NEW n \in Nat, NEW v \in Nat
  PROVE  BuyGoldIn(n, v) \in Nat /\ SellGoldOut(n, v) \in Nat
<1>1. n * v \in Nat
  OBVIOUS
<1>2. BasisPoints + MarketFee \in Nat /\ BasisPoints - MarketFee \in Nat
      /\ BasisPoints \in Nat \ {0}
  BY ScaleAssumption
<1>3. n * v * (BasisPoints + MarketFee) \in Nat /\ n * v * (BasisPoints - MarketFee) \in Nat
  BY <1>1, <1>2
<1> QED
  BY <1>2, <1>3 DEF BuyGoldIn, SellGoldOut, CeilDiv

\* What a raid brings is a natural amount of every resource.
LEMMA SpoilsTyped ==
  ASSUME IInv, NEW a \in Account, NEW d \in Account, village[a].raid \in Raid
  PROVE  Loot(Settled(a), Settled(d), Headcount(village[a].raid.party) * 18) \in [Resource -> Nat]
<1>1. VillageOK(Settled(a)) /\ VillageOK(Settled(d))
  BY SettledOK
<1>2. Headcount(village[a].raid.party) * 18 \in Nat
  BY DEF Raid, Headcount, Party, Troop
<1> QED
  BY <1>1, <1>2, LootBounded

\* Every step moves CGOLD in one of the ledger's three ways, or not at all.
LEMMA StepMovesGold ==
  ASSUME IInv, [Next]_vars
  PROVE  GoldMoves \/ UNCHANGED ledger
<1>1. ASSUME NEW a \in Account, VillageStep(a)
      PROVE  GoldMoves \/ UNCHANGED ledger
  <2>0. a \in Holder /\ VillageOK(Settled(a)) /\ Settled(a) \in Village
    BY SettledOK DEF Holder, VillageOK
  <2>1. CASE Claim(a)
    <3>1. MintGold(a, Settled(a).field["gold"] * GoldUnit)
      BY <2>1 DEF Claim
    <3>2. Settled(a).field["gold"] * GoldUnit \in Nat
      BY <2>0, ScaleAssumption DEF Village, Resource
    <3> QED
      BY <2>0, <3>1, <3>2 DEF GoldMoves
  <2>2. ASSUME NEW b \in TriedBuildings, Upgrade(a, b)
        PROVE  GoldMoves
    <3> DEFINE cost == BuildingCost[b][Settled(a).level[b]]
    <3>1. BurnGold(a, cost["gold"] * GoldUnit)
      BY <2>2 DEF Upgrade
    <3>2. b \in Building /\ Settled(a).level[b] \in Level
      BY <2>0, InputAssumption DEF Village
    <3>3. cost["gold"] * GoldUnit \in Nat
      BY <3>2, CurveAssumption, ScaleAssumption DEF Price, Resource
    <3> QED
      BY <2>0, <3>1, <3>3 DEF GoldMoves
  <2>3. ASSUME NEW o \in TriedTraining, Train(a, o.troop, o.amount)
        PROVE  GoldMoves
    <3> DEFINE coins == o.amount * TroopCost[o.troop]["gold"]
    <3>1. BurnGold(a, coins * GoldUnit)
      BY <2>3 DEF Train, Resource
    <3>2. o.troop \in Troop /\ o.amount \in Nat
      BY InputAssumption
    <3>3. TroopCost[o.troop]["gold"] \in Nat
      BY <3>2, CurveAssumption DEF Price, Resource
    <3>4. coins * GoldUnit \in Nat
      BY <3>2, <3>3, ScaleAssumption
    <3> QED
      BY <2>0, <3>1, <3>4 DEF GoldMoves
  <2>4. CASE ResolveRaid(a)
    <3> DEFINE won    == Power(village[a].raid.party) >= Defense(Settled(village[a].raid.defender))
               stolen == IF won THEN Loot(Settled(a), Settled(village[a].raid.defender),
                                          Headcount(village[a].raid.party) * 18)
                                ELSE NoLoot
    <3>1. MintGold(a, stolen["gold"] * GoldUnit)
      BY <2>4 DEF ResolveRaid
    <3>2. village[a].raid \in Raid /\ village[a].raid.defender \in Account
      BY <2>4 DEF IInv, TypeOK, Village, Raid, ResolveRaid
    <3>3. stolen["gold"] \in Nat
      BY <3>2, SpoilsTyped DEF NoLoot, Resource
    <3> HIDE DEF stolen
    <3>4. stolen["gold"] * GoldUnit \in Nat
      BY <3>3, ScaleAssumption
    <3> QED
      BY <2>0, <3>1, <3>4 DEF GoldMoves
  <2>5. CASE \/ RegisterWallet(a) \/ \E n \in Nullifier : RegisterWorldId(a, n)
             \/ \E s \in Slot : CompleteUpgrade(a, s)
             \/ \E s \in Slot, hours \in TriedHours : BoostConstruction(a, s, hours)
             \/ \E d \in Account, party \in TriedParties : StartRaid(a, d, party)
             \/ Prestige(a)
    BY <2>5 DEF RegisterWallet, RegisterWorldId, CompleteUpgrade, BoostConstruction,
                StartRaid, Prestige
  <2> QED
    BY <1>1, <2>1, <2>2, <2>3, <2>4, <2>5 DEF VillageStep
<1>2. ASSUME NEW a \in Account, TradeStep(a)
      PROVE  GoldMoves
  <2>1. PICK o \in TriedTrades, limit \in TriedLimits, deadline \in TriedDeadlines :
          \/ BuyResource(a, o.resource, o.amount, limit, deadline)
          \/ SellResource(a, o.resource, o.amount, limit, deadline)
    BY <1>2 DEF TradeStep
  <2>2. o.resource \in Primary /\ o.amount \in Nat
    BY InputAssumption
  <2>3. price[o.resource] \in Nat
    BY <2>2 DEF IInv, TypeOK
  <2>4. /\ BuyGoldIn(o.amount, price[o.resource]) \in Nat
        /\ SellGoldOut(o.amount, price[o.resource]) \in Nat
    BY <2>2, <2>3, QuotesTyped
  <2>5. \/ TransferGold(a, Game, BuyGoldIn(o.amount, price[o.resource]))
        \/ TransferGold(Game, a, SellGoldOut(o.amount, price[o.resource]))
    BY <2>1 DEF BuyResource, SellResource
  <2> QED
    BY <2>4, <2>5 DEF GoldMoves, Holder
<1>3. ASSUME NEW a \in Account, TokenStep(a)
      PROVE  GoldMoves \/ UNCHANGED ledger
  <2>1. a \in Holder /\ Account \subseteq Holder /\ TriedAmounts \subseteq Nat
    BY InputAssumption DEF Holder
  <2> QED
    BY <1>3, <2>1 DEF TokenStep, Transfer, Approve, TransferFrom, Burn, GoldMoves
<1>4. CASE GovernanceStep \/ RewardStep \/ \E d \in Delays : Tick(d)
  <2>1. TriedRewards \subseteq Nat
    BY InputAssumption
  <2> QED
    BY <1>4, <2>1 DEF GovernanceStep, ConfigureMarket, ConfigureRewardDistributor,
                      RewardStep, MintReward, Tick, GoldMoves
<1>5. CASE UNCHANGED vars
  BY <1>5 DEF vars, ledger
<1> QED
  BY <1>1, <1>2, <1>3, <1>4, <1>5 DEF Next

\* No claim, loot, cost, reward, burn, transfer, trade or transfer to oneself
\* lets the supply and the balances drift apart.
THEOREM SupplyAdds == Spec => []SupplyIsSumOfBalances
<1>1. Init => SupplyIsSumOfBalances
  <2> SUFFICES ASSUME Init PROVE SupplyIsSumOfBalances
    OBVIOUS
  <2>1. IsFiniteSet(Holder) /\ DOMAIN gold = Holder /\ \A h \in Holder : gold[h] = 0
    BY AccountAssumption, FS_AddElement DEF Init, Holder
  <2> QED
    BY <2>1, SumZero DEF Init, SupplyIsSumOfBalances, SumFunction
<1>2. SupplyIsSumOfBalances /\ IInv /\ [Next]_vars => SupplyIsSumOfBalances'
  <2> SUFFICES ASSUME SupplyIsSumOfBalances, IInv, [Next]_vars
               PROVE  SupplyIsSumOfBalances'
    OBVIOUS
  <2>1. CASE GoldMoves
    BY <2>1, LedgerSums DEF GoldMoves, IInv
  <2>2. CASE UNCHANGED ledger
    BY <2>2 DEF ledger, SupplyIsSumOfBalances
  <2> QED
    BY <2>1, <2>2, StepMovesGold
<1> QED
  BY <1>1, <1>2, Invariance, PTL DEF Spec

----------------------------------------------------------------------------
(* Settlements within an offline window compose. *)

\* One resource, settled at t and at u, or at u only.
LEMMA ProducedCarried ==
  ASSUME NEW p \in Village, Fits(p), NEW t \in Nat, NEW u \in Nat, NEW r \in Resource,
         p.lastAccruedAt < t, t < u, u - p.lastAccruedAt <= MaxOffline,
         NEW q \in Village, q = AccrueUntil(p, t)
  PROVE  Produced(q, u, r) = Produced(p, u, r)
<1> DEFINE s      == FractionScale
           rate   == RateOf(p, r)
           room   == StorageOf(p)
           first  == (t - p.lastAccruedAt) * rate + p.remainder[r]
           second == (u - t) * rate
           all    == (u - p.lastAccruedAt) * rate + p.remainder[r]
           whole  == p.field[r] + first \div s
<1>1. /\ p.lastAccruedAt \in Nat /\ p.remainder[r] \in Nat /\ p.field[r] \in Nat
      /\ s \in Nat \ {0} /\ rate \in Nat /\ room \in Nat /\ MaxOffline \in Nat
  BY RateTyped, ScaleFacts, ClockAssumption DEF Village, StorageOf, Building, MaxOffline
<1>2. /\ MinOf(t - p.lastAccruedAt, MaxOffline) = t - p.lastAccruedAt
      /\ MinOf(u - p.lastAccruedAt, MaxOffline) = u - p.lastAccruedAt
      /\ MinOf(u - t, MaxOffline) = u - t
  BY <1>1 DEF MinOf
<1>3. first \in Nat /\ second \in Nat
  <2>1. t - p.lastAccruedAt \in Nat /\ u - t \in Nat
    BY <1>1
  <2>2. (t - p.lastAccruedAt) * rate \in Nat /\ (u - t) * rate \in Nat
    BY <1>1, <2>1
  <2> QED
    BY <1>1, <2>2
<1>4. all = first + second
  <2>1. (u - p.lastAccruedAt) * rate = (t - p.lastAccruedAt) * rate + (u - t) * rate
    BY <1>1
  <2>2. (t - p.lastAccruedAt) * rate \in Int /\ (u - t) * rate \in Int
    BY <1>1
  <2> QED
    BY <1>1, <2>1, <2>2
<1>5. /\ q.field[r] = Produced(p, t, r).whole
      /\ q.remainder[r] = Produced(p, t, r).fraction
      /\ q.lastAccruedAt = t
      /\ StorageOf(q) = room /\ RateOf(q, r) = rate
  <2> DEFINE field     == [x \in Resource |-> Produced(p, t, x).whole]
             remainder == [x \in Resource |-> Produced(p, t, x).fraction]
  <2>1. q = [p EXCEPT !.field = field, !.remainder = remainder, !.lastAccruedAt = t]
    BY <1>1 DEF AccrueUntil
  <2>2. field[r] = Produced(p, t, r).whole /\ remainder[r] = Produced(p, t, r).fraction
    OBVIOUS
  <2> HIDE DEF field, remainder
  <2>3. /\ q.field = field /\ q.remainder = remainder /\ q.lastAccruedAt = t
        /\ q.level = p.level /\ q.prestigeCount = p.prestigeCount
    BY <2>1 DEF Village
  <2> QED
    BY <2>2, <2>3 DEF StorageOf, RateOf, Multiplier
<1>6. /\ Produced(p, t, r) = IF p.field[r] >= room \/ whole >= room
                             THEN [whole |-> room, fraction |-> 0]
                             ELSE [whole |-> whole, fraction |-> first % s]
      /\ Produced(p, u, r) = IF p.field[r] >= room \/ p.field[r] + all \div s >= room
                             THEN [whole |-> room, fraction |-> 0]
                             ELSE [whole |-> p.field[r] + all \div s, fraction |-> all % s]
  BY <1>2 DEF Produced
<1>7. Produced(q, u, r) = LET units == second + q.remainder[r]
                              sum   == q.field[r] + units \div s
                          IN  IF q.field[r] >= room \/ sum >= room
                              THEN [whole |-> room, fraction |-> 0]
                              ELSE [whole |-> sum, fraction |-> units % s]
  BY <1>2, <1>5 DEF Produced
<1> HIDE DEF s, rate, room, first, second, all
<1>8. /\ all \div s = first \div s + ((first % s) + second) \div s
      /\ all % s = ((first % s) + second) % s
  BY <1>1, <1>3, <1>4, DivisionCarried
<1>9. /\ first \div s \in Nat /\ first % s \in Nat
      /\ ((first % s) + second) \div s \in Nat
  BY <1>1, <1>3
<1>10. CASE p.field[r] >= room \/ whole >= room
  <2>1. q.field[r] = room
    BY <1>5, <1>6, <1>10
  <2>2. Produced(q, u, r) = [whole |-> room, fraction |-> 0]
    BY <1>1, <1>7, <2>1
  <2>3. p.field[r] >= room \/ p.field[r] + all \div s >= room
    BY <1>1, <1>8, <1>9, <1>10
  <2> QED
    BY <1>6, <2>2, <2>3
<1>11. CASE ~ (p.field[r] >= room \/ whole >= room)
  <2>1. q.field[r] = whole /\ q.remainder[r] = first % s
    BY <1>5, <1>6, <1>11
  <2>2. second + (first % s) = (first % s) + second
    BY <1>3, <1>9
  <2>3. whole + ((first % s) + second) \div s = p.field[r] + all \div s
    BY <1>1, <1>8, <1>9
  <2> QED
    BY <1>6, <1>7, <1>8, <1>11, <2>1, <2>2, <2>3
<1> QED
  BY <1>10, <1>11

\* A village settled on the way is the village settled once.
LEMMA AccrueCarried ==
  ASSUME NEW p, VillageOK(p), NEW t \in Nat, NEW u \in Nat,
         t <= u, u - p.lastAccruedAt <= MaxOffline
  PROVE  AccrueUntil(AccrueUntil(p, t), u) = AccrueUntil(p, u)
<1> DEFINE q == AccrueUntil(p, t)
<1>1. p \in Village /\ Fits(p) /\ p.lastAccruedAt \in Nat
  BY DEF VillageOK, Village
<1>2. CASE t <= p.lastAccruedAt
  BY <1>2 DEF AccrueUntil
<1>3. CASE ~ t <= p.lastAccruedAt
  <2>1. q = [p EXCEPT !.field         = [r \in Resource |-> Produced(p, t, r).whole],
                      !.remainder     = [r \in Resource |-> Produced(p, t, r).fraction],
                      !.lastAccruedAt = t]
    BY <1>3 DEF AccrueUntil
  <2>2. q \in Village
    BY <1>1, AccrueKeeps
  <2>3. q.lastAccruedAt = t
    BY <1>1, <2>1 DEF Village
  <2>4. CASE t = u
    BY <2>3, <2>4 DEF AccrueUntil
  <2>5. CASE t < u
    <3>1. \A r \in Resource : Produced(q, u, r) = Produced(p, u, r)
      BY <1>1, <1>3, <2>2, <2>5, ProducedCarried
    <3> DEFINE field     == [r \in Resource |-> Produced(p, u, r).whole]
               remainder == [r \in Resource |-> Produced(p, u, r).fraction]
    <3>2. AccrueUntil(q, u) = [q EXCEPT !.field = field, !.remainder = remainder,
                                        !.lastAccruedAt = u]
      <4>1. ~ u <= q.lastAccruedAt
        BY <2>3, <2>5
      <4>2. /\ [r \in Resource |-> Produced(q, u, r).whole] = field
            /\ [r \in Resource |-> Produced(q, u, r).fraction] = remainder
        BY <3>1
      <4> QED
        BY <4>1, <4>2 DEF AccrueUntil
    <3>3. AccrueUntil(p, u) = [p EXCEPT !.field = field, !.remainder = remainder,
                                        !.lastAccruedAt = u]
      BY <1>1, <1>3, <2>5 DEF AccrueUntil
    <3> HIDE DEF field, remainder
    <3>4. AccrueUntil(q, u) = AccrueUntil(p, u)
      <4> HIDE DEF q
      <4> QED
        BY <1>1, <2>1, <3>2, <3>3 DEF Village
    <3> QED
      BY <3>4
  <2> QED
    BY <2>4, <2>5
<1> QED
  BY <1>1, <1>2, <1>3

\* How often, and by whom, a village is settled within an offline window makes
\* no difference to what it produces.
THEOREM SettlementIrrelevant == Spec => []ProductionIndependentOfSettlement
<1>1. IInv => ProductionIndependentOfSettlement
  <2> SUFFICES ASSUME IInv, NEW a \in Account, NEW t \in now .. MaxTime, NEW u \in now .. MaxTime,
                      t <= u, u - village[a].lastAccruedAt <= MaxOffline
               PROVE  AccrueUntil(AccrueUntil(village[a], t), u) = AccrueUntil(village[a], u)
    BY DEF ProductionIndependentOfSettlement
  <2>1. VillageOK(village[a]) /\ t \in Nat /\ u \in Nat
    BY InputAssumption DEF IInv, VillagesOK, TypeOK
  <2> QED
    BY <2>1, AccrueCarried
<1> QED
  BY <1>1, Invariance, PTL

----------------------------------------------------------------------------
(* What a settlement pays for. *)

Credited(p, q) ==
  IF q.lastAccruedAt = p.lastAccruedAt
  THEN 0
  ELSE MinOf(now - p.lastAccruedAt, MaxOffline)

\* What OneOfflineWindow asks of a village p that becomes q.
Windowed(p, q) ==
  /\ q.lastAccruedAt \in {p.lastAccruedAt, now}
  /\ \A r \in Resource :
       Units(q, r) - Units(p, r) <= Credited(p, q) * MaxOf(RateOf(p, r), RateOf(q, r))

LEMMA UnitsTyped ==
  ASSUME NEW p \in Village, NEW r \in Resource
  PROVE  Units(p, r) \in Nat
<1>1. p.field[r] \in Nat /\ p.remainder[r] \in Nat /\ FractionScale \in Nat
  BY ScaleFacts DEF Village
<1>2. p.field[r] * FractionScale \in Nat
  BY <1>1
<1> QED
  BY <1>1, <1>2 DEF Units

\* The time a settlement at t pays for.
Elapsed(p, t) == IF t <= p.lastAccruedAt THEN 0 ELSE MinOf(t - p.lastAccruedAt, MaxOffline)

\* A settlement pays for the time since the last one at the village's rate; a
\* full field pays less.
LEMMA AccrueCredit ==
  ASSUME NEW p \in Village, Fits(p), NEW t \in Nat, NEW r \in Resource
  PROVE  LET q == AccrueUntil(p, t)
         IN  /\ Units(q, r) <= Units(p, r) + Elapsed(p, t) * RateOf(p, r)
             /\ q.lastAccruedAt = MaxOf(p.lastAccruedAt, t)
             /\ q.level = p.level /\ q.prestigeCount = p.prestigeCount
             /\ RateOf(q, r) = RateOf(p, r)
<1>1. /\ p.lastAccruedAt \in Nat /\ RateOf(p, r) \in Nat /\ Units(p, r) \in Nat
      /\ MaxOffline \in Nat
  BY RateTyped, UnitsTyped, ClockAssumption DEF Village, MaxOffline
<1>2. CASE t <= p.lastAccruedAt
  BY <1>1, <1>2 DEF AccrueUntil, Elapsed, MaxOf
<1>3. CASE ~ t <= p.lastAccruedAt
  <2> DEFINE q         == AccrueUntil(p, t)
             field     == [x \in Resource |-> Produced(p, t, x).whole]
             remainder == [x \in Resource |-> Produced(p, t, x).fraction]
             room      == StorageOf(p)
             s         == FractionScale
             gain      == MinOf(t - p.lastAccruedAt, MaxOffline) * RateOf(p, r)
             units     == gain + p.remainder[r]
             whole     == p.field[r] + units \div s
  <2>1. q = [p EXCEPT !.field = field, !.remainder = remainder, !.lastAccruedAt = t]
    BY <1>3 DEF AccrueUntil
  <2>2. field[r] = Produced(p, t, r).whole /\ remainder[r] = Produced(p, t, r).fraction
    OBVIOUS
  <2>3. /\ Produced(p, t, r) = IF p.field[r] >= room \/ whole >= room
                               THEN [whole |-> room, fraction |-> 0]
                               ELSE [whole |-> whole, fraction |-> units % s]
    BY DEF Produced
  <2>4. p.field[r] \in Nat /\ p.remainder[r] \in Nat /\ s \in Nat \ {0} /\ room \in Nat
        /\ p.field[r] <= room
    BY ScaleFacts DEF Village, StorageOf, Building, Fits
  <2>5. gain \in Nat
    <3>1. MinOf(t - p.lastAccruedAt, MaxOffline) \in Nat
      BY <1>1, <1>3 DEF MinOf
    <3> QED
      BY <1>1, <3>1
  <2> HIDE DEF field, remainder, q
  <2>6. /\ q.field = field /\ q.remainder = remainder /\ q.lastAccruedAt = t
        /\ q.level = p.level /\ q.prestigeCount = p.prestigeCount
    BY <2>1 DEF Village
  <2>7. Elapsed(p, t) * RateOf(p, r) = gain
    BY <1>3 DEF Elapsed
  <2> HIDE DEF gain
  <2>8. units \in Nat
    BY <2>4, <2>5
  <2> HIDE DEF units, room, s
  <2>9. units \div s \in Nat /\ units % s \in Nat
        /\ units = s * (units \div s) + (units % s)
    BY <2>4, <2>8
  <2>10. /\ (p.field[r] + units \div s) * s = p.field[r] * s + s * (units \div s)
        /\ p.field[r] * s \in Nat /\ s * (units \div s) \in Nat
    BY <2>4, <2>9
  <2>11. field[r] * s + remainder[r] <= p.field[r] * s + units
    <3>1. CASE p.field[r] >= room
      <4>1. field[r] = p.field[r] /\ remainder[r] = 0
        BY <2>2, <2>3, <2>4, <3>1
      <4> QED
        BY <2>8, <2>9, <2>10, <4>1
    <3>2. CASE p.field[r] < room /\ whole >= room
      <4>1. field[r] = room /\ remainder[r] = 0
        BY <2>2, <2>3, <3>2
      <4>2. room * s <= whole * s
        <5>1. whole - room \in Nat /\ (whole - room) * s \in Nat
          BY <2>4, <2>9, <3>2
        <5>2. (whole - room) * s = whole * s - (room * s)
          BY <2>4, <2>9
        <5> QED
          BY <2>4, <2>9, <5>1, <5>2
      <4>3. room * s \in Nat /\ units >= s * (units \div s)
        BY <2>4, <2>8, <2>9, <2>10
      <4> QED
        BY <2>8, <2>10, <4>1, <4>2, <4>3
    <3>3. CASE p.field[r] < room /\ ~ whole >= room
      <4>1. field[r] = whole /\ remainder[r] = units % s
        BY <2>2, <2>3, <2>4, <3>3
      <4> QED
        BY <2>8, <2>9, <2>10, <4>1
    <3> QED
      BY <2>4, <3>1, <3>2, <3>3
  <2>12. Units(q, r) <= Units(p, r) + gain
    BY <2>4, <2>5, <2>6, <2>10, <2>11 DEF Units, units, s
  <2>13. q.lastAccruedAt = MaxOf(p.lastAccruedAt, t)
    BY <1>1, <1>3, <2>6 DEF MaxOf
  <2>14. RateOf(q, r) = RateOf(p, r)
    BY <2>6 DEF RateOf, Multiplier
  <2> QED
    BY <2>6, <2>7, <2>12, <2>13, <2>14 DEF q
<1> QED
  BY <1>2, <1>3

\* A village whose goods are no more than those of the settled village, at the
\* settled village's rates, has been paid for one window.
LEMMA SettledWindow ==
  ASSUME IInv, NEW a \in Account, NEW q \in Village,
         q.lastAccruedAt = Settled(a).lastAccruedAt,
         q.level = Settled(a).level, q.prestigeCount = Settled(a).prestigeCount,
         \A r \in Resource : Units(q, r) <= Units(Settled(a), r)
  PROVE  Windowed(village[a], q)
<1> DEFINE p == village[a]
<1>1. p \in Village /\ Fits(p) /\ now \in Nat /\ p.lastAccruedAt \in Nat
  BY DEF IInv, VillagesOK, VillageOK, TypeOK, Village
<1>2. q.lastAccruedAt = MaxOf(p.lastAccruedAt, now)
  BY <1>1, AccrueCredit DEF Settled, Resource
<1>3. ASSUME NEW r \in Resource
      PROVE  Units(q, r) - Units(p, r) <= Credited(p, q) * MaxOf(RateOf(p, r), RateOf(q, r))
  <2>1. /\ Units(Settled(a), r) <= Units(p, r) + Elapsed(p, now) * RateOf(p, r)
        /\ Settled(a).level = p.level /\ Settled(a).prestigeCount = p.prestigeCount
    BY <1>1, AccrueCredit DEF Settled
  <2>2. RateOf(q, r) = RateOf(p, r)
    BY <2>1 DEF RateOf, Multiplier
  <2>3. Elapsed(p, now) = Credited(p, q)
    BY <1>1, <1>2 DEF Elapsed, Credited, MaxOf
  <2>4. MaxOf(RateOf(p, r), RateOf(q, r)) = RateOf(p, r)
    BY <2>2 DEF MaxOf
  <2>5. Units(q, r) \in Nat /\ Units(p, r) \in Nat /\ Units(Settled(a), r) \in Nat
    BY <1>1, UnitsTyped, SettledOK DEF VillageOK
  <2>6. Credited(p, q) * RateOf(p, r) \in Int
    <3>1. Elapsed(p, now) \in Int
      BY <1>1, ClockAssumption DEF Elapsed, MinOf, MaxOffline
    <3> QED
      BY <1>1, <2>3, <3>1, RateTyped
  <2> QED
    BY <2>1, <2>3, <2>4, <2>5, <2>6
<1>4. q.lastAccruedAt \in {p.lastAccruedAt, now}
  BY <1>1, <1>2 DEF MaxOf
<1> QED
  BY <1>3, <1>4 DEF Windowed

\* The two stretches of _finishConstruction together are one offline window, at
\* the old rate and the new one.
LEMMA FinishWindow ==
  ASSUME IInv, NEW a \in Account, NEW slot \in Slot, village[a].jobs[slot].pending
  PROVE  Windowed(village[a], Finish(village[a], slot, now))
<1> DEFINE p         == village[a]
           job       == p.jobs[slot]
           cappedEnd == MinOf(now, p.lastAccruedAt + MaxOffline)
           mid       == MinOf(cappedEnd, job.completesAt)
           before    == AccrueUntil(p, mid)
           raised    == [before EXCEPT !.level[job.building] = @ + 1]
           after     == AccrueUntil(raised, cappedEnd)
           last      == IF cappedEnd < now THEN now ELSE after.lastAccruedAt
           q         == [after EXCEPT !.lastAccruedAt = last,
                                      !.jobs[slot] = NoConstruction]
<1>1. /\ VillageOK(p) /\ p \in Village /\ Fits(p) /\ p.lastAccruedAt \in Nat
      /\ job \in Job /\ now \in Nat /\ MaxOffline \in Nat \ {0}
  BY ClockAssumption DEF IInv, VillagesOK, VillageOK, TypeOK, Village, MaxOffline
<1>2. q = Finish(p, slot, now)
  BY DEF Finish
<1>3. /\ cappedEnd \in Nat /\ cappedEnd <= now
      /\ cappedEnd <= p.lastAccruedAt + MaxOffline
      /\ now <= p.lastAccruedAt => cappedEnd = now
      /\ now > p.lastAccruedAt =>
           /\ cappedEnd > p.lastAccruedAt
           /\ cappedEnd - p.lastAccruedAt = MinOf(now - p.lastAccruedAt, MaxOffline)
  BY <1>1 DEF MinOf
<1> HIDE DEF cappedEnd
<1>4. mid \in Nat /\ mid <= cappedEnd
  BY <1>1, <1>3 DEF MinOf, Job
<1> HIDE DEF mid
<1>5. VillageOK(before) /\ before.jobs = p.jobs
  BY <1>1, <1>4, SettleKeeps
<1>6. /\ \A r \in Resource : Units(before, r) <= Units(p, r) + Elapsed(p, mid) * RateOf(p, r)
      /\ before.lastAccruedAt = MaxOf(p.lastAccruedAt, mid)
  BY <1>1, <1>4, AccrueCredit DEF Resource
<1> HIDE DEF before
<1>7. raised = Raised(before, slot) /\ before.jobs[slot].pending /\ before \in Village
  BY <1>5 DEF Raised, VillageOK
<1>8. raised \in Village /\ Fits(raised)
  <2>1. Raised(before, slot) \in Village /\ Fits(Raised(before, slot))
    BY <1>5, <1>7, RaiseKeeps
  <2> HIDE DEF raised
  <2> QED
    BY <1>7, <2>1
<1>9. /\ raised.field = before.field /\ raised.remainder = before.remainder
      /\ raised.lastAccruedAt = before.lastAccruedAt
  BY <1>7 DEF Village
<1> HIDE DEF raised
<1>10. /\ after \in Village
       /\ \A r \in Resource : /\ Units(after, r) <= Units(raised, r)
                                     + Elapsed(raised, cappedEnd) * RateOf(raised, r)
                              /\ RateOf(after, r) = RateOf(raised, r)
       /\ after.lastAccruedAt = MaxOf(raised.lastAccruedAt, cappedEnd)
  BY <1>3, <1>8, AccrueCredit, AccrueKeeps DEF Resource
<1> HIDE DEF after
<1>11. q.lastAccruedAt = IF now <= p.lastAccruedAt THEN p.lastAccruedAt ELSE now
  <2>1. q.lastAccruedAt = last
    BY <1>10 DEF Village
  <2> QED
    BY <1>1, <1>3, <1>4, <1>6, <1>9, <1>10, <2>1 DEF MaxOf
<1>12. /\ q.field = after.field /\ q.remainder = after.remainder
       /\ q.level = after.level /\ q.prestigeCount = after.prestigeCount
  BY <1>10 DEF Village
<1> HIDE DEF q
<1>13. Elapsed(p, mid) + Elapsed(raised, cappedEnd) = Credited(p, q)
       /\ Elapsed(p, mid) \in Nat /\ Elapsed(raised, cappedEnd) \in Nat
  BY <1>1, <1>3, <1>4, <1>6, <1>9, <1>11 DEF Elapsed, Credited, MinOf, MaxOf
<1>14. ASSUME NEW r \in Resource
       PROVE  Units(q, r) - Units(p, r) <= Credited(p, q) * MaxOf(RateOf(p, r), RateOf(q, r))
  <2> DEFINE e1   == Elapsed(p, mid)
             e2   == Elapsed(raised, cappedEnd)
             old  == RateOf(p, r)
             new  == RateOf(raised, r)
             best == MaxOf(old, new)
  <2>1. RateOf(q, r) = new
    BY <1>10, <1>12 DEF RateOf, Multiplier
  <2>2. Units(q, r) = Units(after, r) /\ Units(raised, r) = Units(before, r)
    BY <1>9, <1>12 DEF Units
  <2>3. /\ Units(before, r) <= Units(p, r) + e1 * old
        /\ Units(after, r) <= Units(raised, r) + e2 * new
    BY <1>6, <1>10
  <2>4. /\ old \in Nat /\ new \in Nat /\ Units(p, r) \in Nat /\ Units(before, r) \in Nat
        /\ Units(after, r) \in Nat
    BY <1>1, <1>7, <1>8, <1>10, RateTyped, UnitsTyped
  <2>5. e1 \in Nat /\ e2 \in Nat /\ e1 + e2 = Credited(p, q)
    BY <1>13
  <2> HIDE DEF e1, e2, old, new
  <2>6. best \in Nat /\ best - old \in Nat /\ best - new \in Nat
    BY <2>4 DEF MaxOf
  <2> HIDE DEF best
  <2>7. e1 * (best - old) \in Nat /\ e2 * (best - new) \in Nat
    BY <2>5, <2>6
  <2>8. /\ e1 * (best - old) = e1 * best - (e1 * old)
        /\ e2 * (best - new) = e2 * best - (e2 * new)
        /\ (e1 + e2) * best = e1 * best + e2 * best
        /\ e1 * best \in Nat /\ e1 * old \in Nat /\ e2 * best \in Nat /\ e2 * new \in Nat
    BY <2>4, <2>5, <2>6
  <2>9. Units(q, r) - Units(p, r) <= (e1 + e2) * best
    BY <2>2, <2>3, <2>4, <2>7, <2>8
  <2> QED
    BY <2>1, <2>5, <2>9 DEF best, old
<1>15. q.lastAccruedAt \in {p.lastAccruedAt, now}
  BY <1>11
<1> QED
  BY <1>2, <1>14, <1>15 DEF Windowed

----------------------------------------------------------------------------
(* What a step does to each village. *)

\* q is p with other stocks, troops or raid, and with no more in the field.
Restocked(p, q) ==
  /\ q.registered = p.registered /\ q.prestigeCount = p.prestigeCount
  /\ q.level = p.level /\ q.remainder = p.remainder
  /\ q.lastAccruedAt = p.lastAccruedAt
  /\ \A r \in Resource : q.field[r] <= p.field[r]

TrainedOnly(a, p, q) ==
  \A t \in Troop : Army(q, t) > Army(p, t) =>
    \E o \in TriedTraining : o.troop = t /\ Train(a, t, o.amount)

\* Settling touches the field, its fractions and the time only.
LEMMA SettledSame ==
  ASSUME IInv, NEW a \in Account
  PROVE  LET p == village[a]
             q == Settled(a)
         IN  /\ VillageOK(p) /\ p \in Village /\ VillageOK(q) /\ q \in Village
             /\ q.registered = p.registered /\ q.prestigeCount = p.prestigeCount
             /\ q.level = p.level /\ q.jobs = p.jobs
             /\ q.troops = p.troops /\ q.raid = p.raid /\ q.stored = p.stored
             /\ q.lastAccruedAt = IF now <= p.lastAccruedAt THEN p.lastAccruedAt ELSE now
             /\ p.troops \in Party /\ p.raid.party \in Party
<1>1. VillageOK(village[a]) /\ village[a] \in Village
  BY DEF IInv, VillagesOK, VillageOK
<1>2. VillageOK(Settled(a)) /\ Settled(a) \in Village
  BY SettledOK DEF VillageOK
<1>3. village[a].troops \in Party /\ village[a].raid.party \in Party
  BY <1>1 DEF Village, Raid
<1>4. CASE now <= village[a].lastAccruedAt
  BY <1>1, <1>2, <1>3, <1>4 DEF Settled, AccrueUntil
<1>5. CASE ~ now <= village[a].lastAccruedAt
  <2> DEFINE p         == village[a]
             field     == [r \in Resource |-> Produced(p, now, r).whole]
             remainder == [r \in Resource |-> Produced(p, now, r).fraction]
  <2>1. Settled(a) = [p EXCEPT !.field = field, !.remainder = remainder, !.lastAccruedAt = now]
    BY <1>5 DEF Settled, AccrueUntil
  <2> HIDE DEF p, field, remainder
  <2> QED
    BY <1>1, <1>2, <1>3, <1>5, <2>1 DEF Village, p
<1> QED
  BY <1>4, <1>5

\* What a step may do to a village, as far as its time, levels, jobs, rates
\* and troops go.
StepEffect(c) ==
  \/ village'[c] = village[c]
  \/ /\ ~ SameReign(c) /\ village'[c].lastAccruedAt = now
     /\ village'[c].troops = NoTroops /\ village'[c].raid = NoRaid
  \/ /\ Restocked(Settled(c), village'[c])
     /\ village'[c].jobs = village[c].jobs
     /\ TrainedOnly(c, village[c], village'[c])
  \/ \E b \in TriedBuildings : Upgrade(c, b)
  \/ \E s \in Slot : CompleteUpgrade(c, s)
  \/ \E s \in Slot, hours \in TriedHours : BoostConstruction(c, s, hours)

\* A step that replaces one village has no effect on the others.
LEMMA OtherVillages ==
  ASSUME IInv, NEW a \in Account, NEW q, village' = [village EXCEPT ![a] = q],
         NEW c \in Account, c # a
  PROVE  StepEffect(c)
BY DEF IInv, TypeOK, StepEffect

\* A restocked village is the effect of a claim, a raid, a training or a trade.
LEMMA RestockEffect ==
  ASSUME IInv, NEW c \in Account, village'[c] \in Village,
         Restocked(Settled(c), village'[c]),
         village'[c].jobs = Settled(c).jobs, village'[c].troops = Settled(c).troops,
         village'[c].raid = Settled(c).raid
  PROVE  StepEffect(c)
<1>1. /\ Settled(c).jobs = village[c].jobs /\ Settled(c).troops = village[c].troops
      /\ Settled(c).raid = village[c].raid
      /\ village[c].troops \in Party /\ village[c].raid.party \in Party
  BY SettledSame
<1>2. \A t \in Troop : Army(village'[c], t) = Army(village[c], t) /\ Army(village[c], t) \in Nat
  BY <1>1 DEF Army, Party
<1> QED
  BY <1>1, <1>2 DEF StepEffect, TrainedOnly

LEMMA RegisterEffect ==
  ASSUME IInv, NEW a \in Account,
         RegisterWallet(a) \/ \E n \in Nullifier : RegisterWorldId(a, n),
         NEW c \in Account
  PROVE  StepEffect(c)
<1>1. village' = [village EXCEPT ![a] = NewVillage(now)] /\ ~ village[a].registered
  BY DEF RegisterWallet, RegisterWorldId, Registered
<1>2. village'[a] = NewVillage(now)
  BY <1>1 DEF IInv, TypeOK
<1>3. /\ NewVillage(now).registered /\ NewVillage(now).troops = NoTroops
      /\ NewVillage(now).raid = NoRaid /\ NewVillage(now).lastAccruedAt = now
  BY DEF NewVillage
<1>4. ~ SameReign(a)
  BY <1>1, <1>2, <1>3 DEF SameReign
<1>5. StepEffect(a)
  BY <1>2, <1>3, <1>4 DEF StepEffect
<1> QED
  BY <1>1, <1>5, OtherVillages

LEMMA PrestigeEffect ==
  ASSUME IInv, NEW a \in Account, Prestige(a), NEW c \in Account
  PROVE  StepEffect(c)
<1> DEFINE p == village[a]
           q == [NewVillage(now) EXCEPT !.prestigeCount = p.prestigeCount + 1,
                                        !.jobs = [p.jobs EXCEPT ![0] = NoConstruction]]
<1>1. village' = [village EXCEPT ![a] = q] /\ p.prestigeCount \in Nat
  BY DEF Prestige, IInv, TypeOK, Village
<1>2. village'[a] = q
  BY <1>1 DEF IInv, TypeOK
<1>3. /\ q.troops = NoTroops /\ q.raid = NoRaid /\ q.prestigeCount = p.prestigeCount + 1
      /\ q.lastAccruedAt = now
  BY DEF NewVillage
<1> HIDE DEF q
<1>4. ~ SameReign(a)
  BY <1>1, <1>2, <1>3 DEF SameReign
<1>5. StepEffect(a)
  BY <1>2, <1>3, <1>4 DEF StepEffect
<1> QED
  BY <1>1, <1>5, OtherVillages

\* claim leaves less in the field.
LEMMA ClaimEffect ==
  ASSUME IInv, NEW a \in Account, Claim(a), NEW c \in Account
  PROVE  StepEffect(c)
<1> DEFINE p       == Settled(a)
           claimed == [r \in Primary |-> MinOf(p.field[r], RoomFor(p, r))]
           stored  == [r \in Primary |-> p.stored[r] + claimed[r]]
           field   == [r \in Resource |-> IF r = "gold" THEN 0 ELSE p.field[r] - claimed[r]]
           q       == [p EXCEPT !.stored = stored, !.field = field, !.lastClaimedAt = now]
<1>1. VillageOK(p) /\ p \in Village
  BY SettledSame
<1>2. village' = [village EXCEPT ![a] = q] /\ village'[a] = q
  BY DEF Claim, IInv, TypeOK
<1> HIDE DEF p
<1>3. \A r \in Resource : field[r] <= p.field[r]
  BY <1>1, VillageFacts DEF MinOf, Resource
<1> HIDE DEF field, stored
<1>4. /\ q.registered = p.registered /\ q.prestigeCount = p.prestigeCount
      /\ q.level = p.level /\ q.remainder = p.remainder /\ q.lastAccruedAt = p.lastAccruedAt
      /\ q.jobs = p.jobs /\ q.troops = p.troops /\ q.raid = p.raid /\ q.field = field
  BY <1>1 DEF Village
<1> HIDE DEF q
<1>5. village'[a] \in Village
  BY ClaimKeeps DEF IInv, TypeOK
<1>6. StepEffect(a)
  BY <1>2, <1>3, <1>4, <1>5, RestockEffect DEF Restocked, p
<1> QED
  BY <1>2, <1>6, OtherVillages

\* A trade changes the protected stock.
LEMMA TradeEffect ==
  ASSUME IInv, NEW a \in Account, TradeStep(a), NEW c \in Account
  PROVE  StepEffect(c)
<1> DEFINE p == Settled(a)
<1>1. VillageOK(p) /\ p \in Village
  BY SettledSame
<1>2. PICK stored : village' = [village EXCEPT ![a] = [p EXCEPT !.stored = stored]]
  <2>1. PICK o \in TriedTrades, limit \in TriedLimits, deadline \in TriedDeadlines :
          \/ BuyResource(a, o.resource, o.amount, limit, deadline)
          \/ SellResource(a, o.resource, o.amount, limit, deadline)
    BY DEF TradeStep
  <2>2. \/ village' = [village EXCEPT ![a] =
                         [p EXCEPT !.stored = [p.stored EXCEPT ![o.resource] = @ + o.amount]]]
        \/ village' = [village EXCEPT ![a] =
                         [p EXCEPT !.stored = [p.stored EXCEPT ![o.resource] = @ - o.amount]]]
    BY <2>1 DEF BuyResource, SellResource
  <2> QED
    BY <2>2
<1> DEFINE q == [p EXCEPT !.stored = stored]
<1>3. village'[a] = q
  BY <1>2 DEF IInv, TypeOK
<1>4. \A r \in Resource : p.field[r] \in Nat
  BY <1>1 DEF Village
<1> HIDE DEF p
<1>5. /\ q.registered = p.registered /\ q.prestigeCount = p.prestigeCount
      /\ q.level = p.level /\ q.remainder = p.remainder /\ q.lastAccruedAt = p.lastAccruedAt
      /\ q.jobs = p.jobs /\ q.troops = p.troops /\ q.raid = p.raid /\ q.field = p.field
  BY <1>1 DEF Village
<1> HIDE DEF q
<1>6. village'[a] \in Village
  BY TradeKeeps DEF IInv, TypeOK
<1>7. StepEffect(a)
  BY <1>3, <1>4, <1>5, <1>6, RestockEffect DEF Restocked, p
<1> QED
  BY <1>2, <1>7, OtherVillages

\* train adds troops; it is the only way to have more of them.
LEMMA TrainEffect ==
  ASSUME IInv, NEW a \in Account, NEW o \in TriedTraining, Train(a, o.troop, o.amount),
         NEW c \in Account
  PROVE  StepEffect(c)
<1> DEFINE p      == Settled(a)
           cost   == [r \in Resource |-> o.amount * TroopCost[o.troop][r]]
           stored == StoredAfter(p, cost)
           troops == [p.troops EXCEPT ![o.troop] = @ + o.amount]
           q      == [p EXCEPT !.stored = stored, !.troops = troops]
<1>1. /\ VillageOK(p) /\ p \in Village /\ p.jobs = village[a].jobs
      /\ p.troops = village[a].troops /\ p.raid = village[a].raid
      /\ p.troops \in Party /\ p.raid.party \in Party
  BY SettledSame
<1>2. village' = [village EXCEPT ![a] = q] /\ village'[a] = q
  BY <1>1 DEF Train, IInv, TypeOK, Village
<1>3. \A r \in Resource : p.field[r] \in Nat
  BY <1>1 DEF Village
<1> HIDE DEF p, stored
<1>4. \A t \in Troop : t # o.troop => troops[t] = p.troops[t]
  BY <1>1 DEF Party
<1> HIDE DEF troops
<1>5. /\ q.registered = p.registered /\ q.prestigeCount = p.prestigeCount
      /\ q.level = p.level /\ q.remainder = p.remainder /\ q.lastAccruedAt = p.lastAccruedAt
      /\ q.jobs = p.jobs /\ q.troops = troops /\ q.raid = p.raid /\ q.field = p.field
  BY <1>1 DEF Village
<1> HIDE DEF q
<1>6. TrainedOnly(a, village[a], village'[a])
  <2> SUFFICES ASSUME NEW t \in Troop, t # o.troop
               PROVE  ~ Army(village'[a], t) > Army(village[a], t)
    BY DEF TrainedOnly
  <2>1. Army(village'[a], t) = Army(village[a], t) /\ Army(village[a], t) \in Nat
    BY <1>1, <1>2, <1>4, <1>5 DEF Army, Party
  <2> QED
    BY <2>1
<1>7. StepEffect(a)
  BY <1>1, <1>2, <1>3, <1>5, <1>6 DEF StepEffect, Restocked, p
<1> QED
  BY <1>2, <1>7, OtherVillages

\* startRaid moves troops from home into the party.
LEMMA StartRaidEffect ==
  ASSUME IInv, NEW a \in Account, NEW d \in Account, NEW party \in TriedParties,
         StartRaid(a, d, party), NEW c \in Account
  PROVE  StepEffect(c)
<1> DEFINE p      == Settled(a)
           troops == [t \in Troop |-> p.troops[t] - party[t]]
           raid   == [defender |-> d, arrivesAt |-> now + RaidMarch, party |-> party]
           q      == [p EXCEPT !.troops = troops, !.raid = raid]
<1>1. /\ VillageOK(p) /\ p \in Village /\ p.jobs = village[a].jobs
      /\ p.troops = village[a].troops /\ p.raid = village[a].raid
      /\ p.troops \in Party /\ p.raid.party \in Party
  BY SettledSame
<1>2. village' = [village EXCEPT ![a] = q] /\ village'[a] = q
  BY DEF StartRaid, IInv, TypeOK
<1>3. \A r \in Resource : p.field[r] \in Nat
  BY <1>1 DEF Village
<1>4. party \in Party
  BY InputAssumption DEF Party
<1> HIDE DEF p
<1>5. \A t \in Troop : troops[t] + party[t] = p.troops[t]
  BY <1>1, <1>4 DEF Party
<1>6. raid.party = party
  OBVIOUS
<1> HIDE DEF troops, raid
<1>7. /\ q.registered = p.registered /\ q.prestigeCount = p.prestigeCount
      /\ q.level = p.level /\ q.remainder = p.remainder /\ q.lastAccruedAt = p.lastAccruedAt
      /\ q.jobs = p.jobs /\ q.troops = troops /\ q.raid = raid /\ q.field = p.field
  BY <1>1 DEF Village
<1> HIDE DEF q
<1>8. TrainedOnly(a, village[a], village'[a])
  <2> SUFFICES ASSUME NEW t \in Troop
               PROVE  ~ Army(village'[a], t) > Army(village[a], t)
    BY DEF TrainedOnly
  <2>1. Army(village'[a], t) = p.troops[t] /\ Army(village[a], t) = p.troops[t] + p.raid.party[t]
    BY <1>1, <1>2, <1>5, <1>6, <1>7 DEF Army
  <2> QED
    BY <1>1, <2>1 DEF Party
<1>9. StepEffect(a)
  BY <1>1, <1>2, <1>3, <1>7, <1>8 DEF StepEffect, Restocked, p
<1> QED
  BY <1>2, <1>9, OtherVillages

\* Casualties are no gain.
LEMMA CasualtiesAreLosses ==
  ASSUME NEW party \in Party, NEW won \in BOOLEAN
  PROVE  \A t \in Troop : Survivors(party, won)[t] <= party[t] /\ Garrison(party, won)[t] <= party[t]
<1>1. \A n \in Nat : n - CeilPercent(n, 8) <= n /\ n - CeilPercent(n, 38) <= n
  BY DEF CeilPercent
<1>2. \A n \in Nat : n - (n * 6) \div 100 <= n
  OBVIOUS
<1>3. \A t \in Troop : party[t] \in Nat
  BY DEF Party
<1> QED
  BY <1>1, <1>2, <1>3 DEF Survivors, Garrison

\* resolveRaid brings back what survived and leaves the defender with less.
LEMMA ResolveRaidEffect ==
  ASSUME IInv, NEW a \in Account, ResolveRaid(a), NEW c \in Account
  PROVE  StepEffect(c)
<1> DEFINE raid   == village[a].raid
           d      == raid.defender
           p      == Settled(a)
           q      == Settled(d)
           won    == Power(raid.party) >= Defense(q)
           home   == Survivors(raid.party, won)
           stolen == IF won THEN Loot(p, q, Headcount(raid.party) * 18) ELSE NoLoot
           troops == [t \in Troop |-> p.troops[t] + home[t]]
           stored == [r \in Primary |-> p.stored[r] + stolen[r]]
           field  == [r \in Resource |-> q.field[r] - stolen[r]]
           guard  == Garrison(q.troops, won)
           winner == [p EXCEPT !.troops = troops, !.raid = NoRaid, !.stored = stored]
           victim == [Plundered(q, stolen) EXCEPT !.troops = guard]
<1>1. raid \in Raid /\ d \in Account
  BY DEF IInv, TypeOK, Village, Raid, ResolveRaid
<1>2. village' = [village EXCEPT ![a] = winner, ![d] = victim]
  BY DEF ResolveRaid
<1>3. /\ VillageOK(p) /\ p \in Village /\ p.jobs = village[a].jobs
      /\ p.troops = village[a].troops /\ p.raid = raid
      /\ p.troops \in Party /\ p.raid.party \in Party
  BY SettledSame
<1>4. /\ VillageOK(q) /\ q \in Village /\ q.jobs = village[d].jobs
      /\ q.troops = village[d].troops /\ q.raid = village[d].raid
      /\ q.troops \in Party /\ q.raid.party \in Party
  BY <1>1, SettledSame
<1>5. won \in BOOLEAN /\ Headcount(raid.party) * 18 \in Nat
  BY <1>1 DEF Raid, Headcount, Party, Troop
<1>6. \A r \in Resource : stolen[r] \in Nat /\ q.field[r] \in Nat
  <2>1. \A r \in Resource : q.field[r] \in Nat
    BY <1>4 DEF Village
  <2>2. Loot(p, q, Headcount(raid.party) * 18) \in [Resource -> Nat]
    BY <1>3, <1>4, <1>5, LootBounded
  <2> QED
    BY <2>1, <2>2 DEF NoLoot
<1>7. DOMAIN village = Account
  BY DEF IInv, TypeOK
<1> HIDE DEF p, q, won, stolen
<1>8. \A t \in Troop : home[t] <= raid.party[t] /\ home[t] \in Nat
  BY <1>3, <1>5, CasualtiesAreLosses, CasualtiesBounded DEF Party
<1>9. \A t \in Troop : guard[t] <= q.troops[t] /\ guard[t] \in Nat
  BY <1>4, <1>5, CasualtiesAreLosses, CasualtiesBounded DEF Party
<1>10. \A t \in Troop : troops[t] = p.troops[t] + home[t]
  OBVIOUS
<1>11. \A r \in Resource : field[r] <= q.field[r]
  BY <1>6
<1>12. victim = [q EXCEPT !.field = field, !.troops = guard]
  BY DEF Plundered
<1> HIDE DEF raid, d, home, troops, stored, field, guard
<1>13. /\ winner.registered = p.registered /\ winner.prestigeCount = p.prestigeCount
       /\ winner.level = p.level /\ winner.remainder = p.remainder
       /\ winner.lastAccruedAt = p.lastAccruedAt /\ winner.jobs = p.jobs
       /\ winner.troops = troops /\ winner.raid = NoRaid /\ winner.field = p.field
  BY <1>3 DEF Village
<1> HIDE DEF winner, victim
<1>14. /\ victim.registered = q.registered /\ victim.prestigeCount = q.prestigeCount
       /\ victim.level = q.level /\ victim.remainder = q.remainder
       /\ victim.lastAccruedAt = q.lastAccruedAt /\ victim.jobs = q.jobs
       /\ victim.troops = guard /\ victim.raid = q.raid /\ victim.field = field
  BY <1>4, <1>12 DEF Village
<1>15. StepEffect(d)
  <2>1. village'[d] = victim
    BY <1>1, <1>2, <1>7
  <2>2. Restocked(Settled(d), victim)
    BY <1>11, <1>14 DEF Restocked, q
  <2>3. TrainedOnly(d, village[d], victim)
    <3> SUFFICES ASSUME NEW t \in Troop
                 PROVE  ~ Army(victim, t) > Army(village[d], t)
      BY DEF TrainedOnly
    <3>1. Army(victim, t) = guard[t] + q.raid.party[t]
      BY <1>14 DEF Army
    <3>2. Army(village[d], t) = q.troops[t] + q.raid.party[t]
      BY <1>4 DEF Army
    <3> QED
      BY <1>4, <1>9, <3>1, <3>2 DEF Party
  <2> QED
    BY <1>4, <1>14, <2>1, <2>2, <2>3 DEF StepEffect
<1>16. a # d => StepEffect(a)
  <2> SUFFICES ASSUME a # d PROVE StepEffect(a)
    OBVIOUS
  <2>1. village'[a] = winner
    BY <1>1, <1>2, <1>7
  <2>2. Restocked(Settled(a), winner)
    <3>1. \A r \in Resource : p.field[r] \in Nat
      BY <1>3 DEF Village
    <3> QED
      BY <1>13, <3>1 DEF Restocked, p
  <2>3. TrainedOnly(a, village[a], winner)
    <3> SUFFICES ASSUME NEW t \in Troop
                 PROVE  ~ Army(winner, t) > Army(village[a], t)
      BY DEF TrainedOnly
    <3>1. Army(winner, t) = p.troops[t] + home[t] + 0
      BY <1>10, <1>13 DEF Army, NoRaid, NoTroops
    <3>2. Army(village[a], t) = p.troops[t] + raid.party[t]
      BY <1>3 DEF Army, raid
    <3>3. p.troops[t] \in Nat /\ raid.party[t] \in Nat /\ home[t] \in Nat /\ home[t] <= raid.party[t]
      BY <1>3, <1>8 DEF Party
    <3> QED
      BY <3>1, <3>2, <3>3
  <2> QED
    BY <1>3, <1>13, <2>1, <2>2, <2>3 DEF StepEffect
<1>17. c # a /\ c # d => StepEffect(c)
  BY <1>2, <1>7 DEF StepEffect
<1> QED
  BY <1>15, <1>16, <1>17

\* The calls that change one village in a way of their own.
LEMMA OwnEffect ==
  ASSUME IInv, NEW a \in Account, NEW c \in Account,
         \/ \E b \in TriedBuildings : Upgrade(a, b)
         \/ \E s \in Slot : CompleteUpgrade(a, s)
         \/ \E s \in Slot, hours \in TriedHours : BoostConstruction(a, s, hours)
  PROVE  StepEffect(c)
<1>1. PICK q : village' = [village EXCEPT ![a] = q]
  BY DEF Upgrade, CompleteUpgrade, BoostConstruction
<1>2. c = a => StepEffect(c)
  BY InputAssumption DEF StepEffect
<1> QED
  BY <1>1, <1>2, OtherVillages

LEMMA NextEffect ==
  ASSUME IInv, [Next]_vars, NEW c \in Account
  PROVE  StepEffect(c)
<1>1. ASSUME NEW a \in Account, VillageStep(a)
      PROVE  StepEffect(c)
  BY <1>1, RegisterEffect, ClaimEffect, OwnEffect, TrainEffect, StartRaidEffect,
     ResolveRaidEffect, PrestigeEffect DEF VillageStep
<1>2. ASSUME NEW a \in Account, TradeStep(a) \/ TokenStep(a)
      PROVE  StepEffect(c)
  <2>1. CASE TradeStep(a)
    BY <2>1, TradeEffect
  <2>2. CASE TokenStep(a)
    BY <2>2 DEF TokenStep, Transfer, Approve, TransferFrom, Burn, StepEffect
  <2> QED
    BY <1>2, <2>1, <2>2
<1>3. CASE GovernanceStep \/ RewardStep \/ \E d \in Delays : Tick(d)
  BY <1>3 DEF GovernanceStep, ConfigureMarket, ConfigureRewardDistributor, RewardStep,
              MintReward, Tick, StepEffect
<1>4. CASE UNCHANGED vars
  BY <1>4 DEF vars, StepEffect
<1> QED
  BY <1>1, <1>2, <1>3, <1>4 DEF Next

----------------------------------------------------------------------------
(* Jobs, windows and troops from step to step. *)

\* The jobs of a village are counted by Booleans.
LEMMA JobsCounted ==
  ASSUME NEW p \in Village, NEW b \in Building
  PROVE  JobsFor(p, b) \in Nat /\ p.level[b] \in Nat
BY ScaleFacts DEF Village, JobsFor, Bit, Level

\* What NoJobLost asks of a village p of account a that becomes q.
NoneLost(a, p, q, b) ==
  LET before == p.level[b] + JobsFor(p, b)
      after  == q.level[b] + JobsFor(q, b)
  IN  /\ q.level[b] \in p.level[b] .. before
      /\ after = before \/ (after = before + 1 /\ Upgrade(a, b))

\* Nobody is paid for no time.
LEMMA SameWindow ==
  ASSUME NEW p \in Village, NEW q, q.lastAccruedAt = p.lastAccruedAt,
         q.level = p.level, q.prestigeCount = p.prestigeCount,
         q.field = p.field, q.remainder = p.remainder
  PROVE  Windowed(p, q)
<1> SUFFICES ASSUME NEW r \in Resource
             PROVE  Units(q, r) - Units(p, r) <= Credited(p, q) * MaxOf(RateOf(p, r), RateOf(q, r))
  BY DEF Windowed
<1>1. Units(q, r) = Units(p, r) /\ RateOf(q, r) = RateOf(p, r) /\ Credited(p, q) = 0
  BY DEF Units, RateOf, Multiplier, Credited
<1>2. Units(p, r) \in Nat /\ RateOf(p, r) \in Nat
  BY UnitsTyped, RateTyped
<1> QED
  BY <1>1, <1>2 DEF MaxOf

\* The job upgrade starts is the one that is counted more.
LEMMA UpgradeCounts ==
  ASSUME IInv, NEW a \in Account, NEW b \in Building, NEW started \in TriedBuildings, Upgrade(a, started)
  PROVE  /\ NoneLost(a, village[a], village'[a], b)
         /\ Windowed(village[a], village'[a])
         /\ village'[a].troops = village[a].troops /\ village'[a].raid = village[a].raid
<1> DEFINE p    == Settled(a)
           cost == BuildingCost[started][p.level[started]]
<1>1. PICK s \in Slot :
        /\ IsNextSlot(p, s)
        /\ village' = [village EXCEPT ![a] =
             [p EXCEPT !.stored  = StoredAfter(p, cost),
                       !.jobs[s] = [pending     |-> TRUE,
                                    building    |-> started,
                                    completesAt |-> now + BuildDuration[p.level[started] + 1]]]]
  BY DEF Upgrade
<1> DEFINE stored == StoredAfter(p, cost)
           job    == [pending     |-> TRUE,
                      building    |-> started,
                      completesAt |-> now + BuildDuration[p.level[started] + 1]]
           jobs   == [p.jobs EXCEPT ![s] = job]
           q      == [p EXCEPT !.stored = stored, !.jobs = jobs]
<1>2. /\ p \in Village /\ p.level = village[a].level /\ p.jobs = village[a].jobs
      /\ p.troops = village[a].troops /\ p.raid = village[a].raid
      /\ p.jobs \in [Slot -> Job] /\ village[a] \in Village
  BY SettledSame DEF Village
<1>3. village'[a] = q
  BY <1>1, <1>2 DEF IInv, TypeOK, Village
<1>4. ~ p.jobs[s].pending
  BY <1>1 DEF IsNextSlot
<1>5. job.pending = TRUE /\ job.building = started
  OBVIOUS
<1> HIDE DEF p, stored, job
<1>6. jobs[s] = job /\ \A e \in Slot : e # s => jobs[e] = p.jobs[e]
  BY <1>2
<1> HIDE DEF jobs
<1>7. /\ q.level = p.level /\ q.jobs = jobs /\ q.field = p.field /\ q.remainder = p.remainder
      /\ q.lastAccruedAt = p.lastAccruedAt /\ q.prestigeCount = p.prestigeCount
      /\ q.troops = p.troops /\ q.raid = p.raid
  BY <1>2 DEF Village
<1> HIDE DEF q
<1>8. JobsFor(q, b) = JobsFor(village[a], b) + Bit(b = started)
  BY <1>2, <1>4, <1>5, <1>6, <1>7 DEF JobsFor, Bit, Slot, Job
<1>9. JobsFor(village[a], b) \in Nat /\ village[a].level[b] \in Nat
  BY <1>2, JobsCounted
<1>10. NoneLost(a, village[a], village'[a], b)
  BY <1>2, <1>3, <1>7, <1>8, <1>9 DEF NoneLost, Bit
<1>11. Windowed(village[a], village'[a])
  <2>1. village'[a] \in Village
    BY UpgradeKeeps, InputAssumption DEF IInv, TypeOK
  <2>2. \A r \in Resource : Units(q, r) <= Units(Settled(a), r)
    BY <1>2, <1>7, UnitsTyped DEF Units, p
  <2> QED
    BY <1>3, <1>7, <2>1, <2>2, SettledWindow DEF p
<1> QED
  BY <1>2, <1>3, <1>7, <1>10, <1>11

\* Settling leaves levels, jobs and troops alone.
LEMMA AccrueSame ==
  ASSUME NEW p \in Village, Fits(p), NEW t \in Nat
  PROVE  LET q == AccrueUntil(p, t)
         IN  /\ q \in Village /\ Fits(q)
             /\ q.level = p.level /\ q.jobs = p.jobs
             /\ q.troops = p.troops /\ q.raid = p.raid
<1>1. CASE t <= p.lastAccruedAt
  BY <1>1 DEF AccrueUntil
<1>2. CASE ~ t <= p.lastAccruedAt
  <2> DEFINE field     == [r \in Resource |-> Produced(p, t, r).whole]
             remainder == [r \in Resource |-> Produced(p, t, r).fraction]
  <2>1. AccrueUntil(p, t) = [p EXCEPT !.field = field, !.remainder = remainder,
                                      !.lastAccruedAt = t]
    BY <1>2 DEF AccrueUntil
  <2> HIDE DEF field, remainder
  <2>2. AccrueUntil(p, t).troops = p.troops /\ AccrueUntil(p, t).raid = p.raid
    BY <2>1 DEF Village
  <2> QED
    BY <2>2, AccrueKeeps
<1> QED
  BY <1>1, <1>2

\* A completed job becomes a level of its building; troops stay.
LEMMA FinishSame ==
  ASSUME NEW p, VillageOK(p), NEW slot \in Slot, p.jobs[slot].pending, NEW t \in Nat
  PROVE  LET q == Finish(p, slot, t)
         IN  /\ q.level = [p.level EXCEPT ![p.jobs[slot].building] = @ + 1]
             /\ q.jobs = [p.jobs EXCEPT ![slot] = NoConstruction]
             /\ q.troops = p.troops /\ q.raid = p.raid
<1> DEFINE job       == p.jobs[slot]
           cappedEnd == MinOf(t, p.lastAccruedAt + MaxOffline)
           mid       == MinOf(cappedEnd, job.completesAt)
           before    == AccrueUntil(p, mid)
           raised    == [before EXCEPT !.level[job.building] = @ + 1]
           after     == AccrueUntil(raised, cappedEnd)
           last      == IF cappedEnd < t THEN t ELSE after.lastAccruedAt
           jobs      == [after.jobs EXCEPT ![slot] = NoConstruction]
           q         == [after EXCEPT !.lastAccruedAt = last, !.jobs = jobs]
<1>1. p \in Village /\ Fits(p) /\ p.lastAccruedAt \in Nat /\ job \in Job
  BY DEF VillageOK, Village
<1>2. cappedEnd \in Nat /\ mid \in Nat
  BY <1>1, ClockAssumption DEF MinOf, MaxOffline, Job
<1> HIDE DEF cappedEnd, mid
<1>3. /\ before \in Village /\ before.level = p.level /\ before.jobs = p.jobs
      /\ before.troops = p.troops /\ before.raid = p.raid
  BY <1>1, <1>2, AccrueSame
<1>4. VillageOK(before)
  BY <1>2, SettleKeeps
<1> HIDE DEF before
<1>5. raised = Raised(before, slot) /\ before.jobs[slot].pending
  BY <1>3 DEF Raised
<1> DEFINE level == [p.level EXCEPT ![job.building] = @ + 1]
<1>6. raised = [before EXCEPT !.level = level]
  BY <1>3 DEF Village
<1> HIDE DEF raised, level
<1>7. raised \in Village /\ Fits(raised)
  BY <1>4, <1>5, RaiseKeeps
<1>8. /\ raised.level = level /\ raised.jobs = p.jobs
      /\ raised.troops = p.troops /\ raised.raid = p.raid
  BY <1>3, <1>6 DEF Village
<1>9. /\ after \in Village /\ after.level = level /\ after.jobs = p.jobs
      /\ after.troops = p.troops /\ after.raid = p.raid
  BY <1>2, <1>7, <1>8, AccrueSame
<1>10. Finish(p, slot, t) = q
  BY <1>9 DEF Finish, Village, cappedEnd, mid, before, raised
<1> HIDE DEF after, last
<1>11. /\ q.level = level /\ q.jobs = jobs /\ q.troops = p.troops /\ q.raid = p.raid
  BY <1>9 DEF Village
<1> QED
  BY <1>9, <1>10, <1>11 DEF level

LEMMA CompletionCounts ==
  ASSUME IInv, NEW a \in Account, NEW b \in Building, NEW slot \in Slot,
         CompleteUpgrade(a, slot)
  PROVE  /\ NoneLost(a, village[a], village'[a], b)
         /\ Windowed(village[a], village'[a])
         /\ village'[a].troops = village[a].troops /\ village'[a].raid = village[a].raid
<1> DEFINE p == village[a]
           q == village'[a]
<1>1. /\ p \in Village /\ p.jobs[slot].pending /\ p.jobs \in [Slot -> Job]
      /\ p.level \in [Building -> Level] /\ VillageOK(p) /\ now \in Nat
      /\ q = Finish(p, slot, now)
  BY DEF CompleteUpgrade, IInv, TypeOK, Village, VillagesOK
<1>2. /\ q.level = [p.level EXCEPT ![p.jobs[slot].building] = @ + 1]
      /\ q.jobs = [p.jobs EXCEPT ![slot] = NoConstruction]
      /\ q.troops = p.troops /\ q.raid = p.raid
  BY <1>1, FinishSame
<1>3. Windowed(p, q)
  BY <1>1, FinishWindow
<1>4. JobsFor(p, b) \in Nat /\ p.level[b] \in Nat
  BY <1>1, JobsCounted
<1> HIDE DEF q
<1>5. q.level[b] = p.level[b] + Bit(b = p.jobs[slot].building)
  BY <1>1, <1>2, <1>4 DEF Bit, Job
<1>6. JobsFor(p, b) = JobsFor(q, b) + Bit(b = p.jobs[slot].building)
  BY <1>1, <1>2 DEF JobsFor, Bit, Slot, Job, NoConstruction
<1>7. JobsFor(q, b) \in Nat
  BY DEF JobsFor, Bit
<1>8. NoneLost(a, p, q, b)
  BY <1>4, <1>5, <1>6, <1>7 DEF NoneLost, Bit
<1> QED
  BY <1>2, <1>3, <1>8 DEF q

\* A boost moves a timer.
LEMMA BoostCounts ==
  ASSUME IInv, NEW a \in Account, NEW b \in Building, NEW slot \in Slot, NEW hours \in TriedHours,
         BoostConstruction(a, slot, hours)
  PROVE  /\ NoneLost(a, village[a], village'[a], b)
         /\ Windowed(village[a], village'[a])
         /\ village'[a].troops = village[a].troops /\ village'[a].raid = village[a].raid
<1> DEFINE p    == village[a]
           job  == [p.jobs[slot] EXCEPT !.completesAt = @ - hours * BoostDuration]
           jobs == [p.jobs EXCEPT ![slot] = job]
           q    == [p EXCEPT !.jobs = jobs]
<1>1. p \in Village /\ p.jobs \in [Slot -> Job]
  BY DEF IInv, TypeOK, Village
<1>2. village'[a] = q
  BY <1>1 DEF BoostConstruction, IInv, TypeOK, Village
<1>3. job.pending = p.jobs[slot].pending /\ job.building = p.jobs[slot].building
  BY <1>1 DEF Job
<1> HIDE DEF job
<1>4. \A e \in Slot : jobs[e].pending = p.jobs[e].pending /\ jobs[e].building = p.jobs[e].building
  BY <1>1, <1>3
<1> HIDE DEF jobs
<1>5. /\ q.level = p.level /\ q.jobs = jobs /\ q.field = p.field /\ q.remainder = p.remainder
      /\ q.lastAccruedAt = p.lastAccruedAt /\ q.prestigeCount = p.prestigeCount
      /\ q.troops = p.troops /\ q.raid = p.raid
  BY <1>1 DEF Village
<1> HIDE DEF q
<1>6. JobsFor(q, b) = JobsFor(p, b)
  BY <1>4, <1>5 DEF JobsFor, Slot
<1>7. JobsFor(p, b) \in Nat /\ p.level[b] \in Nat
  BY <1>1, JobsCounted
<1>8. NoneLost(a, p, q, b)
  BY <1>5, <1>6, <1>7 DEF NoneLost
<1>9. Windowed(p, q)
  BY <1>1, <1>5, SameWindow
<1> QED
  BY <1>2, <1>5, <1>8, <1>9

\* Within a reign, every step leaves a village with the jobs and levels it had,
\* or one job more, and pays it for one offline window at most.
LEMMA StepCounts ==
  ASSUME IInv, [Next]_vars, NEW a \in Account, SameReign(a)
  PROVE  /\ Windowed(village[a], village'[a])
         /\ \A b \in Building : NoneLost(a, village[a], village'[a], b)
<1> DEFINE p == village[a]
           q == village'[a]
<1>1. p \in Village /\ q \in Village /\ StepEffect(a)
  BY NextEffect, NextIInv DEF IInv, TypeOK
<1>2. \A b \in Building : JobsFor(p, b) \in Nat /\ p.level[b] \in Nat
  BY <1>1, JobsCounted
<1>3. CASE q = p
  BY <1>1, <1>2, <1>3, SameWindow DEF NoneLost
<1>4. CASE Restocked(Settled(a), q) /\ q.jobs = p.jobs
  <2>1. q.level = p.level
    BY <1>4, SettledSame DEF Restocked
  <2>2. \A b \in Building : NoneLost(a, p, q, b)
    BY <1>2, <1>4, <2>1 DEF NoneLost, JobsFor
  <2>3. \A r \in Resource : Units(q, r) <= Units(Settled(a), r)
    <3> SUFFICES ASSUME NEW r \in Resource PROVE Units(q, r) <= Units(Settled(a), r)
      OBVIOUS
    <3> DEFINE s == Settled(a)
    <3>1. s \in Village /\ q.field[r] <= s.field[r] /\ q.remainder = s.remainder
      BY <1>4, SettledSame DEF Restocked
    <3> HIDE DEF s
    <3>2. /\ q.field[r] \in Nat /\ s.field[r] \in Nat /\ s.remainder[r] \in Nat
          /\ FractionScale \in Nat
      BY <1>1, <3>1, ScaleFacts DEF Village
    <3>3. \A x, y \in Nat : x <= y => x * FractionScale <= y * FractionScale
      <4> SUFFICES ASSUME NEW x \in Nat, NEW y \in Nat, x <= y
                   PROVE  x * FractionScale <= y * FractionScale
        OBVIOUS
      <4>1. (y - x) * FractionScale \in Nat
        BY <3>2
      <4>2. (y - x) * FractionScale = y * FractionScale - (x * FractionScale)
        BY <3>2
      <4> QED
        BY <3>2, <4>1, <4>2
    <3>4. /\ q.field[r] * FractionScale \in Nat /\ s.field[r] * FractionScale \in Nat
          /\ q.field[r] * FractionScale <= s.field[r] * FractionScale
      BY <3>1, <3>2, <3>3
    <3>5. Units(q, r) <= Units(s, r)
      BY <3>1, <3>2, <3>4 DEF Units
    <3> QED
      BY <3>5 DEF s
  <2>4. Windowed(p, q)
    BY <1>1, <1>4, <2>3, SettledWindow DEF Restocked
  <2> QED
    BY <2>2, <2>4
<1>5. CASE \/ \E b \in TriedBuildings : Upgrade(a, b)
           \/ \E s \in Slot : CompleteUpgrade(a, s)
           \/ \E s \in Slot, hours \in TriedHours : BoostConstruction(a, s, hours)
  <2>1. "townhall" \in Building
    BY DEF Building
  <2> QED
    BY <1>5, <2>1, UpgradeCounts, CompletionCounts, BoostCounts
<1>6. \/ q = p
      \/ Restocked(Settled(a), q) /\ q.jobs = p.jobs
      \/ \E b \in TriedBuildings : Upgrade(a, b)
      \/ \E s \in Slot : CompleteUpgrade(a, s)
      \/ \E s \in Slot, hours \in TriedHours : BoostConstruction(a, s, hours)
  BY <1>1 DEF StepEffect
<1> QED
  BY <1>3, <1>4, <1>5, <1>6

\* Construction within a reign neither loses a job nor finishes one twice.
THEOREM JobsKept == Spec => NoJobLost
<1>1. IInv /\ [Next]_vars =>
        [\A a \in Account : SameReign(a) =>
           \A b \in Building :
             LET before == village[a].level[b] + JobsFor(village[a], b)
                 after  == village'[a].level[b] + JobsFor(village'[a], b)
             IN  /\ village'[a].level[b] \in village[a].level[b] .. before
                 /\ after = before \/ (after = before + 1 /\ Upgrade(a, b))]_vars
  BY StepCounts DEF NoneLost
<1> QED
  BY <1>1, Invariance, PTL DEF Spec, NoJobLost

\* No step pays a village for more than one offline window, or pays for the
\* same time again.
THEOREM WindowKept == Spec => OneOfflineWindow
<1>1. IInv /\ [Next]_vars =>
        [\A a \in Account : SameReign(a) =>
           LET p == village[a]
               q == village'[a]
               credited == IF q.lastAccruedAt = p.lastAccruedAt
                           THEN 0
                           ELSE MinOf(now - p.lastAccruedAt, MaxOffline)
           IN  /\ q.lastAccruedAt \in {p.lastAccruedAt, now}
               /\ \A r \in Resource :
                    Units(q, r) - Units(p, r) <= credited * MaxOf(RateOf(p, r), RateOf(q, r))]_vars
  BY StepCounts DEF Windowed, Credited
<1> QED
  BY <1>1, Invariance, PTL DEF Spec, OneOfflineWindow

\* Only training adds troops: no raid, however it ends, and no prestige does.
THEOREM TroopsTrained == Spec => TroopsOnlyFromTraining
<1>1. ASSUME IInv, [Next]_vars, NEW a \in Account, NEW t \in Troop,
             Army(village'[a], t) > Army(village[a], t)
      PROVE  \E o \in TriedTraining : o.troop = t /\ Train(a, t, o.amount)
  <2>1. StepEffect(a) /\ village[a].troops \in Party /\ village[a].raid.party \in Party
    BY <1>1, NextEffect, SettledSame
  <2>2. Army(village[a], t) \in Nat
    BY <2>1 DEF Army, Party
  <2>3. ~ (village'[a].troops = NoTroops /\ village'[a].raid = NoRaid)
    BY <1>1, <2>2 DEF Army, NoRaid, NoTroops
  <2>4. ~ (village'[a].troops = village[a].troops /\ village'[a].raid = village[a].raid)
    BY <1>1, <2>2 DEF Army
  <2>5. /\ \A b \in TriedBuildings : ~ Upgrade(a, b)
        /\ \A s \in Slot : ~ CompleteUpgrade(a, s)
        /\ \A s \in Slot, hours \in TriedHours : ~ BoostConstruction(a, s, hours)
    <3>1. "townhall" \in Building
      BY DEF Building
    <3> QED
      BY <1>1, <2>4, <3>1, UpgradeCounts, CompletionCounts, BoostCounts
  <2>6. TrainedOnly(a, village[a], village'[a])
    BY <2>1, <2>3, <2>4, <2>5 DEF StepEffect
  <2> QED
    BY <1>1, <2>6 DEF TrainedOnly
<1>2. IInv /\ [Next]_vars =>
        [\A a \in Account, t \in Troop :
           Army(village'[a], t) > Army(village[a], t) =>
             \E o \in TriedTraining : o.troop = t /\ Train(a, t, o.amount)]_vars
  BY <1>1
<1> QED
  BY <1>2, Invariance, PTL DEF Spec, TroopsOnlyFromTraining


----------------------------------------------------------------------------
(* The market grows richer with every trade. *)

\* A quotient is at least x if the dividend is at least x times the divisor, and
\* below x if it is less.
LEMMA QuotientBounds ==
  ASSUME NEW n \in Nat, NEW d \in Nat \ {0}, NEW x \in Nat
  PROVE  /\ n >= x * d => n \div d >= x
         /\ n < x * d => n \div d < x
<1> DEFINE q == n \div d
<1>1. q \in Nat /\ q * d <= n /\ n < q * d + d
  OBVIOUS
<1> HIDE DEF q
<1>2. ASSUME q < x PROVE n < x * d
  <2>1. q + 1 <= x
    BY <1>1, <1>2
  <2>2. x - q - 1 \in Nat
    BY <1>1, <2>1
  <2>3. (x - q - 1) * d >= 0
    BY <2>2
  <2>4. (x - q - 1) * d = x * d - (q * d + d)
    BY <1>1
  <2> QED
    BY <1>1, <2>3, <2>4
<1>3. ASSUME q >= x PROVE n >= x * d
  <2>1. (q - x) \in Nat
    BY <1>1, <1>3
  <2>2. (q - x) * d >= 0
    BY <2>1
  <2>3. (q - x) * d = q * d - x * d
    BY <1>1
  <2> QED
    BY <1>1, <2>2, <2>3
<1>4. q >= x \/ q < x
  BY <1>1
<1> QED
  BY <1>1, <1>2, <1>3, <1>4 DEF q

\* With a fee above zero a buyer pays more than the price and a seller gets less.
LEMMA FeeIsKept ==
  ASSUME NEW amount \in Nat \ {0}, NEW v \in Nat \ {0}
  PROVE  BuyGoldIn(amount, v) > amount * v /\ SellGoldOut(amount, v) < amount * v
<1> DEFINE x == amount * v
<1>0. x \in Nat \ {0}
  OBVIOUS
<1>1. BasisPoints \in Nat \ {0} /\ MarketFee \in Nat \ {0} /\ BasisPoints - MarketFee \in Nat
  BY ScaleAssumption
<1> HIDE DEF x
<1> DEFINE n == x * (BasisPoints + MarketFee)
           m == x * (BasisPoints - MarketFee)
<1>2. x * MarketFee \in Nat \ {0} /\ x * BasisPoints \in Nat
  BY <1>0, <1>1
<1>3. n = x * BasisPoints + x * MarketFee /\ m = x * BasisPoints - x * MarketFee
  BY <1>0, <1>1
<1>4. m \in Nat
  BY <1>0, <1>1
<1> HIDE DEF n, m
<1>5. n \in Nat /\ n # 0 /\ n - 1 \in Nat /\ n - 1 >= x * BasisPoints /\ m < x * BasisPoints
  BY <1>2, <1>3
<1>6. (n - 1) \div BasisPoints >= x /\ m \div BasisPoints < x
  BY <1>0, <1>1, <1>4, <1>5, QuotientBounds
<1>7. (n - 1) \div BasisPoints \in Nat
  BY <1>1, <1>5
<1>8. CeilDiv(n, BasisPoints) > x
  BY <1>0, <1>5, <1>6, <1>7 DEF CeilDiv
<1> QED
  BY <1>6, <1>8 DEF BuyGoldIn, SellGoldOut, n, m, x

MarketValues == [r \in Primary |-> inventory[r] * price[r]]

LEMMA PrimaryFinite == IsFiniteSet(Primary)
<1>1. IsFiniteSet({}) /\ IsFiniteSet({"wood"})
  BY FS_EmptySet, FS_Singleton
<1>2. IsFiniteSet({"wood"} \cup {"clay"})
  BY <1>1, FS_AddElement
<1>3. IsFiniteSet(({"wood"} \cup {"clay"}) \cup {"stone"})
  BY <1>2, FS_AddElement
<1>4. Primary = ({"wood"} \cup {"clay"}) \cup {"stone"}
  BY DEF Primary
<1> QED
  BY <1>3, <1>4

\* Moving d units changes the inventory's worth by d times the price.
LEMMA InventoryWorth ==
  ASSUME TypeOK, NEW r \in Primary, NEW d \in Int, MoveInventory(r, d), UNCHANGED price
  PROVE  /\ SumFunction(MarketValues) \in Int
         /\ SumFunction(MarketValues') = SumFunction(MarketValues) + d * price[r]
<1>1. inventory \in [Primary -> Nat] /\ price \in [Primary -> Nat]
  BY DEF TypeOK
<1>2. inventory' = [inventory EXCEPT ![r] = inventory[r] + d]
  BY <1>1 DEF MoveInventory
<1>3. MarketValues \in [Primary -> Int]
  BY <1>1 DEF MarketValues
<1> DEFINE v == (inventory[r] + d) * price[r]
<1>4. v \in Int /\ v - inventory[r] * price[r] = d * price[r]
  BY <1>1
<1>5. MarketValues' = [MarketValues EXCEPT ![r] = v]
  BY <1>1, <1>2 DEF MarketValues
<1>6. MarketValues[r] = inventory[r] * price[r] /\ inventory[r] * price[r] \in Int
  BY <1>1 DEF MarketValues
<1> HIDE DEF v
<1>7. SumFunction(MarketValues') = SumFunction(MarketValues) + v - MarketValues[r]
  BY <1>3, <1>4, <1>5, SumUpdate, PrimaryFinite
<1>8. SumFunction(MarketValues) \in Int
  BY <1>3, SumInt, PrimaryFinite DEF SumFunction
<1>9. d * price[r] \in Int
  BY <1>1
<1> QED
  BY <1>4, <1>6, <1>7, <1>8, <1>9

LEMMA BuyEnriches ==
  ASSUME TypeOK, NEW a \in Account, NEW r \in Primary, NEW amount \in Nat \ {0},
         NEW limit, NEW deadline, BuyResource(a, r, amount, limit, deadline)
  PROVE  MarketWorth' > MarketWorth
<1>1. price[r] \in Nat \ {0} /\ UNCHANGED price /\ MoveInventory(r, -amount) /\ -amount \in Int
  BY DEF BuyResource, TypeOK
<1> DEFINE cost == BuyGoldIn(amount, price[r])
<1>2. cost \in Nat /\ cost > amount * price[r] /\ amount * price[r] \in Nat
  <2>1. cost > amount * price[r]
    BY <1>1, FeeIsKept
  <2>2. cost \in Nat
    BY <1>1, QuotesTyped
  <2>3. amount * price[r] \in Nat
    BY <1>1
  <2> QED
    BY <2>1, <2>2, <2>3
<1>3. SumFunction(MarketValues) \in Int
      /\ SumFunction(MarketValues') = SumFunction(MarketValues) + (-amount) * price[r]
  BY <1>1, InventoryWorth
<1>4. (-amount) * price[r] = 0 - amount * price[r]
  <2>1. \A x, y \in Nat : (-x) * y = 0 - x * y
    OBVIOUS
  <2> QED
    BY <1>1, <2>1
<1>5. TransferGold(a, Game, cost)
  BY DEF BuyResource
<1> HIDE DEF cost
<1>6. gold'[Game] = gold[Game] + cost /\ gold[Game] \in Nat
  BY <1>2, <1>5, AccountAssumption DEF TransferGold, TypeOK, Holder
<1>7. gold'[Game] + SumFunction(MarketValues') > gold[Game] + SumFunction(MarketValues)
  BY <1>2, <1>3, <1>4, <1>6
<1> QED
  BY <1>7 DEF MarketWorth, MarketValues

LEMMA SellEnriches ==
  ASSUME TypeOK, NEW a \in Account, NEW r \in Primary, NEW amount \in Nat \ {0},
         NEW limit, NEW deadline, SellResource(a, r, amount, limit, deadline)
  PROVE  MarketWorth' > MarketWorth
<1>1. price[r] \in Nat \ {0} /\ UNCHANGED price /\ MoveInventory(r, amount) /\ amount \in Int
  BY DEF SellResource, TypeOK
<1> DEFINE paid == SellGoldOut(amount, price[r])
<1>2. paid \in Nat /\ paid < amount * price[r] /\ amount * price[r] \in Nat
  <2>1. paid < amount * price[r]
    BY <1>1, FeeIsKept
  <2>2. paid \in Nat
    BY <1>1, QuotesTyped
  <2>3. amount * price[r] \in Nat
    BY <1>1
  <2> QED
    BY <2>1, <2>2, <2>3
<1>3. SumFunction(MarketValues) \in Int
      /\ SumFunction(MarketValues') = SumFunction(MarketValues) + amount * price[r]
  BY <1>1, InventoryWorth
<1>4. TransferGold(Game, a, paid)
  BY DEF SellResource
<1> HIDE DEF paid
<1>5. gold'[Game] = gold[Game] - paid /\ gold[Game] \in Nat
  BY <1>2, <1>4, AccountAssumption DEF TransferGold, TypeOK, Holder
<1>6. gold'[Game] + SumFunction(MarketValues') > gold[Game] + SumFunction(MarketValues)
  BY <1>2, <1>3, <1>5
<1> QED
  BY <1>6 DEF MarketWorth, MarketValues

\* Every trade of a wallet leaves the market strictly richer: the fee, which is
\* above zero, is rounded for the market both ways, so that no sequence of
\* purchases and sales at one price drains the reserve.
THEOREM TradesEnrich == Spec => TradesEnrichMarket
<1>1. ASSUME IInv, NEW a \in Account, TradeStep(a)
      PROVE  MarketWorth' > MarketWorth
  <2>1. PICK o \in TriedTrades, limit \in TriedLimits, deadline \in TriedDeadlines :
          \/ BuyResource(a, o.resource, o.amount, limit, deadline)
          \/ SellResource(a, o.resource, o.amount, limit, deadline)
    BY <1>1 DEF TradeStep
  <2>2. o.resource \in Primary /\ o.amount \in Nat \ {0}
    BY InputAssumption
  <2>3. TypeOK
    BY <1>1 DEF IInv
  <2> QED
    BY <2>1, <2>2, <2>3, BuyEnriches, SellEnriches
<1>2. IInv => ((\E a \in Account : TradeStep(a)) => MarketWorth' > MarketWorth)
  BY <1>1
<1> QED
  BY <1>2, Invariance, PTL DEF TradesEnrichMarket

----------------------------------------------------------------------------
(* Goods are moved, exchanged and destroyed, never created. *)

\* What a village in the given condition owns of a resource.
Hoard(p, r) == p.field[r] + (IF r = "gold" THEN 0 ELSE p.stored[r])

Hoards(r) == [c \in Account |-> Wealth(c, r)]

\* No goods appear in the step.
NothingGained ==
  /\ \A r \in Primary : TotalWealth(r)' + inventory'[r] <= TotalWealth(r) + inventory[r]
  /\ TotalWealth("gold")' * GoldUnit + totalSupply'
       <= TotalWealth("gold") * GoldUnit + totalSupply

LEMMA HoardTyped ==
  ASSUME NEW p \in Village, NEW r \in Resource
  PROVE  Hoard(p, r) \in Nat
BY DEF Hoard, Village, Resource

LEMMA WealthIsHoard ==
  ASSUME IInv, NEW r \in Resource
  PROVE  /\ \A c \in Account : Wealth(c, r) = Hoard(Settled(c), r) /\ Wealth(c, r) \in Nat
         /\ Hoards(r) \in [Account -> Int]
         /\ TotalWealth(r) \in Int /\ TotalWealth(r) = SumFunction(Hoards(r))
<1>1. ASSUME NEW c \in Account
      PROVE  Wealth(c, r) = Hoard(Settled(c), r) /\ Wealth(c, r) \in Nat
  <2>1. Settled(c) \in Village
    BY SettledSame
  <2>2. Hoard(Settled(c), r) \in Nat
    BY <2>1, HoardTyped
  <2> QED
    BY <2>2 DEF Wealth, Hoard, Settled
<1>2. Hoards(r) \in [Account -> Int]
  BY <1>1 DEF Hoards
<1>3. TotalWealth(r) = SumFunction(Hoards(r))
  BY DEF TotalWealth, Hoards
<1>4. SumFunction(Hoards(r)) \in Int
  BY <1>2, SumInt, AccountAssumption DEF SumFunction
<1> QED
  BY <1>1, <1>2, <1>3, <1>4

\* A village that has been settled now owns what it holds.
LEMMA SettledHoard ==
  ASSUME NEW c \in Account, NEW q, village'[c] = q, UNCHANGED now, now <= q.lastAccruedAt,
         NEW r \in Resource
  PROVE  Wealth(c, r)' = Hoard(q, r)
BY DEF Wealth, Hoard, AccrueUntil

LEMMA OtherHoard ==
  ASSUME NEW c \in Account, village'[c] = village[c], UNCHANGED now, NEW r \in Resource
  PROVE  Wealth(c, r)' = Wealth(c, r)
BY DEF Wealth

\* Replacing one village changes the total by what that village gains.
LEMMA OneHoard ==
  ASSUME IInv, NEW a \in Account, NEW q \in Village, village' = [village EXCEPT ![a] = q],
         UNCHANGED now, now <= q.lastAccruedAt, NEW r \in Resource
  PROVE  TotalWealth(r)' = TotalWealth(r) + (Hoard(q, r) - Hoard(Settled(a), r))
<1>1. village'[a] = q /\ \A c \in Account : c # a => village'[c] = village[c]
  BY DEF IInv, TypeOK
<1>2. Wealth(a, r)' = Hoard(q, r)
  BY <1>1, SettledHoard
<1>3. \A c \in Account : c # a => Wealth(c, r)' = Wealth(c, r)
  BY <1>1, OtherHoard
<1>4. Hoards(r) \in [Account -> Int] /\ Hoard(q, r) \in Int
      /\ TotalWealth(r) = SumFunction(Hoards(r)) /\ TotalWealth(r) \in Int
      /\ Hoards(r)[a] = Hoard(Settled(a), r) /\ Hoards(r)[a] \in Int
  BY WealthIsHoard, HoardTyped DEF Hoards
<1>5. Hoards(r)' = [Hoards(r) EXCEPT ![a] = Hoard(q, r)]
  BY <1>2, <1>3 DEF Hoards
<1> DEFINE h == [Hoards(r) EXCEPT ![a] = Hoard(q, r)]
<1>6. SumFunction(h) = SumFunction(Hoards(r)) + Hoard(q, r) - Hoards(r)[a]
  BY <1>4, AccountAssumption, SumUpdate
<1> HIDE DEF h
<1>7. TotalWealth(r)' = SumFunction(h)
  BY <1>5 DEF TotalWealth, Hoards, h
<1> QED
  BY <1>4, <1>6, <1>7

LEMMA TwoHoards ==
  ASSUME IInv, NEW a \in Account, NEW d \in Account, a # d,
         NEW p \in Village, NEW q \in Village, village' = [village EXCEPT ![a] = p, ![d] = q],
         UNCHANGED now, now <= p.lastAccruedAt, now <= q.lastAccruedAt, NEW r \in Resource
  PROVE  TotalWealth(r)' = TotalWealth(r) + ((Hoard(p, r) - Hoard(Settled(a), r))
                                             + (Hoard(q, r) - Hoard(Settled(d), r)))
<1>1. village'[a] = p /\ village'[d] = q
      /\ \A c \in Account : c # a /\ c # d => village'[c] = village[c]
  BY DEF IInv, TypeOK
<1>2. Wealth(a, r)' = Hoard(p, r) /\ Wealth(d, r)' = Hoard(q, r)
  BY <1>1, SettledHoard
<1>3. \A c \in Account : c # a /\ c # d => Wealth(c, r)' = Wealth(c, r)
  BY <1>1, OtherHoard
<1>4. Hoards(r) \in [Account -> Int] /\ Hoard(p, r) \in Int /\ Hoard(q, r) \in Int
      /\ TotalWealth(r) = SumFunction(Hoards(r)) /\ TotalWealth(r) \in Int
      /\ Hoards(r)[a] = Hoard(Settled(a), r) /\ Hoards(r)[a] \in Int
      /\ Hoards(r)[d] = Hoard(Settled(d), r) /\ Hoards(r)[d] \in Int
  BY WealthIsHoard, HoardTyped DEF Hoards
<1> DEFINE g == [Hoards(r) EXCEPT ![a] = Hoard(p, r)]
<1>5. g \in [Account -> Int] /\ g[d] = Hoards(r)[d]
  BY <1>4
<1>6. Hoards(r)' = [g EXCEPT ![d] = Hoard(q, r)]
  BY <1>2, <1>3 DEF Hoards
<1>7. SumFunction(g) = SumFunction(Hoards(r)) + Hoard(p, r) - Hoards(r)[a]
  BY <1>4, AccountAssumption, SumUpdate
<1> HIDE DEF g
<1> DEFINE h == [g EXCEPT ![d] = Hoard(q, r)]
<1>8. SumFunction(h) = SumFunction(g) + Hoard(q, r) - g[d]
  BY <1>4, <1>5, AccountAssumption, SumUpdate
<1> HIDE DEF h
<1>9. TotalWealth(r)' = SumFunction(h)
  BY <1>6 DEF TotalWealth, Hoards, h
<1>10. SumFunction(g) \in Int
  BY <1>5, SumInt, AccountAssumption DEF SumFunction
<1> QED
  BY <1>4, <1>5, <1>7, <1>8, <1>9, <1>10

\* Field gold that becomes CGOLD, and CGOLD that is burned, leave no more.
LEMMA GoldExchanged ==
  ASSUME NEW w \in Int, NEW v \in Int, NEW g \in Int, NEW s \in Int, NEW t \in Int,
         NEW x \in Int, v = w + x, t + x * g <= s
  PROVE  v * g + t <= w * g + s
<1>1. v * g = w * g + x * g
  OBVIOUS
<1>2. w * g \in Int /\ x * g \in Int
  OBVIOUS
<1> QED
  BY <1>1, <1>2

LEMMA OneVillageGains ==
  ASSUME IInv, NEW a \in Account, NEW q \in Village, village' = [village EXCEPT ![a] = q],
         UNCHANGED now, q.lastAccruedAt = Settled(a).lastAccruedAt,
         NEW x \in Int, totalSupply' \in Int, inventory' \in [Primary -> Int],
         \A r \in Primary : Hoard(q, r) + inventory'[r] <= Hoard(Settled(a), r) + inventory[r],
         q.field["gold"] = Settled(a).field["gold"] + x,
         totalSupply' + x * GoldUnit <= totalSupply
  PROVE  NothingGained
<1>0. now <= q.lastAccruedAt /\ Settled(a) \in Village
  <2>1. Settled(a) \in Village /\ Settled(a).lastAccruedAt
                = IF now <= village[a].lastAccruedAt THEN village[a].lastAccruedAt ELSE now
    BY SettledSame
  <2> QED
    BY <2>1 DEF IInv, TypeOK
<1>1. ASSUME NEW r \in Primary
      PROVE  TotalWealth(r)' + inventory'[r] <= TotalWealth(r) + inventory[r]
  <2>1. TotalWealth(r)' = TotalWealth(r) + (Hoard(q, r) - Hoard(Settled(a), r))
    BY <1>0, OneHoard DEF Resource
  <2>2. /\ TotalWealth(r) \in Int /\ Hoard(q, r) \in Int /\ Hoard(Settled(a), r) \in Int
        /\ inventory[r] \in Int /\ inventory'[r] \in Int
    BY <1>0, WealthIsHoard, HoardTyped DEF Resource, IInv, TypeOK
  <2> QED
    BY <2>1, <2>2
<1>2. TotalWealth("gold")' = TotalWealth("gold") + x
  <2>1. "gold" \in Resource
    BY DEF Resource
  <2>2. TotalWealth("gold")'
          = TotalWealth("gold") + (Hoard(q, "gold") - Hoard(Settled(a), "gold"))
    BY <1>0, <2>1, OneHoard
  <2>3. Hoard(q, "gold") = q.field["gold"] /\ Hoard(Settled(a), "gold") = Settled(a).field["gold"]
        /\ q.field["gold"] \in Int /\ Settled(a).field["gold"] \in Int
    BY <1>0, <2>1 DEF Hoard, Village
  <2> QED
    BY <2>1, <2>2, <2>3, WealthIsHoard
<1>3. TotalWealth("gold") \in Int /\ GoldUnit \in Int /\ totalSupply \in Int
  BY WealthIsHoard, ScaleAssumption DEF Resource, IInv, TypeOK
<1>4. TotalWealth("gold")' \in Int
  BY <1>2, <1>3
<1>5. TotalWealth("gold")' * GoldUnit + totalSupply'
        <= TotalWealth("gold") * GoldUnit + totalSupply
  BY <1>2, <1>3, <1>4, GoldExchanged
<1> QED
  BY <1>1, <1>5 DEF NothingGained

\* claim moves goods from the field to the warehouse and turns field gold into CGOLD.
LEMMA ClaimGains ==
  ASSUME IInv, NEW a \in Account, Claim(a)
  PROVE  NothingGained
<1> DEFINE p       == Settled(a)
           claimed == [r \in Primary |-> MinOf(p.field[r], RoomFor(p, r))]
           stored  == [r \in Primary |-> p.stored[r] + claimed[r]]
           field   == [r \in Resource |-> IF r = "gold" THEN 0 ELSE p.field[r] - claimed[r]]
           q       == [p EXCEPT !.stored = stored, !.field = field, !.lastClaimedAt = now]
<1>1. VillageOK(p) /\ p \in Village
  BY SettledSame
<1>2. village' = [village EXCEPT ![a] = q] /\ village'[a] = q
  BY DEF Claim, IInv, TypeOK
<1>3. MintGold(a, p.field["gold"] * GoldUnit) /\ UNCHANGED <<now, inventory>>
  BY DEF Claim, market
<1> HIDE DEF p
<1>4. \A r \in Primary : claimed[r] \in Nat
  BY <1>1, VillageFacts DEF MinOf, Resource
<1>5. \A r \in Resource : p.field[r] \in Nat
  BY <1>1, VillageFacts
<1>6. \A r \in Primary : p.stored[r] \in Nat
  BY <1>1, VillageFacts
<1> HIDE DEF claimed
<1>7. q.stored = stored /\ q.field = field /\ q.lastAccruedAt = p.lastAccruedAt
  BY <1>1 DEF Village
<1> HIDE DEF q
<1>8. q \in Village
  BY <1>2, ClaimKeeps DEF IInv, TypeOK
<1>9. \A r \in Primary : Hoard(q, r) = Hoard(p, r)
  BY <1>4, <1>5, <1>6, <1>7 DEF Hoard, Primary, Resource
<1>10. q.field["gold"] = 0 /\ p.field["gold"] \in Nat
  BY <1>5, <1>7 DEF Resource
<1>11. inventory' \in [Primary -> Int] /\ \A r \in Primary : inventory'[r] = inventory[r]
                                                 /\ inventory[r] \in Int /\ Hoard(p, r) \in Int
  BY <1>1, <1>3, HoardTyped DEF IInv, TypeOK, Resource
<1>12. totalSupply' = totalSupply + p.field["gold"] * GoldUnit /\ totalSupply \in Int
       /\ p.field["gold"] * GoldUnit \in Int
  BY <1>3, <1>10, ScaleAssumption DEF MintGold, IInv, TypeOK
<1> DEFINE x == 0 - p.field["gold"]
<1>13. x \in Int /\ q.field["gold"] = p.field["gold"] + x
  BY <1>10
<1>14. totalSupply' \in Int /\ totalSupply' + x * GoldUnit <= totalSupply
  <2>1. x * GoldUnit = 0 - p.field["gold"] * GoldUnit
    BY <1>10, ScaleAssumption
  <2> HIDE DEF x
  <2> QED
    BY <1>12, <2>1
<1> HIDE DEF x
<1>15. \A r \in Primary : Hoard(q, r) + inventory'[r] <= Hoard(p, r) + inventory[r]
  BY <1>9, <1>11
<1> QED
  BY <1>2, <1>3, <1>7, <1>8, <1>11, <1>13, <1>14, <1>15, OneVillageGains DEF p

\* A village that pays from its warehouse, and in CGOLD, gains nothing.
LEMMA SpendGains ==
  ASSUME IInv, IInv', NEW a \in Account, NEW cost \in Price, CanSpend(Settled(a), cost),
         NEW q, village' = [village EXCEPT ![a] = q],
         q.stored = StoredAfter(Settled(a), cost), q.field = Settled(a).field,
         q.lastAccruedAt = Settled(a).lastAccruedAt,
         BurnGold(a, cost["gold"] * GoldUnit), UNCHANGED <<now, inventory>>
  PROVE  NothingGained
<1> DEFINE p == Settled(a)
<1>1. VillageOK(p) /\ p \in Village
  BY SettledSame
<1>2. q \in Village
  BY DEF IInv, TypeOK
<1>3. \A r \in Primary : p.stored[r] \in Nat /\ p.field[r] \in Nat
                         /\ cost[r] \in Nat /\ q.stored[r] = p.stored[r] - cost[r]
  BY <1>1, VillageFacts DEF StoredAfter, Price, Resource
<1>4. \A r \in Primary : Hoard(q, r) <= Hoard(p, r)
  BY <1>3 DEF Hoard, Primary
<1>5. inventory' \in [Primary -> Int] /\ \A r \in Primary : inventory'[r] = inventory[r]
        /\ inventory[r] \in Int /\ Hoard(p, r) \in Int /\ Hoard(q, r) \in Int
  BY <1>1, <1>2, HoardTyped DEF IInv, TypeOK, Resource
<1>6. \A r \in Primary : Hoard(q, r) + inventory'[r] <= Hoard(p, r) + inventory[r]
  BY <1>4, <1>5
<1>7. cost["gold"] * GoldUnit \in Nat
  BY <1>1, SpendBounded
<1>8. PICK x \in Int : x = 0
  OBVIOUS
<1>9. totalSupply' \in Int /\ totalSupply' + x * GoldUnit <= totalSupply
  BY <1>7, <1>8, ScaleAssumption DEF BurnGold, IInv, TypeOK
<1>10. q.field["gold"] = p.field["gold"] + x
  BY <1>1, <1>8 DEF Village, Resource
<1> QED
  BY <1>2, <1>5, <1>6, <1>9, <1>10, OneVillageGains

LEMMA UpgradeGains ==
  ASSUME IInv, NEW a \in Account, NEW b \in Building, Upgrade(a, b)
  PROVE  NothingGained
<1> DEFINE p    == Settled(a)
           cost == BuildingCost[b][p.level[b]]
<1>1. p \in Village
  BY SettledSame
<1> HIDE DEF p
<1>2. cost \in Price /\ CanSpend(p, cost)
  BY <1>1, CurveAssumption DEF Upgrade, p, Village
<1>3. PICK q : /\ village' = [village EXCEPT ![a] = q]
               /\ q.stored = StoredAfter(p, cost) /\ q.field = p.field
               /\ q.lastAccruedAt = p.lastAccruedAt
  <2>1. PICK s \in Slot : \E job : village' = [village EXCEPT ![a] =
                         [p EXCEPT !.stored = StoredAfter(p, cost), !.jobs[s] = job]]
    BY DEF Upgrade, p
  <2>3. PICK job : village' = [village EXCEPT ![a] =
                         [p EXCEPT !.stored = StoredAfter(p, cost), !.jobs[s] = job]]
    BY <2>1
  <2> DEFINE q == [p EXCEPT !.stored = StoredAfter(p, cost), !.jobs[s] = job]
  <2>2. /\ q.stored = StoredAfter(p, cost) /\ q.field = p.field
        /\ q.lastAccruedAt = p.lastAccruedAt
    BY <1>1 DEF Village
  <2> QED
    BY <2>2, <2>3
<1>4. BurnGold(a, cost["gold"] * GoldUnit) /\ UNCHANGED <<now, inventory>>
  BY DEF Upgrade, p, market
<1>5. IInv'
  BY UpgradeKeeps
<1> HIDE DEF cost
<1> QED
  BY <1>2, <1>3, <1>4, <1>5, SpendGains DEF p

LEMMA TrainGains ==
  ASSUME IInv, NEW a \in Account, NEW o \in TriedTraining, Train(a, o.troop, o.amount)
  PROVE  NothingGained
<1> DEFINE p    == Settled(a)
           cost == [r \in Resource |-> o.amount * TroopCost[o.troop][r]]
<1>1. p \in Village /\ o.troop \in Troop /\ o.amount \in Nat
  BY SettledSame, InputAssumption
<1> HIDE DEF p
<1>2. cost \in Price
  <2>1. \A r \in Resource : TroopCost[o.troop][r] \in Nat
    BY <1>1, CurveAssumption DEF Price
  <2> QED
    BY <1>1, <2>1 DEF Price
<1>3. CanSpend(p, cost) /\ BurnGold(a, cost["gold"] * GoldUnit) /\ UNCHANGED <<now, inventory>>
  BY DEF Train, p, market
<1>4. PICK q : /\ village' = [village EXCEPT ![a] = q]
               /\ q.stored = StoredAfter(p, cost) /\ q.field = p.field
               /\ q.lastAccruedAt = p.lastAccruedAt
  <2>1. PICK troops : village' = [village EXCEPT ![a] =
                         [p EXCEPT !.stored = StoredAfter(p, cost), !.troops = troops]]
    BY <1>1 DEF Train, p, Village
  <2> DEFINE q == [p EXCEPT !.stored = StoredAfter(p, cost), !.troops = troops]
  <2>2. /\ q.stored = StoredAfter(p, cost) /\ q.field = p.field
        /\ q.lastAccruedAt = p.lastAccruedAt
    BY <1>1 DEF Village
  <2> QED
    BY <2>1, <2>2
<1>5. IInv'
  BY TrainKeeps
<1> HIDE DEF cost
<1> QED
  BY <1>2, <1>3, <1>4, <1>5, SpendGains DEF p

\* A trade moves goods between the warehouse and the inventory.
LEMMA TradeGains ==
  ASSUME IInv, NEW a \in Account, NEW r \in Primary, NEW amount \in Nat, NEW limit, NEW deadline,
         \/ BuyResource(a, r, amount, limit, deadline)
         \/ SellResource(a, r, amount, limit, deadline),
         IInv'
  PROVE  NothingGained
<1> DEFINE p == Settled(a)
<1>1. p \in Village /\ inventory \in [Primary -> Nat] /\ totalSupply \in Nat
  BY SettledSame DEF IInv, TypeOK
<1>2. PICK d \in Int :
        /\ inventory' = [inventory EXCEPT ![r] = inventory[r] - d]
        /\ village' = [village EXCEPT ![a] =
                         [p EXCEPT !.stored = [p.stored EXCEPT ![r] = p.stored[r] + d]]]
        /\ UNCHANGED <<now, totalSupply>>
  <2>1. CASE BuyResource(a, r, amount, limit, deadline)
    <3>1. inventory' = [inventory EXCEPT ![r] = inventory[r] + (-amount)]
      BY <2>1 DEF BuyResource, MoveInventory
    <3>2. inventory[r] + (-amount) = inventory[r] - amount
      BY <1>1
    <3>3. /\ village' = [village EXCEPT ![a] =
                         [p EXCEPT !.stored = [p.stored EXCEPT ![r] = p.stored[r] + amount]]]
          /\ UNCHANGED <<now, totalSupply>>
      BY <2>1 DEF BuyResource, TransferGold
    <3>4. inventory' = [inventory EXCEPT ![r] = inventory[r] - amount]
      BY <3>1, <3>2
    <3> HIDE DEF p
    <3> WITNESS amount \in Int
    <3> QED
      BY <3>3, <3>4
  <2>2. CASE SellResource(a, r, amount, limit, deadline)
    <3> DEFINE d == 0 - amount
    <3>1. inventory' = [inventory EXCEPT ![r] = inventory[r] + amount]
      BY <2>2 DEF SellResource, MoveInventory
    <3>2. inventory[r] + amount = inventory[r] - d /\ p.stored[r] - amount = p.stored[r] + d
          /\ d \in Int
      BY <1>1 DEF Village
    <3>3. /\ village' = [village EXCEPT ![a] =
                         [p EXCEPT !.stored = [p.stored EXCEPT ![r] = p.stored[r] - amount]]]
          /\ UNCHANGED <<now, totalSupply>>
      BY <2>2 DEF SellResource, TransferGold
    <3>4. /\ inventory' = [inventory EXCEPT ![r] = inventory[r] - d]
          /\ village' = [village EXCEPT ![a] =
                         [p EXCEPT !.stored = [p.stored EXCEPT ![r] = p.stored[r] + d]]]
      BY <3>1, <3>2, <3>3
    <3> HIDE DEF p, d
    <3> QED
      BY <3>2, <3>3, <3>4
  <2> QED
    BY <2>1, <2>2
<1> DEFINE stored == [p.stored EXCEPT ![r] = p.stored[r] + d]
           q      == [p EXCEPT !.stored = stored]
<1>3. q.stored = stored /\ q.field = p.field /\ q.lastAccruedAt = p.lastAccruedAt
  BY <1>1 DEF Village
<1>4. village' = [village EXCEPT ![a] = q]
  BY <1>2
<1>5. p.stored \in [Primary -> Nat] /\ p.field \in [Resource -> Nat]
  BY <1>1 DEF Village
<1> HIDE DEF q, p
<1>6. q \in Village
  BY <1>4 DEF IInv, TypeOK
<1>7. \A s \in Primary : Hoard(q, s) + inventory'[s] <= Hoard(p, s) + inventory[s]
  <2> SUFFICES ASSUME NEW s \in Primary
               PROVE  Hoard(q, s) + inventory'[s] <= Hoard(p, s) + inventory[s]
    OBVIOUS
  <2>1. p.stored[s] \in Int /\ p.field[s] \in Int /\ inventory[s] \in Int /\ s # "gold"
    BY <1>1, <1>5 DEF Primary, Resource
  <2>2. CASE s = r
    <3>1. q.stored[s] = p.stored[s] + d /\ inventory'[s] = inventory[s] - d
      BY <1>1, <1>2, <1>3, <1>5, <2>2
    <3> QED
      BY <1>3, <2>1, <3>1 DEF Hoard
  <2>3. CASE s # r
    <3>1. q.stored[s] = p.stored[s] /\ inventory'[s] = inventory[s]
      BY <1>1, <1>2, <1>3, <1>5, <2>3
    <3> QED
      BY <1>3, <2>1, <3>1 DEF Hoard
  <2> QED
    BY <2>2, <2>3
<1>8. PICK x \in Int : x = 0
  OBVIOUS
<1>9. totalSupply' \in Int /\ totalSupply' + x * GoldUnit <= totalSupply
  BY <1>1, <1>2, <1>8, ScaleAssumption
<1>10. q.field["gold"] = p.field["gold"] + x
  BY <1>3, <1>5, <1>8 DEF Resource
<1>11. inventory' \in [Primary -> Int]
  BY <1>1, <1>2
<1> QED
  BY <1>2, <1>3, <1>4, <1>6, <1>7, <1>9, <1>10, <1>11, OneVillageGains DEF p

\* What a raid takes from one field it brings to the other warehouse or mints;
\* the argument does not need the two villages to differ.
LEMMA RaidGains ==
  ASSUME IInv, NEW a \in Account, ResolveRaid(a)
  PROVE  NothingGained
<1> DEFINE raid   == village[a].raid
           d      == raid.defender
           p      == Settled(a)
           q      == Settled(d)
           won    == Power(raid.party) >= Defense(q)
           home   == Survivors(raid.party, won)
           stolen == IF won THEN Loot(p, q, Headcount(raid.party) * 18) ELSE NoLoot
           troops == [t \in Troop |-> p.troops[t] + home[t]]
           stored == [r \in Primary |-> p.stored[r] + stolen[r]]
           field  == [r \in Resource |-> q.field[r] - stolen[r]]
           guard  == Garrison(q.troops, won)
           winner == [p EXCEPT !.troops = troops, !.raid = NoRaid, !.stored = stored]
           victim == [Plundered(q, stolen) EXCEPT !.troops = guard]
<1>1. raid \in Raid /\ d \in Account
  BY DEF IInv, TypeOK, Village, Raid, ResolveRaid
<1>2. /\ village' = [village EXCEPT ![a] = winner, ![d] = victim]
      /\ MintGold(a, stolen["gold"] * GoldUnit)
      /\ UNCHANGED <<now, allowance, nullifierOwner, market>>
  BY DEF ResolveRaid
<1>3. VillageOK(p) /\ p \in Village /\ VillageOK(q) /\ q \in Village
  BY <1>1, SettledSame
<1>4. raid.party \in Party /\ Headcount(raid.party) * 18 \in Nat
  BY <1>1 DEF Raid, Headcount, Party, Troop
<1>5. now \in Nat /\ now <= p.lastAccruedAt /\ now <= q.lastAccruedAt
  <2>1. /\ p.lastAccruedAt = IF now <= village[a].lastAccruedAt THEN village[a].lastAccruedAt ELSE now
        /\ q.lastAccruedAt = IF now <= village[d].lastAccruedAt THEN village[d].lastAccruedAt ELSE now
    BY <1>1, SettledSame
  <2> QED
    BY <2>1 DEF IInv, TypeOK
<1>6. /\ winner.stored = stored /\ winner.field = p.field
      /\ winner.lastAccruedAt = p.lastAccruedAt
  <2> HIDE DEF p, stored, troops
  <2> QED
    BY <1>3 DEF Village
<1>7. /\ victim.stored = q.stored /\ victim.field = field
      /\ victim.lastAccruedAt = q.lastAccruedAt
  <2>1. victim = [q EXCEPT !.field = field, !.troops = guard]
    BY DEF Plundered
  <2> HIDE DEF q, field, guard, victim
  <2> QED
    BY <1>3, <2>1 DEF Village
<1>8. stolen \in [Resource -> Nat]
  <2> HIDE DEF raid, p, q, won
  <2>1. CASE won
    BY <1>3, <1>4, <2>1, LootBounded
  <2>2. CASE ~ won
    BY <2>2 DEF NoLoot
  <2> QED
    BY <2>1, <2>2
<1> HIDE DEF stolen
<1>9. \A r \in Primary : /\ stored[r] = p.stored[r] + stolen[r] /\ field[r] = q.field[r] - stolen[r]
                         /\ stolen[r] \in Nat /\ p.stored[r] \in Nat /\ q.stored[r] \in Nat
                         /\ p.field[r] \in Nat /\ q.field[r] \in Nat
  <2> HIDE DEF p, q
  <2> QED
    BY <1>3, <1>8, VillageFacts DEF Resource
<1>10. /\ field["gold"] = q.field["gold"] - stolen["gold"]
       /\ stolen["gold"] \in Nat /\ p.field["gold"] \in Nat /\ q.field["gold"] \in Nat
  <2> HIDE DEF p, q
  <2> QED
    BY <1>3, <1>8, VillageFacts DEF Resource
<1>11. IInv'
  BY ResolveRaidKeeps
<1>12. /\ totalSupply' = totalSupply + stolen["gold"] * GoldUnit
       /\ totalSupply \in Int /\ stolen["gold"] * GoldUnit \in Int /\ GoldUnit \in Int
  BY <1>2, <1>10, ScaleAssumption DEF MintGold, IInv, TypeOK
<1> HIDE DEF raid, d, p, q, won, home, troops, stored, field, guard, winner, victim
<1>13. victim \in Village
  <2>1. village'[d] = victim
    BY <1>1, <1>2 DEF IInv, TypeOK
  <2> QED
    BY <1>1, <1>11, <2>1 DEF IInv, TypeOK
<1>14. PICK x \in Int : x = 0 - stolen["gold"]
  BY <1>10
<1>15. totalSupply' \in Int /\ totalSupply' + x * GoldUnit <= totalSupply
  <2>1. \A y \in Nat, g \in Int : (0 - y) * g = 0 - y * g
    OBVIOUS
  <2>2. x * GoldUnit = 0 - stolen["gold"] * GoldUnit
    BY <1>10, <1>12, <1>14, <2>1
  <2> QED
    BY <1>12, <2>2
<1>16. /\ inventory \in [Primary -> Int] /\ inventory' = inventory
       /\ UNCHANGED now
  BY <1>2 DEF market, IInv, TypeOK
<1>17. victim.field["gold"] = q.field["gold"] + x
  BY <1>7, <1>10, <1>14
<1>18. CASE d = a
  <2>1. p = q
    BY <1>18 DEF p, q
  <2>2. village' = [village EXCEPT ![a] = victim]
    BY <1>2, <1>18
  <2>3. \A r \in Primary : Hoard(victim, r) + inventory'[r] <= Hoard(p, r) + inventory[r]
    <3>1. ASSUME NEW r \in Primary
          PROVE  Hoard(victim, r) <= Hoard(p, r) /\ Hoard(victim, r) \in Int
                 /\ Hoard(p, r) \in Int /\ inventory[r] \in Int
      BY <1>7, <1>9, <1>16, <2>1 DEF Hoard, Primary
    <3> QED
      BY <1>16, <3>1
  <2>4. /\ victim.lastAccruedAt = p.lastAccruedAt
        /\ victim.field["gold"] = p.field["gold"] + x
    BY <1>7, <1>17, <2>1
  <2> QED
    BY <1>13, <1>15, <1>16, <2>2, <2>3, <2>4, OneVillageGains DEF p
<1>19. CASE d # a
  <2>1. winner \in Village
    <3>1. village'[a] = winner
      BY <1>1, <1>2, <1>19 DEF IInv, TypeOK
    <3> QED
      BY <1>11, <3>1 DEF IInv, TypeOK
  <2>2. now <= winner.lastAccruedAt /\ now <= victim.lastAccruedAt
    BY <1>5, <1>6, <1>7
  <2>3. ASSUME NEW r \in Resource
        PROVE  TotalWealth(r)' = TotalWealth(r) + ((Hoard(winner, r) - Hoard(p, r))
                                                   + (Hoard(victim, r) - Hoard(q, r)))
    BY <1>1, <1>2, <1>13, <1>16, <1>19, <2>1, <2>2, TwoHoards DEF p, q
  <2>4. ASSUME NEW r \in Primary
        PROVE  TotalWealth(r)' + inventory'[r] <= TotalWealth(r) + inventory[r]
    <3>1. /\ Hoard(winner, r) = p.field[r] + p.stored[r] + stolen[r]
          /\ Hoard(victim, r) = q.field[r] - stolen[r] + q.stored[r]
          /\ Hoard(p, r) = p.field[r] + p.stored[r] /\ Hoard(q, r) = q.field[r] + q.stored[r]
      BY <1>6, <1>7, <1>9 DEF Hoard, Primary
    <3>2. TotalWealth(r)' = TotalWealth(r) + ((Hoard(winner, r) - Hoard(p, r))
                                                   + (Hoard(victim, r) - Hoard(q, r)))
      BY <2>3 DEF Resource
    <3>3. TotalWealth(r) \in Int /\ inventory[r] \in Int
      BY <1>16, WealthIsHoard DEF Resource
    <3>4. TotalWealth(r)' = TotalWealth(r)
      BY <1>9, <3>1, <3>2, <3>3
    <3> QED
      BY <1>16, <3>3, <3>4
  <2>5. TotalWealth("gold")' = TotalWealth("gold") + x /\ TotalWealth("gold") \in Int
    <3>1. /\ Hoard(winner, "gold") = p.field["gold"] /\ Hoard(p, "gold") = p.field["gold"]
          /\ Hoard(victim, "gold") = q.field["gold"] + x /\ Hoard(q, "gold") = q.field["gold"]
          /\ p.field["gold"] \in Int /\ q.field["gold"] \in Int
      BY <1>6, <1>10, <1>17 DEF Hoard
    <3>2. TotalWealth("gold")'
            = TotalWealth("gold") + ((Hoard(winner, "gold") - Hoard(p, "gold"))
                                     + (Hoard(victim, "gold") - Hoard(q, "gold")))
      BY <2>3 DEF Resource
    <3>3. TotalWealth("gold") \in Int
      BY WealthIsHoard DEF Resource
    <3> QED
      BY <3>1, <3>2, <3>3
  <2>6. TotalWealth("gold")' \in Int
    BY <2>5
  <2>7. TotalWealth("gold")' * GoldUnit + totalSupply'
          <= TotalWealth("gold") * GoldUnit + totalSupply
    BY <1>12, <1>15, <2>5, <2>6, GoldExchanged
  <2> QED
    BY <2>4, <2>7 DEF NothingGained
<1> QED
  BY <1>18, <1>19

\* Raids and claims move goods, costs destroy them and trades exchange them with
\* the market: none of them creates any, in all villages and the market together,
\* and what is minted is what the fields give up.
THEOREM NothingInvented == Spec => NoGoodsFromNothing
<1>1. ASSUME IInv, [Next]_vars, NEW a \in Account,
             \/ Claim(a) \/ ResolveRaid(a) \/ TradeStep(a)
             \/ \E b \in TriedBuildings : Upgrade(a, b)
             \/ \E o \in TriedTraining : Train(a, o.troop, o.amount)
      PROVE  NothingGained
  <2>1. CASE Claim(a)
    BY <1>1, <2>1, ClaimGains
  <2>2. CASE ResolveRaid(a)
    BY <1>1, <2>2, RaidGains
  <2>3. CASE TradeStep(a)
    <3>1. PICK o \in TriedTrades, limit \in TriedLimits, deadline \in TriedDeadlines :
            \/ BuyResource(a, o.resource, o.amount, limit, deadline)
            \/ SellResource(a, o.resource, o.amount, limit, deadline)
      BY <2>3 DEF TradeStep
    <3>2. o.resource \in Primary /\ o.amount \in Nat
      BY InputAssumption
    <3>3. IInv'
      BY <1>1, NextIInv
    <3> QED
      BY <1>1, <3>1, <3>2, <3>3, TradeGains
  <2>4. ASSUME NEW b \in TriedBuildings, Upgrade(a, b) PROVE NothingGained
    BY <1>1, <2>4, UpgradeGains, InputAssumption
  <2>5. ASSUME NEW o \in TriedTraining, Train(a, o.troop, o.amount) PROVE NothingGained
    BY <1>1, <2>5, TrainGains
  <2> QED
    BY <1>1, <2>1, <2>2, <2>3, <2>4, <2>5
<1>2. IInv /\ [Next]_vars =>
        ((\E a \in Account :
            \/ Claim(a) \/ ResolveRaid(a) \/ TradeStep(a)
            \/ \E b \in TriedBuildings : Upgrade(a, b)
            \/ \E o \in TriedTraining : Train(a, o.troop, o.amount)) =>
         /\ \A r \in Primary :
              TotalWealth(r)' + inventory'[r] <= TotalWealth(r) + inventory[r]
         /\ TotalWealth("gold")' * GoldUnit + totalSupply'
              <= TotalWealth("gold") * GoldUnit + totalSupply)
  BY <1>1 DEF NothingGained
<1> QED
  BY <1>2, Invariance, PTL DEF Spec, NoGoodsFromNothing

----------------------------------------------------------------------------
(* What the page shows and recommends (VillageProjection). *)

\* No village is settled ahead of the clock.
Clocked == \A a \in Account : village[a].lastAccruedAt <= now

\* Time only passes by itself.
LEMMA TimePasses ==
  ASSUME IInv, [Next]_vars
  PROVE  now' \in Nat /\ now <= now'
<1>0. now \in Nat /\ \A d \in Delays : d \in Nat
  BY InputAssumption DEF IInv, TypeOK
<1>1. ASSUME NEW a \in Account, VillageStep(a)
      PROVE  now' = now
  BY <1>1 DEF VillageStep, RegisterWallet, RegisterWorldId, Claim, Upgrade, CompleteUpgrade,
              BoostConstruction, Train, StartRaid, ResolveRaid, Prestige
<1>2. ASSUME NEW a \in Account, TradeStep(a) \/ TokenStep(a)
      PROVE  now' = now
  BY <1>2 DEF TradeStep, BuyResource, SellResource, TokenStep, Transfer, Approve, TransferFrom, Burn
<1>3. CASE GovernanceStep \/ RewardStep
  BY <1>3, <1>0 DEF GovernanceStep, ConfigureMarket, ConfigureRewardDistributor, RewardStep, MintReward
<1>4. ASSUME NEW d \in Delays, Tick(d)
      PROVE  now' = now + d
  BY <1>4 DEF Tick
<1>5. CASE UNCHANGED vars
  BY <1>0, <1>5 DEF vars
<1>6. CASE Next
  <2>1. CASE \E d \in Delays : Tick(d)
    <3>1. PICK d \in Delays : now' = now + d
      BY <1>4, <2>1
    <3>2. d \in Nat
      BY <1>0
    <3> QED
      BY <1>0, <3>1, <3>2
  <2>2. CASE \E a \in Account : VillageStep(a) \/ TradeStep(a) \/ TokenStep(a)
    <3>1. now' = now
      BY <1>1, <1>2, <2>2
    <3> QED
      BY <1>0, <3>1
  <2>3. CASE GovernanceStep \/ RewardStep
    BY <1>3, <2>3
  <2> QED
    BY <1>6, <2>1, <2>2, <2>3 DEF Next
<1> QED
  BY <1>5, <1>6

LEMMA NextClocked ==
  ASSUME IInv, Clocked, [Next]_vars
  PROVE  Clocked'
<1> SUFFICES ASSUME NEW a \in Account
             PROVE  village'[a].lastAccruedAt <= now'
  BY DEF Clocked
<1>1. now \in Nat /\ now' \in Nat /\ now <= now'
  BY TimePasses DEF IInv, TypeOK
<1>2. village[a].lastAccruedAt \in Nat /\ village[a].lastAccruedAt <= now
  BY DEF Clocked, IInv, TypeOK, Village
<1>3. village'[a].lastAccruedAt \in {village[a].lastAccruedAt, now}
  <2>1. StepEffect(a)
    BY NextEffect
  <2>2. CASE Restocked(Settled(a), village'[a])
    BY <1>2, <2>2, SettledSame DEF Restocked
  <2>3. CASE \E b \in TriedBuildings : Upgrade(a, b)
    <3>1. "townhall" \in Building
      BY DEF Building
    <3> QED
      BY <2>3, <3>1, UpgradeCounts DEF Windowed
  <2>4. CASE \E s \in Slot : CompleteUpgrade(a, s)
    <3>1. "townhall" \in Building
      BY DEF Building
    <3> QED
      BY <2>4, <3>1, CompletionCounts DEF Windowed
  <2>5. CASE \E s \in Slot, hours \in TriedHours : BoostConstruction(a, s, hours)
    <3>1. "townhall" \in Building
      BY DEF Building
    <3> QED
      BY <2>5, <3>1, BoostCounts DEF Windowed
  <2> QED
    BY <2>1, <2>2, <2>3, <2>4, <2>5 DEF StepEffect
<1> QED
  BY <1>1, <1>2, <1>3

LEMMA InitClocked == Init => Clocked
<1>1. NoVillage.lastAccruedAt = 0
  BY DEF NoVillage, NewVillage
<1> HIDE DEF NoVillage
<1> QED
  BY <1>1 DEF Init, Clocked

THEOREM ClockInvariance == Spec => []Clocked
<1>1. IInv /\ Clocked /\ [Next]_vars => Clocked'
  BY NextClocked
<1> QED
  BY <1>1, InitClocked, Invariance, PTL DEF Spec

\* A read carries the settled field and the curves of the village, and, unless a
\* call has failed, its fractions and its jobs.
LEMMA ReadFacts ==
  ASSUME NEW a \in Account, NEW s \in Reads(a)
  PROVE  LET p == village[a] IN
         /\ s.at = now /\ s.stored = p.stored /\ s.gold = gold[a] /\ s.level = p.level
         /\ s.available = ClaimAvailableAt(p)
         /\ \A e \in Slot : s.jobs[e] = p.jobs[e] \/ ~ s.jobs[e].pending
         /\ \A r \in Resource : /\ s.field[r] = Produced(p, now, r).whole
                                /\ s.remainder[r] \in {0, Produced(p, now, r).fraction}
                                /\ ClientRate(s, r) = RateOf(p, r)
         /\ ClientCapacity(s) = StorageOf(p)
<1>1. PICK x \in BOOLEAN, y \in BOOLEAN : s = Read(a, x, y)
  BY DEF Reads
<1> QED
  BY <1>1 DEF Read, ClientRate, RateOf, Multiplier, ClientCapacity, StorageOf, NoConstruction

\* Growing what was settled at t for d seconds, and then dropping the fraction,
\* gives what is settled at t + d.
LEMMA GrowthIsProduction ==
  ASSUME NEW p \in Village, Fits(p), NEW t \in Nat, NEW d \in Nat, NEW r \in Resource,
         p.lastAccruedAt <= t, (t + d) - p.lastAccruedAt <= MaxOffline
  PROVE  MinOf(StorageOf(p) * FractionScale,
               Produced(p, t, r).whole * FractionScale + Produced(p, t, r).fraction
                 + MinOf(d, MaxOffline) * RateOf(p, r)) \div FractionScale
           = Produced(p, t + d, r).whole
<1> DEFINE s     == FractionScale
           rate  == RateOf(p, r)
           room  == StorageOf(p)
           first == (t - p.lastAccruedAt) * rate + p.remainder[r]
           more  == d * rate
           all   == ((t + d) - p.lastAccruedAt) * rate + p.remainder[r]
           field == p.field[r]
           whole == Produced(p, t, r).whole
           part  == Produced(p, t, r).fraction
<1>1. /\ p.lastAccruedAt \in Nat /\ p.remainder[r] \in Nat /\ field \in Nat /\ field <= room
      /\ s \in Nat \ {0} /\ rate \in Nat /\ room \in Nat /\ MaxOffline \in Nat
  BY RateTyped, ScaleFacts, ClockAssumption DEF Village, StorageOf, Building, MaxOffline, Fits
<1>2. /\ MinOf(t - p.lastAccruedAt, MaxOffline) = t - p.lastAccruedAt
      /\ MinOf((t + d) - p.lastAccruedAt, MaxOffline) = (t + d) - p.lastAccruedAt
      /\ MinOf(d, MaxOffline) = d
  BY <1>1 DEF MinOf
<1>3. first \in Nat /\ more \in Nat
  <2>1. (t - p.lastAccruedAt) * rate \in Nat /\ d * rate \in Nat
    BY <1>1
  <2> QED
    BY <1>1, <2>1
<1>4. all = first + more
  <2>1. ((t + d) - p.lastAccruedAt) * rate = (t - p.lastAccruedAt) * rate + d * rate
    BY <1>1
  <2>2. (t - p.lastAccruedAt) * rate \in Int /\ d * rate \in Int
    BY <1>1
  <2> QED
    BY <1>1, <2>1, <2>2
<1>5. /\ Produced(p, t, r) = IF field >= room \/ field + first \div s >= room
                             THEN [whole |-> room, fraction |-> 0]
                             ELSE [whole |-> field + first \div s, fraction |-> first % s]
      /\ Produced(p, t + d, r) = IF field >= room \/ field + all \div s >= room
                                 THEN [whole |-> room, fraction |-> 0]
                                 ELSE [whole |-> field + all \div s, fraction |-> all % s]
  <2> DEFINE u == t + d
  <2>1. MinOf(u - p.lastAccruedAt, MaxOffline) = u - p.lastAccruedAt
    BY <1>2
  <2>2. Produced(p, t, r) = IF field >= room \/ field + first \div s >= room
                            THEN [whole |-> room, fraction |-> 0]
                            ELSE [whole |-> field + first \div s, fraction |-> first % s]
    BY <1>2 DEF Produced
  <2>3. all = (u - p.lastAccruedAt) * rate + p.remainder[r]
    OBVIOUS
  <2> HIDE DEF u, all
  <2>4. Produced(p, u, r) = IF field >= room \/ field + all \div s >= room
                            THEN [whole |-> room, fraction |-> 0]
                            ELSE [whole |-> field + all \div s, fraction |-> all % s]
    BY <2>1, <2>3 DEF Produced
  <2> QED
    BY <2>2, <2>4 DEF u
<1> DEFINE grown == whole * s + part + more
<1>6. SUFFICES MinOf(room * s, grown) \div s = Produced(p, t + d, r).whole
  BY <1>2
<1> HIDE DEF s, rate, room, first, more, all, field
<1>7. /\ all \div s = first \div s + ((first % s) + more) \div s
      /\ all % s = ((first % s) + more) % s
  BY <1>1, <1>3, <1>4, DivisionCarried
<1> DEFINE k == first \div s
           f == first % s
           j == (f + more) \div s
           m == (f + more) % s
<1>8. k \in Nat /\ f \in Nat
  BY <1>1, <1>3
<1>9. j \in Nat /\ m \in 0 .. s - 1 /\ f + more = s * j + m
  <2> DEFINE x == f + more
  <2>1. x \in Nat
    BY <1>3, <1>8
  <2> HIDE DEF x, f
  <2>2. x \div s \in Nat /\ x % s \in 0 .. s - 1 /\ x = s * (x \div s) + (x % s)
    BY <1>1, <2>1
  <2> QED
    BY <2>2 DEF x
<1>10. all \div s = k + j
  BY <1>7
<1> HIDE DEF k, f, j, m
<1>11. room * s \in Nat /\ (room * s) \div s = room
  <2>1. 0 \in 0 .. s - 1 /\ s * room + 0 = room * s
    BY <1>1
  <2> QED
    BY <1>1, <2>1, DivisionUnique
<1>12. CASE field >= room \/ field + k >= room
  <2>1. whole = room /\ part = 0
    BY <1>5, <1>12 DEF k
  <2>2. Produced(p, t + d, r).whole = room
    <3>1. field >= room \/ field + (k + j) >= room
      BY <1>1, <1>8, <1>9, <1>12
    <3> QED
      BY <1>5, <1>10, <3>1
  <2>3. MinOf(room * s, grown) = room * s
    BY <1>3, <1>11, <2>1 DEF MinOf
  <2> QED
    BY <1>11, <2>2, <2>3
<1>13. CASE ~ (field >= room \/ field + k >= room)
  <2>1. whole = field + k /\ part = f
    BY <1>5, <1>13 DEF k, f
  <2> DEFINE sum == field + (k + j)
  <2>2. sum \in Nat
    BY <1>1, <1>8, <1>9
  <2>3. grown = s * sum + m
    <3>1. grown = (field + k) * s + (f + more)
      <4>1. (field + k) * s \in Nat
        BY <1>1, <1>8
      <4> HIDE DEF whole, part
      <4> QED
        BY <1>3, <1>8, <2>1, <4>1
    <3>2. (field + k) * s + (s * j + m) = s * sum + m
      <4>1. s * sum = (field + k) * s + s * j
        BY <1>1, <1>8, <1>9
      <4>2. (field + k) * s \in Nat /\ s * j \in Nat /\ m \in Nat
        BY <1>1, <1>8, <1>9
      <4> HIDE DEF sum
      <4> QED
        BY <4>1, <4>2
    <3> QED
      BY <1>9, <3>1, <3>2
  <2>4. Produced(p, t + d, r).whole = IF sum >= room THEN room ELSE sum
    BY <1>5, <1>10, <1>13
  <2> HIDE DEF sum, whole, part, grown
  <2>5. /\ (s * sum + m) \div s = sum
        /\ s * sum \in Nat /\ m \in Nat /\ m < s
    <3>1. (s * sum + m) \div s = sum
      BY <1>1, <1>9, <2>2, DivisionUnique
    <3>2. s * sum \in Nat /\ m \in Nat /\ m < s
      BY <1>1, <1>9, <2>2
    <3> QED
      BY <3>1, <3>2
  <2> DEFINE top == room * s
             low == s * sum
  <2>6. CASE sum >= room
    <3>1. s * (sum - room) \in Nat /\ s * (sum - room) = s * sum - (room * s)
      BY <1>1, <2>2, <2>6
    <3>2. MinOf(room * s, grown) = room * s
      <4>1. low - top \in Nat /\ low \in Nat /\ top \in Nat /\ grown = low + m /\ m \in Nat
        BY <1>11, <2>3, <2>5, <3>1
      <4> HIDE DEF low, top
      <4>2. MinOf(top, grown) = top
        BY <4>1 DEF MinOf
      <4> QED
        BY <4>2 DEF top
    <3> QED
      BY <1>11, <2>4, <2>6, <3>2
  <2>7. CASE ~ sum >= room
    <3>1. s * (room - sum - 1) \in Nat /\ s * (room - sum - 1) = room * s - (s * sum) - s
      BY <1>1, <2>2, <2>7
    <3>2. MinOf(room * s, grown) = grown
      <4>1. top - low - s \in Nat /\ low \in Nat /\ top \in Nat /\ grown = low + m
        BY <1>11, <2>3, <2>5, <3>1
      <4> HIDE DEF low, top
      <4>2. MinOf(top, grown) = grown
        BY <1>1, <2>5, <4>1 DEF MinOf
      <4> QED
        BY <4>2 DEF top
    <3> QED
      BY <2>3, <2>4, <2>5, <2>7, <3>2
  <2> QED
    BY <2>6, <2>7
<1> QED
  BY <1>12, <1>13

\* Going on from less than a whole unit less loses at most one unit.
LEMMA FractionUnread ==
  ASSUME NEW n \in Nat \ {0}, NEW top \in Nat, NEW low \in Nat, NEW part \in 0 .. n - 1
  PROVE  LET known  == MinOf(top, low + part) \div n
             unread == MinOf(top, low) \div n
         IN  unread = known \/ unread = known - 1
<1> DEFINE x == MinOf(top, low + part)
           y == MinOf(top, low)
<1>1. x \in Nat /\ y \in Nat /\ y <= x /\ x <= n + y
  BY DEF MinOf
<1> HIDE DEF x, y
<1>2. x \div n \in Nat /\ y \div n \in Nat
  BY <1>1
<1>3. y \div n <= x \div n
  BY <1>1, QuotientGrows
<1>4. (n + y) \div n = 1 + y \div n
  <2>1. n \div n = 1 /\ n % n = 0
    <3>1. 1 \in Nat /\ 0 \in 0 .. n - 1 /\ n * 1 + 0 = n
      OBVIOUS
    <3> QED
      BY <3>1, DivisionUnique
  <2>2. (n + y) \div n = n \div n + ((n % n) + y) \div n
    BY <1>1, DivisionCarried
  <2> QED
    BY <1>1, <2>1, <2>2
<1>5. x \div n <= (n + y) \div n
  <2>1. n + y \in Nat
    BY <1>1
  <2> QED
    BY <1>1, <2>1, QuotientGrows
<1>6. y \div n = x \div n \/ y \div n = x \div n - 1
  BY <1>2, <1>3, <1>4, <1>5
<1> QED
  BY <1>6 DEF x, y

LEMMA ProjectionHolds == IInv /\ Clocked => ProjectionIsContract
<1> SUFFICES ASSUME IInv, Clocked, NEW a \in Players, NEW s \in Reads(a), NEW d \in 0 .. MaxOffline,
                    now + d - village[a].lastAccruedAt <= MaxOffline, NEW r \in Resource
             PROVE  LET shown   == Projected(s, d, r) \div FractionScale
                        settled == Produced(village[a], now + d, r).whole
                        unread  == s.remainder[r] # Produced(village[a], now, r).fraction
                    IN  shown = settled \/ (unread /\ shown = settled - 1)
  BY DEF ProjectionIsContract
<1>1. /\ a \in Account /\ VillageOK(village[a]) /\ village[a] \in Village /\ Fits(village[a])
      /\ village[a].lastAccruedAt <= now /\ now \in Nat /\ d \in Nat
  BY ClockAssumption DEF Players, IInv, VillagesOK, VillageOK, TypeOK, Clocked, MaxOffline
<1> DEFINE p     == village[a]
           whole == Produced(p, now, r).whole
           part  == Produced(p, now, r).fraction
           more  == MinOf(d, MaxOffline) * RateOf(p, r)
           top   == StorageOf(p) * FractionScale
<1>2. /\ s.field[r] = whole /\ s.remainder[r] \in {0, part}
      /\ ClientRate(s, r) = RateOf(p, r) /\ ClientCapacity(s) = StorageOf(p)
  BY <1>1, ReadFacts
<1>3. p \in Village /\ Fits(p) /\ p.lastAccruedAt <= now /\ (now + d) - p.lastAccruedAt <= MaxOffline
  <2>1. p.lastAccruedAt \in Nat
    BY <1>1 DEF Village
  <2> QED
    BY <1>1, <2>1, ClockAssumption DEF MaxOffline
<1> HIDE DEF p
<1>4. MinOf(top, whole * FractionScale + part + more) \div FractionScale
        = Produced(p, now + d, r).whole
  BY <1>1, <1>3, GrowthIsProduction
<1>5. /\ whole \in Nat /\ part \in 0 .. FractionScale - 1 /\ more \in Nat /\ top \in Nat
      /\ whole * FractionScale \in Nat /\ FractionScale \in Nat \ {0}
  <2>1. p.field[r] <= StorageOf(p) /\ StorageOf(p) \in Nat /\ RateOf(p, r) \in Nat
    BY <1>3, ScaleFacts, RateTyped DEF Fits, StorageOf, Village, Building
  <2>2. whole \in Nat /\ part \in 0 .. FractionScale - 1
    BY <1>1, <1>3, <2>1, ProducedBounded
  <2>3. MinOf(d, MaxOffline) \in Nat
    BY <1>1, ClockAssumption DEF MinOf, MaxOffline
  <2> HIDE DEF whole, part
  <2> QED
    BY <2>1, <2>2, <2>3, ScaleFacts
<1>6. Projected(s, d, r) = MinOf(top, whole * FractionScale + s.remainder[r] + more)
  BY <1>2 DEF Projected
<1> HIDE DEF whole, part, more, top
<1>7. CASE s.remainder[r] = part
  <2>1. Projected(s, d, r) \div FractionScale = Produced(p, now + d, r).whole
    BY <1>4, <1>6, <1>7
  <2> QED
    BY <2>1 DEF p
<1>8. CASE s.remainder[r] # part
  <2> DEFINE low == whole * FractionScale + more
  <2>1. /\ whole * FractionScale + s.remainder[r] + more = low
        /\ whole * FractionScale + part + more = low + part
        /\ low \in Nat
    <3> DEFINE base == whole * FractionScale
    <3>1. base \in Nat /\ more \in Nat /\ part \in Nat /\ s.remainder[r] = 0
      BY <1>2, <1>5, <1>8
    <3> HIDE DEF base
    <3>2. base + s.remainder[r] + more = base + more /\ base + part + more = base + more + part
          /\ base + more \in Nat
      BY <3>1
    <3> QED
      BY <3>2 DEF base
  <2> HIDE DEF low
  <2> DEFINE known  == MinOf(top, low + part) \div FractionScale
             unread == MinOf(top, low) \div FractionScale
  <2>2. unread = known \/ unread = known - 1
    BY <1>5, <2>1, FractionUnread
  <2>3. Projected(s, d, r) \div FractionScale = unread
    BY <1>6, <2>1
  <2>4. known = Produced(p, now + d, r).whole
    BY <1>4, <2>1
  <2> HIDE DEF known, unread
  <2> QED
    BY <1>8, <2>2, <2>3, <2>4 DEF p, part
<1> QED
  BY <1>7, <1>8

\* The field of a village that is left alone does not shrink.
LEMMA FieldGrows ==
  ASSUME NEW p \in Village, Fits(p), NEW t \in Nat, NEW u \in Nat, NEW r \in Resource,
         p.lastAccruedAt <= t, t <= u
  PROVE  Produced(p, t, r).whole <= AccrueUntil(p, u).field[r]
<1> DEFINE s     == FractionScale
           rate  == RateOf(p, r)
           room  == StorageOf(p)
           early == MinOf(t - p.lastAccruedAt, MaxOffline)
           late  == MinOf(u - p.lastAccruedAt, MaxOffline)
           first == early * rate + p.remainder[r]
           all   == late * rate + p.remainder[r]
           field == p.field[r]
<1>1. /\ p.lastAccruedAt \in Nat /\ p.remainder[r] \in 0 .. s - 1 /\ field \in Nat /\ field <= room
      /\ s \in Nat \ {0} /\ rate \in Nat /\ room \in Nat /\ MaxOffline \in Nat
  BY RateTyped, ScaleFacts, ClockAssumption DEF Village, StorageOf, Building, MaxOffline, Fits
<1>2. early \in Nat /\ late \in Nat /\ early <= late
  BY <1>1 DEF MinOf
<1>3. /\ Produced(p, t, r) = IF field >= room \/ field + first \div s >= room
                             THEN [whole |-> room, fraction |-> 0]
                             ELSE [whole |-> field + first \div s, fraction |-> first % s]
      /\ Produced(p, u, r) = IF field >= room \/ field + all \div s >= room
                             THEN [whole |-> room, fraction |-> 0]
                             ELSE [whole |-> field + all \div s, fraction |-> all % s]
  BY DEF Produced
<1>4. CASE u <= p.lastAccruedAt
  <2>1. t - p.lastAccruedAt = 0
    BY <1>1, <1>4
  <2>2. early = 0
    BY <1>1, <2>1 DEF MinOf
  <2>3. first = p.remainder[r]
    BY <1>1, <2>2
  <2>4. first \div s = 0
    <3>1. s * 0 + p.remainder[r] = p.remainder[r]
      BY <1>1
    <3> HIDE DEF s, first
    <3> QED
      BY <1>1, <2>3, <3>1, DivisionUnique
  <2>5. AccrueUntil(p, u).field[r] = field
    BY <1>4 DEF AccrueUntil
  <2> HIDE DEF s, room, field, first
  <2> QED
    BY <1>1, <1>3, <2>4, <2>5
<1>5. CASE ~ u <= p.lastAccruedAt
  <2>1. AccrueUntil(p, u).field[r] = Produced(p, u, r).whole
    <3> DEFINE grown     == [x \in Resource |-> Produced(p, u, x).whole]
               remainder == [x \in Resource |-> Produced(p, u, x).fraction]
    <3>1. AccrueUntil(p, u) = [p EXCEPT !.field = grown, !.remainder = remainder, !.lastAccruedAt = u]
      BY <1>5 DEF AccrueUntil
    <3>2. grown[r] = Produced(p, u, r).whole
      OBVIOUS
    <3> HIDE DEF grown, remainder
    <3>3. AccrueUntil(p, u).field = grown
      BY <3>1 DEF Village
    <3> QED
      BY <3>2, <3>3
  <2>2. first \in Nat /\ all \in Nat /\ first <= all
    <3>1. (late - early) * rate \in Nat /\ early * rate \in Nat /\ late * rate \in Nat
      BY <1>1, <1>2
    <3>2. (late - early) * rate = late * rate - early * rate
      BY <1>1, <1>2
    <3>3. p.remainder[r] \in Nat
      BY <1>1
    <3> HIDE DEF late, early, rate
    <3> QED
      BY <3>1, <3>2, <3>3
  <2> HIDE DEF s, room, field, first, all
  <2>3. first \div s \in Nat /\ all \div s \in Nat /\ first \div s <= all \div s
    <3>1. first \div s \in Nat /\ all \div s \in Nat
      BY <1>1, <2>2
    <3>2. first \div s <= all \div s
      BY <1>1, <2>2, QuotientGrows
    <3> QED
      BY <3>1, <3>2
  <2> QED
    BY <1>1, <1>3, <2>1, <2>3
<1> QED
  BY <1>4, <1>5

\* One slot more or less is one pending job more or less.
LEMMA SlotCounted ==
  ASSUME NEW T, IsFiniteSet(T), NEW e, e \notin T, NEW b \in BOOLEAN
  PROVE  LET U == T \cup (IF b THEN {e} ELSE {}) IN
         IsFiniteSet(U) /\ Cardinality(U) = Cardinality(T) + Bit(b)
<1>1. Cardinality(T) \in Nat
  BY FS_CardinalityType
<1>2. CASE b
  <2>1. IsFiniteSet(T \cup {e}) /\ Cardinality(T \cup {e}) = Cardinality(T) + 1
    BY FS_AddElement
  <2> QED
    BY <1>2, <2>1 DEF Bit
<1>3. CASE ~ b
  <2>1. T \cup {} = T
    OBVIOUS
  <2> QED
    BY <1>1, <1>3, <2>1 DEF Bit
<1> QED
  BY <1>2, <1>3

\* Counting the pending jobs as a set is counting them one by one.
LEMMA JobsAreCounted ==
  ASSUME NEW p \in Village
  PROVE  Cardinality({e \in Slot : p.jobs[e].pending}) = ActiveJobs(p)
<1> DEFINE O(e) == IF p.jobs[e].pending THEN {e} ELSE {}
           A == {} \cup O(0)
           B == A \cup O(1)
           C == B \cup O(2)
<1>1. \A e \in Slot : p.jobs[e].pending \in BOOLEAN
  BY DEF Village, Job
<1>2. IsFiniteSet({}) /\ Cardinality({}) = 0
  BY FS_EmptySet
<1>3. 0 \in Slot /\ 1 \in Slot /\ 2 \in Slot
  BY DEF Slot
<1>4. IsFiniteSet(A) /\ Cardinality(A) = 0 + Bit(p.jobs[0].pending) /\ A \subseteq {0}
  BY <1>1, <1>2, <1>3, SlotCounted
<1>5. 1 \notin A
  BY <1>4
<1> HIDE DEF A
<1>6. IsFiniteSet(B) /\ Cardinality(B) = Cardinality(A) + Bit(p.jobs[1].pending)
  BY <1>1, <1>3, <1>4, <1>5, SlotCounted
<1>7. 2 \notin B
  BY <1>4
<1> HIDE DEF B
<1>8. Cardinality(C) = Cardinality(B) + Bit(p.jobs[2].pending)
  BY <1>1, <1>3, <1>6, <1>7, SlotCounted
<1>9. C = {e \in Slot : p.jobs[e].pending}
  BY DEF A, B, Slot
<1> HIDE DEF C
<1>10. \A e \in Slot : Bit(p.jobs[e].pending) \in Nat
  BY DEF Bit
<1> QED
  BY <1>3, <1>4, <1>6, <1>8, <1>9, <1>10 DEF ActiveJobs

\* The client's levels imply the contract's.
LEMMA RequiredIsAllowed ==
  ASSUME NEW level \in [Building -> Level], NEW b \in Building,
         \A c \in Building : Required(b, level[b] + 1)[c] <= level[c]
  PROVE  BuildingAllowed(level, b)
<1> DEFINE next == level[b] + 1
<1>1. next \in Nat /\ \A c \in Building : level[c] \in Nat
  BY ScaleFacts DEF Level
<1>2. \A c \in Building : Required(b, next)[c] <= level[c]
  OBVIOUS
<1> HIDE DEF next
<1>3. CASE b = "townhall"
  <2>1. /\ Required(b, next)["timber"] = next /\ Required(b, next)["claypit"] = next
        /\ Required(b, next)["quarry"] = next
        /\ next >= 3 => Required(b, next)["warehouse"] = next - 1
        /\ next >= 5 => Required(b, next)["workshop"] = next - 3
    BY <1>3 DEF Required, Building
  <2>2. /\ next <= level["timber"] /\ next <= level["claypit"] /\ next <= level["quarry"]
        /\ next >= 3 => next - 1 <= level["warehouse"]
        /\ next >= 5 => next - 3 <= level["workshop"]
    BY <1>2, <2>1 DEF Building
  <2>3. /\ \A r \in Primary : level[Producer[r]] >= next
        /\ next >= 3 => level["warehouse"] >= next - 1
        /\ next >= 5 => level["workshop"] >= next - 3
    BY <1>1, <2>2 DEF Producer, Primary, Building
  <2> QED
    BY <1>3, <2>3 DEF BuildingAllowed, next
<1>4. CASE b = "warehouse"
  <2>1. 1 <= level["townhall"]
    BY <1>2, <1>4 DEF Required, Building
  <2> QED
    BY <1>1, <1>4, <2>1 DEF BuildingAllowed, Building
<1>5. CASE b = "workshop"
  <2>1. \A c \in {"townhall", "timber", "claypit", "quarry"} : 2 <= level[c]
    BY <1>2, <1>5 DEF Required, Building
  <2> QED
    BY <1>1, <1>5, <2>1 DEF BuildingAllowed, Building
<1>6. CASE b = "goldmine"
  <2>1. 4 <= level["townhall"] /\ 2 <= level["workshop"]
    BY <1>2, <1>6 DEF Required, Building
  <2> QED
    BY <1>1, <1>6, <2>1 DEF BuildingAllowed, Building
<1>7. CASE b = "barracks"
  <2>1. 3 <= level["townhall"] /\ 1 <= level["workshop"]
    BY <1>2, <1>7 DEF Required, Building
  <2> QED
    BY <1>1, <1>7, <2>1 DEF BuildingAllowed, Building
<1>8. CASE b \notin {"townhall", "warehouse", "workshop", "goldmine", "barracks"}
  BY <1>8 DEF BuildingAllowed
<1> QED
  BY <1>3, <1>4, <1>5, <1>6, <1>7, <1>8

\* What the page can collect from the block it read, a claim still finds there
\* d seconds later.
LEMMA CollectAccepted ==
  ASSUME IInv, Clocked, NEW a \in Account, NEW d \in Nat, NEW s \in Reads(a), ClaimEligible(s)
  PROVE  ClaimAccepted(village[a], now + d)
<1> DEFINE p == village[a]
           q == AccrueUntil(p, now + d)
<1>1. /\ VillageOK(p) /\ p \in Village /\ Fits(p) /\ p.lastAccruedAt <= now /\ now \in Nat
      /\ now + d \in Nat /\ now <= now + d
  BY DEF IInv, VillagesOK, VillageOK, TypeOK, Clocked
<1>2. /\ s.at = now /\ s.stored = p.stored /\ s.available = ClaimAvailableAt(p)
      /\ \A r \in Resource : s.field[r] = Produced(p, now, r).whole
      /\ ClientCapacity(s) = StorageOf(p)
  BY ReadFacts
<1>3. \A r \in Resource : /\ s.field[r] <= q.field[r]
                          /\ s.field[r] \in Nat /\ q.field[r] \in Nat
  <2> SUFFICES ASSUME NEW r \in Resource
               PROVE  s.field[r] <= q.field[r] /\ s.field[r] \in Nat /\ q.field[r] \in Nat
    OBVIOUS
  <2>1. Produced(p, now, r).whole <= q.field[r]
    BY <1>1, FieldGrows
  <2>2. Produced(p, now, r).whole \in Nat
    <3>1. p.field[r] <= StorageOf(p)
      BY <1>1 DEF Fits
    <3> HIDE DEF p
    <3> QED
      BY <1>1, <3>1, ProducedBounded
  <2>3. q.field[r] \in Nat
    BY <1>1, AccrueKeeps DEF Village
  <2> QED
    BY <1>2, <2>1, <2>2, <2>3
<1>4. now + d >= ClaimAvailableAt(p)
  <2>1. ClaimAvailableAt(p) \in Nat
    BY <1>1, ClockAssumption DEF ClaimAvailableAt, Village
  <2>2. now >= ClaimAvailableAt(p)
    BY <1>2 DEF ClaimEligible
  <2> QED
    BY <1>1, <2>1, <2>2
<1>5. CASE s.field["gold"] >= 1
  <2>1. "gold" \in Resource
    BY DEF Resource
  <2>2. q.field["gold"] > 0
    BY <1>3, <1>5, <2>1
  <2> QED
    BY <1>4, <2>2 DEF ClaimAccepted
<1>6. CASE \E r \in Primary : MinOf(s.field[r], ClientCapacity(s) - s.stored[r]) >= 1
  <2>1. PICK r \in Primary : MinOf(s.field[r], StorageOf(p) - p.stored[r]) >= 1
    BY <1>2, <1>6
  <2>2. r \in Resource /\ StorageOf(p) \in Nat /\ p.stored[r] \in Nat
    BY <1>1, VillageFacts DEF Resource
  <2>3. RoomFor(q, r) = MaxOf(0, StorageOf(p) - p.stored[r])
    <3>1. q.level = p.level
      BY <1>1, AccrueKeeps
    <3>2. q.stored = p.stored
      BY <1>1 DEF AccrueUntil, Village
    <3> HIDE DEF q
    <3> QED
      BY <3>1, <3>2 DEF RoomFor, StorageOf
  <2> HIDE DEF p, q
  <2>4. MinOf(q.field[r], RoomFor(q, r)) > 0
    BY <1>3, <2>1, <2>2, <2>3 DEF MinOf, MaxOf
  <2> QED
    BY <1>4, <2>4 DEF ClaimAccepted, p, q
<1> QED
  BY <1>5, <1>6 DEF ClaimEligible

LEMMA UpgradeIsAccepted ==
  ASSUME IInv, NEW a \in Account, NEW b \in Building, NEW s \in Reads(a), Buildable(s, b)
  PROVE  UpgradeAllowed(a, b) /\ (s.jobs = village[a].jobs => SlotIsFree(a))
<1> DEFINE p    == village[a]
           cost == BuildingCost[b][p.level[b]]
<1>1. /\ p \in Village /\ p.level \in [Building -> Level] /\ p.stored \in [Primary -> Nat]
      /\ gold[a] \in Nat
  BY DEF IInv, VillagesOK, VillageOK, TypeOK, Village, Holder
<1>2. s.level = p.level /\ s.stored = p.stored /\ s.gold = gold[a]
  BY ReadFacts
<1>3. cost \in Price
  BY <1>1, CurveAssumption
<1>4. BelowMaximum(p, b)
  BY <1>2 DEF Buildable, BelowMaximum
<1>5. BuildingAllowed(p.level, b)
  <2>1. \A c \in Building : Required(b, p.level[b] + 1)[c] <= p.level[c]
    BY <1>2 DEF Buildable
  <2> QED
    BY <1>1, <2>1, RequiredIsAllowed
<1>6. CanSpend(p, cost) /\ gold[a] >= cost["gold"] * GoldUnit
  <2>1. /\ \A r \in Primary : cost[r] <= p.stored[r]
        /\ cost["gold"] * GoldUnit <= gold[a]
    BY <1>2 DEF Buildable, Affordable
  <2>2. /\ \A r \in Primary : cost[r] \in Nat /\ p.stored[r] \in Nat
        /\ cost["gold"] \in Nat /\ cost["gold"] * GoldUnit \in Nat
    BY <1>1, <1>3, ScaleAssumption DEF Price, Resource
  <2> HIDE DEF cost
  <2> QED
    BY <1>1, <2>1, <2>2 DEF CanSpend
<1>7. ASSUME s.jobs = p.jobs
      PROVE  SlotIsFree(a)
  <2>1. Cardinality({e \in Slot : p.jobs[e].pending}) < SlotCapacity(p.level["workshop"])
    BY <1>2, <1>7 DEF Buildable
  <2> QED
    BY <1>1, <2>1, JobsAreCounted DEF SlotIsFree
<1> QED
  BY <1>4, <1>5, <1>6, <1>7 DEF UpgradeAllowed

LEMMA RecommendationHolds == IInv /\ Clocked => RecommendationAccepted
<1> SUFFICES ASSUME IInv, Clocked, NEW a \in Players, NEW s \in Reads(a), NEW d \in 0 .. MaxOffline
             PROVE  LET p == village[a] IN
                    /\ \A b \in TriedBuildings :
                         LET action == NextAction(s, d, b) IN
                         /\ action = "complete" =>
                              \E e \in Due(s, d) : p.jobs[e].pending /\ now + d >= p.jobs[e].completesAt
                         /\ action = "collect" => ClaimAccepted(p, now + d)
                         /\ action = "upgrade" =>
                              UpgradeAllowed(a, b) /\ (s.jobs = p.jobs => SlotIsFree(a))
                    /\ \A e \in Slot : BoostEligible(s, d, e) =>
                         /\ p.jobs[e].pending /\ now + d < p.jobs[e].completesAt
                         /\ BoostDuration <= p.jobs[e].completesAt - (now + d)
  BY DEF RecommendationAccepted
<1> DEFINE p == village[a]
<1>1. a \in Account /\ d \in Nat /\ now \in Nat
  BY ClockAssumption DEF Players, MaxOffline, IInv, TypeOK
<1>2. s.at = now /\ \A e \in Slot : s.jobs[e].pending => s.jobs[e] = p.jobs[e]
  BY <1>1, ReadFacts
<1>3. \A e \in Slot : p.jobs[e].completesAt \in Nat
  BY <1>1 DEF IInv, TypeOK, Village, Job
<1>4. ASSUME NEW b \in TriedBuildings, NextAction(s, d, b) = "complete"
      PROVE  \E e \in Due(s, d) : p.jobs[e].pending /\ now + d >= p.jobs[e].completesAt
  <2>1. PICK e : e \in Due(s, d)
    BY <1>4 DEF NextAction
  <2>2. e \in Slot /\ p.jobs[e].pending /\ p.jobs[e].completesAt <= now + d
    BY <1>2, <2>1 DEF Due
  <2>3. now + d >= p.jobs[e].completesAt
    BY <1>1, <1>3, <2>2
  <2> QED
    BY <2>1, <2>2, <2>3
<1>5. ASSUME NEW b \in TriedBuildings, NextAction(s, d, b) = "collect"
      PROVE  ClaimAccepted(p, now + d)
  <2>1. ClaimEligible(s)
    BY <1>5 DEF NextAction, Collectable
  <2> QED
    BY <1>1, <2>1, CollectAccepted
<1>6. ASSUME NEW b \in TriedBuildings, NextAction(s, d, b) = "upgrade"
      PROVE  UpgradeAllowed(a, b) /\ (s.jobs = p.jobs => SlotIsFree(a))
  <2>1. Buildable(s, b) /\ b \in Building
    BY <1>6, InputAssumption DEF NextAction
  <2> QED
    BY <1>1, <2>1, UpgradeIsAccepted
<1>7. ASSUME NEW e \in Slot, BoostEligible(s, d, e)
      PROVE  /\ p.jobs[e].pending /\ now + d < p.jobs[e].completesAt
             /\ BoostDuration <= p.jobs[e].completesAt - (now + d)
  <2>1. p.jobs[e].pending /\ p.jobs[e].completesAt - (now + d) >= BoostDuration
    BY <1>2, <1>7 DEF BoostEligible
  <2> QED
    BY <1>1, <1>3, <2>1, ClockAssumption
<1> QED
  BY <1>4, <1>5, <1>6, <1>7

\* Between two reads, the page shows what the contract will settle as long as no
\* offline window has passed since the last settlement (a unit less at most if it
\* could not read the fraction), and recommends what the contract will accept (an
\* upgrade may find its slot taken by a job that the page could not read).
THEOREM PageFollows == Spec => []PageFollowsContract
<1>1. IInv /\ Clocked => PageFollowsContract
  BY ProjectionHolds, RecommendationHolds DEF PageFollowsContract
<1> QED
  BY <1>1, Invariance, ClockInvariance, PTL

----------------------------------------------------------------------------
(* The same, by subject. *)

\* A job in the queue has a slot for as long as it runs, and ends in one level.
THEOREM JobsAreHeld == Spec => JobsHold
BY SlotsSafe, JobsKept, PTL DEF JobsHold

\* What villages own fits, comes from production and training, and is only moved
\* by everything else.
THEOREM AccountIsKept == Spec => VillagesKeepAccount
BY StorageSafe, NothingInvented, TroopsTrained, PTL DEF VillagesKeepAccount
=============================================================================
