------------------------- MODULE VillageProjection -------------------------
(***************************************************************************)
(* What the page makes of one read of a village until the next one: the    *)
(* field stock that it lets grow on the screen, and the action that it     *)
(* recommends, by a clock that it counts on from the block it read         *)
(* (src/world-game/reads.js, projections.js, src/game-ui/next-action.js).  *)
(* In every state the page reads the village, and then d seconds pass in   *)
(* which nobody acts on it.                                                *)
(***************************************************************************)
EXTENDS CivilizationGame, ClientRules

\* readRawState and decodeCivilizationState: all values are of one block, and
\* the field is settled up to it.  Two of the calls may fail without failing the
\* read: without previewAccrual the field is previewPlayerState's, whose fraction
\* is not known, and without constructionJob only the first slot is, which
\* previewPlayerState has too.  When any other fails there is nothing to show.
Read(a, accrualRead, jobsRead) ==
  LET p == village[a] IN
  [at            |-> now,
   field         |-> [r \in Resource |-> Produced(p, now, r).whole],
   remainder     |-> [r \in Resource |-> IF accrualRead THEN Produced(p, now, r).fraction ELSE 0],
   stored        |-> p.stored,
   gold          |-> gold[a],
   level         |-> p.level,
   jobs          |-> [e \in Slot |-> IF e = 0 \/ jobsRead THEN p.jobs[e] ELSE NoConstruction],
   prestigeCount |-> p.prestigeCount,
   available     |-> ClaimAvailableAt(p)]

Reads(a) == {Read(a, accrualRead, jobsRead) : accrualRead, jobsRead \in BOOLEAN}

ClientCapacity(s) == Capacity[s.level["warehouse"]]

\* Faulty variant: the bonus of a prestige is not counted.
FaultyClientRate(s, r) == Rate[r] * s.level[Producer[r]] * BasisPoints

ClientRate(s, r) ==
  Rate[r] * s.level[Producer[r]] * (BasisPoints + s.prestigeCount * PrestigeBonus)

\* projectCivilizationState: a resource in the field d seconds after the read,
\* in units of 1/FractionScale.
Projected(s, d, r) ==
  MinOf(ClientCapacity(s) * FractionScale,
        s.field[r] * FractionScale + s.remainder[r] + MinOf(d, MaxOffline) * ClientRate(s, r))

\* claimEligibility, which looks at the block that was read.
ClaimEligible(s) ==
  /\ s.at >= s.available
  /\ \/ \E r \in Primary : MinOf(s.field[r], ClientCapacity(s) - s.stored[r]) >= 1
     \/ s.field["gold"] >= 1

Due(s, d) == {e \in Slot : s.jobs[e].pending /\ s.jobs[e].completesAt <= s.at + d}

\* constructionBoostEligibility
BoostEligible(s, d, e) ==
  s.jobs[e].pending /\ s.jobs[e].completesAt - (s.at + d) >= BoostDuration

Affordable(s, cost) ==
  /\ \A r \in Primary : cost[r] <= s.stored[r]
  /\ cost["gold"] * GoldUnit <= s.gold

Collectable(s, d) == ClaimEligible(s) /\ \E r \in Resource : Projected(s, d, r) > 0

Buildable(s, b) ==
  /\ s.level[b] < MaxBuildingLevel
  /\ \A c \in Building : Required(b, s.level[b] + 1)[c] <= s.level[c]
  /\ Cardinality({e \in Slot : s.jobs[e].pending}) < SlotCapacity(s.level["workshop"])
  /\ Affordable(s, BuildingCost[b][s.level[b]])

\* deriveNextAction for building b; what else it recommends is to wait.
NextAction(s, d, b) ==
  IF Due(s, d) # {}         THEN "complete"
  ELSE IF Collectable(s, d) THEN "collect"
  ELSE IF Buildable(s, b)   THEN "upgrade"
  ELSE "wait"

----------------------------------------------------------------------------
(* What the contract accepts at time t. *)

ClaimAccepted(p, t) ==
  LET q == AccrueUntil(p, t) IN
  /\ t >= ClaimAvailableAt(p)
  /\ q.field["gold"] > 0 \/ \E r \in Primary : MinOf(q.field[r], RoomFor(q, r)) > 0

\* Whether upgrade finds a slot, and whether it accepts all the rest.
SlotIsFree(a) ==
  ActiveJobs(village[a]) < SlotCapacity(village[a].level["workshop"])

UpgradeAllowed(a, b) ==
  LET p == village[a] IN
  /\ BelowMaximum(p, b)
  /\ BuildingAllowed(p.level, b)
  /\ CanSpend(p, BuildingCost[b][p.level[b]])
  /\ gold[a] >= BuildingCost[b][p.level[b]]["gold"] * GoldUnit

----------------------------------------------------------------------------
Players == {a \in Account : Registered(a)}

\* As long as the village was settled within one offline window, the growth on
\* the screen is what the contract would settle: to the unit, or one unit less
\* when the page has not read the fraction that the field goes on from.
ProjectionIsContract ==
  \A a \in Players : \A s \in Reads(a), d \in 0 .. MaxOffline :
    now + d - village[a].lastAccruedAt <= MaxOffline =>
      \A r \in Resource :
        LET shown   == Projected(s, d, r) \div FractionScale
            settled == Produced(village[a], now + d, r).whole
            unread  == s.remainder[r] # Produced(village[a], now, r).fraction
        IN  shown = settled \/ (unread /\ shown = settled - 1)

\* The action that the page recommends, by its own clock and rules, is one that
\* the contract accepts then; so is the boost it offers.  An upgrade may still be
\* refused for a slot that is taken by a job which the page has not read, and
\* for nothing else.
RecommendationAccepted ==
  \A a \in Players : \A s \in Reads(a), d \in 0 .. MaxOffline :
    LET p == village[a] IN
    /\ \A b \in TriedBuildings :
         LET action == NextAction(s, d, b) IN
         /\ action = "complete" =>
              \E e \in Due(s, d) : p.jobs[e].pending /\ now + d >= p.jobs[e].completesAt
         /\ action = "collect" => ClaimAccepted(p, now + d)
         /\ action = "upgrade" => UpgradeAllowed(a, b) /\ (s.jobs = p.jobs => SlotIsFree(a))
    /\ \A e \in Slot : BoostEligible(s, d, e) =>
         /\ p.jobs[e].pending /\ now + d < p.jobs[e].completesAt
         /\ BoostDuration <= p.jobs[e].completesAt - (now + d)

\* What the page shows and recommends between two reads of the chain, by a read of
\* which some calls may have failed, is what the contract settles and accepts.
PageFollowsContract == ProjectionIsContract /\ RecommendationAccepted

\* "so UI animation cannot invent resources" (CivilizationGame.sol:1196): the
\* screen never shows more in the field than the contract would settle, were it
\* only by a page that has read everything.
ProjectionInventsNothing ==
  \A a \in Players, d \in 0 .. MaxOffline, r \in Resource :
    Projected(Read(a, TRUE, TRUE), d, r) \div FractionScale
      <= Produced(village[a], now + d, r).whole
=============================================================================
