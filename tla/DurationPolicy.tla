---------------------------- MODULE DurationPolicy ----------------------------
(***************************************************************************)
(* The proposal simulator of construction times                            *)
(* (src/simulation/policy-130-simulator.js): how many levels of a class of *)
(* building are complete by a horizon on each growth curve.  The two       *)
(* projections that compareCurves puts side by side share nothing, so a    *)
(* step here does one level of both.  Durations are whole seconds, growth  *)
(* and reductions basis points.                                            *)
(***************************************************************************)
EXTENDS Integers

CONSTANTS HorizonDays    \* the horizons that are compared, in days

ASSUME HorizonDaysAssumption == HorizonDays \subseteq Nat

VARIABLES
  buildingClass, horizonSeconds,
  level,           \* the level the loops are at
  rawSeconds,      \* what it takes on each curve, before any cap
  completedLevels, spentSeconds,
  going            \* whether the loop of a curve has not left off

durationVars == <<buildingClass, horizonSeconds, level, rawSeconds, completedLevels,
                  spentSeconds, going>>

HighestLevel      == 30
MaxOfflineSeconds == 72 * 60 * 60
MinJobSeconds     == 60
MaxReductionBps   == 3500

Curve     == {"steady", "accelerated"}
\* Faulty variant: a digit of the steady curve is mistyped.
FaultyGrowthBps == [steady |-> 10800, accelerated |-> 11350]
GrowthBps == [steady |-> 11800, accelerated |-> 11350]

BuildingClass == {"production", "logistics", "military", "civic"}
BaseSeconds   == [production |-> 480, logistics |-> 600, military |-> 720, civic |-> 900]

Boost == {"rested", "cooperative", "migration"}
OfBoost == [rested |-> 1000, cooperative |-> 1500, migration |-> 2000]
\* What a boost takes off, and nothing for one that is not applied.
BoostBps(boosts, b) == IF b \in boosts THEN OfBoost[b] ELSE 0

RoundedUp(a, b) == (a + b - 1) \div b

AtMost(bound, a)  == IF a < bound THEN a ELSE bound
AtLeast(bound, a) == IF a > bound THEN a ELSE bound

\* Faulty variant: the last boost replaces the others.
FaultyReductionBps(boosts) ==
  IF "rested" \in boosts THEN BoostBps(boosts, "rested")
  ELSE AtLeast(BoostBps(boosts, "cooperative"), BoostBps(boosts, "migration"))

\* reductionBps: boosts add up, to a limit.
ReductionBps(boosts) ==
  AtMost(MaxReductionBps,
         BoostBps(boosts, "rested") + BoostBps(boosts, "cooperative")
           + BoostBps(boosts, "migration"))

\* simulateJob
DurationSeconds(raw, boosts) ==
  AtMost(MaxOfflineSeconds,
         AtLeast(MinJobSeconds, RoundedUp(raw * (10000 - ReductionBps(boosts)), 10000)))

DurationInit ==
  /\ buildingClass \in BuildingClass
  /\ horizonSeconds \in {days * 24 * 60 * 60 : days \in HorizonDays}
  /\ level = 1
  /\ rawSeconds = [c \in Curve |-> BaseSeconds[buildingClass]]
  /\ completedLevels = [c \in Curve |-> 0]
  /\ spentSeconds = [c \in Curve |-> 0]
  /\ going = [c \in Curve |-> TRUE]

\* The next level is still complete by the horizon.
LevelFits(c) ==
  going[c] /\ spentSeconds[c] + DurationSeconds(rawSeconds[c], {}) <= horizonSeconds

\* Faulty variant: a level that does not fit is passed over and the next one tried.
FaultyGoesOn(c) == TRUE

GoesOn(c) == LevelFits(c)

\* levelsCompletedBy: one iteration; the growth is that of rawDurationSeconds.
DurationStep ==
  /\ level <= HighestLevel
  /\ \E c \in Curve : going[c]
  /\ level' = level + 1
  /\ rawSeconds' = [c \in Curve |-> RoundedUp(rawSeconds[c] * GrowthBps[c], 10000)]
  /\ completedLevels' = [c \in Curve |-> IF LevelFits(c) THEN level ELSE completedLevels[c]]
  /\ spentSeconds' =
       [c \in Curve |->
          IF LevelFits(c) THEN spentSeconds[c] + DurationSeconds(rawSeconds[c], {})
          ELSE spentSeconds[c]]
  /\ going' = [c \in Curve |-> GoesOn(c)]
  /\ UNCHANGED <<buildingClass, horizonSeconds>>

DurationNext == DurationStep
DurationSpec == DurationInit /\ [][DurationNext]_durationVars

----------------------------------------------------------------------------
(* Properties. *)

\* On the accelerated curve no level takes longer, and by no horizon are fewer
\* levels complete; with as many levels complete, no more time has gone by: the
\* roundings up and the two caps never turn the comparison around.
AcceleratedIsAhead ==
  /\ rawSeconds["accelerated"] <= rawSeconds["steady"]
  /\ completedLevels["steady"] <= completedLevels["accelerated"]
  /\ completedLevels["steady"] = completedLevels["accelerated"]
       => spentSeconds["accelerated"] <= spentSeconds["steady"]

\* Whatever the level and the curve: another boost never makes a job longer, and
\* with all of them it still takes more than three fifths of its time, unless
\* that is more than the longest time a job may take.
BoostsShorten ==
  \A c \in Curve : \A few, many \in SUBSET Boost :
    few \subseteq many =>
      /\ DurationSeconds(rawSeconds[c], many) <= DurationSeconds(rawSeconds[c], few)
      /\ \/ 5 * DurationSeconds(rawSeconds[c], many) > 3 * rawSeconds[c]
         \/ DurationSeconds(rawSeconds[c], many) = MaxOfflineSeconds

\* Levels are completed without a gap: the time spent is at least the shortest job
\* for each one, and never more than the horizon.
NoLevelIsSkipped ==
  \A c \in Curve :
    /\ going[c] => completedLevels[c] = level - 1
    /\ spentSeconds[c] <= horizonSeconds
    /\ MinJobSeconds * completedLevels[c] <= spentSeconds[c]

\* What the simulator is there to show holds at every horizon, level by level: the
\* accelerated curve is ahead, boosts shorten, and levels are counted one by one.
DurationsHold == AcceleratedIsAhead /\ BoostsShorten /\ NoLevelIsSkipped
=============================================================================
