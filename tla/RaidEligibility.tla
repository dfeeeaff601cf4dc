---------------------------- MODULE RaidEligibility ----------------------------
(***************************************************************************)
(* The raid eligibility policy (src/server/raid-eligibility-policy.js): a  *)
(* decision over a policy, two participants, how many targets there are    *)
(* and a history of raids.  The evaluator keeps nothing; what changes here *)
(* is the world whose facts a caller captures: time passes and raids are   *)
(* recorded, whether or not the policy, which authorizes nothing, would    *)
(* have allowed them.  Times are in units of the policy's.                 *)
(***************************************************************************)
EXTENDS Integers, FiniteSets

CONSTANTS
  Player,
  TriedPolicies,    \* what a caller may pass as the policy
  TriedStrengths, TriedCounts,
  MaxTime, MaxRaids \* bounds of the clock and of the history

\* policy() takes no field that is not a safe, non-negative integer.
ASSUME TriedPoliciesAssumption ==
  \A p \in TriedPolicies :
    /\ p.repeatRaidCooldownMs \in Nat /\ p.historyWindowMs \in Nat
    /\ p.newPlayerProtectionMs \in Nat /\ p.reciprocalPairRaidLimit \in Nat

VARIABLES
  policy, strength, createdAt, available, eligibleTargetCount,
  raids,   \* the history: what was recorded, with an id of its own
  nowMs

raidVars == <<policy, strength, createdAt, available, eligibleTargetCount, raids, nowMs>>

\* Faulty variant: any window is accepted.
FaultyAccepted(p) == p.reciprocalPairRaidLimit >= 1

\* policy(): what a policy must satisfy beyond having its fields.
Accepted(p) ==
  /\ p.reciprocalPairRaidLimit >= 1
  /\ p.historyWindowMs >= p.repeatRaidCooldownMs

----------------------------------------------------------------------------
(* evaluateRaidEligibility *)

\* The window includes its lower boundary ...
InWindow == {e \in raids : e.occurredAtMs >= nowMs - policy.historyWindowMs}

Directed(a, t) == {e \in InWindow : e.attackerId = a /\ e.targetId = t}

FallbackApplies ==
  /\ policy.relaxStrengthEligibility
  /\ eligibleTargetCount <= policy.maximumEligibleTargetCount

StrengthPasses(a, t) ==
  /\ strength[a] >= policy.minimumAttackerStrength
  /\ strength[a] * 10000 <= strength[t] * policy.maximumAttackerToTargetRatioBps

\* Faulty variant: only the pair's last raid counts.
FaultyRepeatRaidCooldownApplies(a, t) ==
  \E e \in Directed(a, t) :
    /\ e.occurredAtMs > nowMs - policy.repeatRaidCooldownMs
    /\ \A f \in Directed(t, a) : f.id < e.id

\* ... and the cooldown is over at its exact end.
RepeatRaidCooldownApplies(a, t) ==
  \E e \in Directed(a, t) : e.occurredAtMs > nowMs - policy.repeatRaidCooldownMs

\* Faulty variant: the limit is for attacks that are not answered.
FaultyReciprocalPatternApplies(a, t) ==
  /\ Cardinality(Directed(a, t)) >= policy.reciprocalPairRaidLimit
  /\ Directed(t, a) = {}

ReciprocalPatternApplies(a, t) ==
  /\ Cardinality(Directed(a, t) \cup Directed(t, a)) >= policy.reciprocalPairRaidLimit
  /\ Directed(a, t) # {}
  /\ Directed(t, a) # {}

Protected(t) == nowMs - createdAt[t] < policy.newPlayerProtectionMs

Eligible(a, t) ==
  /\ a # t
  /\ available[a] /\ available[t]
  /\ ~ Protected(t)
  /\ StrengthPasses(a, t) \/ FallbackApplies
  /\ ~ RepeatRaidCooldownApplies(a, t)
  /\ ~ ReciprocalPatternApplies(a, t)

----------------------------------------------------------------------------
(* The world the facts are captured from. *)

RaidInit ==
  /\ policy \in {p \in TriedPolicies : Accepted(p)}
  /\ strength \in [Player -> TriedStrengths]
  /\ createdAt = [p \in Player |-> 0]
  /\ available \in [Player -> BOOLEAN]
  /\ eligibleTargetCount \in TriedCounts
  /\ raids = {}
  /\ nowMs = 0

TimePasses ==
  /\ nowMs < MaxTime
  /\ nowMs' = nowMs + 1
  /\ UNCHANGED <<policy, strength, createdAt, available, eligibleTargetCount, raids>>

\* A raid is final and becomes part of the history.
RaidIsRecorded(a, t) ==
  /\ a # t
  /\ Cardinality(raids) < MaxRaids
  /\ raids' = raids \cup {[id |-> Cardinality(raids) + 1, attackerId |-> a, targetId |-> t,
                           occurredAtMs |-> nowMs]}
  /\ UNCHANGED <<policy, strength, createdAt, available, eligibleTargetCount, nowMs>>

RaidNext ==
  \/ TimePasses
  \/ \E a, t \in Player : RaidIsRecorded(a, t)

RaidSpec == RaidInit /\ [][RaidNext]_raidVars

----------------------------------------------------------------------------
(* Properties. *)

TypeOKRaid ==
  /\ policy.repeatRaidCooldownMs \in Nat /\ policy.historyWindowMs \in Nat
  /\ policy.newPlayerProtectionMs \in Nat
  /\ nowMs \in Nat
  /\ createdAt \in [Player -> 0 .. nowMs]
  /\ IsFiniteSet(raids)
  /\ \A e \in raids : e.occurredAtMs \in 0 .. nowMs

\* Whoever raided somebody cannot do it again before the cooldown is over, however
\* long the history that the policy looks at is, and whatever the other one did.
CooldownHolds ==
  \A e \in raids :
    e.occurredAtMs > nowMs - policy.repeatRaidCooldownMs
      => ~ Eligible(e.attackerId, e.targetId)

\* Waiting never costs a player a target: what time alone changes is a protection,
\* a cooldown or a pattern that ends.
WaitingOnlyHelps ==
  [][nowMs < nowMs' /\ UNCHANGED raids =>
       \A a, t \in Player : Eligible(a, t) => Eligible(a, t)']_raidVars

\* No raid, of whomever against whom, makes anybody a target that was none.
RaidsOnlyDeny ==
  [][raids # raids' /\ raids \subseteq raids' /\ UNCHANGED nowMs =>
       \A a, t \in Player : Eligible(a, t)' => Eligible(a, t)]_raidVars

\* A right to raid is lost by a raid and comes back with time, and in no other way:
\* for whom a cooldown runs it is lost, and no boundary of window, cooldown or
\* protection takes it away or gives it twice.
PolicyHolds == []CooldownHolds /\ WaitingOnlyHelps /\ RaidsOnlyDeny
=============================================================================
