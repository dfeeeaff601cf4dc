---------------------------- MODULE MCProcedures ----------------------------
(***************************************************************************)
(* What goes on beside the game and shares no state with it, each explored *)
(* on its own: players who follow the building plan, the payout of         *)
(* revenue, and rewards.  Of three recipients of revenue two or three share*)
(* at a time, in quarters of which most amounts leave a remainder; a period*)
(* has three seconds and the clock can jump over one, so that deadlines    *)
(* are missed.                                                             *)
(***************************************************************************)
EXTENDS MCPlan, RevenueSplitter, RewardDistributor

VARIABLE stage

Init ==
  /\ SplitterInit /\ RewardInit /\ PlanInit
  /\ \/ stage \in {"payout", "rewards"} /\ selected = NoBuilding
                                        /\ village.level = MCInitialLevel
     \/ stage = "plan" /\ selected # NoBuilding

Next ==
  /\ UNCHANGED stage
  /\ \/ stage = "payout"  /\ SplitterNext /\ UNCHANGED <<planVars, rewardVars>>
     \/ stage = "rewards" /\ RewardNext   /\ UNCHANGED <<planVars, splitterVars>>
     \/ stage = "plan"    /\ PlanNext     /\ UNCHANGED <<splitterVars, rewardVars>>

Spec == Init /\ [][Next]_<<stage, planVars, splitterVars, rewardVars>>

----------------------------------------------------------------------------
CONSTANTS r1, r2, r3

Give(r, n) == [to |-> r, share |-> n]
TwoWays    == <<Give(r1, 2), Give(r2, 2)>>
ThreeWays  == <<Give(r3, 1), Give(r1, 1), Give(r2, 2)>>
Rotated    == <<Give(r2, 1), Give(r3, 3)>>
MCSplits   == {ThreeWays, Rotated}

----------------------------------------------------------------------------
CONSTANTS d1, d2, alice, bob, i1, i2

\* Grants share a reward id, or a recipient and nonce; one is signed by both
\* issuers, one for both deployments.
MCGrant(d, who, amount, id, nonce, deadline) ==
  [contract |-> d, recipient |-> who, amount |-> amount, rewardId |-> id,
   nonce |-> nonce, deadline |-> deadline]

MCFirst ==
  {MCGrant(d1, alice, 1, 1, 1, 3), MCGrant(d1, bob, 2, 1, 1, 3),
   MCGrant(d1, alice, 2, 2, 1, 3), MCGrant(d1, bob, 2, 3, 2, 2)}

MCSecond == {MCGrant(d1, bob, 2, 1, 1, 3), MCGrant(d2, alice, 1, 1, 1, 1)}

MCSigned == [i \in Issuer |-> IF i = i1 THEN MCFirst ELSE MCSecond]

MCConfig(i, claim, cap, seconds) ==
  [issuer |-> i, perClaimCap |-> claim, periodCap |-> cap, periodSeconds |-> seconds]

MCConfigs ==
  [d \in Distributor |->
     IF d = d1 THEN {MCConfig(i1, 2, 3, 2), MCConfig(i1, 2, 2, 3), MCConfig(i2, 2, 3, 1)}
               ELSE {MCConfig(i2, 2, 2, 2)}]
=============================================================================
