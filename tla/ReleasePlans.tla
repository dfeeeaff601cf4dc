----------------------------- MODULE ReleasePlans -----------------------------
(***************************************************************************)
(* Upgrading the deployed game by reviewed plans                           *)
(* (scripts/plan-worldchain-market-v2.mjs, plan-worldchain-workshop-v11.mjs*)
(* which only read the chain and print calls): a plan is made while the    *)
(* proxy still runs the release it was written for, its calls are          *)
(* scheduled through the timelock one by one, and after the delay anybody  *)
(* executes them.  Both plans may be made, again and for other candidates, *)
(* before anything is executed.  The timelock is OpenZeppelin's: an        *)
(* operation is identified by its call and salt and executed once.         *)
(***************************************************************************)
EXTENDS Naturals, FiniteSets

CONSTANTS
  Candidate,    \* addresses that a new implementation may be deployed at
  Treasury,     \* how many reserves of CGOLD the timelock owns
  MaxCancels    \* bound: operations that are cancelled

ASSUME PlansAssumption == Treasury \in Nat /\ MaxCancels \in Nat

Release == {"market", "workshop"}
Goods == {"wood", "clay", "stone"}

VARIABLES
  released,     \* the code at the candidates
  running,      \* EIP-1967 implementation of the proxy
  planned,      \* operations of the plans that were made
  timelock,     \* operations scheduled, ready after the delay, and done
  configured,   \* goods whose market has a price and an inventory
  seeded,       \* how often the reserve was transferred to the proxy
  cancels

plansVars == <<released, running, planned, timelock, configured, seeded, cancels>>

Baseline == "EXPECTED_OLD_IMPLEMENTATION"

PlansInit ==
  /\ released = [c \in Candidate |-> "none"]
  /\ running = Baseline
  /\ planned = {}
  /\ timelock = [scheduled |-> {}, ready |-> {}, done |-> {}]
  /\ configured = {} /\ seeded = 0
  /\ cancels = 0

\* Anybody deploys something.
DeployCandidate(c, code) ==
  /\ released[c] = "none"
  /\ released' = [released EXCEPT ![c] = code]
  /\ UNCHANGED <<running, planned, timelock, configured, seeded, cancels>>

----------------------------------------------------------------------------
(* The plans. *)

Operation(call, of, salt) == [call |-> call, of |-> of, salt |-> salt]

\* Faulty variant: every action of the market's plan is salted like the
\* workshop's, with the candidate.
FaultyMarketSalt(c) == c

\* createTimelockOperations salts with the number of the action only.
MarketSalt(c) == "action"

MarketOperations(c) ==
  {Operation("upgrade", c, MarketSalt(c)), Operation("seed", "proxy", MarketSalt(c))}
    \cup {Operation("configure", g, MarketSalt(c)) : g \in Goods}

\* createWorkshopV11Operation
WorkshopOperations(c) == {Operation("upgrade", c, "workshop")}

\* The proxy runs the release that the plans were written for, the candidate is
\* what the source compiles to.
Reviewed(release, c) == running = Baseline /\ released[c] = release

MakeMarketPlan(c) ==
  /\ Reviewed("market", c)
  /\ planned' = planned \cup MarketOperations(c)
  /\ UNCHANGED <<released, running, timelock, configured, seeded, cancels>>

MakeWorkshopPlan(c) ==
  /\ Reviewed("workshop", c)
  /\ planned' = planned \cup WorkshopOperations(c)
  /\ UNCHANGED <<released, running, timelock, configured, seeded, cancels>>

----------------------------------------------------------------------------
(* The timelock.  No operation has a predecessor. *)

Known == timelock.scheduled \cup timelock.ready \cup timelock.done

Schedule(op) ==
  /\ op \in planned \ Known
  /\ timelock' = [timelock EXCEPT !.scheduled = @ \cup {op}]
  /\ UNCHANGED <<released, running, planned, configured, seeded, cancels>>

DelayPasses(op) ==
  /\ op \in timelock.scheduled
  /\ timelock' = [timelock EXCEPT !.scheduled = @ \ {op}, !.ready = @ \cup {op}]
  /\ UNCHANGED <<released, running, planned, configured, seeded, cancels>>

Cancel(op) ==
  /\ cancels < MaxCancels /\ cancels' = cancels + 1
  /\ op \in timelock.scheduled \cup timelock.ready
  /\ timelock' = [timelock EXCEPT !.scheduled = @ \ {op}, !.ready = @ \ {op}]
  /\ UNCHANGED <<released, running, planned, configured, seeded>>

\* A call that reverts leaves the operation ready.
ExecuteOperation(op) ==
  /\ op \in timelock.ready
  /\ \/ /\ op.call = "upgrade"
        /\ running' = op.of
        /\ UNCHANGED <<configured, seeded>>
     \/ /\ op.call = "configure"
        /\ running # Baseline /\ released[running] = "market"
        /\ configured' = configured \cup {op.of}
        /\ UNCHANGED <<running, seeded>>
     \/ /\ op.call = "seed"
        /\ seeded < Treasury
        /\ seeded' = seeded + 1
        /\ UNCHANGED <<running, configured>>
  /\ timelock' = [timelock EXCEPT !.ready = @ \ {op}, !.done = @ \cup {op}]
  /\ UNCHANGED <<released, planned, cancels>>

----------------------------------------------------------------------------
PlansNext ==
  \/ \E c \in Candidate :
       \/ \E code \in Release \cup {"other"} : DeployCandidate(c, code)
       \/ MakeMarketPlan(c) \/ MakeWorkshopPlan(c)
  \/ \E op \in planned :
       Schedule(op) \/ DelayPasses(op) \/ Cancel(op) \/ ExecuteOperation(op)

PlansSpec == PlansInit /\ [][PlansNext]_plansVars

----------------------------------------------------------------------------
\* However often plans are made, scheduled, cancelled and made again, for
\* whatever candidates: the timelock pays the reserve once, and the proxy runs
\* its old code or code that was compiled from reviewed source.
ReleasedAsPlanned ==
  /\ seeded <= 1
  /\ running # Baseline => released[running] \in Release
=============================================================================
