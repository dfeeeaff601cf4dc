--------------------------- MODULE ProxyDeployment ---------------------------
(***************************************************************************)
(* Deploying a release (scripts/worldchain-proxy-runner.mjs): contracts    *)
(* are created one by one, each at the address that the reviewed plan      *)
(* computes from the deployer's nonce, with --resume after an interruption.*)
(* Runs keep nothing but the chain, several may be under way, and the      *)
(* deployer's key can be used elsewhere.  Nonces count from the plan's: the*)
(* transaction with nonce s - 1 creates at the address of step s.          *)
(***************************************************************************)
EXTENDS Integers

CONSTANTS
  Runner,        \* processes of the script
  Steps,         \* the number of DEPLOYMENT_STEPS
  Governed,      \* steps whose contract governance can reconfigure
  MaxForeign,    \* bound: other transactions of the deployer
  MaxFaults      \* bound: crashes, errors, lagging answers, dropped transactions

ASSUME DeploymentAssumption ==
  /\ Steps \in Nat \ {0}
  /\ Governed \subseteq 1 .. Steps
  /\ MaxForeign \in Nat /\ MaxFaults \in Nat

Step == 1 .. Steps
PlanNonce == 1 .. Steps + 1     \* nonces, and one that no step uses

VARIABLES
  mined,      \* the deployer's transactions in the chain
  pending,    \* those that are not yet, by nonce; they exclude each other
  code,       \* what is at the planned addresses
  changed,    \* steps whose contract was reconfigured
  runner,     \* local variables of the runs
  foreign, faults

chainVars  == <<mined, pending, code, changed>>
budgets    == <<foreign, faults>>
deployVars == <<chainVars, runner, budgets>>

Idle == [pc |-> "idle", prefix |-> 0, at |-> 1]

DeployInit ==
  /\ mined = 0
  /\ pending = [n \in PlanNonce |-> {}]
  /\ code = [s \in Step |-> "empty"]
  /\ changed = {}
  /\ runner = [r \in Runner |-> Idle]
  /\ foreign = 0 /\ faults = 0

----------------------------------------------------------------------------
(* The chain. *)

\* getTransactionCount of "pending".
PendingCount ==
  CHOOSE n \in mined .. Steps + 1 :
    /\ \A m \in mined + 1 .. n : pending[m] # {}
    /\ n \in Step \cup {0} => pending[n + 1] = {}

\* A creation may revert, and a transaction that is none leaves no code either.
Outcomes(tx) ==
  {"empty"} \cup (IF tx = "planned" THEN {"planned"} ELSE {})
            \cup (IF tx = "create" THEN {"other"} ELSE {})

Mined(n, tx, outcome) ==
  /\ n = mined + 1 /\ tx \in pending[n]
  /\ outcome \in Outcomes(tx)
  /\ mined' = n
  /\ pending' = [pending EXCEPT ![n] = {}]
  /\ code' = [s \in Step |-> IF s = n THEN outcome ELSE code[s]]
  /\ UNCHANGED <<changed, runner, budgets>>

Dropped(n) ==
  /\ pending[n] # {}
  /\ faults < MaxFaults /\ faults' = faults + 1
  /\ pending' = [pending EXCEPT ![n] = {}]
  /\ UNCHANGED <<mined, code, changed, runner, foreign>>

\* The key signs something else, with the next nonce or in place of a
\* transaction that is pending.
ForeignSent(n, tx) ==
  /\ foreign < MaxForeign /\ foreign' = foreign + 1
  /\ n > mined
  /\ n = PendingCount + 1 \/ pending[n] # {}
  /\ pending' = [pending EXCEPT ![n] = @ \cup {tx}]
  /\ UNCHANGED <<mined, code, changed, runner, faults>>

\* Governance upgrades the proxy, say, or sets another distribution.
Reconfigured(s) ==
  /\ foreign < MaxForeign /\ foreign' = foreign + 1
  /\ code[s] = "planned" /\ s \in Governed \ changed
  /\ changed' = changed \cup {s}
  /\ UNCHANGED <<mined, pending, code, runner, faults>>

----------------------------------------------------------------------------
(* A run. *)

Go(r, pc, at) == runner' = [runner EXCEPT ![r].pc = pc, ![r].at = at]
Stop(r) == runner' = [runner EXCEPT ![r] = Idle]

\* A replica may answer with what was true before.
Answer(truth, earlier, answer) ==
  \/ answer = truth /\ UNCHANGED faults
  \/ answer \in earlier \ {truth} /\ faults < MaxFaults /\ faults' = faults + 1

\* Faulty variant: one contract alone is not taken for a prefix to resume.
FaultyAccepts(resuming, count) ==
  IF resuming THEN count \in 2 .. Steps ELSE count = 0

\* Without --resume no nonce of the plan may be used, with it some prefix.
Accepts(resuming, count) == IF resuming THEN count \in Step ELSE count = 0

\* A run that is refused ends before it does anything.
Start(r, resuming) ==
  \E count \in 0 .. Steps + 1 :
    /\ runner[r].pc = "idle"
    /\ Answer(PendingCount, 0 .. PendingCount, count)
    /\ Accepts(resuming, count)
    /\ runner' = [runner EXCEPT ![r] =
         IF resuming THEN [pc |-> "recovering", prefix |-> count, at |-> 1]
                     ELSE [pc |-> "sending", prefix |-> 0, at |-> 1]]
    /\ UNCHANGED <<chainVars, foreign>>

\* Faulty variant: any code is taken for the reviewed one.
FaultyExact(seen) == seen # "empty"

\* assertExactRuntimeBytecode
Exact(seen) == seen = "planned"

\* recoverDeploymentPrefix, address by address: the prefix as reviewed, nothing
\* after it.
Recover(r) ==
  LET s == runner[r].at
  IN  \E seen \in {"empty", "planned", "other"} :
        /\ runner[r].pc = "recovering"
        /\ Answer(code[s], {"empty"}, seen)
        /\ IF IF s <= runner[r].prefix THEN Exact(seen) ELSE seen = "empty"
           THEN IF s < Steps THEN Go(r, "recovering", s + 1) ELSE Go(r, "sending", 1)
           ELSE Stop(r)
        /\ UNCHANGED <<chainVars, foreign>>

\* send: a recovered step is skipped.  The nonce is that of the step, which the
\* node refuses when it is used.
SendStep(r) ==
  LET s == runner[r].at
  IN  /\ runner[r].pc = "sending"
      /\ \/ /\ s <= runner[r].prefix
            /\ Go(r, "checking", s)
            /\ UNCHANGED pending
         \/ /\ s > runner[r].prefix /\ s > mined
            /\ pending' = [pending EXCEPT ![s] = @ \cup {"planned"}]
            /\ Go(r, "waiting", s)
         \/ /\ s > runner[r].prefix /\ s <= mined
            /\ Stop(r)
            /\ UNCHANGED pending
      /\ UNCHANGED <<mined, code, changed, budgets>>

\* The receipt is that of whatever took the nonce; a creation has the
\* predicted address, whoever sent it.  The wait for a transaction that was
\* dropped times out.
Receipt(r) ==
  LET s == runner[r].at
  IN  /\ runner[r].pc = "waiting"
      /\ s <= mined \/ pending[s] = {}
      /\ IF code[s] # "empty" THEN Go(r, "coded", s) ELSE Stop(r)
      /\ UNCHANGED <<chainVars, budgets>>

\* waitForRuntimeBytecode polls until there is code; that it gives up is Fail.
CheckCode(r) ==
  LET s == runner[r].at
  IN  /\ runner[r].pc = "coded"
      /\ IF Exact(code[s]) THEN Go(r, "checking", s) ELSE Stop(r)
      /\ UNCHANGED <<chainVars, budgets>>

\* What the script reads of a contract before it goes on to the next.
CheckStep(r) ==
  LET s == runner[r].at
  IN  /\ runner[r].pc = "checking"
      /\ IF s \in changed THEN Stop(r)
         ELSE IF s < Steps THEN Go(r, "sending", s + 1) ELSE Go(r, "verifying", s)
      /\ UNCHANGED <<chainVars, budgets>>

\* The reads after the last creation.
VerifyAll(r) ==
  /\ runner[r].pc = "verifying"
  /\ IF changed = {} /\ \A s \in Step : code[s] # "empty"
     THEN Go(r, "passed", Steps) ELSE Stop(r)
  /\ UNCHANGED <<chainVars, budgets>>

\* A crash, an error of a request, a wait that times out.
Fail(r) ==
  /\ runner[r].pc \notin {"idle", "passed"}
  /\ faults < MaxFaults /\ faults' = faults + 1
  /\ Stop(r)
  /\ UNCHANGED <<chainVars, foreign>>

----------------------------------------------------------------------------
RunStep(r) ==
  \/ Recover(r) \/ SendStep(r) \/ Receipt(r) \/ CheckCode(r) \/ CheckStep(r)
  \/ VerifyAll(r)

SomeMined ==
  \E n \in PlanNonce, tx \in {"planned", "create", "plain"} :
    \E outcome \in Outcomes(tx) : Mined(n, tx, outcome)

DeployNext ==
  \/ SomeMined
  \/ \E n \in PlanNonce : Dropped(n) \/ \E tx \in {"create", "plain"} : ForeignSent(n, tx)
  \/ \E s \in Step : Reconfigured(s)
  \/ \E r \in Runner :
       RunStep(r) \/ Fail(r) \/ \E resuming \in BOOLEAN : Start(r, resuming)

DeploySpec == DeployInit /\ [][DeployNext]_deployVars

\* The chain mines, a run goes on, and operators start it again as long as it
\* is accepted ("Then rerun the same reviewed command [...] and `--send
\* --resume`", docs/DEV_DEPLOYMENT.md).
DeployFairness ==
  /\ WF_deployVars(SomeMined)
  /\ \A r \in Runner :
       /\ WF_deployVars(RunStep(r))
       /\ WF_deployVars(\E resuming \in BOOLEAN : Start(r, resuming))

FairDeploySpec == DeploySpec /\ DeployFairness

----------------------------------------------------------------------------
DeployTypeOK ==
  /\ mined \in 0 .. Steps + 1
  /\ pending \in [PlanNonce -> SUBSET {"planned", "create", "plain"}]
  /\ code \in [Step -> {"empty", "planned", "other"}]
  /\ changed \subseteq Step
  /\ runner \in [Runner ->
       [pc : {"idle", "recovering", "sending", "waiting", "coded", "checking",
              "verifying", "passed"},
        prefix : 0 .. Steps, at : Step]]
  /\ foreign \in Nat /\ faults \in Nat

\* No contract is created, or on its way, behind one that is not as reviewed:
\* the registry least of all.  And "passed" is said of a whole release only.
OnlyReviewedRelease ==
  /\ \A s \in Step : "planned" \in pending[s] \/ code[s] = "planned" =>
       \A t \in 1 .. s - 1 : code[t] = "planned"
  /\ \A r \in Runner : runner[r].pc = "passed" => \A s \in Step : code[s] = "planned"

\* What a resumption cannot repair: a nonce of the plan used for something
\* else, also for a creation that reverted, and a contract reconfigured.
Spoiled ==
  \/ changed # {}
  \/ mined > Steps \/ pending[Steps + 1] # {}
  \/ \E s \in Step : s <= mined /\ code[s] # "planned"

\* An interruption at any point, a lost answer or a dropped transaction leaves
\* a state from which the release is completed, unless the deployment is
\* spoiled by something else.
InterruptedIsCompleted == <>(Spoiled \/ \E r \in Runner : runner[r].pc = "passed")
=============================================================================
