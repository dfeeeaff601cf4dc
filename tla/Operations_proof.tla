--------------------------- MODULE Operations_proof ---------------------------
(***************************************************************************)
(* What operators do to the deployed game, for any number of processes:    *)
(*                                                                         *)
(* however many runs deploy, wherever they are interrupted and whatever    *)
(* else the deployer's key signs, nothing is built on, or reported as      *)
(* deployed over, a contract that is not the reviewed one;                 *)
(*                                                                         *)
(* a run spends the nonces of an accepted plan in vain only for what the   *)
(* plan alone does not tell;                                               *)
(*                                                                         *)
(* containers that migrate the database at the same time and lose their    *)
(* connections execute each migration once;                                *)
(*                                                                         *)
(* plans that are made, scheduled, cancelled and made again pay the reserve*)
(* once and have the proxy run reviewed code;                              *)
(*                                                                         *)
(* snapshots for the proxy are written from sources that passed the checks,*)
(* wherever a run is stopped;                                              *)
(*                                                                         *)
(* one curve of durations is ahead of the other at every level, which is   *)
(* shown level by level (Ahead), since the loops stop at different ones.   *)
(***************************************************************************)
EXTENDS ProxyDeployment, DeploymentPlan, Migrations, ReleasePlans, CompatibilityGate,
        DurationPolicy, SumTheorems

----------------------------------------------------------------------------
(* Deploying a release. *)

\* There is code only at nonces that are used, and used nonces are not pending.
Consumed ==
  /\ \A s \in Step : code[s] # "empty" => s <= mined
  /\ \A n \in PlanNonce : pending[n] # {} => n > mined

\* Behind what is created, or on its way, everything is as reviewed.
Behind ==
  \A s \in Step : "planned" \in pending[s] \/ code[s] = "planned" =>
    \A t \in 1 .. s - 1 : code[t] = "planned"

\* What a run knows of the chain when it has come to x.
Knows(x) ==
  /\ x.pc = "recovering" =>
       \A t \in 1 .. x.at - 1 : t <= x.prefix => code[t] = "planned"
  /\ x.pc \notin {"idle", "recovering"} =>
       \A t \in Step : t < x.at \/ t <= x.prefix => code[t] = "planned"
  /\ x.pc \in {"checking", "verifying", "passed"} => code[x.at] = "planned"
  /\ x.pc \in {"verifying", "passed"} => x.at = Steps

RunsKnow == \A r \in Runner : Knows(runner[r])

DeployInv == DeployTypeOK /\ Consumed /\ Behind /\ RunsKnow

Phase == {"idle", "recovering", "sending", "waiting", "coded", "checking",
          "verifying", "passed"}

Local == [pc : Phase, prefix : 0 .. Steps, at : Step]

LEMMA IdleLocal == Idle \in Local
BY DeploymentAssumption DEF Idle, Local, Phase, Step

\* The invariant holds at the start.
LEMMA DeployInitially == DeployInit => DeployInv
<1> SUFFICES ASSUME DeployInit PROVE DeployInv
  OBVIOUS
<1> USE DeploymentAssumption DEF DeployInit, Step, PlanNonce
<1>1. DeployTypeOK
  <2>1. runner \in [Runner -> Local]
    BY IdleLocal
  <2> QED
    BY <2>1 DEF DeployTypeOK, Local, Phase
<1>2. Consumed /\ Behind
  BY DEF Consumed, Behind
<1>3. RunsKnow
  BY DEF RunsKnow, Knows, Idle
<1> QED
  BY <1>1, <1>2, <1>3 DEF DeployInv

\* A step of a run: it leaves the chain as it is, but for the creation it
\* sends, and ends where it knows what it has to.
LEMMA RunKeeps ==
  ASSUME DeployInv, NEW r \in Runner, NEW y \in Local,
         runner' = [runner EXCEPT ![r] = y], Knows(y),
         UNCHANGED <<mined, pending, code, changed>>, foreign' \in Nat, faults' \in Nat
  PROVE  DeployInv'
<1>1. runner \in [Runner -> Local]
  BY DEF DeployInv, DeployTypeOK, Local, Phase
<1>2. runner' \in [Runner -> Local]
  BY <1>1
<1>3. DeployTypeOK'
  BY <1>2 DEF DeployInv, DeployTypeOK, Local, Phase
<1>4. Consumed' /\ Behind'
  BY DEF DeployInv, Consumed, Behind
<1>5. ASSUME NEW q \in Runner PROVE Knows(runner[q])'
  <2>1. Knows(runner[q]) /\ Knows(y)
    BY DEF DeployInv, RunsKnow
  <2>2. runner'[q] = (IF q = r THEN y ELSE runner[q])
    BY <1>1
  <2> QED
    BY <2>1, <2>2 DEF Knows
<1> QED
  BY <1>3, <1>4, <1>5 DEF DeployInv, RunsKnow

LEMMA SentKeeps ==
  ASSUME DeployInv, NEW r \in Runner, NEW s \in Step, s > mined,
         \A t \in 1 .. s - 1 : code[t] = "planned",
         NEW y \in Local, runner' = [runner EXCEPT ![r] = y], Knows(y),
         pending' = [pending EXCEPT ![s] = @ \cup {"planned"}],
         UNCHANGED <<mined, code, changed, foreign, faults>>
  PROVE  DeployInv'
<1> USE DeploymentAssumption DEF Step, PlanNonce
<1>1. runner \in [Runner -> Local] /\ pending \in [PlanNonce -> SUBSET {"planned", "create", "plain"}]
  BY DEF DeployInv, DeployTypeOK, Local, Phase
<1>2. runner' \in [Runner -> Local] /\ pending' \in [PlanNonce -> SUBSET {"planned", "create", "plain"}]
  BY <1>1
<1>3. DeployTypeOK'
  BY <1>2 DEF DeployInv, DeployTypeOK, Local, Phase
<1>4. Consumed'
  BY <1>1 DEF DeployInv, DeployTypeOK, Consumed
<1>5. Behind'
  BY <1>1 DEF DeployInv, DeployTypeOK, Behind
<1>6. ASSUME NEW q \in Runner PROVE Knows(runner[q])'
  <2>1. Knows(runner[q]) /\ Knows(y)
    BY DEF DeployInv, RunsKnow
  <2>2. runner'[q] = (IF q = r THEN y ELSE runner[q])
    BY <1>1
  <2> QED
    BY <2>1, <2>2 DEF Knows
<1> QED
  BY <1>3, <1>4, <1>5, <1>6 DEF DeployInv, RunsKnow

\* A step of the chain: reviewed contracts stay, runs are as they were.
LEMMA ChainKeeps ==
  ASSUME DeployInv, DeployTypeOK', Consumed', Behind', UNCHANGED runner,
         \A s \in Step : code[s] = "planned" => code'[s] = "planned"
  PROVE  DeployInv'
<1>1. ASSUME NEW q \in Runner PROVE Knows(runner[q])'
  <2>1. Knows(runner[q]) /\ runner[q].at \in Step
    BY DEF DeployInv, RunsKnow, DeployTypeOK
  <2> QED
    BY <2>1, DeploymentAssumption DEF Knows, Step
<1> QED
  BY <1>1 DEF DeployInv, RunsKnow

\* Start, Recover, SendStep, ...: one by one.
LEMMA RunStepKeeps ==
  ASSUME DeployInv, NEW r \in Runner,
         RunStep(r) \/ Fail(r) \/ \E resuming \in BOOLEAN : Start(r, resuming)
  PROVE  DeployInv'
<1> DEFINE x == runner[r]
           s == runner[r].at
<1> USE DeploymentAssumption DEF Step
<1>1. x \in Local /\ s \in Step /\ Knows(x) /\ runner \in [Runner -> Local]
  BY DEF DeployInv, DeployTypeOK, RunsKnow, Local, Phase
<1>2. foreign \in Nat /\ faults \in Nat
  BY DEF DeployInv, DeployTypeOK
<1>3. Idle \in Local /\ Knows(Idle)
  BY IdleLocal DEF Knows, Idle
<1>4. ASSUME Stop(r), UNCHANGED <<chainVars, foreign>>, faults' \in Nat PROVE DeployInv'
  BY <1>2, <1>3, <1>4, RunKeeps DEF Stop, chainVars
<1>5. ASSUME NEW p \in Phase, NEW a \in Step, Go(r, p, a),
             Knows([x EXCEPT !.pc = p, !.at = a]),
             UNCHANGED <<chainVars, foreign>>, faults' \in Nat
      PROVE  DeployInv'
  <2>1. [x EXCEPT !.pc = p, !.at = a] \in Local
    BY <1>1 DEF Local
  <2>2. runner' = [runner EXCEPT ![r] = [x EXCEPT !.pc = p, !.at = a]]
    BY <1>1, <1>5 DEF Go, Local
  <2> QED
    BY <2>1, <2>2, <1>2, <1>5, RunKeeps DEF chainVars
<1>6. CASE \E resuming \in BOOLEAN : Start(r, resuming)
  <2>1. PICK resuming \in BOOLEAN, count \in 0 .. Steps + 1 :
          /\ Answer(PendingCount, 0 .. PendingCount, count)
          /\ Accepts(resuming, count)
          /\ runner' = [runner EXCEPT ![r] =
               IF resuming THEN [pc |-> "recovering", prefix |-> count, at |-> 1]
                           ELSE [pc |-> "sending", prefix |-> 0, at |-> 1]]
          /\ UNCHANGED <<chainVars, foreign>>
    BY <1>6 DEF Start
  <2> DEFINE y == IF resuming THEN [pc |-> "recovering", prefix |-> count, at |-> 1]
                              ELSE [pc |-> "sending", prefix |-> 0, at |-> 1]
  <2>2. y \in Local
    BY <2>1 DEF Local, Phase, Accepts
  <2>3. Knows(y)
    BY <2>1 DEF Knows
  <2>4. faults' \in Nat
    BY <2>1, <1>2 DEF Answer
  <2> QED
    BY <2>1, <2>2, <2>3, <2>4, <1>2, RunKeeps DEF chainVars
<1>7. CASE Recover(r)
  <2>1. PICK seen \in {"empty", "planned", "other"} :
          /\ x.pc = "recovering"
          /\ Answer(code[s], {"empty"}, seen)
          /\ IF IF s <= x.prefix THEN Exact(seen) ELSE seen = "empty"
             THEN IF s < Steps THEN Go(r, "recovering", s + 1) ELSE Go(r, "sending", 1)
             ELSE Stop(r)
          /\ UNCHANGED <<chainVars, foreign>>
    BY <1>7 DEF Recover
  <2>2. faults' \in Nat
    BY <2>1, <1>2 DEF Answer
  <2>3. seen = "planned" => code[s] = "planned"
    BY <2>1 DEF Answer
  <2>4. CASE Stop(r)
    BY <2>1, <2>2, <2>4, <1>4
  <2>5. ASSUME IF s <= x.prefix THEN Exact(seen) ELSE seen = "empty"
        PROVE  \A t \in 1 .. s : t <= x.prefix => code[t] = "planned"
    BY <2>1, <2>3, <2>5, <1>1 DEF Knows, Exact
  <2>6. CASE /\ IF s <= x.prefix THEN Exact(seen) ELSE seen = "empty"
             /\ s < Steps /\ Go(r, "recovering", s + 1)
    <3>1. Knows([x EXCEPT !.pc = "recovering", !.at = s + 1])
      BY <2>5, <2>6, <1>1 DEF Knows, Local
    <3>2. s + 1 \in Step /\ "recovering" \in Phase
      BY <2>6, <1>1 DEF Phase
    <3> QED
      BY <3>1, <3>2, <2>1, <2>2, <2>6, <1>5
  <2>7. CASE /\ IF s <= x.prefix THEN Exact(seen) ELSE seen = "empty"
             /\ ~ (s < Steps) /\ Go(r, "sending", 1)
    <3>1. Knows([x EXCEPT !.pc = "sending", !.at = 1])
      BY <2>5, <2>7, <1>1 DEF Knows, Local
    <3>2. 1 \in Step /\ "sending" \in Phase
      BY DEF Phase
    <3> QED
      BY <3>1, <3>2, <2>1, <2>2, <2>7, <1>5
  <2> QED
    BY <2>1, <2>4, <2>6, <2>7
<1>8. CASE SendStep(r)
  <2>1. x.pc = "sending" /\ UNCHANGED <<mined, code, changed, budgets>>
    BY <1>8 DEF SendStep
  <2>2. CASE s <= x.prefix /\ Go(r, "checking", s) /\ UNCHANGED pending
    <3>1. Knows([x EXCEPT !.pc = "checking", !.at = s])
      BY <2>1, <2>2, <1>1 DEF Knows, Local
    <3> QED
      BY <3>1, <2>1, <2>2, <1>1, <1>2, <1>5 DEF Phase, chainVars, budgets
  <2>3. CASE /\ s > mined
             /\ pending' = [pending EXCEPT ![s] = @ \cup {"planned"}]
             /\ Go(r, "waiting", s)
    <3> DEFINE y == [x EXCEPT !.pc = "waiting", !.at = s]
    <3>1. Knows(y)
      BY <2>1, <1>1 DEF Knows, Local
    <3>2. y \in Local
      BY <1>1 DEF Local, Phase
    <3>3. \A t \in 1 .. s - 1 : code[t] = "planned"
      BY <2>1, <1>1 DEF Knows
    <3>4. runner' = [runner EXCEPT ![r] = y]
      BY <2>3, <1>1 DEF Go, Local
    <3> HIDE DEF y
    <3> QED
      BY <3>1, <3>2, <3>3, <3>4, <2>1, <2>3, <1>1, SentKeeps DEF budgets
  <2>4. CASE Stop(r) /\ UNCHANGED pending
    BY <2>1, <2>4, <1>2, <1>4 DEF chainVars, budgets
  <2> QED
    BY <1>8, <2>2, <2>3, <2>4 DEF SendStep
<1>9. CASE Receipt(r)
  <2>1. x.pc = "waiting" /\ UNCHANGED <<chainVars, budgets>>
    BY <1>9 DEF Receipt
  <2>2. CASE Go(r, "coded", s)
    <3>1. Knows([x EXCEPT !.pc = "coded", !.at = s])
      BY <2>1, <1>1 DEF Knows, Local
    <3> QED
      BY <3>1, <2>1, <2>2, <1>1, <1>2, <1>5 DEF Phase, budgets
  <2>3. CASE Stop(r)
    BY <2>1, <2>3, <1>2, <1>4 DEF budgets
  <2> QED
    BY <1>9, <2>2, <2>3 DEF Receipt
<1>10. CASE CheckCode(r)
  <2>1. x.pc = "coded" /\ UNCHANGED <<chainVars, budgets>>
    BY <1>10 DEF CheckCode
  <2>2. CASE Exact(code[s]) /\ Go(r, "checking", s)
    <3>1. Knows([x EXCEPT !.pc = "checking", !.at = s])
      BY <2>1, <2>2, <1>1 DEF Knows, Local, Exact
    <3> QED
      BY <3>1, <2>1, <2>2, <1>1, <1>2, <1>5 DEF Phase, budgets
  <2>3. CASE Stop(r)
    BY <2>1, <2>3, <1>2, <1>4 DEF budgets
  <2> QED
    BY <1>10, <2>2, <2>3 DEF CheckCode
<1>11. CASE CheckStep(r)
  <2>1. x.pc = "checking" /\ UNCHANGED <<chainVars, budgets>>
    BY <1>11 DEF CheckStep
  <2>2. CASE s < Steps /\ Go(r, "sending", s + 1)
    <3>1. Knows([x EXCEPT !.pc = "sending", !.at = s + 1])
      BY <2>1, <2>2, <1>1 DEF Knows, Local
    <3>2. s + 1 \in Step /\ "sending" \in Phase
      BY <2>2, <1>1 DEF Phase
    <3> QED
      BY <3>1, <3>2, <2>1, <2>2, <1>2, <1>5 DEF budgets
  <2>3. CASE ~ (s < Steps) /\ Go(r, "verifying", s)
    <3>1. Knows([x EXCEPT !.pc = "verifying", !.at = s])
      BY <2>1, <2>3, <1>1 DEF Knows, Local
    <3> QED
      BY <3>1, <2>1, <2>3, <1>1, <1>2, <1>5 DEF Phase, budgets
  <2>4. CASE Stop(r)
    BY <2>1, <2>4, <1>2, <1>4 DEF budgets
  <2> QED
    BY <1>11, <2>2, <2>3, <2>4 DEF CheckStep
<1>12. CASE VerifyAll(r)
  <2>1. x.pc = "verifying" /\ UNCHANGED <<chainVars, budgets>>
    BY <1>12 DEF VerifyAll
  <2>2. CASE Go(r, "passed", Steps)
    <3>1. Knows([x EXCEPT !.pc = "passed", !.at = Steps])
      BY <2>1, <1>1 DEF Knows, Local
    <3>2. Steps \in Step /\ "passed" \in Phase
      BY DEF Phase
    <3> QED
      BY <3>1, <3>2, <2>1, <2>2, <1>2, <1>5 DEF budgets
  <2>3. CASE Stop(r)
    BY <2>1, <2>3, <1>2, <1>4 DEF budgets
  <2> QED
    BY <1>12, <2>2, <2>3 DEF VerifyAll
<1>13. CASE Fail(r)
  BY <1>13, <1>2, <1>4 DEF Fail
<1> QED
  BY <1>6, <1>7, <1>8, <1>9, <1>10, <1>11, <1>12, <1>13 DEF RunStep

\* Every step of the deployment.
THEOREM DeployStep == DeployInv /\ [DeployNext]_deployVars => DeployInv'
<1> SUFFICES ASSUME DeployInv, [DeployNext]_deployVars PROVE DeployInv'
  OBVIOUS
<1> USE DeploymentAssumption DEF Step, PlanNonce
<1> DEFINE Kinds == {"planned", "create", "plain"}
<1>1. pending \in [PlanNonce -> SUBSET Kinds] /\ code \in [Step -> {"empty", "planned", "other"}]
      /\ mined \in 0 .. Steps + 1 /\ foreign \in Nat /\ faults \in Nat
  BY DEF DeployInv, DeployTypeOK
<1>2. ASSUME NEW n \in PlanNonce, NEW tx \in Kinds, NEW outcome \in Outcomes(tx),
             Mined(n, tx, outcome)
      PROVE  DeployInv'
  <2>1. n = mined + 1 /\ tx \in pending[n] /\ mined' = n
        /\ pending' = [pending EXCEPT ![n] = {}]
        /\ code' = [s \in Step |-> IF s = n THEN outcome ELSE code[s]]
        /\ UNCHANGED <<changed, runner, foreign, faults>>
    BY <1>2 DEF Mined, budgets
  <2>2. outcome \in {"empty", "planned", "other"} /\ (outcome = "planned" => tx = "planned")
    BY <1>2 DEF Outcomes
  <2>3. n \in Step => code[n] = "empty"
    BY <1>1, <2>1 DEF DeployInv, Consumed
  <2>4. \A s \in Step : code[s] = "planned" => code'[s] = "planned"
    BY <2>1, <2>3
  <2>5. DeployTypeOK'
    <3>1. pending' \in [PlanNonce -> SUBSET Kinds] /\ code' \in [Step -> {"empty", "planned", "other"}]
      BY <1>1, <2>1, <2>2
    <3> QED
      BY <3>1, <2>1 DEF DeployInv, DeployTypeOK
  <2>6. Consumed'
    BY <1>1, <2>1 DEF DeployInv, Consumed
  <2>7. Behind'
    <3> SUFFICES ASSUME NEW s \in Step, "planned" \in pending'[s] \/ code'[s] = "planned",
                        NEW t \in 1 .. s - 1
                 PROVE  code'[t] = "planned"
      BY DEF Behind
    <3>1. "planned" \in pending[s] \/ code[s] = "planned"
      BY <1>1, <2>1, <2>2
    <3> QED
      BY <3>1, <2>4 DEF DeployInv, Behind
  <2> QED
    BY <2>1, <2>4, <2>5, <2>6, <2>7, ChainKeeps
<1>3. ASSUME NEW n \in PlanNonce, Dropped(n) PROVE DeployInv'
  <2>1. /\ pending' = [pending EXCEPT ![n] = {}] /\ faults' \in Nat
        /\ UNCHANGED <<mined, code, changed, runner, foreign>>
    BY <1>1, <1>3 DEF Dropped
  <2>2. DeployTypeOK'
    <3>1. pending' \in [PlanNonce -> SUBSET Kinds]
      BY <1>1, <2>1
    <3> QED
      BY <3>1, <2>1 DEF DeployInv, DeployTypeOK
  <2>3. Consumed' /\ Behind'
    BY <1>1, <2>1 DEF DeployInv, Consumed, Behind
  <2> QED
    BY <2>1, <2>2, <2>3, ChainKeeps
<1>4. ASSUME NEW n \in PlanNonce, NEW tx \in {"create", "plain"}, ForeignSent(n, tx)
      PROVE  DeployInv'
  <2>1. /\ pending' = [pending EXCEPT ![n] = @ \cup {tx}] /\ n > mined /\ foreign' \in Nat
        /\ UNCHANGED <<mined, code, changed, runner, faults>>
    BY <1>1, <1>4 DEF ForeignSent
  <2>2. DeployTypeOK'
    <3>1. pending' \in [PlanNonce -> SUBSET Kinds]
      BY <1>1, <2>1
    <3> QED
      BY <3>1, <2>1 DEF DeployInv, DeployTypeOK
  <2>3. Consumed' /\ Behind'
    BY <1>1, <2>1 DEF DeployInv, Consumed, Behind
  <2> QED
    BY <2>1, <2>2, <2>3, ChainKeeps
<1>5. ASSUME NEW s \in Step, Reconfigured(s) PROVE DeployInv'
  <2>1. /\ changed' = changed \cup {s} /\ foreign' \in Nat
        /\ UNCHANGED <<mined, pending, code, runner, faults>>
    BY <1>1, <1>5 DEF Reconfigured
  <2>2. DeployTypeOK' /\ Consumed' /\ Behind'
    BY <2>1 DEF DeployInv, DeployTypeOK, Consumed, Behind
  <2> QED
    BY <2>1, <2>2, ChainKeeps
<1>6. CASE UNCHANGED deployVars
  <2>1. DeployTypeOK' /\ Consumed' /\ Behind'
    BY <1>6 DEF DeployInv, DeployTypeOK, Consumed, Behind, deployVars, chainVars, budgets
  <2> QED
    BY <2>1, <1>6, ChainKeeps DEF deployVars, chainVars
<1> QED
  BY <1>2, <1>3, <1>4, <1>5, <1>6, RunStepKeeps DEF DeployNext, SomeMined

\* Whatever is created or on its way stands on reviewed contracts, and a run
\* reports a release only when all of it is there.
THEOREM ReleaseReviewed == DeploySpec => []OnlyReviewedRelease
<1>1. DeployInv => OnlyReviewedRelease
  BY DeploymentAssumption
  DEF DeployInv, Behind, RunsKnow, Knows, OnlyReviewedRelease, Step
<1> QED
  BY <1>1, DeployInitially, DeployStep, PTL DEF DeploySpec

----------------------------------------------------------------------------
(* Migrating the database. *)

\* A list of distinct versions, as loadMigrations makes it.
Sorted(list) ==
  /\ Len(list) \in Nat /\ DOMAIN list = 1 .. Len(list)
  /\ \A i \in 1 .. Len(list) : list[i].version \in Nat
  /\ \A i, j \in 1 .. Len(list) : i < j => list[i].version < list[j].version

Phases == {"idle", "locking", "reading", "next", "committing", "severed",
           "orphaned", "done", "failed"}

\* Those that have read the ledger and not finished.
Working == {"next", "committing", "severed"}

Process(x) ==
  /\ DOMAIN x = {"pc", "image", "applied", "at", "broken"}
  /\ x.pc \in Phases /\ x.broken \in BOOLEAN
  /\ Sorted(x.image)
  /\ x.at \in Nat \ {0}
  /\ x.pc \in {"committing", "severed"} => x.at <= Len(x.image)
  /\ x.pc \in {"locking", "reading"} => x.at = 1
  /\ x.pc \in {"severed", "orphaned"} => x.broken

\* A process that looks at the table or changes it has the lock.
Exclusive(m, x, holder) ==
  x.pc \in Working \cup {"reading"} => holder = m

\* What the holder of the lock has read and done is all there is, and what it
\* is about to insert is not there.
UpToDate(x, rows) ==
  x.pc \in Working =>
    /\ x.applied \subseteq rows
    /\ \A row \in rows : row \in x.applied \/ \E i \in 1 .. x.at - 1 :
                                                i <= Len(x.image) /\ row = x.image[i]
    /\ \A i \in 1 .. x.at - 1 : i <= Len(x.image) => x.image[i] \in rows
    /\ x.pc \in {"committing", "severed"} =>
         \A row \in rows : row.version # x.image[x.at].version

\* What a run that ended has found or left.
Ended(x, rows) ==
  /\ x.pc = "failed" /\ ~x.broken =>
       \E row \in rows : \A i \in 1 .. Len(x.image) : row # x.image[i]
  /\ x.pc = "done" => \A i \in 1 .. Len(x.image) : x.image[i] \in rows

MigratorInv(m, x, rows, holder) ==
  Process(x) /\ Exclusive(m, x, holder) /\ UpToDate(x, rows) /\ Ended(x, rows)

\* One row for each version that was executed.
Recorded(rows, done) ==
  /\ IsFiniteSet(rows) /\ done \in Seq(Nat)
  /\ Len(done) = Cardinality(rows)
  /\ {row.version : row \in rows} = {done[i] : i \in DOMAIN done}

SchemaInv ==
  /\ DOMAIN migrator = Migrator
  /\ Recorded(migrations, executed)
  /\ \A m \in Migrator : MigratorInv(m, migrator[m], migrations, lock)

\* Who does nothing knows what he knew, as long as the table only grows, and
\* only under somebody else's lock.
LEMMA OthersKeep ==
  ASSUME NEW m, NEW x, NEW rows, NEW more, NEW holder, NEW next,
         MigratorInv(m, x, rows, holder), rows \subseteq more,
         holder = m => next = m /\ more = rows
  PROVE  MigratorInv(m, x, more, next)
<1>1. x.pc \in Working => more = rows
  BY DEF MigratorInv, Exclusive
<1>2. UpToDate(x, more)
  BY <1>1 DEF MigratorInv, UpToDate
<1>3. Ended(x, more)
  BY DEF MigratorInv, Ended
<1> QED
  BY <1>2, <1>3 DEF MigratorInv, Exclusive

LEMMA OneMoreRow ==
  ASSUME NEW rows, NEW done, Recorded(rows, done), NEW row, row.version \in Nat,
         \A r \in rows : r.version # row.version
  PROVE  Recorded(rows \cup {row}, Append(done, row.version))
<1> DEFINE more == Append(done, row.version)
<1>1. row \notin rows
  OBVIOUS
<1>2. /\ IsFiniteSet(rows \cup {row})
      /\ Cardinality(rows \cup {row}) = Cardinality(rows) + 1
  BY <1>1, FS_AddElement DEF Recorded
<1>3. /\ more \in Seq(Nat) /\ Len(more) = Len(done) + 1
      /\ DOMAIN more = 1 .. Len(done) + 1 /\ DOMAIN done = 1 .. Len(done)
      /\ \A i \in 1 .. Len(done) : more[i] = done[i]
      /\ more[Len(done) + 1] = row.version
      /\ Len(done) \in Nat
  BY DEF Recorded
<1>4. {more[i] : i \in DOMAIN more} = {done[i] : i \in DOMAIN done} \cup {row.version}
  <2> HIDE DEF more
  <2>1. \A v \in {more[i] : i \in DOMAIN more} :
          v \in {done[i] : i \in DOMAIN done} \cup {row.version}
    BY <1>3
  <2>2. \A i \in DOMAIN done : i \in DOMAIN more /\ more[i] = done[i]
    BY <1>3
  <2>3. Len(done) + 1 \in DOMAIN more
    BY <1>3
  <2>4. \A v \in {done[i] : i \in DOMAIN done} \cup {row.version} :
          v \in {more[i] : i \in DOMAIN more}
    BY <1>3, <2>2, <2>3
  <2> QED
    BY <2>1, <2>4
<1>5. {r.version : r \in rows \cup {row}} = {r.version : r \in rows} \cup {row.version}
  OBVIOUS
<1> HIDE DEF more
<1>6. Recorded(rows \cup {row}, more)
  BY <1>2, <1>3, <1>4, <1>5 DEF Recorded
<1> QED
  BY <1>6 DEF more

\* What a step of m has to show.
LEMMA ProcessKeeps ==
  ASSUME SchemaInv, NEW m \in Migrator,
         DOMAIN migrator' = Migrator,
         \A n \in Migrator \ {m} : migrator'[n] = migrator[n],
         MigratorInv(m, migrator'[m], migrations', lock'),
         Recorded(migrations', executed'), migrations \subseteq migrations',
         \A n \in Migrator \ {m} : lock = n => lock' = n /\ migrations' = migrations
  PROVE  SchemaInv'
<1>1. \A n \in Migrator \ {m} : MigratorInv(n, migrator[n], migrations', lock')
  <2> TAKE n \in Migrator \ {m}
  <2>1. MigratorInv(n, migrator[n], migrations, lock)
    BY DEF SchemaInv
  <2> QED
    BY <2>1, OthersKeep
<1> QED
  BY <1>1 DEF SchemaInv

LEMMA SchemaStart == SchemaInit => SchemaInv
<1> SUFFICES ASSUME SchemaInit PROVE SchemaInv
  OBVIOUS
<1>1. Recorded({}, << >>)
  BY FS_EmptySet DEF Recorded
<1>2. ASSUME NEW m \in Migrator PROVE MigratorInv(m, NotStarted, {}, NoMigrator)
  BY DEF MigratorInv, NotStarted, Process, Sorted, Phases, Exclusive, UpToDate, Ended, Working
<1> QED
  BY <1>1, <1>2 DEF SchemaInit, SchemaInv

\* A row of the table is one of the list, or of another version.
LEMMA SortedApart ==
  ASSUME NEW list, Sorted(list), NEW i \in 1 .. Len(list), NEW j \in 1 .. Len(list), i # j
  PROVE  list[i].version # list[j].version
BY DEF Sorted

LEMMA SchemaStep == SchemaInv /\ [SchemaNext]_schemaVars => SchemaInv'
<1> SUFFICES ASSUME SchemaInv, [SchemaNext]_schemaVars PROVE SchemaInv'
  OBVIOUS
<1>0. /\ DOMAIN migrator = Migrator
      /\ Recorded(migrations, executed)
      /\ \A m \in Migrator : MigratorInv(m, migrator[m], migrations, lock)
  BY DEF SchemaInv
<1>1. ASSUME NEW m \in Migrator, NEW image \in Image, StartMigrator(m, image)
      PROVE  SchemaInv'
  <2>1. Sorted(image)
    BY MigrationsAssumption DEF Sorted
  <2>2. MigratorInv(m, [NotStarted EXCEPT !.pc = "locking", !.image = image], migrations, lock)
    BY <2>1 DEF MigratorInv, NotStarted, Process, Phases, Exclusive, UpToDate, Ended, Working
  <2> QED
    BY <1>0, <1>1, <2>2, ProcessKeeps DEF StartMigrator
<1>2. ASSUME NEW m \in Migrator, TakeLock(m) PROVE SchemaInv'
  <2>1. MigratorInv(m, [migrator[m] EXCEPT !.pc = "reading"], migrations, m)
    BY <1>0, <1>2 DEF TakeLock, MigratorInv, Process, Phases, Exclusive, UpToDate, Ended, Working
  <2>2. migrator'[m] = [migrator[m] EXCEPT !.pc = "reading"]
    BY <1>0, <1>2 DEF TakeLock, Moves
  <2> QED
    BY <1>0, <1>2, <2>1, <2>2, ProcessKeeps, MigrationsAssumption
    DEF TakeLock, Moves, Available
<1>3. ASSUME NEW m \in Migrator, ReadLedger(m) PROVE SchemaInv'
  <2>1. /\ MigratorInv(m, migrator[m], migrations, lock) /\ lock = m
        /\ migrator[m].pc = "reading"
    BY <1>0, <1>3 DEF ReadLedger, MigratorInv, Exclusive
  <2>2. ASSUME Versions(migrations) \subseteq Versions(Shipped(m))
        PROVE  SchemaInv'
    <3>1. migrator'[m] = [migrator[m] EXCEPT !.applied = migrations, !.pc = "next"]
      BY <1>0, <1>3, <2>2, <2>1 DEF ReadLedger, MigratorInv, Process
    <3>2. MigratorInv(m, migrator'[m], migrations, lock)
      BY <2>1, <3>1 DEF MigratorInv, Process, Phases, Exclusive, UpToDate, Ended, Working
    <3> QED
      BY <1>0, <1>3, <2>1, <2>2, <3>2, ProcessKeeps DEF ReadLedger
  <2>3. ASSUME ~(Versions(migrations) \subseteq Versions(Shipped(m)))
        PROVE  SchemaInv'
    <3>1. migrator'[m] = [migrator[m] EXCEPT !.pc = "failed"] /\ lock' = NoMigrator
      BY <1>0, <1>3, <2>3, <2>1 DEF ReadLedger, Ends, Moves, Unlocked
    <3>2. PICK row \in migrations : row.version \notin Versions(Shipped(m))
      BY <2>3 DEF Versions
    <3>3. \A i \in 1 .. Len(migrator[m].image) : row # migrator[m].image[i]
      BY <2>1, <3>2 DEF MigratorInv, Process, Sorted, Versions, Shipped
    <3>4. MigratorInv(m, migrator'[m], migrations, lock')
      BY <2>1, <3>1, <3>3 DEF MigratorInv, Process, Phases, Exclusive, UpToDate, Ended, Working
    <3> QED
      BY <1>0, <1>3, <2>1, <2>3, <3>1, <3>4, ProcessKeeps DEF ReadLedger, Ends, Moves
  <2> QED
    BY <2>2, <2>3
<1>4. ASSUME NEW m \in Migrator, SkipApplied(m) PROVE SchemaInv'
  <2>1. /\ MigratorInv(m, migrator[m], migrations, lock) /\ lock = m
        /\ migrator[m].pc = "next" /\ migrator[m].at <= Len(migrator[m].image)
        /\ Len(migrator[m].image) \in Nat /\ migrator[m].at \in Nat \ {0}
    BY <1>0, <1>4 DEF SkipApplied, MigratorInv, Exclusive, Working, AtEnd, Process, Sorted
  <2>2. ASSUME Upcoming(m) \in migrator[m].applied PROVE SchemaInv'
    <3>1. migrator'[m] = [migrator[m] EXCEPT !.at = @ + 1]
      BY <1>0, <1>4, <2>2, <2>1 DEF SkipApplied
    <3>2. MigratorInv(m, migrator'[m], migrations, lock)
      <4>1. Process(migrator'[m])
        BY <2>1, <3>1 DEF MigratorInv, Process
      <4>2. Exclusive(m, migrator'[m], lock) /\ Ended(migrator'[m], migrations)
        BY <2>1, <3>1 DEF MigratorInv, Process, Exclusive, Ended
      <4>3. UpToDate(migrator'[m], migrations)
        BY <2>1, <2>2, <3>1 DEF MigratorInv, Process, UpToDate, Working, Upcoming
      <4> QED
        BY <4>1, <4>2, <4>3 DEF MigratorInv
    <3> QED
      BY <1>0, <1>4, <2>1, <2>2, <3>2, ProcessKeeps DEF SkipApplied
  <2>3. ASSUME Upcoming(m) \notin migrator[m].applied PROVE SchemaInv'
    <3>1. migrator'[m] = [migrator[m] EXCEPT !.pc = "failed"] /\ lock' = NoMigrator
      BY <1>0, <1>4, <2>3, <2>1 DEF SkipApplied, Ends, Moves, Unlocked
    <3>2. PICK row \in migrator[m].applied : row.version = Upcoming(m).version
      BY <1>4 DEF SkipApplied, Versions
    <3>3. row \in migrations
      BY <2>1, <3>2 DEF MigratorInv, UpToDate, Working
    <3>4. \A i \in 1 .. Len(migrator[m].image) : row # migrator[m].image[i]
      BY <2>1, <2>3, <3>2, SortedApart DEF MigratorInv, Process, Upcoming
    <3>5. MigratorInv(m, migrator'[m], migrations, lock')
      BY <2>1, <3>1, <3>3, <3>4
      DEF MigratorInv, Process, Phases, Exclusive, UpToDate, Ended, Working
    <3> QED
      BY <1>0, <1>4, <2>1, <2>3, <3>1, <3>5, ProcessKeeps DEF SkipApplied, Ends, Moves
  <2> QED
    BY <2>2, <2>3
<1>5. ASSUME NEW m \in Migrator, Execute(m) PROVE SchemaInv'
  <2>1. /\ MigratorInv(m, migrator[m], migrations, lock) /\ lock = m
        /\ migrator[m].pc = "next" /\ migrator[m].at <= Len(migrator[m].image)
        /\ Len(migrator[m].image) \in Nat /\ migrator[m].at \in Nat \ {0}
    <3>1. migrator[m].pc = "next" /\ ~(migrator[m].at > Len(migrator[m].image))
      BY <1>5 DEF Execute, AtEnd
    <3>2. MigratorInv(m, migrator[m], migrations, lock)
      BY <1>0
    <3> QED
      BY <3>1, <3>2 DEF MigratorInv, Exclusive, Working, Process, Sorted
  <2>2. ASSUME NEW row \in migrations PROVE row.version # Upcoming(m).version
    <3>1. CASE row \in migrator[m].applied
      BY <1>5, <3>1 DEF Execute, Versions
    <3>2. CASE row \notin migrator[m].applied
      <4>1. PICK i \in 1 .. migrator[m].at - 1 : row = migrator[m].image[i]
        BY <2>1, <3>2 DEF MigratorInv, UpToDate, Working
      <4>2. i \in 1 .. Len(migrator[m].image) /\ i # migrator[m].at
        BY <2>1, <4>1
      <4> QED
        BY <2>1, <4>1, <4>2, SortedApart DEF MigratorInv, Process, Upcoming
    <3> QED
      BY <3>1, <3>2
  <2>3. Upcoming(m).version \notin Versions(migrations)
    BY <2>2 DEF Versions
  <2>4. migrator'[m] = [migrator[m] EXCEPT !.pc = "committing"] /\ lock' = lock
    BY <1>0, <1>5, <2>3 DEF Execute, Moves
  <2>5. MigratorInv(m, migrator'[m], migrations, lock')
    BY <2>1, <2>2, <2>4
    DEF MigratorInv, Process, Phases, Exclusive, UpToDate, Ended, Working, Upcoming
  <2> QED
    BY <1>0, <1>5, <2>1, <2>3, <2>4, <2>5, ProcessKeeps DEF Execute, Moves
<1>6. ASSUME NEW m \in Migrator, migrator[m].pc \in {"committing", "severed"}, Committed(m)
      PROVE  /\ Recorded(migrations', executed') /\ lock = m
             /\ migrations' = migrations \cup {migrator[m].image[migrator[m].at]}
             /\ migrator[m].at \in 1 .. Len(migrator[m].image)
             /\ MigratorInv(m, migrator[m], migrations, lock)
  <2>0. MigratorInv(m, migrator[m], migrations, lock)
    BY <1>0
  <2>1. /\ MigratorInv(m, migrator[m], migrations, lock) /\ lock = m
        /\ migrator[m].at \in 1 .. Len(migrator[m].image)
    <3>1. lock = m
      BY <1>6, <2>0 DEF MigratorInv, Exclusive, Working
    <3>2. migrator[m].at \in Nat \ {0} /\ migrator[m].at <= Len(migrator[m].image)
      BY <1>6, <2>0 DEF MigratorInv, Process
    <3>3. Len(migrator[m].image) \in Nat
      BY <2>0 DEF MigratorInv, Process, Sorted
    <3> QED
      BY <2>0, <3>1, <3>2, <3>3
  <2>2. \A row \in migrations : row.version # Upcoming(m).version
    BY <1>6, <2>1 DEF MigratorInv, UpToDate, Working, Upcoming
  <2>3. Upcoming(m).version \in Nat
    BY <2>1 DEF MigratorInv, Process, Sorted, Upcoming
  <2>4. Recorded(migrations \cup {Upcoming(m)}, Append(executed, Upcoming(m).version))
    BY <1>0, <2>2, <2>3, OneMoreRow
  <2> QED
    BY <1>6, <2>1, <2>4 DEF Committed, Upcoming
<1>7. ASSUME NEW m \in Migrator, Commit(m) PROVE SchemaInv'
  <2>0. migrator[m].pc = "committing" /\ Committed(m)
    BY <1>7 DEF Commit
  <2>1. /\ Recorded(migrations', executed') /\ lock = m
        /\ migrations' = migrations \cup {migrator[m].image[migrator[m].at]}
        /\ migrator[m].at \in 1 .. Len(migrator[m].image)
        /\ MigratorInv(m, migrator[m], migrations, lock)
    BY <1>6, <2>0
  <2>2. migrator'[m] = [migrator[m] EXCEPT !.pc = "next", !.at = @ + 1]
    BY <1>0, <1>7 DEF Commit
  <2>3. Process(migrator'[m])
    BY <2>1, <2>2 DEF MigratorInv, Process, Phases
  <2>4. Exclusive(m, migrator'[m], lock) /\ Ended(migrator'[m], migrations')
    BY <2>1, <2>2 DEF MigratorInv, Process, Exclusive, Ended
  <2>5. UpToDate(migrator'[m], migrations')
    BY <2>0, <2>1, <2>2 DEF MigratorInv, Process, Sorted, UpToDate, Working
  <2>6. MigratorInv(m, migrator'[m], migrations', lock')
    BY <1>7, <2>3, <2>4, <2>5 DEF MigratorInv, Commit
  <2> QED
    BY <1>0, <1>7, <2>1, <2>6, ProcessKeeps DEF Commit
<1>8. ASSUME NEW m \in Migrator, FinishMigrations(m) PROVE SchemaInv'
  <2>1. /\ MigratorInv(m, migrator[m], migrations, lock) /\ lock = m
        /\ migrator[m].pc = "next" /\ migrator[m].at > Len(migrator[m].image)
        /\ Len(migrator[m].image) \in Nat /\ migrator[m].at \in Nat \ {0}
    BY <1>0, <1>8 DEF FinishMigrations, MigratorInv, Exclusive, Working, AtEnd, Process, Sorted
  <2>2. migrator'[m] = [migrator[m] EXCEPT !.pc = "done"] /\ lock' = NoMigrator
    BY <1>0, <1>8, <2>1 DEF FinishMigrations, Ends, Moves, Unlocked
  <2>3. \A i \in 1 .. Len(migrator[m].image) : migrator[m].image[i] \in migrations
    BY <2>1 DEF MigratorInv, UpToDate, Working
  <2>4. MigratorInv(m, migrator'[m], migrations, lock')
    BY <2>1, <2>2, <2>3 DEF MigratorInv, Process, Phases, Exclusive, UpToDate, Ended, Working
  <2> QED
    BY <1>0, <1>8, <2>1, <2>4, ProcessKeeps DEF FinishMigrations, Ends, Moves
<1>9. ASSUME NEW m \in Migrator, StatementFails(m) PROVE SchemaInv'
  <2>1. migrator'[m] = [migrator[m] EXCEPT !.pc = "failed", !.broken = TRUE]
    BY <1>0, <1>9 DEF StatementFails, MigratorInv, Process
  <2>2. MigratorInv(m, migrator'[m], migrations, lock')
    BY <1>0, <2>1 DEF MigratorInv, Process, Phases, Exclusive, UpToDate, Ended, Working
  <2> QED
    BY <1>0, <1>9, <2>2, ProcessKeeps DEF StatementFails, Unlocked
<1>10. ASSUME NEW m \in Migrator, Severed(m) PROVE SchemaInv'
  <2>1. migrator'[m] = [migrator[m] EXCEPT
          !.pc = IF migrator[m].pc = "committing" THEN "severed" ELSE "orphaned",
          !.broken = TRUE]
    BY <1>0, <1>10 DEF Severed, MigratorInv, Process
  <2>2. MigratorInv(m, migrator[m], migrations, lock) /\ Running(m)
    BY <1>0, <1>10 DEF Severed
  <2>3. MigratorInv(m, migrator'[m], migrations, lock)
    <3>1. Process(migrator'[m])
      BY <2>1, <2>2 DEF MigratorInv, Process, Phases, Running
    <3>2. Exclusive(m, migrator'[m], lock) /\ Ended(migrator'[m], migrations)
      BY <2>1, <2>2 DEF MigratorInv, Process, Exclusive, Working, Ended, Running
    <3>3. UpToDate(migrator'[m], migrations)
      BY <2>1, <2>2 DEF MigratorInv, Process, UpToDate, Working, Running
    <3> QED
      BY <3>1, <3>2, <3>3 DEF MigratorInv
  <2> QED
    BY <1>0, <1>10, <2>3, ProcessKeeps DEF Severed
<1>11. ASSUME NEW m \in Migrator, SessionClosed(m) PROVE SchemaInv'
  <2>1. /\ migrator'[m] = [migrator[m] EXCEPT !.pc = "failed"]
        /\ lock' = IF lock = m THEN NoMigrator ELSE lock
        /\ MigratorInv(m, migrator[m], migrations, lock)
        /\ migrator[m].pc \in {"severed", "orphaned"}
    BY <1>0, <1>11 DEF SessionClosed, Ends, Moves, Unlocked
  <2>2. /\ Recorded(migrations', executed') /\ migrations \subseteq migrations'
        /\ migrations' = migrations \/ lock = m
    <3>1. CASE migrator[m].pc = "severed" /\ Committed(m)
      BY <1>6, <3>1
    <3>2. CASE UNCHANGED <<migrations, executed>>
      BY <1>0, <3>2
    <3> QED
      BY <1>11, <3>1, <3>2 DEF SessionClosed
  <2>3. MigratorInv(m, migrator'[m], migrations', lock')
    BY <2>1 DEF MigratorInv, Process, Phases, Exclusive, UpToDate, Ended, Working
  <2> QED
    BY <1>0, <1>11, <2>1, <2>2, <2>3, ProcessKeeps DEF SessionClosed, Ends, Moves
<1>12. CASE UNCHANGED schemaVars
  BY <1>12 DEF schemaVars, SchemaInv
<1> QED
  BY <1>1, <1>2, <1>3, <1>4, <1>5, <1>7, <1>8, <1>9, <1>10, <1>11, <1>12 DEF SchemaNext

THEOREM OneAtATime == SchemaSpec => []MigrationsSerialized
<1>1. ASSUME SchemaInv PROVE MigrationsSerialized
  <2>1. ASSUME NEW m \in Migrator
        PROVE  Shipped(m) = {migrator[m].image[i] : i \in 1 .. Len(migrator[m].image)}
               /\ Ended(migrator[m], migrations)
    BY <1>1 DEF SchemaInv, MigratorInv, Process, Sorted, Shipped
  <2>2. ASSUME NEW m \in Migrator
        PROVE  /\ migrator[m].pc = "failed" /\ ~migrator[m].broken
                    => ~(migrations \subseteq Shipped(m))
               /\ migrator[m].pc = "done" => Shipped(m) \subseteq migrations
    BY <2>1 DEF Ended
  <2> QED
    BY <1>1, <2>2 DEF MigrationsSerialized, SchemaInv, Recorded, Versions
<1>2. SchemaInv => MigrationsSerialized
  BY <1>1
<1> QED
  BY <1>2, SchemaStart, SchemaStep, PTL DEF SchemaSpec

----------------------------------------------------------------------------
(* Upgrading by plans through the timelock. *)

Seed == Operation("seed", "proxy", "action")

\* The reserve has been paid at most once, and only by the one operation that
\* every plan of the market names.
SeededOnce == seeded = 0 \/ (seeded = 1 /\ Seed \in timelock.done)

\* What is in a plan was reviewed: every one that seeds is the same operation.
PlannedReviewed ==
  \A op \in planned :
    /\ op.call = "seed" => op = Seed
    /\ op.call = "upgrade" => op.of \in Candidate /\ released[op.of] \in Release

RunsReviewed == running # Baseline => running \in Candidate /\ released[running] \in Release

\* An operation that was executed is not scheduled again.
DoneOnce ==
  /\ (timelock.scheduled \cup timelock.ready) \cap timelock.done = {}
  /\ timelock.scheduled \cap timelock.ready = {}

PlansTypes ==
  /\ DOMAIN released = Candidate
  /\ DOMAIN timelock = {"scheduled", "ready", "done"}

PlansInv ==
  PlansTypes /\ SeededOnce /\ PlannedReviewed /\ RunsReviewed /\ DoneOnce

LEMMA PlansStart == PlansInit => PlansInv
BY DEF PlansInit, PlansInv, PlansTypes, SeededOnce, PlannedReviewed, RunsReviewed, DoneOnce

LEMMA PlansStep == PlansInv /\ [PlansNext]_plansVars => PlansInv'
<1> SUFFICES ASSUME PlansInv, [PlansNext]_plansVars PROVE PlansInv'
  OBVIOUS
<1> USE DEF PlansInv, PlansTypes
<1>1. ASSUME NEW c \in Candidate, NEW made \in Release \cup {"other"},
             DeployCandidate(c, made)
      PROVE PlansInv'
  <2>1. \A k \in Candidate : released[k] \in Release => released'[k] = released[k]
    BY <1>1 DEF DeployCandidate, Release
  <2> QED
    BY <1>1, <2>1 DEF DeployCandidate, SeededOnce, PlannedReviewed, RunsReviewed, DoneOnce
<1>2. ASSUME NEW c \in Candidate, MakeMarketPlan(c) PROVE PlansInv'
  <2>1. \A op \in MarketOperations(c) :
          /\ op.call = "seed" => op = Seed
          /\ op.call = "upgrade" => op.of \in Candidate /\ released[op.of] \in Release
    BY <1>2 DEF MakeMarketPlan, Reviewed, MarketOperations, Operation, MarketSalt, Seed,
                Release
  <2> QED
    BY <1>2, <2>1 DEF MakeMarketPlan, SeededOnce, PlannedReviewed, RunsReviewed, DoneOnce
<1>3. ASSUME NEW c \in Candidate, MakeWorkshopPlan(c) PROVE PlansInv'
  <2>1. \A op \in WorkshopOperations(c) :
          /\ op.call = "seed" => op = Seed
          /\ op.call = "upgrade" => op.of \in Candidate /\ released[op.of] \in Release
    BY <1>3 DEF MakeWorkshopPlan, Reviewed, WorkshopOperations, Operation, Release
  <2> QED
    BY <1>3, <2>1 DEF MakeWorkshopPlan, SeededOnce, PlannedReviewed, RunsReviewed, DoneOnce
<1>4. ASSUME NEW op \in planned, Schedule(op) \/ DelayPasses(op) \/ Cancel(op)
      PROVE PlansInv'
  <2>1. /\ timelock'.done = timelock.done
        /\ op \in timelock.scheduled \cup timelock.ready \/ op \notin Known
        /\ timelock'.scheduled \cup timelock'.ready
             \subseteq timelock.scheduled \cup timelock.ready \cup {op}
        /\ DoneOnce => timelock'.scheduled \cap timelock'.ready = {}
        /\ DOMAIN timelock' = DOMAIN timelock
        /\ UNCHANGED <<released, running, planned, configured, seeded>>
    BY <1>4 DEF Schedule, DelayPasses, Cancel, Known, DoneOnce
  <2> QED
    BY <2>1 DEF Known, SeededOnce, PlannedReviewed, RunsReviewed, DoneOnce
<1>5. ASSUME NEW op \in planned, ExecuteOperation(op) PROVE PlansInv'
  <2>1. /\ timelock'.done = timelock.done \cup {op}
        /\ timelock'.ready = timelock.ready \ {op}
        /\ timelock'.scheduled = timelock.scheduled
        /\ DOMAIN timelock' = DOMAIN timelock
        /\ op \in timelock.ready
        /\ UNCHANGED <<released, planned>>
    BY <1>5 DEF ExecuteOperation
  <2> QED
    BY <1>5, <2>1 DEF ExecuteOperation, SeededOnce, PlannedReviewed, RunsReviewed, DoneOnce, Seed
<1>6. CASE UNCHANGED plansVars
  BY <1>6 DEF plansVars, SeededOnce, PlannedReviewed, RunsReviewed, DoneOnce
<1> QED
  BY <1>1, <1>2, <1>3, <1>4, <1>5, <1>6 DEF PlansNext

THEOREM ReleasesReviewed == PlansSpec => []ReleasedAsPlanned
<1>1. PlansInv => ReleasedAsPlanned
  BY DEF PlansInv, SeededOnce, RunsReviewed, ReleasedAsPlanned
<1> QED
  BY <1>1, PlansStart, PlansStep, PTL DEF PlansSpec

----------------------------------------------------------------------------
(* Deploying from a plan. *)

\* What is edited keeps its kind.
PlanTyped ==
  /\ DOMAIN plan = DOMAIN GoodPlan
  /\ plan.recipients \in Seq({Addr("alice"), Addr("bob"), Addr("carol")} \cup SomeAddress)
  /\ plan.rpId \in Int /\ plan.issuerSchemaId \in Int /\ plan.minDelaySeconds \in Int

\* What a run that sends has checked, and what it has built.
Sending ==
  /\ PlanAccepted(plan, environment.network)
  /\ InterfacesComplete
  /\ sent < StepCount
  /\ \A i \in 1 .. sent : stored[StepNames[i]] = Stores[StepNames[i]]

PlanInv ==
  /\ PlanTyped
  /\ sent \in Nat
  /\ status = "written" => sent = 0
  /\ status = "sending" => Sending
  /\ NothingSentInVain

LEMMA WidthFacts ==
  MaxWord \in Nat \ {0} /\ MaxUint \in Int
BY WidthAssumption DEF MaxUint

LEMMA InitPlan == AcceptanceInit => PlanInv
<1> SUFFICES ASSUME AcceptanceInit PROVE PlanInv
  OBVIOUS
<1>1. plan = GoodPlan /\ sent = 0 /\ status = "written"
  BY DEF AcceptanceInit
<1>2. PlanTyped
  <2>1. GoodPlan.recipients \in Seq({Addr("alice"), Addr("bob"), Addr("carol")} \cup SomeAddress)
    BY DEF GoodPlan
  <2>2. GoodPlan.rpId \in Int /\ GoodPlan.issuerSchemaId \in Int /\ GoodPlan.minDelaySeconds \in Int
    BY WidthAssumption DEF GoodPlan
  <2> QED
    BY <1>1, <2>1, <2>2 DEF PlanTyped
<1> QED
  BY <1>1, <1>2 DEF PlanInv, NothingSentInVain

LEMMA EditKeeps ==
  ASSUME PlanInv, Edit
  PROVE  PlanInv'
<1>1. status = "written" /\ status' = "written" /\ sent' = sent /\ sent = 0
  BY DEF Edit, PlanInv
<1>2. PlanTyped'
  <2>1. CASE \E field \in DOMAIN plan : \E v \in Written[field] : plan' = [plan EXCEPT ![field] = v]
    <3>1. PICK field \in DOMAIN plan : \E v \in Written[field] : plan' = [plan EXCEPT ![field] = v]
      BY <2>1
    <3>2. PICK v \in Written[field] : plan' = [plan EXCEPT ![field] = v]
      BY <3>1
    <3>3. DOMAIN plan' = DOMAIN GoodPlan
      BY <3>2 DEF PlanInv, PlanTyped
    <3>4. \A f \in DOMAIN GoodPlan : plan'[f] = IF f = field THEN v ELSE plan[f]
      BY <3>2 DEF PlanInv, PlanTyped
    <3>5. {"recipients", "rpId", "issuerSchemaId", "minDelaySeconds"} \subseteq DOMAIN GoodPlan
      BY DEF GoodPlan
    <3>6. field = "recipients" =>
            v \in Seq({Addr("alice"), Addr("bob"), Addr("carol")} \cup SomeAddress)
      <4>1. field = "recipients" =>
              v \in {<<Addr("alice")>>, <<Addr("alice"), Addr("bob"), Addr("carol")>>}
                      \cup {<<Addr("alice"), a>> : a \in SomeAddress}
        BY <3>2 DEF Written
      <4>2. \A x, y, z \in {Addr("alice"), Addr("bob"), Addr("carol")} \cup SomeAddress :
              /\ <<x>> \in Seq({Addr("alice"), Addr("bob"), Addr("carol")} \cup SomeAddress)
              /\ <<x, y>> \in Seq({Addr("alice"), Addr("bob"), Addr("carol")} \cup SomeAddress)
              /\ <<x, y, z>> \in Seq({Addr("alice"), Addr("bob"), Addr("carol")} \cup SomeAddress)
        OBVIOUS
      <4> QED
        BY <4>1, <4>2
    <3>7. field \in {"rpId", "issuerSchemaId", "minDelaySeconds"} => v \in Int
      <4>1. SomeNumber \subseteq Int
        BY WidthFacts DEF SomeNumber
      <4>2. field \in {"rpId", "issuerSchemaId", "minDelaySeconds"} => v \in SomeNumber
        BY <3>2 DEF Written
      <4> QED
        BY <4>1, <4>2
    <3> QED
      BY <3>3, <3>4, <3>5, <3>6, <3>7 DEF PlanInv, PlanTyped
  <2>2. CASE UNCHANGED plan
    BY <2>2 DEF PlanInv, PlanTyped
  <2> QED
    BY <2>1, <2>2 DEF Edit
<1> QED
  BY <1>1, <1>2 DEF PlanInv, NothingSentInVain

LEMMA BeginKeeps ==
  ASSUME PlanInv, Begin
  PROVE  PlanInv'
<1>1. /\ sent = 0 /\ UNCHANGED <<plan, environment, edits, hasCode, stored, sent>>
      /\ status' \in {"sending", "rejected"}
  BY DEF Begin, PlanInv
<1>2. status' = "sending" => PlanAccepted(plan, environment.network) /\ InterfacesComplete
  BY DEF Begin
<1>3. PlanTyped'
  BY <1>1 DEF PlanInv, PlanTyped
<1>4. status' = "sending" => Sending'
  <2>1. 0 < StepCount
    BY DEF StepCount, StepNames
  <2>2. status' = "sending" => PlanAccepted(plan, environment.network)'
    <3>1. plan' = plan /\ environment' = environment
      BY <1>1
    <3>2. status' = "sending" => PlanAccepted(plan', environment'.network)
      BY <1>2, <3>1
    <3> QED
      BY <3>2
  <2>3. status' = "sending" => InterfacesComplete'
    BY <1>1, <1>2 DEF InterfacesComplete
  <2>4. (\A i \in 1 .. sent : stored[StepNames[i]] = Stores[StepNames[i]])'
    BY <1>1
  <2> QED
    BY <1>1, <2>1, <2>2, <2>3, <2>4 DEF Sending
<1> QED
  BY <1>1, <1>3, <1>4 DEF PlanInv, NothingSentInVain

\* What a run may stop for.
Excused ==
  \/ plan.token \notin hasCode
  \/ AddressOf("splitter") \in {plan.recipients[i] : i \in DOMAIN plan.recipients}
  \/ plan.minDelaySeconds > MaxUint

\* The list of functions is complete.
LEMMA CalledIsRequired ==
  \A step \in DOMAIN CalledAfter : CalledAfter[step] \subseteq RequiredFunctions
<1>1. /\ DOMAIN CalledAfter = {"preparing", "timelock", "splitter", "proxy", "registry", "implementation"}
      /\ CalledAfter.preparing \subseteq RequiredFunctions
      /\ CalledAfter.timelock \subseteq RequiredFunctions
      /\ CalledAfter.splitter \subseteq RequiredFunctions
      /\ CalledAfter.proxy \subseteq RequiredFunctions
      /\ CalledAfter.registry \subseteq RequiredFunctions
      /\ CalledAfter.implementation \subseteq RequiredFunctions
  BY DEF CalledAfter, RequiredFunctions
<1> QED
  BY <1>1

\* Two fields that fit share a word and are read back from it.
LEMMA PackedApart ==
  ASSUME NEW rpId \in 0 .. MaxWord, NEW issuer \in 0 .. MaxWord,
         NEW word, word = Packed(rpId, issuer)
  PROVE  /\ word \div ((MaxWord + 1) * (MaxWord + 1)) = 0
         /\ word % (MaxWord + 1) = rpId
         /\ (word \div (MaxWord + 1)) % (MaxWord + 1) = issuer
<1> DEFINE s == MaxWord + 1
<1>1. s \in Nat \ {0} /\ rpId \in 0 .. s - 1 /\ issuer \in 0 .. s - 1
  BY WidthAssumption
<1>2. word = s * issuer + rpId
  BY <1>1 DEF Packed
<1> HIDE DEF s
<1>3. word \div s = issuer /\ word % s = rpId
  BY <1>1, <1>2, DivisionUnique
<1>4. issuer % s = issuer
  <2>1. s * 0 + issuer = issuer
    BY <1>1
  <2> QED
    BY <1>1, <2>1, DivisionUnique
<1>5. word \div (s * s) = 0
  <2>1. s * s \in Nat \ {0}
    BY <1>1
  <2>2. s * issuer \in Nat /\ s * issuer <= s * s - s
    <3>1. s * (s - 1 - issuer) \in Nat /\ s * issuer \in Nat
      BY <1>1
    <3>2. s * (s - 1 - issuer) = s * s - s - (s * issuer)
      BY <1>1
    <3> QED
      BY <1>1, <2>1, <3>1, <3>2
  <2>3. word \in 0 .. s * s - 1
    BY <1>1, <1>2, <2>1, <2>2
  <2>4. (s * s) * 0 + word = word
    BY <2>1, <2>3
  <2> QED
    BY <2>1, <2>3, <2>4, DivisionUnique
<1> QED
  BY <1>3, <1>4, <1>5 DEF s

\* An accepted plan is one that the constructors take.
LEMMA AcceptedIsConstructed ==
  ASSUME PlanTyped, Sending, ~ Excused, NEW step
  PROVE  Constructs(step)
<1>1. /\ DistributionAccepted(plan) /\ WorldAccepted(plan)
  BY DEF Sending, PlanAccepted
<1>2. SplitterConstructs
  <2>1. /\ Len(plan.recipients) = 2 /\ plan.bps = <<5000, 5000>>
        /\ \A i \in DOMAIN plan.recipients : plan.recipients[i] # ZeroAddress
        /\ plan.recipients[1] # plan.recipients[2]
    BY <1>1 DEF DistributionAccepted, EachOf, IsAddress
  <2>2. DOMAIN plan.recipients = 1 .. 2
    BY <2>1 DEF PlanTyped
  <2>3. /\ plan.token \in hasCode
        /\ \A i \in DOMAIN plan.recipients : plan.recipients[i] # AddressOf("splitter")
    BY DEF Excused
  <2>4. plan.bps[1] = 5000 /\ plan.bps[2] = 5000 /\ Len(plan.bps) = 2
    BY <2>1
  <2> QED
    BY <2>1, <2>2, <2>3, <2>4 DEF SplitterConstructs
<1>3. GameInitializes
  BY <1>1 DEF WorldAccepted, IsAddress, IsText, GameInitializes
<1> QED
  BY <1>2, <1>3 DEF Constructs

\* What the constructors store is what the script reads back.
LEMMA ConstructedIsHeld ==
  ASSUME PlanTyped, Sending, NEW all, NEW n \in 1 .. StepCount,
         \A i \in 1 .. n : all[StepNames[i]] = Stores[StepNames[i]]
  PROVE  HeldAfter(StepNames[n], all)
<1>1. /\ StepCount = 5
      /\ StepNames[1] = "implementation" /\ StepNames[2] = "timelock"
      /\ StepNames[3] = "splitter" /\ StepNames[4] = "proxy" /\ StepNames[5] = "registry"
  BY DEF StepCount, StepNames
<1>2. ASSUME StepNames[n] = "timelock"
      PROVE  RolesHeld(all["timelock"])
  <2>1. all["timelock"] = Stores.timelock
    BY <1>1, <1>2
  <2> QED
    BY <2>1 DEF Stores, RolesHeld, EachOf
<1>3. ASSUME StepNames[n] \in {"splitter", "proxy", "registry"}
      PROVE  DistributionHeld(all["splitter"]) /\ all["splitter"].shares = plan.bps
  <2>1. all["splitter"] = Stores.splitter
    BY <1>1, <1>3
  <2> QED
    BY <2>1 DEF Stores, DistributionHeld
<1>4. ASSUME StepNames[n] \in {"proxy", "registry"}
      PROVE  /\ GameHeld(all["proxy"])
             /\ all["proxy"].verifier = plan.verifier /\ all["proxy"].router = plan.legacyRouter
             /\ all["proxy"].token = plan.token
             /\ WordHeld(all["proxy"])
  <2>1. all["proxy"] = Stores.proxy
    BY <1>1, <1>4
  <2>2. plan.rpId \in 0 .. MaxWord /\ plan.issuerSchemaId \in 0 .. MaxWord
    BY WidthAssumption
    DEF PlanTyped, Sending, PlanAccepted, WorldAccepted, BoundsHold, IsUint
  <2>3. /\ Stores.proxy.word = Packed(plan.rpId, plan.issuerSchemaId)
        /\ Stores.proxy.genesis = plan.credentialGenesisIssuedAtMin
    BY DEF Stores
  <2>4. WordHeld(all["proxy"])
    BY <2>1, <2>2, <2>3, PackedApart DEF WordHeld
  <2>5. /\ GameHeld(all["proxy"])
        /\ all["proxy"].verifier = plan.verifier /\ all["proxy"].router = plan.legacyRouter
        /\ all["proxy"].token = plan.token
    BY <2>1 DEF Stores, GameHeld
  <2> QED
    BY <2>4, <2>5
<1>5. ASSUME StepNames[n] = "registry"
      PROVE  AllHeld(all)
  <2>1. all["registry"] = Stores.registry
    BY <1>1, <1>5
  <2>2. /\ all["registry"].owner = AddressOf("timelock")
        /\ all["registry"].commit = plan.sourceCommit
        /\ all["registry"].layout = plan.storageLayoutHash
    BY <2>1 DEF Stores
  <2> QED
    BY <1>3, <1>4, <1>5, <2>2 DEF AllHeld
<1> QED
  BY <1>2, <1>3, <1>4, <1>5 DEF HeldAfter

LEMMA CreateKeeps ==
  ASSUME PlanInv, Create
  PROVE  PlanInv'
<1> DEFINE step   == StepNames[sent + 1]
           all    == [s \in {StepNames[i] : i \in 1 .. sent + 1} |->
                        IF s = step THEN Stores[s] ELSE stored[s]]
           needed == CalledAfter[step] \cup (IF sent = 0 THEN CalledAfter.preparing ELSE {})
<1>1. /\ PlanTyped /\ Sending /\ status = "sending" /\ sent \in Nat
      /\ UNCHANGED <<plan, environment, edits, hasCode>>
  BY DEF PlanInv, Create
<1>2. /\ IF ~ Encodable(step)
         THEN status' = "failed" /\ UNCHANGED <<sent, stored>>
         ELSE /\ sent' = sent + 1
              /\ IF ~ Constructs(step)
                 THEN status' = "reverted" /\ UNCHANGED stored
                 ELSE /\ stored' = all
                      /\ status' = IF environment.missingAbi \in needed
                                      \/ ~ HeldAfter(step, all) THEN "failed"
                                   ELSE IF sent' = StepCount THEN "passed"
                                   ELSE "sending"
  BY DEF Create
<1>3. StepCount \in Nat /\ sent + 1 \in 1 .. StepCount
  BY <1>1 DEF Sending, StepCount, StepNames
<1>4. \A i \in 1 .. sent + 1 : all[StepNames[i]] = Stores[StepNames[i]]
  BY <1>1 DEF Sending
<1>5. environment.missingAbi \notin needed
  <2>1. {step, "preparing"} \subseteq DOMAIN CalledAfter
    BY <1>1, <1>3 DEF StepNames, StepCount, CalledAfter
  <2>2. needed \subseteq RequiredFunctions
    BY <2>1, CalledIsRequired
  <2> QED
    BY <1>1, <2>2 DEF Sending, InterfacesComplete
<1> HIDE DEF needed, all
<1>6. HeldAfter(step, all)
  BY <1>1, <1>3, <1>4, ConstructedIsHeld
<1>7. PlanTyped'
  BY <1>1 DEF PlanTyped
<1>8. Excused' <=> Excused
  BY <1>1 DEF Excused
<1>9. sent' \in Nat
  BY <1>1, <1>2
<1>10. status' # "written"
  BY <1>2
<1>11. status' \in {"reverted", "failed"} => Excused
  <2>1. ~ Encodable(step) => Excused
    BY <1>1, WidthFacts DEF Encodable, Excused, PlanTyped
  <2>2. ~ Constructs(step) => Excused
    BY <1>1, AcceptedIsConstructed
  <2> QED
    BY <1>2, <1>5, <1>6, <2>1, <2>2
<1>12. status' = "sending" => Sending'
  <2> SUFFICES ASSUME status' = "sending" PROVE Sending'
    OBVIOUS
  <2>1. sent' = sent + 1 /\ stored' = all /\ sent' # StepCount
    BY <1>2
  <2>2. plan' = plan /\ environment' = environment
    BY <1>1
  <2>3. PlanAccepted(plan', environment'.network) /\ InterfacesComplete
    BY <1>1, <2>2 DEF Sending
  <2>4. InterfacesComplete'
    BY <2>2, <2>3 DEF InterfacesComplete
  <2>5. Stores' = Stores
    BY <2>2 DEF Stores
  <2>6. \A i \in 1 .. sent' : stored'[StepNames[i]] = Stores'[StepNames[i]]
    BY <1>4, <2>1, <2>5
  <2>7. sent' < StepCount
    BY <1>3, <2>1
  <2> QED
    BY <2>3, <2>4, <2>6, <2>7 DEF Sending
<1>13. NothingSentInVain'
  BY <1>8, <1>11 DEF NothingSentInVain, Excused
<1> QED
  BY <1>7, <1>9, <1>10, <1>12, <1>13 DEF PlanInv

\* A run that starts sending spends nonces in vain only for what it could not
\* have known or checked from the plan.
THEOREM NoNonceWasted == AcceptanceSpec => []NothingSentInVain
<1>1. PlanInv /\ [AcceptanceNext]_planFileVars => PlanInv'
  <2> SUFFICES ASSUME PlanInv, [AcceptanceNext]_planFileVars PROVE PlanInv'
    OBVIOUS
  <2>1. CASE Edit
    BY <2>1, EditKeeps
  <2>2. CASE Begin
    BY <2>2, BeginKeeps
  <2>3. CASE Create
    BY <2>3, CreateKeeps
  <2>4. CASE UNCHANGED planFileVars
    <3>1. /\ plan' = plan /\ environment' = environment /\ hasCode' = hasCode
          /\ stored' = stored /\ sent' = sent /\ status' = status
      BY <2>4 DEF planFileVars
    <3>2. PlanTyped' /\ NothingSentInVain'
      BY <3>1 DEF PlanInv, PlanTyped, NothingSentInVain
    <3>3. Stores' = Stores
      BY <3>1 DEF Stores
    <3>4. Sending => Sending'
      BY <3>1, <3>3 DEF Sending, InterfacesComplete
    <3> QED
      BY <3>1, <3>2, <3>4 DEF PlanInv
  <2> QED
    BY <2>1, <2>2, <2>3, <2>4 DEF AcceptanceNext
<1>2. PlanInv => NothingSentInVain
  BY DEF PlanInv
<1> QED
  BY <1>1, <1>2, InitPlan, PTL DEF AcceptanceSpec

----------------------------------------------------------------------------
(* Checking a candidate for the proxy. *)

\* What a run in the middle of writing has behind it, and one that has passed.
GateRunInv ==
  /\ toWrite \subseteq {"v1", "v2"}
  /\ toWrite # {} =>
       /\ ChecksPass
       /\ "v1" \notin toWrite => v1Snapshot = V1Expected
       /\ "v2" \notin toWrite => v2Snapshot = V2Expected
       /\ ~ Passed
  /\ Passed => ChecksPass /\ SnapshotsAgree

\* The sources are ones that were tried; the run and the snapshots are as they should.
GateInv ==
  /\ candidate \in TriedSources /\ budget \in TriedBudgets
  /\ GateRunInv
  /\ SnapshotsOfCheckedSources

\* What the checks say of the candidate.
LEMMA CheckedCandidate ==
  ASSUME ChecksPass, candidate \in TriedSources, budget \in TriedBudgets
  PROVE  fixture = Historical /\ Vouchable(candidate)
<1>1. /\ fixture = Historical /\ storage = HistoricalStorage
      /\ V1Abi(candidate) = V1Abi(fixture) /\ candidate # fixture
  BY DEF ChecksPass, BoundToGit, KeepsV1Abi, ProvenanceHolds
<1>2. candidate.size <= RuntimeLimit
  <2>1. budget <= RuntimeLimit /\ candidate.size <= budget
    BY DEF ChecksPass, WithinBudget
  <2>2. candidate.size \in Nat /\ budget \in Nat /\ RuntimeLimit \in Nat
    BY SizesAssumption
  <2> QED BY <2>1, <2>2
<1>3. storage.slot = BoundSlot[V1Namespace]
  BY <1>1 DEF HistoricalStorage
<1>4. ASSUME NEW n \in Namespace
      PROVE  /\ candidate.bindings[n].annotated /\ ~ candidate.bindings[n].bypassed
             /\ candidate.bindings[n].slot = BoundSlot[n]
             /\ candidate.bindings[n].accessors = {"canonical"}
             /\ n # V1Namespace => candidate.bindings[n].fields = BoundFields[n]
  BY <1>3 DEF ChecksPass, StorageNamespaceBindings, BindingHolds, NothingElseBinds
<1> QED BY <1>1, <1>2, <1>4 DEF Vouchable

LEMMA GateInvInit == GateInit => GateInv
BY DEF GateInit, GateInv, GateRunInv, SnapshotsOfCheckedSources, Passed

\* An edit ends what a run has established, and leaves the snapshots alone.
LEMMA GateInvEdit ==
  ASSUME GateInv, candidate' \in TriedSources, budget' \in TriedBudgets, NEW u, Edited(u)
  PROVE  GateInv'
BY DEF GateInv, GateRunInv, SnapshotsOfCheckedSources, Passed, Edited, NoSnapshot, V1Abi,
  Vouchable, SnapshotOf

\* A write follows the checks, and no source is edited between it and them.
LEMMA GateInvNext == GateInv /\ [GateNext]_gateVars => GateInv'
<1> SUFFICES ASSUME GateInv, [GateNext]_gateVars PROVE GateInv'
  OBVIOUS
<1> USE DEF GateInv
<1>1. CASE Verify
  <2>1. UNCHANGED <<candidate, fixture, storage, provenance, budget, gitObjects,
                    v1Snapshot, v2Snapshot, toWrite>>
    BY <1>1 DEF Verify, checkoutVars
  <2>2. (ChecksPass <=> ChecksPass') /\ (SnapshotsAgree <=> SnapshotsAgree')
    BY <2>1 DEF ChecksPass, BoundToGit, KeepsV1Abi, ProvenanceHolds, StorageNamespaceBindings,
      V1StorageCompatible, WithinBudget, SnapshotsAgree, V1Expected, V2Expected, SnapshotOf,
      HistoricalStorage, GoodProvenance, V1Abi, BindingHolds, NothingElseBinds
  <2>3. GateRunInv'
    BY <1>1, <2>1, <2>2 DEF Verify, GateRunInv, Passed
  <2> QED BY <2>1, <2>3 DEF SnapshotsOfCheckedSources, Vouchable, SnapshotOf, V1Abi, NoSnapshot
<1>2. CASE StartWriting
  <2>1. UNCHANGED <<candidate, fixture, storage, provenance, budget, gitObjects,
                    v1Snapshot, v2Snapshot>>
    BY <1>2 DEF StartWriting, checkoutVars
  <2>2. ChecksPass <=> ChecksPass'
    BY <2>1 DEF ChecksPass, BoundToGit, KeepsV1Abi, ProvenanceHolds, StorageNamespaceBindings,
      V1StorageCompatible, WithinBudget,
      HistoricalStorage, GoodProvenance, V1Abi, BindingHolds, NothingElseBinds
  <2>3. GateRunInv'
    BY <1>2, <2>1, <2>2 DEF StartWriting, GateRunInv, Passed
  <2> QED BY <2>1, <2>3 DEF SnapshotsOfCheckedSources, Vouchable, SnapshotOf, V1Abi, NoSnapshot
<1>3. CASE GateStopped
  BY <1>3 DEF GateStopped, checkoutVars, GateRunInv, Passed, SnapshotsOfCheckedSources, V1Abi,
    Vouchable, SnapshotOf, NoSnapshot
<1>4. ASSUME NEW which \in {"v1", "v2"}, WriteSnapshot(which)
      PROVE  GateInv'
  <2>1. UNCHANGED <<candidate, fixture, storage, provenance, budget, gitObjects>>
    BY <1>4 DEF WriteSnapshot, checkoutVars
  <2>2. toWrite # {} /\ ChecksPass
    BY <1>4 DEF WriteSnapshot, GateRunInv
  <2>3. ChecksPass'
    BY <2>1, <2>2 DEF ChecksPass, BoundToGit, KeepsV1Abi, ProvenanceHolds, StorageNamespaceBindings,
      V1StorageCompatible, WithinBudget,
      HistoricalStorage, GoodProvenance, V1Abi, BindingHolds, NothingElseBinds
  <2>4. V1Expected' = V1Expected /\ V2Expected' = V2Expected
    BY <2>1 DEF V1Expected, V2Expected, SnapshotOf, V1Abi
  <2>5. GateRunInv'
    BY <1>4, <2>2, <2>3, <2>4 DEF WriteSnapshot, GateRunInv, Passed, SnapshotsAgree
  <2>6. /\ V1Expected = SnapshotOf("v1", Historical, V1Abi(Historical))
        /\ V2Expected = SnapshotOf("v2", candidate, candidate.abi)
        /\ V2Expected.source = candidate /\ Vouchable(candidate)
    BY <2>2, CheckedCandidate DEF V1Expected, V2Expected, SnapshotOf
  <2>7. SnapshotsOfCheckedSources'
    BY <1>4, <2>6 DEF WriteSnapshot, SnapshotsOfCheckedSources, Vouchable, SnapshotOf, V1Abi, NoSnapshot
  <2> QED BY <2>1, <2>5, <2>7
<1>5. ASSUME NEW source \in TriedSources,
             EditCandidate(source) \/ EditFixture(source) \/ EditStorage(source)
      PROVE  GateInv'
  BY <1>5, GateInvEdit DEF EditCandidate, EditFixture, EditStorage, Edited
<1>6. ASSUME NEW bytes \in TriedBudgets, EditBudget(bytes)
      PROVE  GateInv'
  BY <1>6, GateInvEdit DEF EditBudget, Edited
<1>7. CASE UNCHANGED gateVars
  BY <1>7 DEF gateVars, GateRunInv, SnapshotsOfCheckedSources, Passed, ChecksPass, BoundToGit,
    KeepsV1Abi, ProvenanceHolds, StorageNamespaceBindings, V1StorageCompatible, WithinBudget,
    SnapshotsAgree, V1Expected, V2Expected, SnapshotOf, HistoricalStorage, GoodProvenance,
    V1Abi, BindingHolds, NothingElseBinds, NoSnapshot, Vouchable
<1> QED BY <1>1, <1>2, <1>3, <1>4, <1>5, <1>6, <1>7 DEF GateNext

\* A run of the gate that is writing has made all its checks, on the sources as they
\* are, and one that has passed found the snapshots that these sources give: GateInv.
THEOREM GateInvariant == GateSpec => []GateInv
BY GateInvInit, GateInvNext, PTL DEF GateSpec

\* After a gate that has passed, whatever was edited before it, the candidate keeps
\* the historical ABI, fits the EVM's limit and is what the snapshot was written from.
THEOREM FacadeIsKept == GateSpec => []PassedKeepsFacade
<1>1. GateInv => PassedKeepsFacade
  BY CheckedCandidate DEF GateInv, GateRunInv, PassedKeepsFacade, SnapshotsAgree, V1Expected,
    V2Expected, SnapshotOf, Vouchable, V1Abi
<1> QED BY <1>1, GateInvariant, PTL

\* However often a run was stopped between its writes, and whatever was edited, the
\* snapshot of V1 in the checkout is the historical one, and that of V2 was written from
\* a source which by itself has all that the checks are for.
THEOREM SnapshotsAreChecked == GateSpec => []SnapshotsOfCheckedSources
<1>1. GateInv => SnapshotsOfCheckedSources
  BY DEF GateInv
<1> QED BY <1>1, GateInvariant, PTL

----------------------------------------------------------------------------
(* Comparing durations of upgrades. *)

\* Rounding up to whole basis points is monotone and never more than one too many.
LEMMA CeilDivTenThousand ==
  ASSUME NEW x \in Nat, NEW y \in Nat, x <= y
  PROVE  /\ RoundedUp(x, 10000) \in Nat
         /\ x <= 10000 * RoundedUp(x, 10000)
         /\ RoundedUp(x, 10000) <= RoundedUp(y, 10000)
BY DEF RoundedUp

\* More boosts take off more, up to the cap.
LEMMA ReductionsAddUp ==
  ASSUME NEW few, NEW many, few \subseteq many
  PROVE  /\ ReductionBps(few) \in 0 .. 3500 /\ ReductionBps(many) \in 0 .. 3500
         /\ ReductionBps(few) <= ReductionBps(many)
BY DEF ReductionBps, BoostBps, OfBoost, AtMost, MaxReductionBps

LEMMA LongestJob == MaxOfflineSeconds = 259200
BY DEF MaxOfflineSeconds

\* A job on a longer raw time, or with a smaller reduction, takes no less.
LEMMA DurationMonotone ==
  ASSUME NEW raw \in Nat, NEW longer \in Nat, NEW few, NEW many,
         raw <= longer, few \subseteq many
  PROVE  /\ DurationSeconds(raw, many) \in Nat /\ DurationSeconds(raw, many) >= 60
         /\ DurationSeconds(raw, many) <= DurationSeconds(longer, few)
<1> DEFINE p == 10000 - ReductionBps(many)
           q == 10000 - ReductionBps(few)
<1>1. p \in 6500 .. 10000 /\ q \in 6500 .. 10000 /\ p <= q
  <2> DEFINE m == ReductionBps(many)
             f == ReductionBps(few)
  <2>1. f \in 0 .. 3500 /\ m \in 0 .. 3500 /\ f <= m
    BY ReductionsAddUp
  <2> HIDE DEF m, f
  <2>2. 10000 - m \in 6500 .. 10000 /\ 10000 - f \in 6500 .. 10000 /\ 10000 - m <= 10000 - f
    BY <2>1
  <2> QED BY <2>2 DEF m, f
<1> HIDE DEF p, q
<1>2. raw * p \in Nat /\ longer * q \in Nat
  BY <1>1
<1>3. raw * p <= longer * q
  <2>1. raw * p <= longer * p
    BY <1>1
  <2>2. longer * p <= longer * q
    BY <1>1
  <2>3. longer * p \in Nat
    BY <1>1
  <2> QED BY <1>2, <2>1, <2>2, <2>3
<1>4. /\ RoundedUp(raw * p, 10000) \in Nat /\ RoundedUp(longer * q, 10000) \in Nat
      /\ RoundedUp(raw * p, 10000) <= RoundedUp(longer * q, 10000)
  <2> DEFINE x == raw * p
             y == longer * q
  <2> HIDE DEF x, y
  <2>1. x \in Nat /\ y \in Nat /\ x <= y
    BY <1>2, <1>3 DEF x, y
  <2>2. RoundedUp(x, 10000) \in Nat /\ RoundedUp(y, 10000) \in Nat
           /\ RoundedUp(x, 10000) <= RoundedUp(y, 10000)
    BY <2>1, CeilDivTenThousand
  <2> QED BY <2>2 DEF x, y
<1>5. /\ DurationSeconds(raw, many)
           = AtMost(MaxOfflineSeconds, AtLeast(MinJobSeconds, RoundedUp(raw * p, 10000)))
      /\ DurationSeconds(longer, few)
           = AtMost(MaxOfflineSeconds, AtLeast(MinJobSeconds, RoundedUp(longer * q, 10000)))
  BY DEF DurationSeconds, p, q
<1>6. ASSUME NEW a \in Nat, NEW b \in Nat, a <= b
      PROVE  LET shortened == AtMost(MaxOfflineSeconds, AtLeast(MinJobSeconds, a))
                 full      == AtMost(MaxOfflineSeconds, AtLeast(MinJobSeconds, b))
             IN  shortened \in Nat /\ shortened >= 60 /\ shortened <= full
  BY <1>6, LongestJob DEF AtMost, AtLeast, MinJobSeconds
<1> QED BY <1>4, <1>5, <1>6

\* Every boost together takes off less than two fifths.
LEMMA ThreeFifthsRemain ==
  ASSUME NEW raw \in Nat, NEW boosts
  PROVE  \/ 5 * DurationSeconds(raw, boosts) > 3 * raw
         \/ DurationSeconds(raw, boosts) = MaxOfflineSeconds
<1> DEFINE p == 10000 - ReductionBps(boosts)
           x == raw * p
<1>1. p \in 6500 .. 10000
  <2> DEFINE m == ReductionBps(boosts)
  <2>1. m \in 0 .. 3500
    BY ReductionsAddUp
  <2> HIDE DEF m
  <2>2. 10000 - m \in 6500 .. 10000
    BY <2>1
  <2> QED BY <2>2 DEF m
<1> HIDE DEF p
<1>2. x \in Nat /\ 6500 * raw <= x
  BY <1>1
<1> HIDE DEF x
<1>3. RoundedUp(x, 10000) \in Nat /\ x <= 10000 * RoundedUp(x, 10000)
  BY <1>2, CeilDivTenThousand
<1>4. DurationSeconds(raw, boosts)
        = AtMost(MaxOfflineSeconds, AtLeast(MinJobSeconds, RoundedUp(x, 10000)))
  BY DEF DurationSeconds, p, x
<1> HIDE DEF x
<1> QED BY <1>2, <1>3, <1>4 DEF AtMost, AtLeast, MaxOfflineSeconds, MinJobSeconds

DurationTypeOK ==
  /\ buildingClass \in BuildingClass
  /\ horizonSeconds \in Nat
  /\ level \in Nat \ {0}
  /\ rawSeconds \in [Curve -> Nat]
  /\ completedLevels \in [Curve -> Nat]
  /\ spentSeconds \in [Curve -> Nat]
  /\ going \in [Curve -> BOOLEAN]

\* A loop that has left off has completed fewer levels than one that has not.
Ahead ==
  /\ rawSeconds["accelerated"] <= rawSeconds["steady"]
  /\ going["steady"] =>
       going["accelerated"] /\ spentSeconds["accelerated"] <= spentSeconds["steady"]
  /\ going["accelerated"] /\ ~ going["steady"] =>
       completedLevels["steady"] < completedLevels["accelerated"]

DurationInv == DurationTypeOK /\ NoLevelIsSkipped /\ Ahead /\ AcceleratedIsAhead

LEMMA DurationInvInit == DurationInit => DurationInv
<1> SUFFICES ASSUME DurationInit PROVE DurationInv
  OBVIOUS
<1>1. horizonSeconds \in Nat
  BY HorizonDaysAssumption DEF DurationInit
<1>2. BaseSeconds[buildingClass] \in Nat
  BY DEF DurationInit, BuildingClass, BaseSeconds
<1>3. DurationTypeOK
  BY <1>1, <1>2 DEF DurationInit, DurationTypeOK
<1> QED BY <1>1, <1>2, <1>3
  DEF DurationInit, DurationInv, NoLevelIsSkipped, Ahead, AcceleratedIsAhead, Curve, MinJobSeconds

\* A level of one curve.
LEMMA StepOfCurve ==
  ASSUME DurationInv, DurationStep, NEW c \in Curve
  PROVE  /\ DurationSeconds(rawSeconds[c], {}) \in Nat
         /\ DurationSeconds(rawSeconds[c], {}) >= 60
         /\ rawSeconds'[c] = RoundedUp(rawSeconds[c] * GrowthBps[c], 10000)
         /\ rawSeconds'[c] \in Nat
         /\ going'[c] = LevelFits(c)
         /\ LevelFits(c) =>
              /\ going[c] /\ completedLevels[c] = level - 1
              /\ completedLevels'[c] = level
              /\ spentSeconds'[c] = spentSeconds[c] + DurationSeconds(rawSeconds[c], {})
              /\ spentSeconds'[c] <= horizonSeconds
         /\ ~ LevelFits(c) =>
              /\ completedLevels'[c] = completedLevels[c]
              /\ spentSeconds'[c] = spentSeconds[c]
<1>1. rawSeconds[c] \in Nat
  BY DEF DurationInv, DurationTypeOK
<1>2. DurationSeconds(rawSeconds[c], {}) \in Nat /\ DurationSeconds(rawSeconds[c], {}) >= 60
  BY <1>1, DurationMonotone
<1>3. GrowthBps[c] \in Nat
  BY DEF GrowthBps, Curve
<1>4. rawSeconds[c] * GrowthBps[c] \in Nat
  BY <1>1, <1>3
<1>5. RoundedUp(rawSeconds[c] * GrowthBps[c], 10000) \in Nat
  BY <1>4, CeilDivTenThousand
<1>6. rawSeconds'[c] = RoundedUp(rawSeconds[c] * GrowthBps[c], 10000)
  BY DEF DurationStep
<1>7. going'[c] = LevelFits(c)
  BY DEF DurationStep, GoesOn
<1>8. /\ LevelFits(c) =>
              /\ completedLevels'[c] = level
              /\ spentSeconds'[c] = spentSeconds[c] + DurationSeconds(rawSeconds[c], {})
      /\ ~ LevelFits(c) =>
              /\ completedLevels'[c] = completedLevels[c]
              /\ spentSeconds'[c] = spentSeconds[c]
  BY DEF DurationStep
<1>9. LevelFits(c) => going[c] /\ completedLevels[c] = level - 1
                 /\ spentSeconds[c] + DurationSeconds(rawSeconds[c], {}) <= horizonSeconds
  BY DEF LevelFits, DurationInv, NoLevelIsSkipped
<1> QED BY <1>2, <1>5, <1>6, <1>7, <1>8, <1>9

\* While both loops run they are at the same level; the steady one stops first.
LEMMA DurationInvStep == DurationInv /\ DurationStep => DurationInv'
<1> SUFFICES ASSUME DurationInv, DurationStep PROVE DurationInv'
  OBVIOUS
<1> DEFINE D(c) == DurationSeconds(rawSeconds[c], {})
<1>1. /\ level' = level + 1 /\ horizonSeconds' = horizonSeconds
      /\ buildingClass' = buildingClass
      /\ level \in Nat \ {0} /\ horizonSeconds \in Nat
  BY DEF DurationStep, DurationInv, DurationTypeOK
<1>2. \A c \in Curve : D(c) \in Nat /\ D(c) >= 60
  BY StepOfCurve
<1>3. \A c \in Curve : LevelFits(c) \in BOOLEAN
  BY DEF LevelFits
<1>4. DurationTypeOK'
  <2>1. rawSeconds' \in [Curve -> Nat]
    BY StepOfCurve DEF DurationStep
  <2>2. completedLevels' \in [Curve -> Nat]
    BY <1>1 DEF DurationStep, DurationInv, DurationTypeOK
  <2>3. spentSeconds' \in [Curve -> Nat]
    BY <1>2 DEF DurationStep, DurationInv, DurationTypeOK
  <2>4. going' \in [Curve -> BOOLEAN]
    BY <1>3 DEF DurationStep, GoesOn
  <2> QED BY <1>1, <2>1, <2>2, <2>3, <2>4 DEF DurationTypeOK, DurationInv
<1>5. NoLevelIsSkipped'
  <2> SUFFICES ASSUME NEW c \in Curve
               PROVE  /\ going'[c] => completedLevels'[c] = level' - 1
                      /\ spentSeconds'[c] <= horizonSeconds'
                      /\ MinJobSeconds * completedLevels'[c] <= spentSeconds'[c]
    BY DEF NoLevelIsSkipped, MinJobSeconds
  <2>1. /\ spentSeconds[c] \in Nat /\ completedLevels[c] \in Nat
        /\ spentSeconds[c] <= horizonSeconds
        /\ 60 * completedLevels[c] <= spentSeconds[c]
    BY DEF DurationInv, DurationTypeOK, NoLevelIsSkipped, MinJobSeconds
  <2>2. CASE LevelFits(c)
    <3>1. /\ completedLevels[c] = level - 1 /\ completedLevels'[c] = level
          /\ spentSeconds'[c] = spentSeconds[c] + D(c)
          /\ spentSeconds'[c] <= horizonSeconds
      BY <2>2, StepOfCurve
    <3>2. D(c) \in Nat /\ D(c) >= 60
      BY <1>2
    <3> HIDE DEF D
    <3> QED BY <1>1, <2>1, <3>1, <3>2 DEF MinJobSeconds
  <2>3. CASE ~ LevelFits(c)
    BY <1>1, <2>1, <2>3, StepOfCurve DEF MinJobSeconds
  <2> QED BY <2>2, <2>3
<1>6. Ahead' /\ AcceleratedIsAhead'
  <2> DEFINE a == "accelerated"
             s == "steady"
  <2>1. a \in Curve /\ s \in Curve
    BY DEF Curve
  <2>2. rawSeconds'[a] <= rawSeconds'[s]
    <3>1. /\ rawSeconds[a] \in Nat /\ rawSeconds[s] \in Nat /\ rawSeconds[a] <= rawSeconds[s]
          /\ GrowthBps[a] = 11350 /\ GrowthBps[s] = 11800
      BY <2>1 DEF DurationInv, DurationTypeOK, Ahead, GrowthBps
    <3>2. /\ rawSeconds[a] * 11350 \in Nat /\ rawSeconds[s] * 11800 \in Nat
          /\ rawSeconds[a] * 11350 <= rawSeconds[s] * 11800
      BY <3>1
    <3>3. RoundedUp(rawSeconds[a] * 11350, 10000) <= RoundedUp(rawSeconds[s] * 11800, 10000)
      BY <3>2, CeilDivTenThousand
    <3> QED BY <2>1, <3>1, <3>3, StepOfCurve
  <2>3. D(a) <= D(s)
    BY <2>1, DurationMonotone DEF DurationInv, DurationTypeOK, Ahead
  <2>4. D(a) \in Nat /\ D(s) \in Nat
    BY <1>2, <2>1
  <2>5. /\ \A c \in {a, s} : /\ spentSeconds[c] \in Nat /\ completedLevels[c] \in Nat
                             /\ spentSeconds'[c] \in Nat /\ completedLevels'[c] \in Nat
    BY <1>4, <2>1 DEF DurationInv, DurationTypeOK
  <2>6. LevelFits(s) => LevelFits(a) /\ spentSeconds'[a] <= spentSeconds'[s]
    <3> SUFFICES ASSUME LevelFits(s) PROVE LevelFits(a) /\ spentSeconds'[a] <= spentSeconds'[s]
      OBVIOUS
    <3>1. /\ going[s] /\ spentSeconds'[s] = spentSeconds[s] + D(s)
          /\ spentSeconds'[s] <= horizonSeconds
      BY <2>1, StepOfCurve
    <3>2. going[a] /\ spentSeconds[a] <= spentSeconds[s]
      BY <3>1 DEF DurationInv, Ahead
    <3>3. spentSeconds[a] + D(a) <= spentSeconds[s] + D(s)
      <4> HIDE DEF D
      <4> QED BY <2>3, <2>4, <2>5, <3>2
    <3>4. spentSeconds[a] + D(a) <= horizonSeconds
      <4> HIDE DEF D
      <4> QED BY <1>1, <2>4, <2>5, <3>1, <3>3
    <3>5. LevelFits(a)
      BY <3>2, <3>4 DEF LevelFits
    <3>6. spentSeconds'[a] = spentSeconds[a] + D(a)
      BY <2>1, <3>5, StepOfCurve
    <3> QED BY <3>1, <3>3, <3>5, <3>6
  <2>7. /\ going'[s] = LevelFits(s) /\ going'[a] = LevelFits(a)
        /\ LevelFits(s) => completedLevels'[s] = level
        /\ LevelFits(a) => going[a] /\ completedLevels[a] = level - 1 /\ completedLevels'[a] = level
        /\ ~ LevelFits(s) => completedLevels'[s] = completedLevels[s]
                        /\ spentSeconds'[s] = spentSeconds[s]
        /\ ~ LevelFits(a) => completedLevels'[a] = completedLevels[a]
                        /\ spentSeconds'[a] = spentSeconds[a]
    BY <2>1, StepOfCurve
  <2>8. /\ going[s] => going[a] /\ spentSeconds[a] <= spentSeconds[s]
                         /\ completedLevels[s] = level - 1 /\ completedLevels[a] = level - 1
        /\ going[a] /\ ~ going[s] => completedLevels[s] < completedLevels[a]
        /\ completedLevels[s] <= completedLevels[a]
        /\ completedLevels[s] = completedLevels[a] => spentSeconds[a] <= spentSeconds[s]
    BY <2>1 DEF DurationInv, Ahead, AcceleratedIsAhead, NoLevelIsSkipped
  <2>9. going[s] \in BOOLEAN /\ going[a] \in BOOLEAN /\ going'[s] \in BOOLEAN
        /\ going'[a] \in BOOLEAN
    BY <1>4, <2>1 DEF DurationInv, DurationTypeOK
  <2>10. Ahead'
    BY <1>1, <2>2, <2>5, <2>6, <2>7, <2>8, <2>9 DEF Ahead
  <2>11. AcceleratedIsAhead'
    BY <1>1, <2>2, <2>5, <2>6, <2>7, <2>8, <2>9 DEF AcceleratedIsAhead
  <2> QED BY <2>10, <2>11
<1> QED BY <1>4, <1>5, <1>6 DEF DurationInv

\* The two curves are compared level by level: the accelerated one is never slower,
\* and it runs as long as the steady one does: DurationInv, with Ahead as its
\* strengthening.
THEOREM DurationInvariant == DurationSpec => []DurationInv
<1>1. DurationInv /\ UNCHANGED durationVars => DurationInv'
  BY DEF durationVars, DurationInv, DurationTypeOK, NoLevelIsSkipped, Ahead, AcceleratedIsAhead
<1> QED BY <1>1, DurationInvInit, DurationInvStep, PTL DEF DurationSpec, DurationNext

\* For every class of building and any horizon, the accelerated curve has completed
\* at least as many levels as the steady one, and as many only in no more time.
THEOREM AcceleratedStaysAhead == DurationSpec => []AcceleratedIsAhead
<1>1. DurationInv => AcceleratedIsAhead
  BY DEF DurationInv
<1> QED BY <1>1, DurationInvariant, PTL

\* For every class of building and any horizon, levels are counted without a gap, in
\* no more time than the horizon, and none takes less than a minute.
THEOREM LevelsInOrder == DurationSpec => []NoLevelIsSkipped
<1>1. DurationInv => NoLevelIsSkipped
  BY DEF DurationInv
<1> QED BY <1>1, DurationInvariant, PTL

\* Whatever the boosts, and however a duration is rounded and capped: none makes a
\* job longer and all of them together leave more than three fifths of it.
THEOREM BoostsNeverHurt == DurationSpec => []BoostsShorten
<1>1. DurationInv => BoostsShorten
  BY DurationMonotone, ThreeFifthsRemain DEF DurationInv, DurationTypeOK, BoostsShorten
<1> QED BY <1>1, DurationInvariant, PTL

\* The comparison of durations, as a whole.
THEOREM DurationsAreHeld == DurationSpec => []DurationsHold
BY AcceleratedStaysAhead, LevelsInOrder, BoostsNeverHurt, PTL DEF DurationsHold

\* What the gate vouches for, as a whole.
THEOREM GateIsHeld == GateSpec => []GateHolds
BY FacadeIsKept, SnapshotsAreChecked, PTL DEF GateHolds
=============================================================================
