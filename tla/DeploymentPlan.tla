---------------------------- MODULE DeploymentPlan ----------------------------
(***************************************************************************)
(* One run of scripts/worldchain-proxy-runner.mjs with --send, seen from   *)
(* its plan: what it accepts, what it makes the constructors do, and what  *)
(* it reads back.  ProxyDeployment has the interleavings of such runs.     *)
(*                                                                         *)
(* A plan starts as a good one and is edited.  An address is a pair: who   *)
(* it belongs to, and 0, or the deployer and the nonce that created it.    *)
(* Integers that are no number are -1.  uint64 ends at MaxWord: a storage  *)
(* word holds four of them.                                                *)
(***************************************************************************)
EXTENDS Integers, Sequences, FiniteSets

CONSTANTS
  MaxWord,      \* type(uint64).max
  MaxEdits      \* bound: fields that differ from the good plan

ASSUME WidthAssumption == MaxWord \in Nat \ {0} /\ MaxEdits \in Nat

Addr(who)      == <<who, 0>>
ZeroAddress    == Addr("zero")
Malformed      == Addr("example")
Created(nonce) == <<"deployer", nonce>>      \* getContractAddress

\* DEPLOYMENT_STEPS
StepNames == <<"implementation", "timelock", "splitter", "proxy", "registry">>
StepCount == Len(StepNames)

\* type(uint256).max
MaxUint == (MaxWord + 1) * (MaxWord + 1) * (MaxWord + 1) * (MaxWord + 1) - 1

GoodPlan ==
  [network |-> "testnet", chainId |-> 4801,
   deployer |-> Addr("deployer"), deployerNonce |-> 1,
   sourceCommit |-> "hash", storageLayoutHash |-> "layout", protectedKeyRef |-> "ref",
   timelockAdmin |-> Addr("alice"), proposers |-> <<Addr("bob")>>,
   executors |-> <<ZeroAddress>>, minDelaySeconds |-> 1,
   verifier |-> Addr("verifier"), actionId |-> "text", rpId |-> 1,
   issuerSchemaId |-> MaxWord, credentialGenesisIssuedAtMin |-> 0,
   legacyRouter |-> Addr("router"), legacyAppId |-> "text", legacyActionId |-> "text",
   token |-> Addr("token"),
   recipients |-> <<Addr("alice"), Addr("bob")>>, bps |-> <<5000, 5000>>,
   claimFormula |-> "V1", claimCooldownSeconds |-> 60]

\* The environment of a run, and what compiles.
GoodEnvironment ==
  [network |-> "testnet", confirmed |-> TRUE, keyRef |-> "ref", keyMode |-> "private",
   keyOf |-> Addr("deployer"), rpc |-> TRUE, missingAbi |-> "none"]

\* The functions that the script finds in the compiled interfaces when it
\* encodes a call or reads a result, by the step before which it needs them.
CalledAfter ==
  [preparing      |-> {"game.initialize"},
   timelock       |-> {"timelock.hasRole"},
   splitter       |-> {"splitter.token", "splitter.timelock", "splitter.recipients",
                       "splitter.PAYOUT_PERIOD"},
   proxy          |-> {"game.revenueSplitter", "game.timelock", "game.CLAIM_COOLDOWN",
                       "proxyAdmin.owner"},
   registry       |-> {"registry.owner", "registry.releaseCount", "registry.releaseAt",
                       "game.worldIdVerifier", "game.worldIdLegacyRouter",
                       "game.worldToken", "game.worldIdAction", "game.worldIdRpId",
                       "game.worldIdLegacyExternalNullifier",
                       "game.MAX_OFFLINE_SECONDS", "game.prestigeMultiplierBps",
                       "splitter.sharesBps"},
   implementation |-> {}]

\* Faulty variant: the list was not extended when the roles came to be read.
FaultyRequiredFunctions == UNION {CalledAfter[step] : step \in DOMAIN CalledAfter \ {"timelock"}}

\* REQUIRED_COMPILER_ABI_FUNCTIONS
RequiredFunctions ==
  {"game.initialize", "game.revenueSplitter", "game.timelock", "game.CLAIM_COOLDOWN",
   "game.worldIdVerifier", "game.worldIdLegacyRouter", "game.worldToken",
   "game.worldIdAction", "game.worldIdRpId", "game.worldIdLegacyExternalNullifier",
   "game.MAX_OFFLINE_SECONDS", "game.prestigeMultiplierBps",
   "splitter.token", "splitter.timelock", "splitter.recipients",
   "splitter.PAYOUT_PERIOD", "splitter.sharesBps",
   "registry.owner", "registry.releaseCount", "registry.releaseAt",
   "timelock.hasRole", "proxyAdmin.owner"}

VARIABLES
  plan, environment,
  edits,
  hasCode,      \* addresses outside the plan that hold contracts
  stored,       \* what the constructors stored, by name
  sent,         \* creations sent
  status        \* of the run

planFileVars == <<plan, environment, edits, hasCode, stored, sent, status>>

AcceptanceInit ==
  /\ plan = GoodPlan /\ environment = GoodEnvironment
  /\ edits = 0
  /\ hasCode \in {{Addr("token"), Addr("verifier"), Addr("router")}, {}}
  /\ stored = << >>
  /\ sent = 0
  /\ status = "written"

----------------------------------------------------------------------------
(* The plan and the environment as somebody wrote them. *)

SomeAddress == {ZeroAddress, Malformed, Addr("alice"), Created(2), Created(3)}
SomeText    == {"", "placeholder", "text"}
SomeHash    == {"zero", "short", "other"}
SomeList    == {<< >>} \cup {<<a>> : a \in SomeAddress}
SomeNumber  == {-1, 0, MaxWord, MaxWord + 1, MaxUint, MaxUint + 1}

\* What can be written into a field.
Written ==
  [network |-> {"mainnet"}, chainId |-> {480},
   deployer |-> SomeAddress, deployerNonce |-> SomeNumber,
   sourceCommit |-> SomeHash, storageLayoutHash |-> SomeHash, protectedKeyRef |-> SomeText,
   timelockAdmin |-> SomeAddress, proposers |-> SomeList, executors |-> SomeList,
   minDelaySeconds |-> SomeNumber,
   verifier |-> SomeAddress, actionId |-> SomeText, rpId |-> SomeNumber,
   issuerSchemaId |-> SomeNumber, credentialGenesisIssuedAtMin |-> SomeNumber,
   legacyRouter |-> SomeAddress, legacyAppId |-> SomeText, legacyActionId |-> SomeText,
   token |-> SomeAddress,
   recipients |->
     {<<Addr("alice")>>, <<Addr("alice"), Addr("bob"), Addr("carol")>>}
       \cup {<<Addr("alice"), a>> : a \in SomeAddress},
   bps |-> {<<5000>>, <<10000, 0>>, <<4000, 6000>>},
   claimFormula |-> {"V2"}, claimCooldownSeconds |-> {-1, 0, 61}]

WrittenEnvironment ==
  [network |-> {"mainnet"}, confirmed |-> {FALSE}, keyRef |-> {"", "other"},
   keyMode |-> {"none", "readable", "unparsable"}, keyOf |-> {Addr("alice")},
   rpc |-> {FALSE}, missingAbi |-> UNION {CalledAfter[step] : step \in DOMAIN CalledAfter}]

Edit ==
  /\ status = "written"
  /\ edits < MaxEdits /\ edits' = edits + 1
  /\ \/ /\ \E field \in DOMAIN plan : \E v \in Written[field] :
             plan' = [plan EXCEPT ![field] = v]
        /\ UNCHANGED environment
     \/ /\ \E field \in DOMAIN environment : \E v \in WrittenEnvironment[field] :
             environment' = [environment EXCEPT ![field] = v]
        /\ UNCHANGED plan
  /\ UNCHANGED <<hasCode, stored, sent, status>>

----------------------------------------------------------------------------
(* loadPlan. *)

IsAddress(a)         == a \notin {ZeroAddress, Malformed}
IsExecutor(a)        == a # Malformed
IsText(t)            == t \notin {"", "placeholder"}
IsUint(n)            == n >= 0
IsHash(h)            == h \notin {"zero", "short"}
EachOf(seq, Test(_)) == \A i \in DOMAIN seq : Test(seq[i])

\* assertWorldIdPlanBounds
BoundsHold(p) ==
  /\ IsUint(p.rpId) /\ p.rpId <= MaxWord
  /\ IsUint(p.issuerSchemaId) /\ p.issuerSchemaId <= MaxWord
  /\ IsUint(p.credentialGenesisIssuedAtMin) /\ p.credentialGenesisIssuedAtMin <= MaxUint

GovernanceAccepted(p) ==
  /\ Len(p.proposers) > 0 /\ Len(p.executors) > 0
  /\ IsAddress(p.timelockAdmin)
  /\ EachOf(p.proposers, IsAddress) /\ EachOf(p.executors, IsExecutor)
  /\ IsUint(p.minDelaySeconds)

WorldAccepted(p) ==
  /\ BoundsHold(p)
  /\ p.rpId # 0 /\ p.issuerSchemaId # 0
  /\ IsAddress(p.verifier) /\ IsAddress(p.legacyRouter) /\ IsAddress(p.token)
  /\ IsText(p.actionId) /\ IsText(p.legacyAppId) /\ IsText(p.legacyActionId)

DistributionAccepted(p) ==
  /\ Len(p.recipients) = 2 /\ p.bps = <<5000, 5000>>
  /\ EachOf(p.recipients, IsAddress)
  /\ p.recipients[1] # p.recipients[2]

PlanAccepted(p, network) ==
  /\ p.network = network
  /\ p.chainId = IF network = "mainnet" THEN 480 ELSE 4801
  /\ IsAddress(p.deployer) /\ IsUint(p.deployerNonce)
  /\ IsHash(p.sourceCommit) /\ IsText(p.protectedKeyRef)
  /\ GovernanceAccepted(p) /\ WorldAccepted(p) /\ DistributionAccepted(p)
  /\ p.claimFormula = "V1" /\ p.claimCooldownSeconds = 60

----------------------------------------------------------------------------
(* The run up to the first transaction. *)

\* assertCompilerAbiPreflight
InterfacesComplete == environment.missingAbi \notin RequiredFunctions

\* The key file is named, private, well formed and that of the deployer.
\* loadProtectedDeployerAccount
KeyLoaded ==
  /\ environment.keyRef = plan.protectedKeyRef
  /\ environment.keyMode = "private"
  /\ environment.keyOf = plan.deployer

\* encodeInitializeData: the widths of the fields.
InitializeEncodable ==
  plan.rpId <= MaxWord /\ plan.issuerSchemaId <= MaxWord
    /\ plan.credentialGenesisIssuedAtMin <= MaxUint

\* A dry run ends with the manifest; with --send an accepted plan goes on.
\* The nonce of the account is that of the plan.
Begin ==
  /\ status = "written"
  /\ status' = IF /\ environment.confirmed
                  /\ PlanAccepted(plan, environment.network)
                  /\ IsHash(plan.storageLayoutHash) /\ plan.storageLayoutHash = "layout"
                  /\ InterfacesComplete /\ InitializeEncodable
                  /\ environment.rpc
                  /\ KeyLoaded
               THEN "sending" ELSE "rejected"
  /\ UNCHANGED <<plan, environment, edits, hasCode, stored, sent>>

----------------------------------------------------------------------------
(* The creations. *)

\* addresses: by the step, from the deployer and the nonce.
AddressOf(step) ==
  Created(CHOOSE i \in DOMAIN StepNames : StepNames[i] = step)

\* A delay that does not fit is refused where the creation is encoded.
Encodable(step) == step = "timelock" => plan.minDelaySeconds <= MaxUint

\* The constructor of the splitter.
SplitterConstructs ==
  /\ plan.token \in hasCode
  /\ Len(plan.recipients) \in 2 .. 10
  /\ Len(plan.recipients) = Len(plan.bps)
  /\ \A i \in DOMAIN plan.recipients :
       /\ plan.recipients[i] \notin {ZeroAddress, AddressOf("splitter")}
       /\ plan.bps[i] # 0
       /\ \A j \in 1 .. i - 1 : plan.recipients[j] # plan.recipients[i]
  /\ plan.bps[1] + plan.bps[2] = 10000

\* initialize of the game, through the proxy.  That the splitter has this token and
\* this timelock, which it asks too (_validateRevenueSplitter), was read back against
\* the plan in a step before.
GameInitializes ==
  /\ ZeroAddress \notin {plan.verifier, plan.legacyRouter, plan.token}
  /\ "" \notin {plan.actionId, plan.legacyAppId, plan.legacyActionId}
  /\ 0 \notin {plan.rpId, plan.issuerSchemaId}

\* The others have nothing to refuse: the implementation has no arguments, the
\* timelock takes any, and the registry gets the code hash of the
\* implementation that was just compared.
Constructs(step) ==
  /\ step = "splitter" => SplitterConstructs
  /\ step = "proxy"    => GameInitializes

\* rpId and issuerSchemaId share a storage word.
Packed(rpId, issuer) == rpId + issuer * (MaxWord + 1)

\* What the constructors store, by the step.
Stores ==
  [implementation |-> [code |-> TRUE],
   timelock |->
     [admins    |-> {plan.timelockAdmin, AddressOf("timelock")},
      proposers |-> {plan.proposers[i] : i \in DOMAIN plan.proposers},
      executors |-> {plan.executors[i] : i \in DOMAIN plan.executors}],
   splitter |->
     [token |-> plan.token, owner |-> AddressOf("timelock"),
      recipients |-> plan.recipients, shares |-> plan.bps],
   proxy |->
     [verifier |-> plan.verifier, router |-> plan.legacyRouter, token |-> plan.token,
      splitter |-> AddressOf("splitter"), owner |-> AddressOf("timelock"),
      word |-> Packed(plan.rpId, plan.issuerSchemaId),
      genesis |-> plan.credentialGenesisIssuedAtMin],
   registry |->
     [owner |-> AddressOf("timelock"), commit |-> plan.sourceCommit,
      layout |-> plan.storageLayoutHash]]

\* What is read back after a creation, and after the last of all of them.
RolesHeld(s) ==
  /\ plan.timelockAdmin \in s.admins
  /\ EachOf(plan.proposers, LAMBDA a : a \in s.proposers)
  /\ EachOf(plan.executors, LAMBDA a : a \in s.executors)

DistributionHeld(s) ==
  /\ s.token = plan.token /\ s.owner = AddressOf("timelock")
  /\ s.recipients = plan.recipients

\* readWorldIdStorageSnapshot: the two words at the frozen offsets.
WordHeld(s) ==
  /\ s.word \div ((MaxWord + 1) * (MaxWord + 1)) = 0
  /\ s.word % (MaxWord + 1) = plan.rpId
  /\ (s.word \div (MaxWord + 1)) % (MaxWord + 1) = plan.issuerSchemaId
  /\ s.genesis = plan.credentialGenesisIssuedAtMin

GameHeld(s) ==
  /\ s.splitter = AddressOf("splitter") /\ s.owner = AddressOf("timelock")

AllHeld(all) ==
  /\ all["registry"].owner = AddressOf("timelock")
  /\ all["registry"].commit = plan.sourceCommit
  /\ all["registry"].layout = plan.storageLayoutHash
  /\ DistributionHeld(all["splitter"]) /\ all["splitter"].shares = plan.bps
  /\ GameHeld(all["proxy"])
  /\ all["proxy"].verifier = plan.verifier /\ all["proxy"].router = plan.legacyRouter
  /\ all["proxy"].token = plan.token
  /\ WordHeld(all["proxy"])

HeldAfter(step, all) ==
  /\ step = "timelock" => RolesHeld(all["timelock"])
  /\ step = "splitter" => DistributionHeld(all["splitter"])
  /\ step = "proxy"    => GameHeld(all["proxy"])
  /\ step = "registry" => AllHeld(all)

\* One creation with the reads that follow it; the first needs the encoding of
\* initialize as well.
Create ==
  LET step   == StepNames[sent + 1]
      all    == [s \in {StepNames[i] : i \in 1 .. sent + 1} |->
                   IF s = step THEN Stores[s] ELSE stored[s]]
      needed == CalledAfter[step] \cup (IF sent = 0 THEN CalledAfter.preparing ELSE {})
  IN  /\ status = "sending" /\ sent < StepCount
      /\ IF ~ Encodable(step)
         THEN status' = "failed" /\ UNCHANGED <<sent, stored>>
         ELSE /\ sent' = sent + 1
              /\ IF ~ Constructs(step)
                 THEN status' = "reverted" /\ UNCHANGED stored
                 ELSE /\ stored' = all
                      /\ status' = IF environment.missingAbi \in needed
                                      \/ ~ HeldAfter(step, all) THEN "failed"
                                   ELSE IF sent' = StepCount THEN "passed"
                                   ELSE "sending"
      /\ UNCHANGED <<plan, environment, edits, hasCode>>

AcceptanceNext == Edit \/ Begin \/ Create

AcceptanceSpec == AcceptanceInit /\ [][AcceptanceNext]_planFileVars

----------------------------------------------------------------------------
\* A run does not spend the nonces of its plan in vain: when it stops after
\* its first transaction, the token is no contract, a recipient is the very
\* splitter that is created, or the delay fits in no word.  Whatever else is
\* wrong with a plan, a key or an interface is found before.
NothingSentInVain ==
  status \in {"reverted", "failed"} /\ sent > 0 =>
    \/ plan.token \notin hasCode
    \/ AddressOf("splitter") \in {plan.recipients[i] : i \in DOMAIN plan.recipients}
    \/ plan.minDelaySeconds > MaxUint
=============================================================================
