------------------------------- MODULE MCMarket -------------------------------
(***************************************************************************)
(* What operators do to the game: two of them deploy a release of four     *)
(* contracts, of which governance can reconfigure the third; one deploys   *)
(* from a plan in which up to two fields are wrong, and the script derives *)
(* from small compiler outputs the code that must be found; containers of  *)
(* three images migrate the database, one image that ships an edited       *)
(* migration among them; governance upgrades the proxy by plans that are   *)
(* made for two candidates, of which the compatibility gate judges the     *)
(* code; and in a game that is deployed it reprices and restocks the       *)
(* market.  Each is explored on its own.                                   *)
(*                                                                         *)
(* In the game there are two wallets around the ledger: World ID           *)
(* registrations, rewards, transfers, allowances, burns, and trades of two *)
(* units of wood.  Prices that do not divide by the fee are chosen so that *)
(* both roundings lose something.                                          *)
(***************************************************************************)
EXTENDS CivilizationGame, ProxyDeployment, DeploymentPlan, RuntimeBytecode,
        Migrations, ReleasePlans, CompatibilityGate, TLC

VARIABLE stage

asideVars == <<deployVars, planFileVars, bytecodeVars, schemaVars, plansVars, gateVars>>
gameVars  == <<vars, asideVars, stage>>

\* A stage that is not explored stands at one of its initial states.
GameInit ==
  /\ stage \in {"deployment", "acceptance", "bytecode", "migration", "planning", "gate",
               "market"}
  /\ GateInit
  /\ stage # "gate" => candidate = Historical /\ budget = RuntimeLimit /\ gitObjects
  /\ AcceptanceInit /\ (stage # "acceptance" => hasCode = {})
  /\ IF stage = "bytecode" THEN BytecodeInit
     ELSE /\ references = << >> /\ declarations = {} /\ expectedImmutables = << >>
          /\ names = << >> /\ expectedCode = << >> /\ found = << >>
          /\ verdict = "compiled"
  /\ Init /\ DeployInit /\ SchemaInit /\ PlansInit

GameNext ==
  /\ UNCHANGED stage
  /\ \/ /\ stage = "deployment" /\ DeployNext
        /\ UNCHANGED <<vars, planFileVars, bytecodeVars, schemaVars, plansVars, gateVars>>
     \/ /\ stage = "acceptance" /\ AcceptanceNext
        /\ UNCHANGED <<vars, deployVars, bytecodeVars, schemaVars, plansVars, gateVars>>
     \/ /\ stage = "bytecode" /\ BytecodeNext
        /\ UNCHANGED <<vars, deployVars, planFileVars, schemaVars, plansVars, gateVars>>
     \/ /\ stage = "migration" /\ SchemaNext
        /\ UNCHANGED <<vars, deployVars, planFileVars, bytecodeVars, plansVars, gateVars>>
     \/ /\ stage = "planning" /\ PlansNext
        /\ UNCHANGED <<vars, deployVars, planFileVars, bytecodeVars, schemaVars, gateVars>>
     \/ /\ stage = "gate" /\ GateNext
        /\ UNCHANGED <<vars, deployVars, planFileVars, bytecodeVars, schemaVars, plansVars>>
     \/ stage = "market" /\ Next /\ UNCHANGED asideVars

GameSpec ==
  GameInit /\ [][GameNext]_gameVars /\ (stage = "deployment" => DeployFairness)

\* InterruptedIsCompleted of the stage that deploys.
DeploymentCompleted == stage = "deployment" => InterruptedIsCompleted

AllLevels == 0 .. (MaxBuildingLevel + 2)

Nothing == [r \in Resource |-> 0]

MCInitialLevel == [b \in Building |-> 0]
MCRate == Nothing
MCCapacity == [l \in AllLevels |-> 3]
MCBuildingCost == [b \in Building |-> [l \in AllLevels |-> Nothing]]
MCBuildDuration == [l \in AllLevels |-> 1]
MCTroopCost == [t \in Troop |-> Nothing]

Order(n) == [resource |-> "wood", amount |-> n]
Offer(p, n) == [resource |-> "wood", price |-> p, inventory |-> n]
MCTrades == {Order(2)}
MCMarkets == {Offer(1, 2), Offer(7, 0)}

File(v, sum) == [version |-> v, checksum |-> sum]
MCImages ==
  {<<File(1, "a"), File(3, "a")>>, <<File(1, "a"), File(2, "a"), File(3, "a")>>,
   <<File(1, "b")>>}

\* Compiler outputs: three bytes of code, one or two immutables in up to three
\* places, which may overlap or lie outside; what the plan and the network say.
Place(s, n) == [start |-> s, length |-> n]
Places == {Place(s, n) : s \in 0 .. 2, n \in 0 .. 2}
UpTo(k) == UNION {[1 .. n -> Places] : n \in 0 .. k}
Declared(source, id, immutable, name) ==
  [source |-> source, id |-> id, immutable |-> immutable, name |-> name]
MCReferences ==
  {(1 :> g) @@ (2 :> h) : g \in UpTo(2), h \in UpTo(1)} \cup {(1 :> g) : g \in UpTo(2)}
    \cup {<< >>}
MCTrees ==
  {{Declared("a", 1, TRUE, "_admin"), Declared("a", 2, TRUE, "token")},
   {Declared("a", 1, TRUE, "_admin"), Declared("b", 1, TRUE, "_admin")},
   {Declared("a", 1, FALSE, "_admin")},
   {Declared("a", 1, TRUE, "token"), Declared("a", 2, TRUE, "token")}}
MCValues ==
  {("_admin" :> <<1, 2>>), ("_admin" :> <<1, 2>>) @@ ("token" :> <<2>>),
   ("_admin" :> <<1>>) @@ ("token" :> <<2>>)}
MCCodes == [1 .. 3 -> 0 .. 2]
MCCompiled == <<0, 0, 0>>

\* A facade of a function and an event, two namespaces, and candidates that add to V1,
\* drop an entry, change one, change a struct, bind a namespace by themselves or to
\* the slot of another, or do not fit.
MCSignatures == {"claim()", "Transfer"}
MCNamespace  == {"game.v1", "market.v2"}
MCV1         == "game.v1"
MCFields     == [n \in MCNamespace |-> "schema"]
MCSlot       == [n \in MCNamespace |-> n]

Entry(signature, type) == [signature |-> signature, type |-> type]
Binding(n, bypassed) ==
  [fields |-> "schema", annotated |-> TRUE, slot |-> MCSlot[n],
   accessors |-> {"canonical"}, bypassed |-> bypassed]

MCHistorical ==
  [abi |-> {Entry("claim()", "v1"), Entry("Transfer", "v1")}, structs |-> "v1",
   bindings |-> [n \in MCNamespace |-> Binding(n, FALSE)], size |-> 2]

MCExtended == [MCHistorical EXCEPT !.abi = @ \cup {Entry("order()", "v2")}, !.size = 3]

MCSources ==
  {MCHistorical, MCExtended,
   [MCExtended EXCEPT !.abi = @ \ {Entry("Transfer", "v1")}],
   [MCExtended EXCEPT !.abi = (@ \ {Entry("claim()", "v1")}) \cup {Entry("claim()", "v2")}],
   [MCExtended EXCEPT !.structs = "reordered"],
   [MCExtended EXCEPT !.bindings = [n \in MCNamespace |-> Binding(n, n = "market.v2")]],
   [MCExtended EXCEPT !.bindings["market.v2"].slot = "game.v1"],
   [MCExtended EXCEPT !.size = 5]}
=============================================================================
