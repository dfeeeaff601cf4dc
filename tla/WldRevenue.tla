------------------------------ MODULE WldRevenue ------------------------------
(***************************************************************************)
(* The WLD a player pays for boosts (_boostConstruction of                 *)
(* contracts/src/CivilizationGame.sol), the buyback vault that is credited *)
(* with half of it and the revenue splitter that receives the rest.  The   *)
(* three contracts share no state but the token; a boost is one            *)
(* transaction over all three, ended by a best-effort monthly payout.      *)
(* Governance can point the game at another splitter or vault, which the   *)
(* model keeps no books of.                                                *)
(***************************************************************************)
EXTENDS RevenueSplitter, BuybackVault

CONSTANTS
  Player,         \* wallets that hold WLD
  InitialWld,     \* WLD of each wallet
  WldUnit,        \* WORLD_TOKEN_UNIT (1e18), the price of an hour
  BoostHours      \* hours that boostConstruction is called with

ASSUME BoostAssumption ==
  /\ IsFiniteSet(Player)
  /\ InitialWld \in Nat
  /\ WldUnit \in Nat \ {0}
  /\ BoostHours \subseteq Nat \ {0}

VARIABLES
  purse,            \* WLD of the players
  elsewhere,        \* WLD sent to a splitter or vault other than these
  buybackVault,     \* BuybackStorage.vault: "none", "this" or "other"
  revenueSplitter   \* GameStorage.revenueSplitter: "this" or "other"

wiring      == <<buybackVault, revenueSplitter>>
revenueVars == <<purse, elsewhere, wiring, splitterVars, vaultVars>>

RevenueInit ==
  /\ SplitterInit
  /\ VaultInit
  /\ purse = [p \in Player |-> InitialWld]
  /\ elsewhere = 0
  /\ buybackVault = "none"
  /\ revenueSplitter = "this"

----------------------------------------------------------------------------
\* Half of the price, rounded down, goes to the vault.
ForVault(hours) == (hours * WldUnit) \div 2

\* Faulty variant: both halves are rounded down.
FaultyForSplitter(hours) == (hours * WldUnit) \div 2

ForSplitter(hours) == hours * WldUnit - ForVault(hours)

\* Faulty variant: the credit is given without the transfer.
FaultyToVault(amount) ==
  /\ pendingWld' = pendingWld + amount
  /\ cumulativeFunded' = cumulativeFunded + amount
  /\ UNCHANGED <<holdings, route, paused, cumulativeSpent, cumulativeBurned>>

ToVault(amount) ==
  IF buybackVault = "this" THEN RecordFunding(amount) ELSE UNCHANGED vaultVars

\* Faulty variant: a payout that fails uses up its deadline.
FaultyToSplitter(amount) ==
  IF revenueSplitter = "this"
  THEN \/ MonthlyPayout(amount)
       \/ /\ balance' = balance + amount
          /\ nextPayoutAt' = IF Due THEN NextDeadline ELSE nextPayoutAt
          /\ UNCHANGED <<clock, received, claims, distribution>>
  ELSE UNCHANGED splitterVars

\* The splitter's share arrives; then _tryMonthlyPayout calls the splitter with
\* limited gas and ignores the outcome.  A payout that fails leaves what has
\* arrived where it is.
ToSplitter(amount) ==
  IF revenueSplitter = "this"
  THEN MonthlyPayout(amount) \/ Receive(amount)
  ELSE UNCHANGED splitterVars

SentElsewhere(hours) ==
  (IF buybackVault = "this" THEN 0 ELSE ForVault(hours))
  + (IF revenueSplitter = "this" THEN 0 ELSE ForSplitter(hours))

\* The payment of boostConstruction; its timer is BoostConstruction of
\* CivilizationGame.
PayBoost(p, hours) ==
  /\ buybackVault # "none"
  /\ purse[p] >= hours * WldUnit
  /\ purse' = [purse EXCEPT ![p] = @ - hours * WldUnit]
  /\ ToVault(ForVault(hours))
  /\ ToSplitter(ForSplitter(hours))
  /\ elsewhere' = elsewhere + SentElsewhere(hours)
  /\ UNCHANGED wiring

SetBuybackVault(v) ==
  /\ buybackVault' = v
  /\ UNCHANGED <<purse, elsewhere, revenueSplitter, splitterVars, vaultVars>>

SetRevenueSplitter(s) ==
  /\ revenueSplitter' = s
  /\ UNCHANGED <<purse, elsewhere, buybackVault, splitterVars, vaultVars>>

\* A player sends WLD to the splitter or the vault directly.
SendDirectly(p, amount) ==
  /\ purse[p] >= amount
  /\ purse' = [purse EXCEPT ![p] = @ - amount]
  /\ \/ Receive(amount) /\ UNCHANGED vaultVars
     \/ Donate(amount) /\ UNCHANGED splitterVars
  /\ UNCHANGED <<elsewhere, wiring>>

\* Every village call of the game ends with _tryMonthlyPayout, and anybody may
\* call processMonthlyPayout and the other entry points of the splitter.
SplitterStep ==
  /\ \/ Allocate
     \/ MonthlyPayout(0)
     \/ \E r \in Recipient : Release(r)
     \/ \E d \in TriedSplits : splitVersion < MaxVersion /\ SetDistribution(d)
     \/ \E d \in SplitterDelays : SplitterTick(d)
  /\ UNCHANGED <<purse, elsewhere, wiring, vaultVars>>

VaultStep ==
  /\ \/ \E r \in Routes : ConfigureRoute(r)
     \/ \E value \in BOOLEAN : SetPaused(value)
     \/ Execute
  /\ UNCHANGED <<purse, elsewhere, wiring, splitterVars>>

RevenueNext ==
  \/ \E p \in Player, hours \in BoostHours : PayBoost(p, hours)
  \/ \E p \in Player, amount \in Donations : SendDirectly(p, amount)
  \/ \E v \in {"this", "other"} : SetBuybackVault(v)
  \/ \E s \in {"this", "other"} : SetRevenueSplitter(s)
  \/ SplitterStep
  \/ VaultStep

RevenueSpec == RevenueInit /\ [][RevenueNext]_revenueVars

----------------------------------------------------------------------------
Endowment == SumFunction([p \in Player |-> InitialWld])

\* No WLD appears or disappears over boosts, credits, batches and payouts, in
\* whatever way the contracts are wired: all a player paid is in the vault, was
\* spent by it, is in the splitter, was paid out, or went to the other wiring.
WldConserved ==
  SumFunction(purse) + elsewhere + vaultWld + cumulativeSpent
    + balance + SumFunction(received) = Endowment

Splitter == INSTANCE RevenueSplitter WITH Inflows   <- 0 .. Endowment,
                                          MaxIncome <- Endowment

Vault == INSTANCE BuybackVault WITH Credits    <- 0 .. Endowment,
                                    Donations  <- 0 .. Endowment,
                                    MaxFunding <- Endowment

\* A boost is one transaction over three contracts; to the splitter it is a
\* transfer with or without the payout that follows it, whatever the vault and
\* the game do beside it, so that everything shown of the splitter holds here.
SplitterImplemented == Splitter!SplitterSpec

\* To the vault a boost is one funding that is backed by a transfer.
VaultImplemented == Vault!VaultSpec

\* Every boost, payout, batch and rewiring of the composed system is for each of the
\* two contracts a step of its own specification or none at all.
ContractsImplemented == SplitterImplemented /\ VaultImplemented
=============================================================================
