----------------------------- MODULE BuybackVault -----------------------------
(***************************************************************************)
(* contracts/src/CivilizationBuybackVault.sol: half of every boost is      *)
(* credited to the vault as pending WLD; anybody may execute a batch that  *)
(* swaps pending WLD for CGOLD over the one configured route and burns     *)
(* what arrived.  The router, the pool and the tokens are external: a swap *)
(* may fail, take less than approved, give some back, deliver any amount   *)
(* and report another.  What the vault does not accept reverts.            *)
(***************************************************************************)
EXTENDS Integers

CONSTANTS
  Router,         \* routers that governance may configure
  NoRouter,       \* address(0)
  VaultBps,       \* BPS (10_000)

\* What the environment may pass to a call, and how far the model runs.
  Routes,         \* configurations: [router, threshold, maxBatch, slippage]
  Credits,        \* amounts that the game transfers and credits
  Donations,      \* amounts that anybody transfers to the vault
  Requests,       \* requestedAmount of execute
  Quotes,         \* CGOLD per WLD that the observation window yields
  Refunds,        \* WLD that a router gives back
  Fills,          \* CGOLD that a router delivers
  MaxFunding      \* bound: WLD ever transferred to the vault

ASSUME VaultAssumption ==
  /\ NoRouter \notin Router
  /\ VaultBps \in Nat \ {0}
  /\ Routes \subseteq [router : Router, threshold : Nat \ {0}, maxBatch : Nat \ {0},
                       slippage : 0 .. VaultBps]
  /\ Credits \subseteq Nat \ {0}
  /\ Donations \subseteq Nat
  /\ Requests \subseteq Nat
  /\ Quotes \subseteq Nat
  /\ Refunds \subseteq Nat
  /\ Fills \subseteq Nat
  /\ MaxFunding \in Nat

VARIABLES
  vaultWld,          \* WLD balance of the vault
  routerAllowance,   \* token.allowance(vault, router)
  route,             \* router, minimumThreshold, maxBatch, maxSlippageBps
  paused,            \* paused
  pendingWld,        \* pendingWld
  cumulativeFunded,  \* cumulativeFunded
  cumulativeSpent,   \* cumulativeSpent
  cumulativeBurned   \* cumulativeCgoldBurned

counters  == <<pendingWld, cumulativeFunded, cumulativeSpent, cumulativeBurned>>
holdings  == <<vaultWld, routerAllowance>>
vaultVars == <<holdings, route, paused, counters>>

NoRoute == [router |-> NoRouter, threshold |-> 0, maxBatch |-> 0, slippage |-> 0]

VaultInit ==
  /\ vaultWld = 0
  /\ routerAllowance = [x \in Router |-> 0]
  /\ route = NoRoute
  /\ paused = FALSE
  /\ pendingWld = 0
  /\ cumulativeFunded = 0
  /\ cumulativeSpent = 0
  /\ cumulativeBurned = 0

----------------------------------------------------------------------------
Least(x, y) == IF x < y THEN x ELSE y

\* Anybody may send tokens to the vault; nothing is credited for them.
Donate(amount) ==
  /\ vaultWld' = vaultWld + amount
  /\ UNCHANGED <<routerAllowance, route, paused, counters>>

\* recordFunding, called by the game after it has moved the WLD in the same
\* transaction.
RecordFunding(amount) ==
  /\ vaultWld' = vaultWld + amount
  /\ vaultWld' >= pendingWld + amount
  /\ pendingWld' = pendingWld + amount
  /\ cumulativeFunded' = cumulativeFunded + amount
  /\ UNCHANGED <<routerAllowance, route, paused, cumulativeSpent, cumulativeBurned>>

ConfigureRoute(r) ==
  /\ route' = r
  /\ UNCHANGED <<holdings, paused, counters>>

SetPaused(value) ==
  /\ paused' = value
  /\ UNCHANGED <<holdings, route, counters>>

Batch(requested) ==
  Least(Least(IF requested = 0 THEN pendingWld ELSE requested, pendingWld), route.maxBatch)

MinOut(amount, quote) == (quote * amount * (VaultBps - route.slippage)) \div VaultBps

\* The conditions that execute checks before it approves the router.  Every
\* other outcome (paused, below the threshold, expired, no observation, zero
\* quote) defers with an event and changes nothing.
Tradable(amount, quote) ==
  /\ ~ paused
  /\ amount >= route.threshold
  /\ route.router # NoRouter
  /\ MinOut(amount, quote) > 0

\* Faulty variant: pending WLD is not counted down.
FaultySpent(amount, fill) ==
  /\ UNCHANGED <<pendingWld, cumulativeFunded>>
  /\ cumulativeSpent' = cumulativeSpent + amount
  /\ cumulativeBurned' = cumulativeBurned + fill

Spent(amount, fill) ==
  /\ pendingWld' = pendingWld - amount
  /\ cumulativeSpent' = cumulativeSpent + amount
  /\ cumulativeBurned' = cumulativeBurned + fill
  /\ UNCHANGED cumulativeFunded

\* Faulty variant: only what the router reports is looked at.
FaultyAccepted(amount, minOut, taken, fill, reported) == reported >= minOut

\* The router's report is bound to the balance deltas; anything else reverts.
Accepted(amount, minOut, taken, fill, reported) ==
  /\ taken = amount
  /\ fill >= minOut
  /\ reported = fill

\* A swap that is accepted: the router pulls part of the allowance, may refund
\* WLD, delivers CGOLD, and all of the CGOLD delivered is burned.
Buyback(requested, quote, pulled, refund, fill, reported) ==
  LET amount == Batch(requested) IN
  /\ Tradable(amount, quote)
  /\ pulled <= amount
  /\ pulled <= vaultWld
  /\ refund <= pulled
  /\ Accepted(amount, MinOut(amount, quote), pulled - refund, fill, reported)
  /\ vaultWld' = vaultWld - pulled + refund
  /\ routerAllowance' = [routerAllowance EXCEPT ![route.router] = amount - pulled]
  /\ Spent(amount, fill)
  /\ UNCHANGED <<route, paused>>

\* The router reverts: the approval is withdrawn and the batch deferred.
RouterFailed(requested, quote) ==
  LET amount == Batch(requested) IN
  /\ Tradable(amount, quote)
  /\ routerAllowance' = [routerAllowance EXCEPT ![route.router] = 0]
  /\ UNCHANGED <<vaultWld, route, paused, counters>>

Execute ==
  \E requested \in Requests, quote \in Quotes :
    \/ RouterFailed(requested, quote)
    \/ \E pulled \in 0 .. route.maxBatch, refund \in Refunds, fill \in Fills, reported \in Fills :
         Buyback(requested, quote, pulled, refund, fill, reported)

Handled == vaultWld + cumulativeSpent

VaultNext ==
  \/ \E amount \in Donations : Handled + amount <= MaxFunding /\ Donate(amount)
  \/ \E amount \in Credits : Handled + amount <= MaxFunding /\ RecordFunding(amount)
  \/ \E r \in Routes : ConfigureRoute(r)
  \/ \E value \in BOOLEAN : SetPaused(value)
  \/ Execute

VaultSpec == VaultInit /\ [][VaultNext]_vaultVars

----------------------------------------------------------------------------
VaultTypeOK ==
  /\ vaultWld \in Nat
  /\ routerAllowance \in [Router -> Nat]
  /\ route \in Routes \cup {NoRoute}
  /\ paused \in BOOLEAN
  /\ pendingWld \in Nat
  /\ cumulativeFunded \in Nat /\ cumulativeSpent \in Nat /\ cumulativeBurned \in Nat

\* Every credited WLD is either still pending, and then in the vault, or has
\* been spent on a buyback: none is spent twice or lost on a failed swap.
FundingReconciles ==
  /\ pendingWld <= vaultWld
  /\ cumulativeFunded = pendingWld + cumulativeSpent

\* Between transactions no router, current or former, may move WLD.
NoStandingAllowance == \A x \in Router : routerAllowance[x] = 0

\* "Direct token transfers are never credited and therefore cannot be spent":
\* what the vault owns beyond its pending WLD changes by nothing else, neither
\* by a batch that eats into it nor by one that strands WLD there.
SurplusOnlyDonated ==
  [][vaultWld' - pendingWld' # vaultWld - pendingWld =>
       \E amount \in Donations : Donate(amount)]_vaultVars
=============================================================================
