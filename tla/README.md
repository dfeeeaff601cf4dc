# Civilization dApp: TLA+ specifications and proofs

This directory specifies the parts of the repository whose correctness depends
on orders of events: the on-chain game and its treasury, and the server and
client code that follows them. TLC checks small instances, TLAPS proves the
safety properties that matter most for every instance.

## Inventory of the system

| Component | State | Operations | What is hard |
|---|---|---|---|
| `contracts/src/CivilizationGame.sol` | villages (stocks, fields, fractions, levels, jobs, troops, raid), CGOLD balances and allowances, nullifiers, market prices and inventories, reward distributor | register (three ways), claim, upgrade, completeUpgrade, boostConstruction, train, startRaid, resolveRaid, prestige, market orders, ERC-20 calls, governance calls | lazy accrual on every call, several job slots, raids that touch two villages, rounding |
| `contracts/src/CivilizationRevenueSplitter.sol` | claims, distribution, deadline | allocate, processMonthlyPayout, release, setDistribution | missed periods, rotation while a payout is due, rounding, token transfers it is not told of |
| `contracts/src/CivilizationBuybackVault.sol` | pending WLD, counters, route, pause, router approvals | recordFunding, configureRoute, setPaused, execute | routers that fail, fill in part or misreport |
| `contracts/src/CivilizationRewardDistributor.sol` | used ids and nonces, issued amounts by period, limits, issuer, pause | claim, configureIssuer, setClaimsPaused, revokeIssuer | replay, changing period length, replacement of the distributor |
| `contracts/src/CivilizationReleaseRegistry.sol`, `GoldSettlementRegistry.sol`, fixtures, previous releases | append-only records | record | none that several steps could spoil |
| chain indexer (`server/chain-indexer-{core,reader,store}.js`, `scripts/run-chain-indexer.mjs`) | checkpoint, canonical blocks, raw events in PostgreSQL | one replay run: read checkpoint, headers, logs, store a batch | reorganisations, reads at different times, concurrent runners, crashes |
| history readers and routes (`server/chain-indexer-*-history*.js`) | none; reads the indexer's rows | pages by cursor | rows rewritten between pages |
| wallet authentication (`src/lib/auth-challenge.js`, `wallet-auth-*.js`) | challenges, sessions, counters in PostgreSQL | issue, verify, limit | single use, counts under concurrency, window boundaries |
| world client (`src/game-world-runtime.js`, `src/world-game/*`, `src/app.js`) | pending operations in session storage, review, cached state | request, confirm, execute, resume, refresh, register | late receipts, reloads, overlapping calls |
| server status, gates and policies (`server/contract-runtime-status.js`, `raid-eligibility-policy.js`, `village-appearance*.js`, ...) | one cached status; one row per wallet for the appearance | probe, evaluate, read and write | stale answers, shared probes, boundaries of windows, writes that cross or are given up |
| completion notices (`src/world-game/completion-notifications.js`, `src/app.js`) | setting and shown notices in local storage, notices of each tab | read, collect, retain, switch on and off | tabs that share storage, chains that step back |
| deployment scripts (`scripts/worldchain-proxy-runner.mjs`, `verify-proxy-v2-compatibility.mjs`, ...) | journal of a deployment, snapshots of interfaces | deploy, resume, verify, write snapshots | interruption between transactions or files |
| demo game and simulator (`src/game.js`, `src/simulation`) | a village in the memory of each tab and in local storage | load, settle, upgrade, gather, swap, train, march, reset, save | tabs that overwrite one another, a clock that can be set, fractions |
| user interface, assets, end-to-end tests | - | - | presentation |

Interactions: the game calls the vault (`recordFunding` after moving WLD to
it) and, at the end of every village call, tries the splitter's
`processMonthlyPayout`; the vault calls the game's `burn`; the reward
distributor calls `mintReward`. The indexer reads the game's events over RPC
and writes rows that the history readers page through. The client sends
transactions through the wallet, remembers them in local storage and reads
contract state over RPC; the server only authenticates wallets and serves
history, status and appearance.

`PROJECT.json` lists under `hazards` what is hard to test in this code, each
at its line and with the properties that would catch it.

Per component, what makes it correct:

| Component | Properties |
|---|---|
| game | a stock never exceeds its warehouse, a job is neither lost nor finished twice, production depends on time alone and on one offline window at most, raids and trades create nothing, supply is the sum of balances, rounding never favours a trader |
| splitter | claims are covered, a rotation takes nothing from what is due, payouts keep their grid |
| vault | every funded unit is pending or spent, no approval survives a transaction, surplus changes by donation only |
| game, vault, splitter | no WLD is lost; every composed step is a step of each contract |
| rewards | nothing is paid twice, books equal payments, caps hold by the clock |
| indexer | the table is one hash chain with all its settled events, history is stable, the next batch is acceptable, runs end |
| authentication | one session per signature, bounded challenges, a page shows its own login |
| history | an event that stays in the table is on the list or below its end |
| status | what is reported as verified stood when it was observed, and is not served stale |
| raid policy | a cooldown is never forgotten, waiting takes no right away, a raid gives none |
| appearance | what is shown as saved is stored, one write at a time |
| client | one operation per confirmation, a confirmed review was executed, nothing shown as done is undone, one registration |
| notices | a notice is due by the last snapshot, is shown once, and not when notices are off |
| demo | stocks hold, marchers are there when they arrive, nothing but the clock creates wealth, whatever tabs overwrite |
| duration policy | the accelerated curve is ahead by every horizon, no boost makes a job longer |
| page and plan | the page shows what the contract would do, the plan never ends in a dead end |
| deployment | only the reviewed release is reported, an interrupted one can be completed, mistakes in a plan are found before the first transaction, code is accepted exactly when the source deploys to it |
| migrations, upgrades | each migration is executed once, each plan does what was reviewed, snapshots are of checked sources and a candidate that passes keeps the facade |

## Modules

| Module | Stands for |
|---|---|
| `CivilizationRules` | pure rules of the game: accrual, slots, requirements, finishing a job, combat, loot, market quotes |
| `CivilizationGame` | the game contract: state, one action per transaction, invariants and action properties |
| `GameTables` | the contract's own price, capacity and duration curves |
| `RevenueSplitter`, `BuybackVault` | the two treasury contracts, the vault with the router as its environment |
| `WldRevenue` | game, vault and splitter composed: what a boost pays and where WLD goes |
| `RewardDistributor` | deployments of the reward distributor and the game's choice among them |
| `ChainIndexer` | the replay of events into PostgreSQL by several runners, and the chain they read |
| `HistoryPages` | a list of events read page by page over the indexer's rows, and the panel that shows it |
| `WalletAuth` | challenges, sessions, cookies and pages: logging in against several replicas |
| `RuntimeStatus` | the probe of the deployed release, request by request, its cache and its callers |
| `ClientRules` | the client's copies of the contract's rules |
| `VillageProjection` | what the page makes of one read of a village until the next: stock that grows, actions it recommends |
| `BuildPlan` | the construction plan of the build panel, and a player who only follows it |
| `RaidEligibility` | the raid eligibility policy, over time and raids |
| `VillageAppearance` | the row that holds a village's look, and the tabs that read and write it |
| `CompletionNotices` | notices of upgrades that can be completed: tabs, their storage and a chain |
| `DemoGame` | the walletless village, in tabs that share one storage |
| `DurationPolicy` | the simulator's two curves of construction times, and boosts |
| `WorldClient` | reviews, the transaction adapter and the refreshes of one player's client, over reloads |
| `VillageRegistration` | the registration hook, its stored operation and the retries |
| `ProxyDeployment` | the deployment script, its resumption and the chain it deploys to |
| `DeploymentPlan` | one deployment seen from its plan: what is accepted, constructed and read back |
| `RuntimeBytecode` | the code to expect, put together from what the compiler says |
| `Migrations` | containers that bring the database up to date at the same time |
| `ReleasePlans` | upgrades of the proxy by reviewed plans through the timelock |
| `CompatibilityGate` | the gate for a candidate of the proxy: checkouts, edits, and runs that verify or write snapshots |
| `SumTheorems` | facts about sums over finite sets, division and packed words |
| `CivilizationGame_proof` | theorems about the game and the page that projects it |
| `WldRevenue_proof` | theorems about splitter, vault and their composition |
| `RewardDistributor_proof` | theorems about rewards |
| `ChainIndexer_proof` | theorems about the indexer's tables |
| `Operations_proof` | theorems about deployment, its plan, migrations, upgrade plans, the gate and durations |
| `WorldClient_proof` | theorems about registration, reviews, refreshes, notices and the demo |
| `Server_proof` | theorems about logins, lists, the status, the raid policy and the appearance |
| `MCQueue`, `MCRaid`, `MCMarket` | instances of the game; `MCRaid` also holds the composition with vault and splitter, `MCMarket` what operators do: deployment, its plan, code, migrations, the gate and upgrades |
| `MCProcedures`, `MCPlan` | payout, rewards and the construction plan; the plan's tables and villages |
| `MCStandalone` | programs beside the game: the indexer over all forks of a binary block tree, the simulator, the demo |
| `MCClient`, `MCServer` | registration, client and notices; login, history, status, raid policy and appearance |

`CivilizationGame` is composed with vault and splitter by `WldRevenue`, and
with the page by `VillageProjection`. `BuildPlan` takes its rules from
`CivilizationRules` too, once as the contract's and once, through
`ClientRules`, as the client's. The specification of each contract is the
abstract one that a composed step refines.

### How the model corresponds to the contracts

A transaction is atomic, so each external function is one action, with every
internal call it makes: `Settled` is the `_accrue` that opens it, costs are
taken by `_spend`'s rule, a completed job is finished by `Finish`. Guards are
the code's reverts; a call that reverts is no step. `village[a]` is the
contract's `Player` together with its `ConstructionQueue`; slot 0 is the
legacy construction, 1 and 2 the queue. Stocks in storage and in the field are
separate, as are the fractions (`remainder`) that a settlement carries over.
CGOLD is counted in wei (`GoldUnit` wei per unit of the gold resource). The
contracts compile with checked arithmetic throughout: a subtraction below zero
reverts, and the type invariants (balances, stocks, troops and claims are natural
numbers) are where a model that forgets one would show.
The upper ends of the types are not reached and not modelled, but for the
64-bit quarters of a storage word in `DeploymentPlan`.

`TopLevel` is the maximum level plus two: `upgrade` compares the current level
with the maximum, so each of the two extra slots can carry a job beyond it.

Production, capacity, cost and duration tables are constants (`Rate`,
`Capacity`, `BuildingCost`, `BuildDuration`, `TroopCost`), of which only what
`CurveAssumption` and `NewVillageAssumption` say is assumed. Proofs hold for all
tables of that kind; `GameTables` has the contract's own, with which the
construction plan is checked.

The splitter's unallocated WLD is its balance less all claims, as in
`_allocate`; `MonthlyPayout(inflow)` is the payout inside a transaction that
has already moved `inflow` to the contract. In the vault, `Buyback` lets the
router pull any part of its approval, refund, deliver any amount and report
any number; `RouterFailed` is its revert. The oracle's price is a free
parameter (`quote`); the tick arithmetic behind it is not modelled.

`RewardDistributor` keeps the storage of each deployment in a record and the
`RewardClaimed` events in the order of the chain. A signature is membership in
`Signed[issuer]`: it may be produced at any time and relayed by anybody.
Chain and verifying contract are the `contract` field of a grant. `Claim`
includes the game's `mintReward`, whose refusal reverts it.

`WldRevenue` extends splitter and vault and adds the players' WLD and the two wirings that
governance can change. `SplitterImplemented` and `VaultImplemented` state that
every step of the composition is, for each contract, a step of that
contract's own specification with the inputs the composition gives it, or a
stutter: what is proved about the contracts alone carries over.

### How the model corresponds to the indexer

A run of `scripts/run-chain-indexer.mjs` is a sequence of awaited calls, and
each is a step of its own: `LoadCheckpoint`, `ReadHead` (`eth_blockNumber`),
`ReadHeaders`, `ReadLogs`, `Store`. Between any two of them the chain may move
and other runs may do anything. What a run remembers in between is a record
per runner. The headers of a batch are requested in parallel and checked to be
linked by their parent hashes; a linked batch is a segment of one chain, so
reading them is one step. `Store` is one step because the advisory lock and
the transaction make it one; every exception in it, in a request, or the end
of the process is `Fail`, which leaves the tables as they are. A commit that
is not acknowledged is `Store` followed by `Fail`.

A block stands for its hash, so that "same height, same hash" is equality.
Transactions have at most one event here: the log index only refines the
primary key. The RPC endpoint may report a head up to `Lag` blocks old.

### How the model corresponds to the server and its pages

`WalletAuth` gives every request a slot in `exchange`, and every await of a
handler is a step: counting and inserting a challenge, taking it, verifying,
creating the session, answering, and the browser's receipt of the answer with
its cookie. `CountChallenges` and `CreateChallenge` are two steps although they
are one SQL statement: its snapshot is taken before the advisory lock it
acquires. A request may be repeated by the network and any of them may fail
(`Failed` also stands for the rate limits). A nonce, a token and a signature
are model values: what was signed is the set `signed`. The page's `restored`
and `attempt` are `WalletAccess`'s effect and its handler; `Shown` is the rule
by which an answer that comes back late is dropped.

`HistoryPages` takes the indexer from the outside: `IndexerMoves` replaces the
present table by that of any later checkpoint, also on another fork. A cursor
holds the checkpoint it belongs to and is refused under another one
(`Current`), whereupon the panel starts again. The checkpoint does not
determine the rows (events of one block may be completed by the overlap), so
`ListFollowsTable` speaks of `steady` events, those that were in the table as
long as the list has existed.

`RaidEligibility` has the evaluator as operators (`InWindow`, `Directed`,
`RepeatRaidCooldownApplies`, ...) and, as its actions, the world whose facts a
caller captures: time passes, raids are recorded, whoever allowed them. The
policy in force is any that `policy()` accepts.

`VillageAppearance` gives each tab what `src/app.js` keeps (`shown`, `status`,
`pending`) and each request a life of its own: sent, served, answered, or lost
for the browser and still served. A request nobody waits for any more has the
tab `NoValue`. The read that is sent at the start is applied whenever it comes
back; tabs in which it came after a choice was applied are `overtaken`.

### How the model corresponds to the client

`WorldClient` separates what one call stack does from what happens between
awaits: request, confirm, the wallet's approval, the hash, each poll, the
receipt, the read of the state, the end of the operation. An adapter's
variables (`pendingUserOpHash`, `pendingAction`, `actionInFlight`) are a record
per adapter, because an adapter that was replaced by a reopened app goes on
(`Orphan`); session storage holds the last record any of them wrote. Chain and
bundler are `ops`: an operation is sent, then succeeds or fails at any time,
also after everybody has stopped waiting. A refresh reads the state at one
moment and is applied at another, unless `worldStateEpoch` has moved on
(`Outdated`). A payload is the building or the draft of a market order.

`VillageRegistration` is the hook with its ref, its React state and the stored
hash. Only reloads of the page remount it: logging out is offered inside the
game, after registration.

`VillageProjection` has no actions of its own. Its property says, in every
state of the contract, what the page shows and recommends after it reads the
village and `d` seconds pass in which nobody acts on it: the two computations,
`Projected` and the contract's `Produced`, are compared to the unit. `readRawState`
survives two failing calls (`src/world-game/reads.js:162-183`), so that a village
has up to four reads (`Reads`): without `previewAccrual` the fraction of the field
is unknown and the page may be one unit behind; without the construction jobs only
the first slot is known, and an upgrade that the page recommends may be refused,
for want of a slot and for no other reason. A read of which another call fails is
no read.

`BuildPlan` computes the plan from a snapshot with `ClientRules`; the step that
the player follows (`Follow`) is the contract's `upgrade`, which may refuse it.
Besides, jobs complete, claims fill the storage (`Collect`), time passes, and
the page reads the village again. Times are relative to the block.
`PlanNeverStalls` does not speak of the very second in which a job completes:
the page's clock and the block's may differ by one. Its snapshots have the whole
queue: what is offered from one whose jobs could not be read may be refused, as
`VillageProjection` shows, and the next read that has them puts the plan right.

`CompletionNotices` has tabs that read snapshots of a chain, of the present
block, the one before, or one without a time or without the queue. `Reads` is
`updateCompletionNotices` as a whole, since nothing in it is awaited: what is
retained, what is collected, and what the shared storage records, which may be full
and then refuses at any new key. That nothing comes between its look into the
storage and its write (`completion-notifications.js:114`) holds for tabs of one
browser process, and is assumed of tabs in several: there two may show the same
notice, and `ShownOnce` says nothing of it. `SetCompletionNotifications` is the service of the runtime, which the actions
of the settings dialog do not reach (see the notes after the findings).

`DemoGame` is `src/game.js` with what `app.js` does around it: a command settles,
acts, saves and is rendered, and rendering settles (`Keeps`); the timer settles
and then resolves an arrived march or saves. A tab has its village in memory, the storage
has the last one saved. Amounts are in hundredths because a level produces
hundredths a second; prices and capacities are computed from the code's powers,
exactly where the code has floating point, except that a quotient which is a
whole number may come out one below it (`RoundedDown`).

### How the model corresponds to deployment and operation

`ProxyDeployment` gives each nonce of the plan a slot of the chain: what is
pending for it (the planned creation, or something else) and what it left at
its address. A run (`Runner`) starts, recovers the prefix that already stands,
sends, waits for the receipt, checks the code, checks the configuration after
each step, and verifies everything at the end; it may stop at any of them.
Two runs may overlap. Code is "planned", "other" or nothing; `Reconfigured`
is governance that changes a finished contract, `ForeignSent` a transaction
of the same key from elsewhere.

`DeploymentPlan` starts from a good plan and edits up to `MaxEdits` of its
fields to any value of the field (`Written`), malformed ones included, then
runs the script once: the checks of the plan, the checks against the chain
that send nothing, five creations, each followed by what its constructor does
(`Constructs`, `Stores`) and by what is read back. Addresses are pairs of an
owner and a nonce, so that "the address the deployer's next nonce creates" has
a meaning. Four 64-bit numbers share a storage word, which is read back as a
number (`WordHeld`).

`RuntimeBytecode` is the same script's knowledge of code: immutable references
by the id of a declaration, names from the syntax trees, values from the plan,
and the comparison byte by byte. Its inputs are all small compiler outputs of a
family, wrong ones included.

`Migrations` makes every statement of the script a step, and a PostgreSQL
session a thing that outlives its client: the lock and the open transaction go
when the server notices. An image is a list of versions and checksums; older
and newer images, and one with an edited migration, start at the same time.

`ReleasePlans` has the two scripts that only print calls, each guarded by what
it reads of the chain, and the timelock that identifies an operation by call
and salt. No operation has a predecessor, so sells may be enabled before the
reserve is seeded (`docs/ONCHAIN_ARCHITECTURE.md:87` makes the order a duty of
the operators, the plan does not enforce it) and one planned upgrade may replace
another; both are behaviours of the model.

`CompatibilityGate` has as its state the files of a checkout and, of a source,
what the compiler says of it. Files are edited between runs. `StartWriting` makes
all checks, `WriteSnapshot` writes one of the two files, in either order, and
`GateStopped` is a run that ends between them. A hash is the content it is of.
What a snapshot promises (`Vouchable`) is stated of its source alone, without the
checks and the files that they compare it with: leaving a check out, or making it
of another artefact, would break it.

`DurationPolicy` advances the loops of `levelsCompletedBy` for the two curves of
one class of building together, a level at a time; they share nothing, and
`compareCurves` only puts their results side by side.

`RuntimeStatus` is one process with one complete production configuration.
`probe` is the promise that callers share; each request of a round is
answered by the state of the moment at which the node answers it.

### Stages

`MCRaid`, `MCMarket`, `MCProcedures`, `MCStandalone`, `MCClient` and `MCServer`
contain systems that share no variable in the code. `stage` says which of them
runs while the others stand at one of their initial states: the states are the
sum and not the product. Where the stages of `MCServer` are symmetric in two
participants (browsers, callers, players, tabs), these are the same model
values, so that one permutation serves all stages.

## Runs

| Run | Instance | Shows |
|---|---|---|
| `queue` | `MCQueue`: one wallet, three slots, maximum level 3, a day of two seconds, waits of 1 and 3, five seconds in all, the timber camp costing two wood and the other buildings nothing; `QueueNext` leaves out raids and trades, which one wallet cannot make, and reaches the same states as `Next` | jobs and slots survive boosts, late completions and prestige; production does not depend on how often a village is settled, and a completion does not open a second offline window; between two reads the page shows what the contract would settle, and recommends what it would accept, but for what a failed call keeps from it |
| `overrun` | the same | a level above the maximum is reachable (finding) |
| `invented` | the same | the page's stock outgrows the contract's beyond the offline window (finding) |
| `raid` | `MCRaid`. Raid: two wallets, a party of two, three seconds. Boost: one player with 7 units of WLD, two routers, two recipients | loot fits the warehouse, goods come from production only, a party fights and returns once; WLD is conserved over game, vault and splitter, the vault's surplus changes by donations, and composed steps are the contracts' own |
| `market` | `MCMarket`. Market: two wallets with registrations, transfers, approvals, burns, rewards, trades of two units at two prices. Deployment: four contracts of which the third is configured by governance, two runs, one foreign transaction, two faults. Acceptance: up to two wrong fields, words of two bits. Bytecode: three bytes, at most two immutables at up to three places. Migration: two processes, three images, four starts, two breaks. Gate: eight sources, three budgets. Planning: two candidates, one cancellation, a treasury of two reserves | supply is the sum of balances and no trade earns; only the reviewed release is reported and an interrupted one can be completed; a mistake in a plan costs no transaction; code is accepted exactly when the reviewed source deploys to it; migrations run once; a candidate that passes the gate keeps the facade, and a snapshot's source has all that the checks are for; plans do what was reviewed |
| `procedures` | `MCProcedures`. Payout: three recipients, quarters, periods of 3 with jumps of 5, twelve seconds. Rewards: two deployments, two issuers, grants of which some share an id or a nonce, caps and periods that change. Plan: the contract's prices and capacities, three starting villages, goals goldmine 1, townhall 5, timber 4 | claims are covered and a rotation respects what is due; no double payment, books equal payments, caps hold; a player who follows the plan never stalls |
| `offered` | `MCPlan`: the plan alone | the plan offers a level whose predecessor is still being built (finding) |
| `standalone` | `MCStandalone`. Indexer: two runners, five blocks, batches of 3, one confirmation, overlap of 1, two reorganisations of at most 2 blocks that spare the start block. Duration: all classes of building; horizons of 0, 1, 3, 7 and 30 days. Demo: two tabs, an empty storage or a save of an earlier version, two buildings, two swaps, two armies, a clock that jumps by 60 or back by 30 up to 120, three moves | the table is one hash chain that never moves back; the next batch read from the present chain is always acceptable; blocks no later batch reads again have all their events; runs end. The accelerated curve is ahead, boosts shorten, levels are counted without a gap. Stocks hold, marches end with their battle, no wealth but by the clock |
| `client` | `MCClient`. Registration: three of them. Game: two buildings and a market order, two operations and confirmations, two adapters. Notices: two tabs, two slots, two blocks and a reorganisation | one operation per confirmation, no second registration, no result undone on the screen, and a review confirmed only by its own operation when nothing else was outstanding; notices are due, shown once, and silent when off |
| `confirmed` | the same | without that condition the last one of the game fails (finding) |
| `server` | `MCServer`. Login: two browsers, two wallets, two requests at a time, three challenges, caps of one. History: two forks in pages of two. Status: two callers, two changes of the proxy, results kept for two units of time. Raids: two players, policies with a window longer than, as long as and shorter than the cooldown, three raids, four units of time. Appearance: two tabs, two looks, four requests | one session per signature, bounded challenges, a page shows its own session; a list follows its table; what is reported as verified is recent; cooldowns hold to their end, waiting only helps, raids only deny; a tab that says "saved" shows what is stored, and writes once at a time |
| `deadline` | `RuntimeStatus`: one caller | a request outlasts its deadline (finding) |

Properties in parts. Some of the properties of a run are conjunctions of
properties that are defined, and proved, one by one: `JobsHold` of
`SlotsWithinWorkshop` and `NoJobLost`; `VillagesKeepAccount` of
`StorageWithinCapacity`, `NoGoodsFromNothing` and `TroopsOnlyFromTraining`;
`ContractsImplemented` of `SplitterImplemented` and `VaultImplemented`; `ClaimsHold`
of `ClaimsCovered` and `DueRevenueFixed`; `PaidAsBooked` of `GrantPaidOnce` and
`BooksMatchPayments`; `TableHolds` of `RowsFormChain` and `HistoryStable`;
`GateHolds`, `DurationsHold`, `VillagesHold`, `NoticesHold`, `PolicyHolds` and
`AppliedHolds` of the properties that end their modules. Each part has a faulty
variant of the code in its module that breaks it; `mutants` in `PROJECT.json` lists
one for each property.

Bounds. Time, income, supply, words and versions are capped by the constants
named as bounds (`MaxTime`, `MaxSupply`, `EndOfTime`, `MaxIncome`, `MaxVersion`,
`MaxFunding`, `MaxOps`, `MaxConfirms`, `MaxAdapters`, `MaxRegistrations`,
`MaxForeign`, `MaxFaults`, `MaxEdits`, `MaxStarts`, `MaxBreaks`, `MaxCancels`,
`MaxChanges`, `Horizon`, `MaxRaids`, `MaxRequests`, `MaxMoves`, `MaxClock`,
`MaxLevel`); where a run can come to such an end it does not check
deadlock. They are chosen so that the cases in question occur: the clock passes a
whole offline window and a missed payout, all three slots fill, prestige is
reached with the queue in use, both sides raid at once, amounts leave
remainders, batches are partial, an operation outlives two adapters, a
challenge is asked for while others are counted, a resumption meets a
transaction still in the mempool, a write of the appearance that was given up is
served after the next one, a soldier dies in another tab while his army marches,
a day is not long enough for another level, a migrator meets the lock of a session whose
client is dead, a plan has two mistakes that hide one another, a status is
cached while the proxy changes twice. A mutant of the code breaks every
property within these bounds; `PROJECT.json` lists them. Symmetry is over
wallets, in `server` over browsers, addresses and exchanges, and the players,
callers and tabs of the other stages, and in `client` over buildings and tabs; runs with temporal formulas beyond action properties use none. `server`
also has a constraint, `LessForThird`: after a third challenge, with which the
limits are exceeded, only one browser is open and one payload signed; two
challenges suffice for everything the two browsers do to one another. In the
indexer's run the chain is long enough for two batches and for a fork below the
checkpoint, and every block has two children; reorganisations deeper than that
are covered by the theorems.

Fairness. The specifications of the contracts, the client and the server assume
none: users and keepers are free never to act, and no property of these modules
needs them to. `RunsEnd` is
checked under `Fairness` in its stage: a run that has started takes its next step or exits,
because its process is executed and each request either answers or throws
(weak fairness of `Fail(r) \/ RunStep(r)`). Nobody has to start a run, the
chain need not grow, and no run has to succeed. The content of `RunsEnd` is
that the batches of one run cannot go on for ever. `DeploymentCompleted` is
checked under `DeployFairness` in its stage: the operator reruns what was
interrupted, as `docs/DEV_DEPLOYMENT.md` prescribes ("Then rerun the same
reviewed command", "World Chain deployment recovery"), a run that is alive takes
its steps, and a transaction in the mempool is mined or dropped. Faults are
bounded, as they must be for anything to complete.

What `AlwaysReplayable` needs. The indexer can always go on if
reorganisations replace no more than confirmations and rollback depth together
and spare the start block. The second part does not follow from the first: the
start block's parent is not in the table, so when the start block itself is
replaced no batch has an ancestor there, however small the reorganisation, and
every later run fails with `reorg_common_ancestor_not_found`. Under the same
bound the overlap also repairs the events that a batch misses when its headers
and its logs were read from different forks (`SettledBlocksComplete`).

## Findings

The level cap (`overrun`). `upgrade` compares the building's present level with
`MAX_BUILDING_LEVEL` (`CivilizationGame.sol:785`), although other slots may
already hold jobs for the same building. `docs/ISSUE-130-SIMULATION-POLICY.md`
and `docs/ONCHAIN_ARCHITECTURE.md` read the constant as a cap. A townhall
above it can no longer prestige, which requires equality (`:1065`). How far a
level can overrun is a theorem, `OverrunSafe`: by the extra slots.

Confirmed without having been sent (`confirmed`). The adapter remembers one
operation by its type. While it is remembered (its poll failed or timed out,
or it is still in flight), `executeAction` of the same type polls it instead
of sending, and `execute` returns its promise, whatever the new payload
(`src/world-game/adapter.js:162`, `:342`). A player who reviews and confirms an
upgrade of another building then sees that review confirmed although only the
earlier one was executed. `FreshReviewWasExecuted` is what remains true: a
review that was confirmed when the adapter had nothing outstanding is shown as
confirmed only if its own operation succeeded.

Offered while its predecessor is built (`offered`). The plan's next step is
chosen by the levels it requires, of which the level below it of the same
building is none (`src/world-game/build-planner.js:98`, `:200`). The button
starts an upgrade by name, so the contract repeats the lower level.

Invented stock (`invented`). The projection allows a whole offline window from
the read, on top of what was settled up to it
(`src/world-game/projections.js:245`); the contract counts the window from the
last settlement. Within one window of the last settlement a page that has read
the fraction is exact (`ProjectionIsContract`, a part of `PageFollowsContract`).

A deadline that does not cover the body (`deadline`). `createJsonRpc` clears
its timer with the headers (`scripts/verify-worldchain-proxy.mjs:240`); a body
that never comes keeps the shared probe and all who wait for it.

What no run states, each read off a guard or a list of the code rather than from
an order of events:

- The helper that keeps impossible amounts from the contract takes a stock that
  is not a whole number for none (`src/world-game/training-quantity.js:10`); in the
  demo every stock is a fraction after the first collection, and no troop can be
  trained that costs it (`Trainable` of `DemoGame`). The file says that "these
  helpers only prevent an impossible value from reaching its single call".
- The gate applies `assertV1StorageCompatibility` to the historical source
  (`scripts/verify-proxy-v2-compatibility.mjs:775`) and not to the candidate's, so
  that a candidate with reordered structs passes (`ChecksPass` of
  `CompatibilityGate`); only `test/civilization-contract.test.js:1050` compares the
  candidate. `docs/ADR-0055-PROXY-V2-ARCHITECTURE.md` says that the gate verifies
  the "frozen V1 namespace".
- `createGameActions` leaves out `setCompletionNotifications`
  (`src/game-actions.js:105`), so that the checkbox of `SettingsDialog.tsx:247` calls
  undefined and notices, which are off at first, stay off. The notices
  themselves, as written, have the property `NoticesHold`.

Seen while modelling, not stated as findings because no text promises
otherwise: `confirmReview` while the runtime is busy
leaves the review "confirming"; a receipt timeout leaves it "pending", and the
resumption after a reload does not settle it; a failed read of the state after
a successful operation shows it as reverted; an adapter that was replaced can
clear the stored record of its successor; a late 401 expires a newer session
cookie; the late answer of the startup read replaces an appearance that was
applied meanwhile; when the storage is full, notices recorded before the refusal
are never displayed; a clock of the browser that is set back and forward pays the
demo's production again.

## Proofs

Every theorem is of the form "the specification implies the property", for
every value of the constants that satisfies the modules' assumptions. The
assumptions are their ASSUMEs: constants are numbers of the right sign, capacity
does not shrink with levels, a new village fits its own warehouse, stored
heights and parents are those of hash chains, an image's migrations are sorted
by version, a save of the demo is one that a visit leaves. `PowersAssumption` of
`DemoGame` states of the demo's powers up to the highest level that capacities
are natural numbers that grow and prices natural numbers: the provers know
nothing of `^`. TLC evaluates each of them on the instances. One theorem pair has a
hypothesis besides (`ReorgsWithinOverlap`, below).

The game (`CivilizationGame_proof`). `IInv == TypeOK /\ VillagesOK` is
inductive (`Invariance`). `TypeOK` alone is not: that stocks fit the warehouse
depends on levels, and that a finished job fits `Level` depends on the number of
jobs for a building, so `VillagesOK` adds, per village: the stocks in storage
and in the field fit the warehouse (`Fits`), the jobs fit the workshop's slots,
and a building's level together with its jobs stays within `TopLevel`
(`QueueOK`). Lemmas on the rules (what `AccrueUntil`, `Finish`, `Loot` and
`Plundered` return and bound) carry the arithmetic; the step theorem has one
case per action. On it rest:

- `TypeCorrect`, `StorageSafe`, `SlotsSafe`, `OverrunSafe`: by implication.
- `SupplyAdds`: the sum of balances, taken apart by `SumTheorems`
  (`LedgerSums`), for transfers to oneself and every mint and burn.
- `SettlementIrrelevant`: `Clocked` (`ClockInvariance`: no village was settled
  later than now) and the arithmetic of a division with a carried remainder
  (`DivisionCarried`): two settlements give the quotient and remainder of one.
- `JobsKept`, `WindowKept`, `TroopsTrained`: one lemma, `StepEffect`, says what
  any step can do to a village's clock, jobs and troops; the three properties
  are its readings.
- `TradesEnrich`: from the fee being above zero and each rounding's direction.
- `NothingInvented`: goods of all villages and the market together, where one
  village gains (`OneVillageGains`) or two trade places (`RaidGains`).
- `PageFollows`: within one offline window of the last settlement, what the page
  lets grow is what the contract settles (`GrowthIsProduction`, from the same
  division facts), or a unit less without the fraction (`FractionUnread`); and
  what it recommends the contract accepts (`CollectAccepted`, `UpgradeIsAccepted`,
  the latter over `RequiredIsAllowed`: the client's copy of the requirements gives
  the contract's).

The treasury (`WldRevenue_proof`). `SplitterInv` is the types and
`ClaimsCovered`: the parts of a division add up to what is divided, the last
recipient's included. From it `ClaimsAlwaysCovered`, `DueRevenueSettled` and
`CadenceKept`. `VaultInv` says that funding reconciles and that a batch's
approval is the only one; from it `VaultReconciles`, `VaultAllowances`,
`VaultSurplus`. `RevenueInv` adds the conservation of WLD itself
(`WldNeverLost`). `RevenueImplementsSplitter` and `RevenueImplementsVault` are
the refinements: one case per composed action, each an action of the contract's
own specification with the inputs that the composition gives it, or a stutter.

Rewards (`RewardDistributor_proof`). `GrantsPaidOnce` is about payments; what
makes it inductive is `PaymentsBooked`: every payment's id and nonce are marked
in the books of the distributor that made it, which no governance step undoes.
`CapsHold` needs `CapKept`: what was paid in a period since the configuration is
bounded by the cap and by the period's entry in the books, the one number that a
claim looks at;
`BooksMatch` relates the books to the sums over payments.

The indexer (`ChainIndexer_proof`). `TableIsChain` and `HistoryKept` hold with
reorganisations of any depth. `IndexerInv` adds to the type invariant and
`RowsFormChain` what a run relies on when it stores: the headers it holds are a
segment of some chain, its logs belong to them, and a batch that begins above
the start block was preceded by a checkpoint (otherwise the first rows could
begin too high). The argument of `StoreFormsChain`: the highest common ancestor
lies in the window, so that everything stored up to it stays; the batch begins
at most one block above it; the read-back forces the rows over the batch's
heights to be the batch's. One read-back is enough to exclude every mixture of
forks. `NeverBlocked` and `NoEventLost` assume `ReorgsWithinOverlap`, that
reorganisations are bounded as described under the runs; the run satisfies the
same formula, which TLC evaluates as `ForksAssumption` of `MCStandalone`.
`SettledInv` says which blocks no reorganisation reaches any more, that the
header from which the next batch starts is among them, and that below it a run's
logs and the stored rows are of the same blocks.

Logins, lists and status (`Server_proof`). `SignedOnce`: `AuthInv` says what a
request in each phase carries: one that is past `TakeChallenge` is the only one,
over all replicas, that holds its nonce (`Single`), no session exists yet for
that nonce, and what it verified was signed. `LimitsHold` counts, for each
limit, the outstanding challenges together with the requests that have passed
the count but not yet inserted (`Limits`). `OwnSessionShown` follows every token from the signature of its
browser through answer and cookie to the page (`LinkInv`). `ListKeepsUp`: `HistoryInv` says of a list in progress that it is a part of the chain of its
cursor, newest first, and complete above its end for steady events.
`StatusRecent`: by `StatusInv`, each part of what a probe has read so far stood at
a moment since the probe began, and a cached result's age is within its life.

`CooldownIsKept` is the one place where a policy's window and its cooldown meet:
`RaidInv` carries from `policy()` to every later state that the former is as long
as the latter. `WaitingHelpsOnly` and `RaidsDenyOnly` follow from what a step
does to the sets of raids in the window (a later window is a smaller set, a raid
makes it larger) and the finiteness of the history, on which the cardinality of
the reciprocal pattern depends. `SavedStaysStored` needs that a tab has exactly
one write under way while it is pending (`PutsAreOne`) and that an answer which
says "saved" was given by the last write if its tab is still the writer
(`PutsAreTrue`); `AppliesOneByOne` is the former, counted.

The client (`WorldClient_proof`). `SentAsConfirmed` is proved by counting:
the operations of an intent that were sent and the adapters that may still send
one are together no more than its confirmations (`Permitted`, a part of
`ClientInv`): every confirmation is a permit that is used once. `FreshExecuted` and `DoneStaysShown` follow from the same invariant,
which knows for each adapter, orphaned or not, whose operation it polls, and for
each refresh what was done before it began. `RegisteredOnce`: the phase of the
page relates to the hash in its ref and in storage (`RegInv`).

Notices and the demo (`WorldClient_proof`). `NoticeInv` adds types to
`NoticeIsDue`; `OffIsSilent` and `NoticesOnce` are read off what a snapshot leaves
on the screen (`WhatIsDisplayed`). For the demo, `DemoInv` says that what every tab has
in memory and what the storage holds, migrated, is `Sound`, so that it does not
matter who loads what. Every command and the timer keep it (one lemma each, such
as `SwapKeeps`), and the same lemma shows `Frugal`, that the village is worth no
more than it was with what its clock owes it: wealth is a linear form over stock,
field and targets' fields (`Of`), settling moves what is due into it, and every
rounding and cut goes one way. `StocksAlwaysHold`, `MarchersAlwaysStay` and
`NothingIsConjured` follow.

Operations (`Operations_proof`). `ReleaseReviewed`: `DeployInv` says how far the
chain must be as planned for a run in each phase, and that what stands at a
mined nonce never changes. `NoNonceWasted` (`PlanInv`): a run that
sends has accepted its plan, has complete interfaces, and has stored at each step
what the plan says, for any width of a storage word and any number of wrong
fields; each constructor therefore succeeds and each read-back agrees, packed
words taken apart included. `OneAtATime` (`SchemaInv`):
rows and executed migrations are in step, and each process knows, from its
phase, who holds the lock and which of its image's migrations are recorded.
`ReleasesReviewed` (`PlansInv`): the reserve was paid for by the one operation of
that name that is done, and every planned upgrade is to a candidate with reviewed
code, which cannot change. `FacadeIsKept` and `SnapshotsAreChecked`
(`GateInv`): while a run has a file left to write, the checks it made still hold of
the sources, since nobody edits them meanwhile; what an earlier run wrote is of
sources that had passed, if it was stopped too. Of the curves (`DurationInv`),
`AcceleratedIsAhead` alone is not inductive: it does not say which curve still
runs. `Ahead` does: while the steady curve completes levels the accelerated one
does and has spent no more, and when only the steady one has left off it has
completed fewer. `BoostsNeverHurt` holds for any raw duration above zero.

Properties in parts. `JobsAreHeld`, `AccountIsKept`, `RevenueImplements`,
`ClaimsAreHeld`, `PaidOnceAsBooked`, `TableIsHeld`, `VillagesAreHeld`,
`DurationsAreHeld`, `GateIsHeld`, `PolicyIsHeld`, `NoticesAreHeld` and
`AppliedIsHeld` state the conjunctions that the runs check; each follows from the
theorems of its parts, which are where the work is.

Sums and chains without induction over data. A theorem that is proved by
induction takes an operator as its parameter, which no installed prover can
instantiate. Where the argument is an induction over a finite set or over
heights, the proofs take a minimal counterexample from a well-founded order
instead (`SubsetInduction` in `SumTheorems`, the common prefixes in
`ChainIndexer_proof`), with sets in the place of operators.

What a proof changed in a model. The step for swaps could not be proved until
`DemoSwap` had the guard `amount > 0` of `src/game.js:319`: rounding down a
quotient of zero gave an output below zero, which no instance had tried.

Two cautions in reading and extending these proofs, both about tlapm 1.4.5. Its
SMT translation keeps only the first arm of a CASE expression, and expands the
`@` of a later part of an EXCEPT against the original function, even when an
earlier part changed the same place. So no definition that a proof expands
contains CASE, and no EXCEPT names two places that can be the same one
(`TransferGold` pays in two updates for that reason); what depends on a case is
written with IF, with records or with guarded disjuncts.

Only model-checked:

- `DeploymentCompleted` and `RunsEnd`: liveness under fairness, which the
  prover does not reach.
- `PlanNeverStalls`: the plan is a closure of requirements, a RECURSIVE operator
  over the building levels, and the property depends on the actual prices.
- `AcceptedCodeIsBuilt`: code is built by folding over sorted references; what
  such a fold computes is an induction over sequences.

## What is left

1. The game's raids towards opponents that the client chooses, and the
   estimates it shows of them.
2. The oracle's tick arithmetic with integers of their width, against exact
   powers; the proxy's roles and its upgrade calls.
3. Liveness of the indexer towards the tip with a stable chain and runs that
   keep being started.
4. Two tabs that share a cookie, with the late 401 that removes a newer one.
5. Theorems: that the plan's dependencies are closed under requirements, by
   an explicit rank in place of the recursion.

## Not modelled

Proxy upgrade calls and roles, event contents, signatures and hashes, the
oracle's tick arithmetic, the release registries (append-only), the interface,
the product catalog and the production release gate (pure functions of one
configuration), the migration of the workshop's release (`WorkshopFixV11` as a
contract), and scripts that only check or print. `PROJECT.json` gives the reason for every
component.
