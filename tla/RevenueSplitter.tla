--------------------------- MODULE RevenueSplitter ---------------------------
(***************************************************************************)
(* contracts/src/CivilizationRevenueSplitter.sol: WLD arrives at any time, *)
(* becomes an entitlement of the current recipients once a period is over, *)
(* and is paid out either to all of them by the monthly payout or to one   *)
(* of them by release.  Governance may rotate the recipients at any time.  *)
(* The contract is not told of transfers: what is not yet allocated is its *)
(* balance less all claims.                                                *)
(***************************************************************************)
EXTENDS Integers, Sequences, FiniteSets, Functions

CONSTANTS
  Recipient,      \* addresses that a distribution may name
  Bps,            \* BPS (10_000)
  Period,         \* PAYOUT_PERIOD (30 days)
  FirstSplit,     \* the constructor's recipients and shares

\* What the environment may pass to a call, and how far the model runs.
  TriedSplits,    \* distributions that governance sets
  Inflows,        \* amounts of WLD that are transferred to the contract
  SplitterDelays, \* seconds between two blocks
  EndOfTime,      \* bound: the last block timestamp
  MaxIncome,      \* bound: WLD ever transferred to the contract
  MaxVersion      \* bound: number of distributions

\* One entry of a distribution.
ShareRecord == [to : Recipient, share : Nat]

\* There are finitely many addresses.
ASSUME SplitterAssumption ==
  /\ IsFiniteSet(Recipient)
  /\ {FirstSplit} \cup TriedSplits \subseteq Seq(ShareRecord)
  /\ Bps \in Nat \ {0}
  /\ Period \in Nat \ {0}
  /\ Inflows \subseteq Nat
  /\ SplitterDelays \subseteq Nat
  /\ EndOfTime \in Nat
  /\ MaxIncome \in Nat
  /\ MaxVersion \in Nat

VARIABLES
  clock,          \* block.timestamp
  balance,        \* token.balanceOf(address(this))
  received,       \* WLD paid to each recipient so far
  claimable,      \* claimable
  totalClaimable, \* totalClaimable
  split,          \* _recipients with their sharesBps
  nextPayoutAt,   \* nextPayoutAt
  splitVersion    \* splitVersion

claims       == <<claimable, totalClaimable>>
distribution == <<split, splitVersion>>
splitterVars == <<clock, balance, received, claims, distribution, nextPayoutAt>>

----------------------------------------------------------------------------
Recipients(d) == {d[i].to : i \in DOMAIN d}

ShareOf(d, r) == d[CHOOSE i \in DOMAIN d : d[i].to = r].share

LastOf(d) == d[Len(d)].to

\* _setDistribution reverts for anything else.  Addresses of the contract
\* itself and zero are not in Recipient.
ValidSplit(d) ==
  /\ Len(d) \in 2 .. 10
  /\ \A i \in DOMAIN d : d[i].to \in Recipient /\ d[i].share > 0
  /\ \A i, j \in DOMAIN d : d[i].to = d[j].to => i = j
  /\ SumFunction([i \in DOMAIN d |-> d[i].share]) = Bps

Due == clock >= nextPayoutAt

\* Faulty variant: every part is rounded, the remainder is nobody's.
FaultyPart(d, amount, r) ==
  IF r \in Recipients(d) THEN (amount * ShareOf(d, r)) \div Bps ELSE 0

\* The loop of _allocate: each part is rounded down and the last recipient gets
\* what the others leave.
Part(d, amount, r) ==
  LET Rounded(o) == (amount * ShareOf(d, o)) \div Bps
      others     == Recipients(d) \ {LastOf(d)}
  IN  IF r \in others THEN Rounded(r)
      ELSE IF r = LastOf(d)
           THEN amount - SumFunction([o \in others |-> Rounded(o)])
           ELSE 0

\* _allocate with a given balance: the claims after what is unallocated has
\* been divided among the current recipients.
Allocated(available) ==
  [r \in Recipient |-> claimable[r] + Part(split, available - totalClaimable, r)]

SplitterInit ==
  /\ ValidSplit(FirstSplit)
  /\ clock = 1
  /\ balance = 0
  /\ received = [r \in Recipient |-> 0]
  /\ claimable = [r \in Recipient |-> 0]
  /\ totalClaimable = 0
  /\ split = FirstSplit
  /\ nextPayoutAt = clock + Period
  /\ splitVersion = 1

----------------------------------------------------------------------------
\* A WLD transfer to the contract, by the game or by anybody else.
Receive(amount) ==
  /\ balance' = balance + amount
  /\ UNCHANGED <<clock, received, claims, distribution, nextPayoutAt>>

Allocate ==
  /\ Due
  /\ claimable' = Allocated(balance)
  /\ totalClaimable' = balance
  /\ UNCHANGED <<clock, balance, received, distribution, nextPayoutAt>>

\* Faulty variant: the deadline moves on by a single period.
FaultyNextDeadline == nextPayoutAt + Period

\* The first deadline of the cadence that lies ahead.
NextDeadline == nextPayoutAt + ((clock - nextPayoutAt) \div Period + 1) * Period

\* processMonthlyPayout once it is due.  inflow is WLD that reached the contract
\* earlier in the same transaction (a boost), 0 for a call of its own.  All
\* current recipients are paid or the call reverts.
MonthlyPayout(inflow) ==
  LET available == balance + inflow
      entitled  == Allocated(available)
      payees    == Recipients(split)
      paid      == SumFunctionOnSet(entitled, payees)
  IN
  /\ Due
  /\ received' = [r \in Recipient |-> received[r] + IF r \in payees THEN entitled[r] ELSE 0]
  /\ claimable' = [r \in Recipient |-> IF r \in payees THEN 0 ELSE entitled[r]]
  /\ totalClaimable' = available - paid
  /\ balance' = available - paid
  /\ nextPayoutAt' = NextDeadline
  /\ UNCHANGED <<clock, distribution>>

Release(r) ==
  /\ claimable[r] > 0
  /\ claimable' = [claimable EXCEPT ![r] = 0]
  /\ totalClaimable' = totalClaimable - claimable[r]
  /\ balance' = balance - claimable[r]
  /\ received' = [received EXCEPT ![r] = @ + claimable[r]]
  /\ UNCHANGED <<clock, distribution, nextPayoutAt>>

\* Faulty variant: the finished period is not checkpointed.
FaultyRotation(d) ==
  /\ ValidSplit(d)
  /\ split' = d
  /\ splitVersion' = splitVersion + 1
  /\ UNCHANGED <<clock, balance, received, claims, nextPayoutAt>>

\* Revenue of a period that is over belongs to the old recipients; before that
\* it stays unallocated and will be divided by the new distribution.
SetDistribution(d) ==
  /\ ValidSplit(d)
  /\ split' = d
  /\ splitVersion' = splitVersion + 1
  /\ IF Due
     THEN claimable' = Allocated(balance) /\ totalClaimable' = balance
     ELSE UNCHANGED claims
  /\ UNCHANGED <<clock, balance, received, nextPayoutAt>>

SplitterTick(d) ==
  /\ clock + d <= EndOfTime
  /\ clock' = clock + d
  /\ UNCHANGED <<balance, received, claims, distribution, nextPayoutAt>>

Income == balance + SumFunction(received)

SplitterNext ==
  \/ \E amount \in Inflows : Income + amount <= MaxIncome /\ Receive(amount)
  \/ Allocate
  \/ \E inflow \in Inflows \cup {0} :
       Income + inflow <= MaxIncome /\ MonthlyPayout(inflow)
  \/ \E r \in Recipient : Release(r)
  \/ \E d \in TriedSplits : splitVersion < MaxVersion /\ SetDistribution(d)
  \/ \E d \in SplitterDelays : SplitterTick(d)

SplitterSpec == SplitterInit /\ [][SplitterNext]_splitterVars

----------------------------------------------------------------------------
\* The claims add up to totalClaimable and the contract owns the WLD for them,
\* over rotations, early transfers and partial releases; otherwise _allocate
\* would underflow and block the payout for ever.
ClaimsCovered ==
  /\ totalClaimable = SumFunction(claimable)
  /\ totalClaimable <= balance

Entitlement(r) == received[r] + claimable[r]

\* A payout leaves the next deadline ahead, at most a period away and on the
\* cadence of the constructor, however many periods were missed.
PayoutCadence ==
  [][nextPayoutAt' # nextPayoutAt =>
       /\ nextPayoutAt <= clock
       /\ nextPayoutAt' \in clock + 1 .. clock + Period
       /\ (nextPayoutAt' - nextPayoutAt) % Period = 0
    ]_splitterVars

\* What a recipient would own if everything unallocated were allocated now.
Prospect(r) == Entitlement(r) + Part(split, balance - totalClaimable, r)

\* Once a period is over its revenue is settled: who gets how much of it does
\* not depend on whether the payout, single releases, an allocation or a
\* rotation of the recipients comes first.  And at any time "an old recipient
\* can always use release(recipient) after being removed": what somebody is
\* entitled to never shrinks.
DueRevenueFixed ==
  [][\A r \in Recipient :
       /\ Due /\ Income' = Income => Prospect(r)' = Prospect(r)
       /\ Entitlement(r)' >= Entitlement(r)
    ]_splitterVars

\* What recipients can claim is there, and it is the same whoever allocates, releases
\* or rotates first.
ClaimsHold == []ClaimsCovered /\ DueRevenueFixed
=============================================================================
