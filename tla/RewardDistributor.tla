------------------------- MODULE RewardDistributor -------------------------
(***************************************************************************)
(* CivilizationRewardDistributor: grants that an issuer signs off chain    *)
(* and anybody relays, within a cap per claim and a cap per period.  The   *)
(* game mints for one distributor at a time and governance may replace it, *)
(* so several deployments are modelled side by side, each with books of    *)
(* its own, together with the game's mintReward.                           *)
(*                                                                         *)
(* A signature is valid or not: Signed[i] is what issuer i signs at some   *)
(* time.  Chain and verifying contract are the field "contract" of a       *)
(* grant.                                                                  *)
(***************************************************************************)
EXTENDS Integers, Sequences, Functions

CONSTANTS
  Distributor,      \* deployments of the contract
  Issuer,           \* signing keys
  NoIssuer,         \* address(0)
  NoDistributor,    \* address(0)
  Grantee, RewardId, Nonce,
  Signed,           \* the grants that each issuer signs
  TriedConfigs,     \* bound: configurations that governance tries, by distributor
  MaxTime           \* bound: block.timestamp

Grant == [contract  : Distributor,
          recipient : Grantee,
          amount    : Nat,
          rewardId  : RewardId,
          nonce     : Nonce,
          deadline  : Nat]

Config == [issuer        : Issuer,
           perClaimCap   : Nat \ {0},
           periodCap     : Nat \ {0},
           periodSeconds : Nat \ {0}]

ASSUME RewardAssumption ==
  /\ NoIssuer \notin Issuer
  /\ NoDistributor \notin Distributor
  /\ Signed \in [Issuer -> SUBSET Grant]
  /\ TriedConfigs \in [Distributor -> SUBSET Config]
  /\ MaxTime \in Nat

PeriodNumber == 0 .. MaxTime

VARIABLES
  blockTime,        \* block.timestamp
  distributor,      \* the game's configured distributor
  minted,           \* CGOLD minted through mintReward, by recipient
  books,            \* the storage of each distributor
  payments,         \* RewardClaimed events, with the block's timestamp
  sinceConfig       \* number of payments before the last configuration

rewardVars == <<blockTime, distributor, minted, books, payments, sinceConfig>>

NewBooks ==
  [issuer |-> NoIssuer, perClaimCap |-> 0, periodCap |-> 0, periodSeconds |-> 0,
   claimsPaused |-> FALSE, rewardIdUsed |-> {}, rewardNonceUsed |-> {},
   rewardPeriodIssued |-> [p \in PeriodNumber |-> 0]]

RewardInit ==
  /\ blockTime = 0
  /\ distributor = NoDistributor
  /\ minted = [r \in Grantee |-> 0]
  /\ books = [d \in Distributor |-> NewBooks]
  /\ payments = << >>
  /\ sinceConfig = [d \in Distributor |-> 0]

----------------------------------------------------------------------------
(* Governance: the timelock. *)

\* A claim above the period's cap is never configured.
ConfigureIssuer(d, c) ==
  /\ c.perClaimCap <= c.periodCap
  /\ books' = [books EXCEPT ![d].issuer = c.issuer,
                            ![d].perClaimCap = c.perClaimCap,
                            ![d].periodCap = c.periodCap,
                            ![d].periodSeconds = c.periodSeconds]
  /\ sinceConfig' = [sinceConfig EXCEPT ![d] = Len(payments)]
  /\ UNCHANGED <<blockTime, distributor, minted, payments>>

SetClaimsPaused(d, paused) ==
  /\ books' = [books EXCEPT ![d].claimsPaused = paused]
  /\ UNCHANGED <<blockTime, distributor, minted, payments, sinceConfig>>

RevokeIssuer(d) ==
  /\ books' = [books EXCEPT ![d].issuer = NoIssuer, ![d].claimsPaused = TRUE]
  /\ UNCHANGED <<blockTime, distributor, minted, payments, sinceConfig>>

\* CivilizationGame.configureRewardDistributor.
ConfigureRewardDistributor(d) ==
  /\ distributor' = d
  /\ UNCHANGED <<blockTime, minted, books, payments, sinceConfig>>

----------------------------------------------------------------------------
(* Claims. *)

PeriodOf(b) == blockTime \div b.periodSeconds

\* Faulty variant: any claim fits a period that is not used up.
FaultyFitsPeriod(b, amount) == b.rewardPeriodIssued[PeriodOf(b)] < b.periodCap

FitsPeriod(b, amount) == b.rewardPeriodIssued[PeriodOf(b)] + amount <= b.periodCap

Fresh(b, g) ==
  /\ g.rewardId \notin b.rewardIdUsed
  /\ <<g.recipient, g.nonce>> \notin b.rewardNonceUsed

Authorized(b, g) ==
  /\ ~ b.claimsPaused
  /\ b.issuer # NoIssuer
  /\ g \in Signed[b.issuer]
  /\ blockTime <= g.deadline
  /\ g.amount \in 1 .. b.perClaimCap

\* Faulty variants: the nonce stays usable; a period's issue is overwritten.
FaultyNonceKept(b, g) ==
  [b EXCEPT !.rewardIdUsed = @ \cup {g.rewardId},
            !.rewardPeriodIssued[PeriodOf(b)] = @ + g.amount]
FaultyOverwritten(b, g) ==
  [b EXCEPT !.rewardIdUsed = @ \cup {g.rewardId},
            !.rewardNonceUsed = @ \cup {<<g.recipient, g.nonce>>},
            !.rewardPeriodIssued[PeriodOf(b)] = g.amount]

Spent(b, g) ==
  [b EXCEPT !.rewardIdUsed = @ \cup {g.rewardId},
            !.rewardNonceUsed = @ \cup {<<g.recipient, g.nonce>>},
            !.rewardPeriodIssued[PeriodOf(b)] = @ + g.amount]

\* claim and the game's mintReward, which reverts both unless the game's
\* distributor is the caller.
Claim(d, g) ==
  LET b == books[d] IN
  /\ Authorized(b, g)
  /\ g.contract = d
  /\ Fresh(b, g)
  /\ FitsPeriod(b, g.amount)
  /\ distributor = d
  /\ books' = [books EXCEPT ![d] = Spent(b, g)]
  /\ minted' = [minted EXCEPT ![g.recipient] = @ + g.amount]
  /\ payments' = Append(payments, [grant |-> g, at |-> blockTime, period |-> PeriodOf(b)])
  /\ UNCHANGED <<blockTime, distributor, sinceConfig>>

----------------------------------------------------------------------------
NextBlock ==
  /\ blockTime < MaxTime
  /\ blockTime' = blockTime + 1
  /\ UNCHANGED <<distributor, minted, books, payments, sinceConfig>>

Governance ==
  \/ \E d \in Distributor :
       \/ \E c \in TriedConfigs[d] : ConfigureIssuer(d, c)
       \/ \E paused \in BOOLEAN : SetClaimsPaused(d, paused)
       \/ RevokeIssuer(d)
  \/ \E d \in Distributor \cup {NoDistributor} : ConfigureRewardDistributor(d)

RewardNext ==
  \/ NextBlock
  \/ Governance
  \/ \E d \in Distributor : \E g \in UNION {Signed[i] : i \in Issuer} : Claim(d, g)

RewardSpec == RewardInit /\ [][RewardNext]_rewardVars

----------------------------------------------------------------------------
Books == [issuer             : Issuer \cup {NoIssuer},
          perClaimCap        : Nat,
          periodCap          : Nat,
          periodSeconds      : Nat,
          claimsPaused       : BOOLEAN,
          rewardIdUsed       : SUBSET RewardId,
          rewardNonceUsed    : SUBSET (Grantee \X Nonce),
          rewardPeriodIssued : [PeriodNumber -> Nat]]

RewardTypeOK ==
  /\ blockTime \in PeriodNumber
  /\ distributor \in Distributor \cup {NoDistributor}
  /\ minted \in [Grantee -> Nat]
  /\ books \in [Distributor -> Books]
  /\ payments \in Seq([grant : Grant, at : Nat, period : Nat])
  /\ sinceConfig \in [Distributor -> Nat]

\* No two payments of one distributor share a reward id, or a recipient and
\* nonce, whatever governance reconfigures, revokes and replaces between them;
\* so a signed grant is paid once at most.
GrantPaidOnce ==
  \A i, j \in DOMAIN payments :
    LET g == payments[i].grant
        h == payments[j].grant
    IN  i # j /\ g.contract = h.contract =>
          g.rewardId # h.rewardId /\ <<g.recipient, g.nonce>> # <<h.recipient, h.nonce>>

\* The sum of the payments with the given numbers.
PaidIn(numbers) ==
  SumFunctionOnSet([i \in DOMAIN payments |-> payments[i].grant.amount], numbers)

PaidTo(r) == {i \in DOMAIN payments : payments[i].grant.recipient = r}
PaidBy(d) == {i \in DOMAIN payments : payments[i].grant.contract = d}

\* The books of every distributor say what was paid: a grant is marked used
\* exactly when its CGOLD was minted, and each period's issue is the sum of the
\* payments booked under its number.
BooksMatchPayments ==
  /\ \A r \in Grantee : minted[r] = PaidIn(PaidTo(r))
  /\ \A d \in Distributor :
       LET b == books[d] IN
       /\ b.rewardIdUsed = {payments[i].grant.rewardId : i \in PaidBy(d)}
       /\ b.rewardNonceUsed =
            {<<payments[i].grant.recipient, payments[i].grant.nonce>> : i \in PaidBy(d)}
       /\ \A p \in PeriodNumber :
            b.rewardPeriodIssued[p] = PaidIn({i \in PaidBy(d) : payments[i].period = p})

\* A grant is paid once at most, and what the books of all deployments say was paid
\* is what was.
PaidAsBooked == GrantPaidOnce /\ BooksMatchPayments

\* What distributor d has paid in period p of its present length, counted by the
\* clock and not by the books, since the last configuration.
PaidSinceConfig(d, p) ==
  {i \in PaidBy(d) : /\ i > sinceConfig[d]
                     /\ payments[i].at \div books[d].periodSeconds = p}

\* "Hard issuance caps" (configureIssuer): what a distributor pays within one
\* period of the length configured, counted by the clock and not by the books,
\* and since that configuration, does not exceed the period's cap.  A
\* reconfiguration may start the count again.
HardCap ==
  \A d \in Distributor, p \in PeriodNumber :
    books[d].periodSeconds > 0 => PaidIn(PaidSinceConfig(d, p)) <= books[d].periodCap
=============================================================================
