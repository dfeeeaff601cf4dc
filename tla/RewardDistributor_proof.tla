---------------------- MODULE RewardDistributor_proof ----------------------
(***************************************************************************)
(* Three facts about rewards, for any signatures, any configurations and   *)
(* any number of deployments.  No grant is paid twice: GrantPaidOnce is    *)
(* about payments only, and the inductive invariant RewardInv says that    *)
(* every payment has left its reward id and its nonce in the books of the  *)
(* distributor that made it.  No period is paid more than its cap: what    *)
(* was paid since the configuration is bounded by the cap and by the       *)
(* period's entry in the books (CapKept), which is what a claim looks at.  *)
(* And the books are the sums of the payments (BooksMatchPayments).        *)
(***************************************************************************)
EXTENDS RewardDistributor, SumTheorems

PaymentsBooked ==
  \A i \in DOMAIN payments :
    LET g == payments[i].grant IN
    /\ g.contract \in Distributor
    /\ g.rewardId \in books[g.contract].rewardIdUsed
    /\ <<g.recipient, g.nonce>> \in books[g.contract].rewardNonceUsed

\* A period has a length as soon as there is an issuer.
IssuerHasPeriod ==
  \A d \in Distributor : books[d].issuer # NoIssuer => books[d].periodSeconds > 0

RewardInv ==
  /\ RewardTypeOK
  /\ IssuerHasPeriod
  /\ PaymentsBooked
  /\ GrantPaidOnce

----------------------------------------------------------------------------
\* Time divided by a length is a natural number.
LEMMA QuotientNat ==
  ASSUME NEW n \in Nat, NEW k \in Nat, k > 0
  PROVE  n \div k \in Nat
OBVIOUS

\* The initial books are empty.
LEMMA InitInv == RewardInit => RewardInv
<1> SUFFICES ASSUME RewardInit PROVE RewardInv
  OBVIOUS
<1>1. NewBooks \in Books
  BY DEF NewBooks, Books
<1>2. RewardTypeOK
  BY <1>1, RewardAssumption DEF RewardInit, RewardTypeOK, PeriodNumber
<1>3. IssuerHasPeriod
  BY DEF RewardInit, IssuerHasPeriod, NewBooks
<1>4. PaymentsBooked /\ GrantPaidOnce
  BY DEF RewardInit, PaymentsBooked, GrantPaidOnce
<1> QED
  BY <1>2, <1>3, <1>4 DEF RewardInv

\* A step of governance replaces one distributor's books by others in which
\* the same ids and nonces are used.
LEMMA GovernanceStep ==
  ASSUME RewardInv, NEW d \in Distributor, NEW b \in Books,
         books' = [books EXCEPT ![d] = b],
         b.rewardIdUsed = books[d].rewardIdUsed,
         b.rewardNonceUsed = books[d].rewardNonceUsed,
         b.issuer # NoIssuer => b.periodSeconds > 0,
         sinceConfig' \in [Distributor -> Nat],
         UNCHANGED <<blockTime, distributor, minted, payments>>
  PROVE  RewardInv'
<1>1. books \in [Distributor -> Books]
  BY DEF RewardInv, RewardTypeOK
<1>2. books' \in [Distributor -> Books]
  BY <1>1
<1>3. RewardTypeOK'
  BY <1>2 DEF RewardInv, RewardTypeOK
<1>4. \A e \in Distributor :
        /\ books'[e].rewardIdUsed = books[e].rewardIdUsed
        /\ books'[e].rewardNonceUsed = books[e].rewardNonceUsed
        /\ books'[e].issuer # NoIssuer => books'[e].periodSeconds > 0
  <2> SUFFICES ASSUME NEW e \in Distributor
               PROVE  /\ books'[e].rewardIdUsed = books[e].rewardIdUsed
                      /\ books'[e].rewardNonceUsed = books[e].rewardNonceUsed
                      /\ books'[e].issuer # NoIssuer => books'[e].periodSeconds > 0
    OBVIOUS
  <2>1. CASE e = d
    <3>1. books'[e] = b
      BY <1>1, <2>1
    <3> QED
      BY <3>1, <2>1
  <2>2. CASE e # d
    <3>1. books'[e] = books[e]
      BY <1>1, <2>2
    <3> QED
      BY <3>1 DEF RewardInv, IssuerHasPeriod
  <2> QED
    BY <2>1, <2>2
<1>5. IssuerHasPeriod'
  BY <1>4 DEF IssuerHasPeriod
<1>6. PaymentsBooked'
  BY <1>4 DEF RewardInv, PaymentsBooked
<1>7. GrantPaidOnce'
  BY DEF RewardInv, GrantPaidOnce
<1> QED
  BY <1>3, <1>5, <1>6, <1>7 DEF RewardInv

\* Steps that touch neither books nor payments.
LEMMA OtherSteps ==
  ASSUME RewardInv, blockTime' \in PeriodNumber, distributor' \in Distributor \cup {NoDistributor},
         UNCHANGED <<minted, books, payments, sinceConfig>>
  PROVE  RewardInv'
<1>1. RewardTypeOK'
  BY DEF RewardInv, RewardTypeOK
<1>2. IssuerHasPeriod' /\ PaymentsBooked' /\ GrantPaidOnce'
  BY DEF RewardInv, IssuerHasPeriod, PaymentsBooked, GrantPaidOnce
<1> QED
  BY <1>1, <1>2 DEF RewardInv

\* Every step of governance keeps the invariant.
LEMMA GovernanceKeeps ==
  ASSUME RewardInv, Governance
  PROVE  RewardInv'
<1>1. /\ books \in [Distributor -> Books]
      /\ payments \in Seq([grant : Grant, at : Nat, period : Nat])
      /\ sinceConfig \in [Distributor -> Nat]
      /\ blockTime \in PeriodNumber
  BY DEF RewardInv, RewardTypeOK
<1>2. ASSUME NEW d \in Distributor, NEW c \in TriedConfigs[d], ConfigureIssuer(d, c)
      PROVE  RewardInv'
  <2> DEFINE b == [books[d] EXCEPT !.issuer = c.issuer,
                                   !.perClaimCap = c.perClaimCap,
                                   !.periodCap = c.periodCap,
                                   !.periodSeconds = c.periodSeconds]
  <2>1. c \in Config /\ books[d] \in Books
    BY <1>1, RewardAssumption
  <2>2. b \in Books /\ b.periodSeconds > 0
    <3>1. /\ c.issuer \in Issuer
          /\ c.perClaimCap \in Nat
          /\ c.periodCap \in Nat
          /\ c.periodSeconds \in Nat
          /\ c.periodSeconds > 0
      BY <2>1 DEF Config
    <3> HIDE DEF Config
    <3>2. b \in Books
      BY <2>1, <3>1 DEF Books
    <3>3. b.periodSeconds = c.periodSeconds
      BY <2>1 DEF Books
    <3> QED
      BY <3>1, <3>2, <3>3
  <2>3. /\ b.rewardIdUsed = books[d].rewardIdUsed
        /\ b.rewardNonceUsed = books[d].rewardNonceUsed
    BY <2>1 DEF Books
  <2>4. books' = [books EXCEPT ![d] = b]
    BY <1>1, <1>2 DEF ConfigureIssuer
  <2>5. sinceConfig' \in [Distributor -> Nat]
    BY <1>1, <1>2 DEF ConfigureIssuer
  <2> HIDE DEF b
  <2> QED
    BY <2>2, <2>3, <2>4, <2>5, <1>2, GovernanceStep DEF ConfigureIssuer
<1>3. ASSUME NEW d \in Distributor, NEW paused \in BOOLEAN, SetClaimsPaused(d, paused)
      PROVE  RewardInv'
  <2> DEFINE b == [books[d] EXCEPT !.claimsPaused = paused]
  <2>1. b \in Books
    BY <1>1 DEF Books
  <2>2. /\ b.rewardIdUsed = books[d].rewardIdUsed
        /\ b.rewardNonceUsed = books[d].rewardNonceUsed
        /\ b.issuer # NoIssuer => b.periodSeconds > 0
    BY <1>1 DEF Books, RewardInv, IssuerHasPeriod
  <2>3. books' = [books EXCEPT ![d] = b]
    BY <1>1, <1>3 DEF SetClaimsPaused
  <2> HIDE DEF b
  <2> QED
    BY <2>1, <2>2, <2>3, <1>1, <1>3, GovernanceStep DEF SetClaimsPaused
<1>4. ASSUME NEW d \in Distributor, RevokeIssuer(d)
      PROVE  RewardInv'
  <2> DEFINE b == [books[d] EXCEPT !.issuer = NoIssuer, !.claimsPaused = TRUE]
  <2>1. b \in Books
    BY <1>1 DEF Books
  <2>2. /\ b.rewardIdUsed = books[d].rewardIdUsed
        /\ b.rewardNonceUsed = books[d].rewardNonceUsed
        /\ b.issuer = NoIssuer
    BY <1>1 DEF Books
  <2>3. books' = [books EXCEPT ![d] = b]
    BY <1>1, <1>4 DEF RevokeIssuer
  <2> HIDE DEF b
  <2> QED
    BY <2>1, <2>2, <2>3, <1>1, <1>4, GovernanceStep DEF RevokeIssuer
<1>5. ASSUME NEW d \in Distributor \cup {NoDistributor}, ConfigureRewardDistributor(d)
      PROVE  RewardInv'
  BY <1>1, <1>5, OtherSteps DEF ConfigureRewardDistributor
<1> QED
  BY <1>2, <1>3, <1>4, <1>5 DEF Governance

\* A claim books the grant it pays, which is not booked before.
LEMMA ClaimKeeps ==
  ASSUME RewardInv, NEW d \in Distributor, NEW g \in Grant, Claim(d, g)
  PROVE  RewardInv'
<1> DEFINE b    == books[d]
           paid == [grant |-> g, at |-> blockTime, period |-> PeriodOf(b)]
<1>1. /\ books \in [Distributor -> Books] /\ b \in Books
      /\ payments \in Seq([grant : Grant, at : Nat, period : Nat])
      /\ minted \in [Grantee -> Nat]
      /\ blockTime \in Nat
  BY RewardAssumption DEF RewardInv, RewardTypeOK, PeriodNumber
<1>2. /\ g.contract = d
      /\ Fresh(b, g)
      /\ books' = [books EXCEPT ![d] = Spent(b, g)]
      /\ minted' = [minted EXCEPT ![g.recipient] = @ + g.amount]
      /\ payments' = Append(payments, paid)
      /\ UNCHANGED <<blockTime, distributor, sinceConfig>>
      /\ b.issuer # NoIssuer
  BY DEF Claim, Authorized
<1>3. /\ g.rewardId \in RewardId /\ g.recipient \in Grantee /\ g.nonce \in Nonce
      /\ g.amount \in Nat
  BY DEF Grant
<1>4. PeriodOf(b) \in Nat
  <2>1. b.periodSeconds \in Nat /\ b.periodSeconds > 0
    BY <1>1, <1>2 DEF RewardInv, IssuerHasPeriod, Books
  <2>2. blockTime \div b.periodSeconds \in Nat
    BY <1>1, <2>1, QuotientNat
  <2> QED
    BY <2>2 DEF PeriodOf
<1>5. /\ Spent(b, g).rewardIdUsed = b.rewardIdUsed \cup {g.rewardId}
      /\ Spent(b, g).rewardNonceUsed = b.rewardNonceUsed \cup {<<g.recipient, g.nonce>>}
      /\ Spent(b, g).issuer = b.issuer
      /\ Spent(b, g).periodSeconds = b.periodSeconds
  BY <1>1 DEF Spent, Books
<1>6. Spent(b, g) \in Books
  <2> DEFINE issued == [b.rewardPeriodIssued EXCEPT ![PeriodOf(b)] = @ + g.amount]
  <2>1. issued \in [PeriodNumber -> Nat]
    <3>1. b.rewardPeriodIssued \in [PeriodNumber -> Nat]
      BY <1>1 DEF Books
    <3>2. \A p \in PeriodNumber :
            issued[p] = IF p = PeriodOf(b) THEN b.rewardPeriodIssued[p] + g.amount
                                           ELSE b.rewardPeriodIssued[p]
      BY <3>1
    <3>3. \A p \in PeriodNumber : issued[p] \in Nat
      BY <3>1, <3>2, <1>3
    <3> QED
      BY <3>1, <3>3
  <2>2. Spent(b, g) = [b EXCEPT !.rewardIdUsed = @ \cup {g.rewardId},
                                !.rewardNonceUsed = @ \cup {<<g.recipient, g.nonce>>},
                                !.rewardPeriodIssued = issued]
    BY DEF Spent
  <2>3. b.rewardIdUsed \cup {g.rewardId} \in SUBSET RewardId
    BY <1>1, <1>3 DEF Books
  <2>4. b.rewardNonceUsed \cup {<<g.recipient, g.nonce>>} \in SUBSET (Grantee \X Nonce)
    <3>1. b.rewardNonceUsed \in SUBSET (Grantee \X Nonce)
      BY <1>1 DEF Books
    <3> QED
      BY <3>1, <1>3
  <2> DEFINE ids == b.rewardIdUsed \cup {g.rewardId}
             nonces == b.rewardNonceUsed \cup {<<g.recipient, g.nonce>>}
  <2>5. Spent(b, g) = [b EXCEPT !.rewardIdUsed = ids, !.rewardNonceUsed = nonces,
                                !.rewardPeriodIssued = issued]
    BY <2>2
  <2>6. ids \in SUBSET RewardId /\ nonces \in SUBSET (Grantee \X Nonce)
    BY <2>3, <2>4
  <2> HIDE DEF issued, ids, nonces
  <2> QED
    BY <1>1, <2>1, <2>5, <2>6 DEF Books
<1>7. \A e \in Distributor : books'[e] = IF e = d THEN Spent(b, g) ELSE books[e]
  BY <1>1, <1>2
<1>8. paid \in [grant : Grant, at : Nat, period : Nat] /\ paid.grant = g
  BY <1>1, <1>4
<1> HIDE DEF b, paid
<1>9. /\ DOMAIN payments' = 1 .. Len(payments) + 1
      /\ DOMAIN payments = 1 .. Len(payments)
      /\ Len(payments) \in Nat
      /\ payments'[Len(payments) + 1] = paid
      /\ \A i \in DOMAIN payments : payments'[i] = payments[i]
  BY <1>1, <1>2, <1>8
<1>10. RewardTypeOK'
  <2>1. books' \in [Distributor -> Books]
    BY <1>1, <1>2, <1>6
  <2>2. payments' \in Seq([grant : Grant, at : Nat, period : Nat])
    BY <1>1, <1>2, <1>8
  <2>3. minted' \in [Grantee -> Nat]
    BY <1>1, <1>2, <1>3
  <2> QED
    BY <1>2, <2>1, <2>2, <2>3 DEF RewardInv, RewardTypeOK
<1>11. IssuerHasPeriod'
  BY <1>5, <1>7 DEF RewardInv, IssuerHasPeriod, b
<1>12. PaymentsBooked'
  <2> SUFFICES ASSUME NEW i \in DOMAIN payments'
               PROVE  LET h == payments'[i].grant IN
                      /\ h.contract \in Distributor
                      /\ h.rewardId \in books'[h.contract].rewardIdUsed
                      /\ <<h.recipient, h.nonce>> \in books'[h.contract].rewardNonceUsed
    BY DEF PaymentsBooked
  <2>1. CASE i = Len(payments) + 1
    BY <2>1, <1>2, <1>5, <1>7, <1>8, <1>9
  <2>2. CASE i \in DOMAIN payments
    <3> DEFINE h == payments[i].grant
    <3>1. payments'[i].grant = h
      BY <2>2, <1>9
    <3>2. /\ h.contract \in Distributor
          /\ h.rewardId \in books[h.contract].rewardIdUsed
          /\ <<h.recipient, h.nonce>> \in books[h.contract].rewardNonceUsed
      BY <2>2 DEF RewardInv, PaymentsBooked
    <3> HIDE DEF h
    <3> QED
      BY <3>1, <3>2, <1>5, <1>7 DEF b
  <2> QED
    BY <2>1, <2>2, <1>9
<1>13. \A i \in DOMAIN payments :
         LET h == payments[i].grant IN
         h.contract = d =>
           g.rewardId # h.rewardId /\ <<g.recipient, g.nonce>> # <<h.recipient, h.nonce>>
  BY <1>2 DEF RewardInv, PaymentsBooked, Fresh, b
<1>14. GrantPaidOnce'
  <2> SUFFICES ASSUME NEW i \in DOMAIN payments', NEW j \in DOMAIN payments', i # j,
                      payments'[i].grant.contract = payments'[j].grant.contract
               PROVE  /\ payments'[i].grant.rewardId # payments'[j].grant.rewardId
                      /\ <<payments'[i].grant.recipient, payments'[i].grant.nonce>>
                           # <<payments'[j].grant.recipient, payments'[j].grant.nonce>>
    BY DEF GrantPaidOnce
  <2>1. CASE i \in DOMAIN payments /\ j \in DOMAIN payments
    BY <2>1, <1>9 DEF RewardInv, GrantPaidOnce
  <2>2. CASE i = Len(payments) + 1 /\ j \in DOMAIN payments
    BY <2>2, <1>2, <1>8, <1>9, <1>13
  <2>3. CASE j = Len(payments) + 1 /\ i \in DOMAIN payments
    BY <2>3, <1>2, <1>8, <1>9, <1>13
  <2> QED
    BY <2>1, <2>2, <2>3, <1>9
<1> QED
  BY <1>10, <1>11, <1>12, <1>14 DEF RewardInv

\* Every step keeps the invariant.
LEMMA NextInv == RewardInv /\ [RewardNext]_rewardVars => RewardInv'
<1> SUFFICES ASSUME RewardInv, [RewardNext]_rewardVars PROVE RewardInv'
  OBVIOUS
<1>1. blockTime \in PeriodNumber /\ distributor \in Distributor \cup {NoDistributor}
  BY DEF RewardInv, RewardTypeOK
<1>2. CASE UNCHANGED rewardVars
  BY <1>1, <1>2, OtherSteps DEF rewardVars
<1>3. CASE NextBlock
  <2>1. blockTime' \in PeriodNumber
    BY <1>1, <1>3, RewardAssumption DEF NextBlock, PeriodNumber
  <2> QED
    BY <1>1, <1>3, <2>1, OtherSteps DEF NextBlock
<1>4. CASE Governance
  BY <1>4, GovernanceKeeps
<1>5. ASSUME NEW d \in Distributor, NEW g \in UNION {Signed[i] : i \in Issuer}, Claim(d, g)
      PROVE  RewardInv'
  <2>1. g \in Grant
    BY RewardAssumption
  <2> QED
    BY <2>1, <1>5, ClaimKeeps
<1> QED
  BY <1>2, <1>3, <1>4, <1>5 DEF RewardNext

\* The types and the books' record of every payment hold in every state.
THEOREM RewardInvariance == RewardSpec => []RewardInv
BY InitInv, NextInv, PTL DEF RewardSpec

\* A distributor pays no reward id twice, and no nonce of a recipient twice,
\* whatever governance does between two claims.
THEOREM GrantsPaidOnce == RewardSpec => []GrantPaidOnce
<1>1. RewardInv => GrantPaidOnce
  BY DEF RewardInv
<1> QED
  BY <1>1, RewardInvariance, PTL

----------------------------------------------------------------------------
(* The cap of a period, and the books as sums of payments. *)

Amounts == [i \in DOMAIN payments |-> payments[i].grant.amount]

\* The payments are finitely many, and each is of a natural amount.
LEMMA PaymentsTyped ==
  ASSUME RewardTypeOK
  PROVE  /\ Len(payments) \in Nat /\ DOMAIN payments = 1 .. Len(payments)
         /\ IsFiniteSet(DOMAIN payments)
         /\ \A i \in DOMAIN payments : payments[i].grant \in Grant /\ Amounts[i] \in Nat
         /\ \A S \in SUBSET DOMAIN payments : IsFiniteSet(S) /\ PaidIn(S) \in Nat
<1>1. /\ Len(payments) \in Nat /\ DOMAIN payments = 1 .. Len(payments)
      /\ \A i \in DOMAIN payments : payments[i] \in [grant : Grant, at : Nat, period : Nat]
  <2> DEFINE R == [grant : Grant, at : Nat, period : Nat]
  <2>1. payments \in Seq(R)
    BY DEF RewardTypeOK
  <2> HIDE DEF R
  <2>2. /\ Len(payments) \in Nat /\ DOMAIN payments = 1 .. Len(payments)
        /\ \A i \in DOMAIN payments : payments[i] \in R
    BY <2>1
  <2> QED
    BY <2>2 DEF R
<1>2. IsFiniteSet(DOMAIN payments)
  BY <1>1, FS_Interval
<1>3. \A i \in DOMAIN payments : payments[i].grant \in Grant /\ Amounts[i] \in Nat
  BY <1>1 DEF Grant, Amounts
<1>4. \A S \in SUBSET DOMAIN payments : SumFunctionOnSet(Amounts, S) \in Nat
  BY <1>2, <1>3, SumNat
<1>5. \A S \in SUBSET DOMAIN payments : IsFiniteSet(S)
  BY <1>2, FS_Subset
<1> QED
  BY <1>1, <1>2, <1>3, <1>4, <1>5 DEF PaidIn, Amounts

\* A new payment adds its amount to the sums it belongs to.
LEMMA PaidAppended ==
  ASSUME RewardTypeOK, NEW e \in [grant : Grant, at : Nat, period : Nat],
         payments' = Append(payments, e),
         NEW S \in SUBSET DOMAIN payments, NEW T, T \in {S, S \cup {Len(payments) + 1}}
  PROVE  PaidIn(T)' = PaidIn(S) + (IF T = S THEN 0 ELSE e.grant.amount)
<1> DEFINE n == Len(payments) + 1
           f == [i \in DOMAIN payments' |-> payments'[i].grant.amount]
<1>1. /\ DOMAIN payments = 1 .. Len(payments) /\ Len(payments) \in Nat /\ IsFiniteSet(S)
      /\ \A i \in DOMAIN payments : Amounts[i] \in Nat
  BY PaymentsTyped
<1>2. /\ DOMAIN payments' = 1 .. n /\ payments'[n] = e
      /\ \A i \in DOMAIN payments : payments'[i] = payments[i]
  BY <1>1 DEF RewardTypeOK
<1>3. n \notin S /\ n \in DOMAIN payments' /\ e.grant.amount \in Nat
  BY <1>1, <1>2 DEF Grant
<1>4. f[n] = e.grant.amount /\ \A i \in S : f[i] = Amounts[i] /\ f[i] \in Nat
  BY <1>1, <1>2, <1>3 DEF Amounts
<1>5. PaidIn(T)' = SumFunctionOnSet(f, T)
  BY DEF PaidIn
<1>6. PaidIn(S) = SumFunctionOnSet(Amounts, S) /\ PaidIn(S) \in Nat
  BY PaymentsTyped DEF PaidIn, Amounts
<1> HIDE DEF f
<1>7. SumFunctionOnSet(f, S) = SumFunctionOnSet(Amounts, S)
  BY <1>1, <1>4, SumSame
<1>8. CASE T = S
  BY <1>5, <1>6, <1>7, <1>8
<1>9. CASE T # S
  <2>1. T = S \cup {n} /\ T \ {n} = S /\ n \in T
    BY <1>3, <1>9
  <2>2. IsFiniteSet(T)
    BY <1>1, <2>1, FS_AddElement
  <2>3. \A i \in T : f[i] \in Int
    BY <1>3, <1>4, <2>1
  <2> HIDE DEF n
  <2>4. SumFunctionOnSet(f, T) = f[n] + SumFunctionOnSet(f, T \ {n})
    BY <2>1, <2>2, <2>3, SumRemove
  <2>5. SumFunctionOnSet(f, T) = e.grant.amount + PaidIn(S)
    BY <1>4, <1>6, <1>7, <2>1, <2>4
  <2> QED
    BY <1>3, <1>5, <1>6, <1>9, <2>5
<1> QED
  BY <1>8, <1>9

\* A quotient does not exceed its dividend.
LEMMA QuotientSmaller ==
  ASSUME NEW n \in Nat, NEW k \in Nat, k > 0
  PROVE  n \div k <= n
<1> DEFINE q == n \div k
<1>1. q \in Nat /\ q * k <= n
  OBVIOUS
<1> HIDE DEF q
<1>2. q * (k - 1) \in Nat /\ q * (k - 1) = q * k - q
  BY <1>1
<1>3. q <= n
  BY <1>1, <1>2
<1> QED
  BY <1>3 DEF q

\* Since the configuration in force, no more than the cap was paid in a period,
\* and no more than the books of that period say.
CapKept ==
  /\ \A d \in Distributor : sinceConfig[d] <= Len(payments)
  /\ \A d \in Distributor, p \in PeriodNumber :
       books[d].periodSeconds > 0 =>
         /\ PaidIn(PaidSinceConfig(d, p)) <= books[d].periodCap
         /\ PaidIn(PaidSinceConfig(d, p)) <= books[d].rewardPeriodIssued[p]

\* What a claim does, as far as payments and books go.
LEMMA ClaimEffect ==
  ASSUME RewardInv, NEW d \in Distributor, NEW g \in Grant, Claim(d, g)
  PROVE  LET P == PeriodOf(books[d])
             n == Len(payments) + 1
             e == [grant |-> g, at |-> blockTime, period |-> P]
         IN  /\ e \in [grant : Grant, at : Nat, period : Nat]
             /\ payments' = Append(payments, e)
             /\ P \in PeriodNumber /\ g.contract = d /\ n \in Nat \ {0}
             /\ books[d].periodSeconds \in Nat \ {0}
             /\ blockTime \div books[d].periodSeconds = P
             /\ books[d].rewardPeriodIssued[P] + g.amount <= books[d].periodCap
             /\ \A c \in Distributor : c # d => books'[c] = books[c]
             /\ books'[d].periodSeconds = books[d].periodSeconds
             /\ books'[d].periodCap = books[d].periodCap
             /\ books'[d].rewardIdUsed = books[d].rewardIdUsed \cup {g.rewardId}
             /\ books'[d].rewardNonceUsed = books[d].rewardNonceUsed \cup {<<g.recipient, g.nonce>>}
             /\ books'[d].rewardPeriodIssued =
                  [books[d].rewardPeriodIssued EXCEPT ![P] = @ + g.amount]
             /\ minted' = [minted EXCEPT ![g.recipient] = @ + g.amount]
             /\ DOMAIN payments = 1 .. n - 1 /\ DOMAIN payments' = 1 .. n
             /\ payments'[n] = e /\ \A i \in DOMAIN payments : payments'[i] = payments[i]
             /\ UNCHANGED sinceConfig
<1> DEFINE b == books[d]
           P == PeriodOf(b)
           n == Len(payments) + 1
           e == [grant |-> g, at |-> blockTime, period |-> P]
<1>1. /\ books \in [Distributor -> Books] /\ b \in Books
      /\ payments \in Seq([grant : Grant, at : Nat, period : Nat])
      /\ blockTime \in Nat /\ blockTime <= MaxTime
  BY RewardAssumption DEF RewardInv, RewardTypeOK, PeriodNumber
<1>2. b.periodSeconds \in Nat \ {0}
  BY <1>1 DEF Claim, Authorized, RewardInv, IssuerHasPeriod, Books
<1>3. P \in Nat /\ P <= blockTime
  <2>1. P = blockTime \div b.periodSeconds
    BY DEF PeriodOf
  <2> HIDE DEF P, b
  <2>2. b.periodSeconds \in Nat /\ b.periodSeconds > 0 /\ blockTime \in Nat
    BY <1>1, <1>2
  <2> QED
    BY <2>1, <2>2, QuotientNat, QuotientSmaller
<1>4. P \in PeriodNumber
  BY <1>1, <1>3, RewardAssumption DEF PeriodNumber
<1>5. e \in [grant : Grant, at : Nat, period : Nat]
  BY <1>1, <1>3
<1>6. payments' = Append(payments, e) /\ books' = [books EXCEPT ![d] = Spent(b, g)]
      /\ minted' = [minted EXCEPT ![g.recipient] = @ + g.amount]
      /\ g.contract = d /\ UNCHANGED sinceConfig
      /\ b.rewardPeriodIssued[P] + g.amount <= b.periodCap
  BY DEF Claim, FitsPeriod
<1> HIDE DEF e
<1>7. /\ n \in Nat \ {0} /\ DOMAIN payments = 1 .. n - 1 /\ DOMAIN payments' = 1 .. n
      /\ payments'[n] = e /\ \A i \in DOMAIN payments : payments'[i] = payments[i]
  BY <1>1, <1>5, <1>6
<1>8. books'[d] = Spent(b, g) /\ \A c \in Distributor : c # d => books'[c] = books[c]
  BY <1>1, <1>6
<1> DEFINE ids == b.rewardIdUsed \cup {g.rewardId}
           nonces == b.rewardNonceUsed \cup {<<g.recipient, g.nonce>>}
           issued == [b.rewardPeriodIssued EXCEPT ![P] = b.rewardPeriodIssued[P] + g.amount]
<1>9. Spent(b, g) = [b EXCEPT !.rewardIdUsed = ids, !.rewardNonceUsed = nonces,
                              !.rewardPeriodIssued = issued]
  BY <1>1 DEF Spent, Books
<1>10. /\ Spent(b, g).periodSeconds = b.periodSeconds /\ Spent(b, g).periodCap = b.periodCap
       /\ Spent(b, g).rewardIdUsed = ids /\ Spent(b, g).rewardNonceUsed = nonces
       /\ Spent(b, g).rewardPeriodIssued = issued
  <2> HIDE DEF ids, nonces, issued, b
  <2> QED
    BY <1>1, <1>9 DEF Books
<1> QED
  BY <1>2, <1>3, <1>4, <1>5, <1>6, <1>7, <1>8, <1>10 DEF e, PeriodOf

LEMMA ClaimKeepsCap ==
  ASSUME RewardInv, CapKept, NEW d \in Distributor, NEW g \in Grant, Claim(d, g)
  PROVE  CapKept'
<1> DEFINE P == PeriodOf(books[d])
           n == Len(payments) + 1
           e == [grant |-> g, at |-> blockTime, period |-> P]
<1>1. /\ e \in [grant : Grant, at : Nat, period : Nat]
      /\ payments' = Append(payments, e)
      /\ P \in PeriodNumber /\ g.contract = d /\ n \in Nat \ {0}
      /\ books[d].periodSeconds \in Nat \ {0}
      /\ blockTime \div books[d].periodSeconds = P
      /\ books[d].rewardPeriodIssued[P] + g.amount <= books[d].periodCap
  BY ClaimEffect
<1>2. /\ \A c \in Distributor : c # d => books'[c] = books[c]
      /\ books'[d].periodSeconds = books[d].periodSeconds
      /\ books'[d].periodCap = books[d].periodCap
      /\ books'[d].rewardPeriodIssued = [books[d].rewardPeriodIssued EXCEPT ![P] = @ + g.amount]
      /\ DOMAIN payments = 1 .. n - 1 /\ DOMAIN payments' = 1 .. n
      /\ payments'[n] = e /\ \A i \in DOMAIN payments : payments'[i] = payments[i]
      /\ UNCHANGED sinceConfig
  BY ClaimEffect
<1>3. e.grant = g /\ e.at = blockTime
  OBVIOUS
<1>4. g.amount \in Nat
  BY DEF Grant
<1>5. RewardTypeOK /\ \A c \in Distributor : sinceConfig[c] \in Nat /\ books[c] \in Books
  BY DEF RewardInv, RewardTypeOK
<1>6. Len(payments) = n - 1 /\ Len(payments') = n
  <2>1. Len(payments) \in Nat
    BY <1>5, PaymentsTyped
  <2>2. payments \in Seq([grant : Grant, at : Nat, period : Nat])
    BY <1>5 DEF RewardTypeOK
  <2> DEFINE R == [grant : Grant, at : Nat, period : Nat]
  <2> HIDE DEF R, e
  <2>3. Len(payments') = Len(payments) + 1
    BY <1>1, <2>2 DEF R
  <2> QED
    BY <2>1, <2>3
<1> HIDE DEF P, e
<1>7. \A c \in Distributor : sinceConfig[c] <= n - 1 /\ sinceConfig'[c] <= n
  BY <1>1, <1>2, <1>5, <1>6 DEF CapKept
<1>8. ASSUME NEW c \in Distributor, NEW p \in PeriodNumber, books'[c].periodSeconds > 0
      PROVE  /\ PaidIn(PaidSinceConfig(c, p))' <= books'[c].periodCap
             /\ PaidIn(PaidSinceConfig(c, p))' <= books'[c].rewardPeriodIssued[p]
  <2>1. PICK S : S = PaidSinceConfig(c, p)
    OBVIOUS
  <2>0. PICK T : T = IF c = d /\ p = P THEN S \cup {n} ELSE S
    OBVIOUS
  <2>2. S \in SUBSET DOMAIN payments /\ n \notin S
    BY <1>1, <1>2, <2>1 DEF PaidSinceConfig, PaidBy
  <2>3. /\ books'[c].periodSeconds = books[c].periodSeconds
        /\ books'[c].periodCap = books[c].periodCap
    BY <1>2
  <2>4. PaidSinceConfig(c, p)' = T
    <3>1. \A i \in DOMAIN payments : i \in PaidSinceConfig(c, p)' <=> i \in S
      BY <1>1, <1>2, <2>1, <2>3 DEF PaidSinceConfig, PaidBy
    <3>2. n \in PaidSinceConfig(c, p)' <=> c = d /\ p = P
      <4>1. payments'[n].grant.contract = d /\ payments'[n].at = blockTime
        BY <1>1, <1>2, <1>3
      <4>2. n \in DOMAIN payments' /\ n > sinceConfig'[c]
        BY <1>1, <1>2, <1>5, <1>7
      <4> QED
        BY <1>1, <2>3, <4>1, <4>2 DEF PaidSinceConfig, PaidBy
    <3>3. PaidSinceConfig(c, p)' \subseteq DOMAIN payments \cup {n}
      BY <1>1, <1>2 DEF PaidSinceConfig, PaidBy
    <3>4. PICK X : X = PaidSinceConfig(c, p)'
      OBVIOUS
    <3>5. \A i \in X : i \in DOMAIN payments \/ i = n
      BY <3>3, <3>4
    <3>6. \A i : i \in X <=> i \in T
      BY <2>0, <2>2, <3>1, <3>2, <3>4, <3>5
    <3>7. X = T
      BY <3>6
    <3> QED
      BY <3>4, <3>7
  <2>5. PaidIn(T)' = PaidIn(S) + (IF T = S THEN 0 ELSE g.amount)
    <3>1. T \in {S, S \cup {n}}
      BY <2>0
    <3> QED
      BY <1>1, <1>3, <1>5, <2>2, <3>1, PaidAppended
  <2>6. PaidIn(PaidSinceConfig(c, p))' = PaidIn(T)'
    BY <2>4 DEF PaidIn
  <2>7. /\ PaidIn(S) <= books[c].periodCap /\ PaidIn(S) <= books[c].rewardPeriodIssued[p]
        /\ PaidIn(S) \in Nat
    BY <1>5, <1>8, <2>1, <2>2, <2>3, PaymentsTyped DEF CapKept
  <2>8. books[c].periodCap \in Nat /\ books[c].rewardPeriodIssued \in [PeriodNumber -> Nat]
    BY <1>5 DEF Books
  <2>9. CASE c = d /\ p = P
    <3>1. T # S
      BY <2>0, <2>2, <2>9
    <3>2. books'[c].rewardPeriodIssued[p] = books[c].rewardPeriodIssued[p] + g.amount
      BY <1>1, <1>2, <2>8, <2>9
    <3>3. books[c].rewardPeriodIssued[p] + g.amount <= books[c].periodCap
      BY <1>1, <2>9
    <3>4. books[c].rewardPeriodIssued[p] \in Nat
      BY <2>8
    <3>5. PaidIn(PaidSinceConfig(c, p))' = PaidIn(S) + g.amount
      BY <2>5, <2>6, <3>1
    <3> QED
      BY <1>4, <2>3, <2>7, <2>8, <3>2, <3>3, <3>4, <3>5
  <2>10. CASE ~ (c = d /\ p = P)
    <3>1. T = S
      BY <2>0, <2>10
    <3>2. books'[c].rewardPeriodIssued[p] = books[c].rewardPeriodIssued[p]
      BY <1>1, <1>2, <2>8, <2>10
    <3>3. PaidIn(PaidSinceConfig(c, p))' = PaidIn(S)
      BY <2>5, <2>6, <2>7, <3>1
    <3> QED
      BY <2>3, <2>7, <3>2, <3>3
  <2> QED
    BY <2>9, <2>10
<1> QED
  BY <1>6, <1>7, <1>8 DEF CapKept

\* A configuration starts counting anew; other books keep length, cap and issue.
LEMMA ReconfiguredCap ==
  ASSUME RewardInv, CapKept, Governance \/ NextBlock \/ UNCHANGED rewardVars
  PROVE  CapKept'
<1>1. /\ books \in [Distributor -> Books] /\ sinceConfig \in [Distributor -> Nat]
      /\ RewardTypeOK /\ Len(payments) \in Nat /\ DOMAIN payments = 1 .. Len(payments)
  BY PaymentsTyped DEF RewardInv, RewardTypeOK
<1>2. UNCHANGED payments
  BY DEF Governance, NextBlock, rewardVars, ConfigureIssuer, SetClaimsPaused, RevokeIssuer,
         ConfigureRewardDistributor
<1>3. ASSUME NEW c \in Distributor
      PROVE  \/ /\ sinceConfig'[c] = sinceConfig[c]
                /\ books'[c].periodSeconds = books[c].periodSeconds
                /\ books'[c].periodCap = books[c].periodCap
                /\ books'[c].rewardPeriodIssued = books[c].rewardPeriodIssued
             \/ /\ sinceConfig'[c] = Len(payments)
                /\ books'[c].periodCap \in Nat
                /\ books'[c].rewardPeriodIssued \in [PeriodNumber -> Nat]
  <2>1. ASSUME NEW d \in Distributor, NEW f \in TriedConfigs[d], ConfigureIssuer(d, f)
        PROVE  \/ books'[c] = books[c] /\ sinceConfig'[c] = sinceConfig[c]
               \/ /\ sinceConfig'[c] = Len(payments)
                  /\ books'[c].periodCap \in Nat
                  /\ books'[c].rewardPeriodIssued \in [PeriodNumber -> Nat]
    <3>1. f \in Config
      BY RewardAssumption
    <3> DEFINE b == [books[d] EXCEPT !.issuer = f.issuer, !.perClaimCap = f.perClaimCap,
                                     !.periodCap = f.periodCap, !.periodSeconds = f.periodSeconds]
    <3>2. books' = [books EXCEPT ![d] = b]
          /\ sinceConfig' = [sinceConfig EXCEPT ![d] = Len(payments)]
      BY <1>1, <2>1 DEF ConfigureIssuer, Books
    <3>3. b.periodCap = f.periodCap /\ b.rewardPeriodIssued = books[d].rewardPeriodIssued
      BY <1>1 DEF Books
    <3> HIDE DEF b
    <3>4. f.periodCap \in Nat /\ books[d].rewardPeriodIssued \in [PeriodNumber -> Nat]
      BY <1>1, <3>1 DEF Config, Books
    <3> QED
      BY <1>1, <3>2, <3>3, <3>4
  <2>2. ASSUME NEW d \in Distributor,
               RevokeIssuer(d) \/ \E paused \in BOOLEAN : SetClaimsPaused(d, paused)
        PROVE  /\ sinceConfig'[c] = sinceConfig[c]
               /\ books'[c].periodSeconds = books[c].periodSeconds
               /\ books'[c].periodCap = books[c].periodCap
               /\ books'[c].rewardPeriodIssued = books[c].rewardPeriodIssued
    <3>1. PICK i, x : books' = [books EXCEPT ![d] =
                                 [books[d] EXCEPT !.issuer = i, !.claimsPaused = x]]
      <4>1. ASSUME NEW paused \in BOOLEAN, SetClaimsPaused(d, paused)
            PROVE  books' = [books EXCEPT ![d] =
                         [books[d] EXCEPT !.issuer = books[d].issuer, !.claimsPaused = paused]]
        BY <1>1, <4>1 DEF SetClaimsPaused, Books
      <4>2. ASSUME RevokeIssuer(d)
            PROVE  books' = [books EXCEPT ![d] =
                         [books[d] EXCEPT !.issuer = NoIssuer, !.claimsPaused = TRUE]]
        BY <1>1, <4>2 DEF RevokeIssuer, Books
      <4> QED
        BY <2>2, <4>1, <4>2
    <3>2. UNCHANGED sinceConfig
      BY <2>2 DEF RevokeIssuer, SetClaimsPaused
    <3> DEFINE b == [books[d] EXCEPT !.issuer = i, !.claimsPaused = x]
    <3>3. /\ b.periodSeconds = books[d].periodSeconds /\ b.periodCap = books[d].periodCap
          /\ b.rewardPeriodIssued = books[d].rewardPeriodIssued
      BY <1>1 DEF Books
    <3> QED
      BY <1>1, <3>1, <3>2, <3>3
  <2>3. CASE UNCHANGED <<books, sinceConfig>>
    BY <2>3
  <2>4. NextBlock \/ UNCHANGED rewardVars
          \/ (\E d \in Distributor \cup {NoDistributor} : ConfigureRewardDistributor(d))
        => UNCHANGED <<books, sinceConfig>>
    BY DEF NextBlock, rewardVars, ConfigureRewardDistributor
  <2> QED
    BY <2>1, <2>2, <2>3, <2>4 DEF Governance
<1>4. ASSUME NEW c \in Distributor, NEW p \in PeriodNumber, books'[c].periodSeconds > 0
      PROVE  /\ PaidIn(PaidSinceConfig(c, p))' <= books'[c].periodCap
             /\ PaidIn(PaidSinceConfig(c, p))' <= books'[c].rewardPeriodIssued[p]
  <2>1. PICK S : S = PaidSinceConfig(c, p)'
    OBVIOUS
  <2>2. PaidIn(PaidSinceConfig(c, p))' = PaidIn(S)
    BY <1>2, <2>1 DEF PaidIn
  <2>3. CASE /\ sinceConfig'[c] = sinceConfig[c]
             /\ books'[c].periodSeconds = books[c].periodSeconds
             /\ books'[c].periodCap = books[c].periodCap
             /\ books'[c].rewardPeriodIssued = books[c].rewardPeriodIssued
    <3>1. S = PaidSinceConfig(c, p)
      BY <1>2, <2>1, <2>3 DEF PaidSinceConfig, PaidBy
    <3>2. /\ PaidIn(PaidSinceConfig(c, p)) <= books[c].periodCap
          /\ PaidIn(PaidSinceConfig(c, p)) <= books[c].rewardPeriodIssued[p]
      BY <1>4, <2>3 DEF CapKept
    <3> QED
      BY <2>2, <2>3, <3>1, <3>2
  <2>4. CASE /\ sinceConfig'[c] = Len(payments)
             /\ books'[c].periodCap \in Nat
             /\ books'[c].rewardPeriodIssued \in [PeriodNumber -> Nat]
    <3>1. S = {}
      BY <1>1, <1>2, <2>1, <2>4 DEF PaidSinceConfig, PaidBy
    <3>2. PaidIn(S) = 0
      BY <3>1, SumEmpty DEF PaidIn
    <3>3. books'[c].rewardPeriodIssued[p] \in Nat
      BY <2>4
    <3> QED
      BY <2>2, <2>4, <3>2, <3>3
  <2> QED
    BY <1>3, <2>3, <2>4
<1>5. \A c \in Distributor : sinceConfig'[c] <= Len(payments')
  BY <1>1, <1>2, <1>3 DEF CapKept
<1> QED
  BY <1>4, <1>5 DEF CapKept

\* "Hard issuance caps": what a distributor pays in a period of the configured
\* length, counted by the clock, stays within the cap for any grants, any
\* configurations and any pauses, revocations and replacements between.
THEOREM CapsHold == RewardSpec => []HardCap
<1>1. RewardInit => CapKept
  <2> SUFFICES ASSUME RewardInit PROVE CapKept
    OBVIOUS
  <2>1. Len(payments) = 0 /\ \A d \in Distributor : sinceConfig[d] = 0
                          /\ books[d].periodSeconds = 0
    BY DEF RewardInit, NewBooks
  <2> QED
    BY <2>1 DEF CapKept
<1>2. RewardInv /\ CapKept /\ [RewardNext]_rewardVars => CapKept'
  <2> SUFFICES ASSUME RewardInv, CapKept, [RewardNext]_rewardVars PROVE CapKept'
    OBVIOUS
  <2>1. ASSUME NEW d \in Distributor, NEW g \in UNION {Signed[i] : i \in Issuer}, Claim(d, g)
        PROVE  CapKept'
    <3>1. g \in Grant
      BY RewardAssumption
    <3> QED
      BY <2>1, <3>1, ClaimKeepsCap
  <2> QED
    BY <2>1, ReconfiguredCap DEF RewardNext
<1>3. CapKept => HardCap
  BY DEF CapKept, HardCap
<1> QED
  BY <1>1, <1>2, <1>3, RewardInvariance, PTL DEF RewardSpec

LEMMA ClaimKeepsBooks ==
  ASSUME RewardInv, BooksMatchPayments, NEW d \in Distributor, NEW g \in Grant, Claim(d, g)
  PROVE  BooksMatchPayments'
<1> DEFINE P == PeriodOf(books[d])
           n == Len(payments) + 1
           e == [grant |-> g, at |-> blockTime, period |-> P]
<1>1. /\ e \in [grant : Grant, at : Nat, period : Nat]
      /\ payments' = Append(payments, e)
      /\ P \in PeriodNumber /\ g.contract = d /\ n \in Nat \ {0}
      /\ \A c \in Distributor : c # d => books'[c] = books[c]
      /\ books'[d].rewardIdUsed = books[d].rewardIdUsed \cup {g.rewardId}
      /\ books'[d].rewardNonceUsed = books[d].rewardNonceUsed \cup {<<g.recipient, g.nonce>>}
      /\ books'[d].rewardPeriodIssued = [books[d].rewardPeriodIssued EXCEPT ![P] = @ + g.amount]
      /\ minted' = [minted EXCEPT ![g.recipient] = @ + g.amount]
      /\ DOMAIN payments = 1 .. n - 1 /\ DOMAIN payments' = 1 .. n
      /\ payments'[n] = e /\ \A i \in DOMAIN payments : payments'[i] = payments[i]
  BY ClaimEffect
<1>2. e.grant = g /\ e.period = P
  OBVIOUS
<1>3. RewardTypeOK /\ \A c \in Distributor : books[c] \in Books
  BY DEF RewardInv, RewardTypeOK
<1>4. g.amount \in Nat /\ g.recipient \in Grantee
  BY DEF Grant
<1> HIDE DEF P, e
<1>5. DOMAIN payments' = DOMAIN payments \cup {n} /\ n \notin DOMAIN payments
  BY <1>1
<1>6. ASSUME NEW r \in Grantee
      PROVE  minted'[r] = PaidIn(PaidTo(r))'
  <2>1. PICK S : S = PaidTo(r)
    OBVIOUS
  <2>2. PICK T : T = IF r = g.recipient THEN S \cup {n} ELSE S
    OBVIOUS
  <2>3. S \in SUBSET DOMAIN payments /\ n \notin S /\ T \in {S, S \cup {n}}
    BY <1>5, <2>1, <2>2 DEF PaidTo
  <2>4. PaidTo(r)' = T
    <3>1. PICK X : X = PaidTo(r)'
      OBVIOUS
    <3>2. X = {i \in DOMAIN payments' : payments'[i].grant.recipient = r}
      BY <3>1 DEF PaidTo
    <3>3. \A i \in DOMAIN payments : i \in X <=> i \in S
      BY <1>1, <1>5, <2>1, <3>2 DEF PaidTo
    <3>4. n \in X <=> r = g.recipient
      BY <1>1, <1>2, <1>5, <3>2
    <3>5. \A i : i \in X <=> i \in T
      BY <1>5, <2>2, <2>3, <3>2, <3>3, <3>4
    <3>6. X = T
      BY <3>5
    <3> QED
      BY <3>1, <3>6
  <2>5. PaidIn(T)' = PaidIn(S) + (IF T = S THEN 0 ELSE g.amount)
    BY <1>1, <1>2, <1>3, <2>3, PaidAppended
  <2>6. PaidIn(PaidTo(r))' = PaidIn(T)'
    BY <2>4 DEF PaidIn
  <2>7. minted[r] = PaidIn(S) /\ minted \in [Grantee -> Nat] /\ minted[r] \in Nat
    BY <1>3, <2>1 DEF BooksMatchPayments, RewardTypeOK
  <2>8. CASE r = g.recipient
    <3>1. T # S
      BY <2>2, <2>3, <2>8
    <3>2. minted'[r] = minted[r] + g.amount
      BY <1>1, <2>7, <2>8
    <3> QED
      BY <2>5, <2>6, <2>7, <3>1, <3>2
  <2>9. CASE r # g.recipient
    <3>1. T = S
      BY <2>2, <2>9
    <3>2. minted'[r] = minted[r]
      BY <1>1, <2>7, <2>9
    <3> QED
      BY <2>5, <2>6, <2>7, <3>1, <3>2
  <2> QED
    BY <2>8, <2>9
<1>7. ASSUME NEW c \in Distributor
      PROVE  PaidBy(c)' = IF c = d THEN PaidBy(c) \cup {n} ELSE PaidBy(c)
  BY <1>1, <1>2, <1>5 DEF PaidBy
<1>8. ASSUME NEW c \in Distributor
      PROVE  /\ books'[c].rewardIdUsed = {payments'[i].grant.rewardId : i \in PaidBy(c)'}
             /\ books'[c].rewardNonceUsed =
                  {<<payments'[i].grant.recipient, payments'[i].grant.nonce>> : i \in PaidBy(c)'}
  <2>1. /\ books[c].rewardIdUsed = {payments[i].grant.rewardId : i \in PaidBy(c)}
        /\ books[c].rewardNonceUsed =
             {<<payments[i].grant.recipient, payments[i].grant.nonce>> : i \in PaidBy(c)}
    BY DEF BooksMatchPayments
  <2>2. \A i \in PaidBy(c) : payments'[i] = payments[i]
    BY <1>1 DEF PaidBy
  <2>3. CASE c = d
    <3>1. PaidBy(c)' = PaidBy(c) \cup {n} /\ payments'[n].grant = g
      BY <1>1, <1>2, <1>7, <2>3
    <3>2. PICK T : T = PaidBy(c)'
      OBVIOUS
    <3>3. {payments'[i].grant.rewardId : i \in T}
            = {payments[i].grant.rewardId : i \in PaidBy(c)} \cup {g.rewardId}
      BY <2>2, <3>1, <3>2
    <3>4. {<<payments'[i].grant.recipient, payments'[i].grant.nonce>> : i \in T}
            = {<<payments[i].grant.recipient, payments[i].grant.nonce>> : i \in PaidBy(c)}
                \cup {<<g.recipient, g.nonce>>}
      BY <2>2, <3>1, <3>2
    <3> QED
      BY <1>1, <2>1, <2>3, <3>2, <3>3, <3>4
  <2>4. CASE c # d
    <3>1. PICK T : T = PaidBy(c)' /\ T = PaidBy(c)
      BY <1>7, <2>4
    <3>2. {payments'[i].grant.rewardId : i \in T} = {payments[i].grant.rewardId : i \in T}
      BY <2>2, <3>1
    <3>3. {<<payments'[i].grant.recipient, payments'[i].grant.nonce>> : i \in T}
            = {<<payments[i].grant.recipient, payments[i].grant.nonce>> : i \in T}
      BY <2>2, <3>1
    <3> QED
      BY <1>1, <2>1, <2>4, <3>1, <3>2, <3>3
  <2> QED
    BY <2>3, <2>4
<1>9. ASSUME NEW c \in Distributor, NEW p \in PeriodNumber
      PROVE  books'[c].rewardPeriodIssued[p]
               = PaidIn({i \in PaidBy(c) : payments[i].period = p})'
  <2>1. PICK S : S = {i \in PaidBy(c) : payments[i].period = p}
    OBVIOUS
  <2>2. PICK T : T = IF c = d /\ p = P THEN S \cup {n} ELSE S
    OBVIOUS
  <2>3. S \in SUBSET DOMAIN payments /\ n \notin S /\ T \in {S, S \cup {n}}
    BY <1>5, <2>1, <2>2 DEF PaidBy
  <2>4. {i \in PaidBy(c) : payments[i].period = p}' = T
    <3>1. PICK X : X = {i \in PaidBy(c) : payments[i].period = p}'
      OBVIOUS
    <3>2. X = {i \in PaidBy(c)' : payments'[i].period = p}
      BY <3>1
    <3>3. \A i \in DOMAIN payments : i \in X <=> i \in S
      BY <1>1, <1>5, <1>7, <2>1, <3>2
    <3>4. n \in X <=> c = d /\ p = P
      <4>1. n \in PaidBy(c)' <=> c = d
        BY <1>5, <1>7 DEF PaidBy
      <4> QED
        BY <1>1, <1>2, <3>2, <4>1
    <3>5. \A i : i \in X <=> i \in T
      <4>1. \A i \in X : i \in DOMAIN payments \/ i = n
        BY <1>7, <3>2 DEF PaidBy
      <4> QED
        BY <2>2, <2>3, <3>3, <3>4, <4>1
    <3>6. X = T
      BY <3>5
    <3> QED
      BY <3>1, <3>6
  <2>5. PaidIn(T)' = PaidIn(S) + (IF T = S THEN 0 ELSE g.amount)
    BY <1>1, <1>2, <1>3, <2>3, PaidAppended
  <2>6. PaidIn({i \in PaidBy(c) : payments[i].period = p})' = PaidIn(T)'
    BY <2>4 DEF PaidIn
  <2>7. books[c].rewardPeriodIssued[p] = PaidIn(S) /\ books[c].rewardPeriodIssued[p] \in Nat
        /\ books[c].rewardPeriodIssued \in [PeriodNumber -> Nat]
    BY <1>3, <2>1 DEF BooksMatchPayments, Books
  <2>8. CASE c = d /\ p = P
    <3>1. T # S
      BY <2>2, <2>3, <2>8
    <3>2. books'[c].rewardPeriodIssued[p] = books[c].rewardPeriodIssued[p] + g.amount
      BY <1>1, <2>7, <2>8
    <3> QED
      BY <2>5, <2>6, <2>7, <3>1, <3>2
  <2>9. CASE ~ (c = d /\ p = P)
    <3>1. T = S
      BY <2>2, <2>9
    <3>2. books'[c].rewardPeriodIssued[p] = books[c].rewardPeriodIssued[p]
      BY <1>1, <1>3, <2>7, <2>9
    <3> QED
      BY <2>5, <2>6, <2>7, <3>1, <3>2
  <2> QED
    BY <2>8, <2>9
<1> QED
  BY <1>6, <1>8, <1>9 DEF BooksMatchPayments

LEMMA OtherStepsKeepBooks ==
  ASSUME RewardInv, BooksMatchPayments, Governance \/ NextBlock \/ UNCHANGED rewardVars
  PROVE  BooksMatchPayments'
<1>1. books \in [Distributor -> Books]
  BY DEF RewardInv, RewardTypeOK
<1>2. UNCHANGED <<payments, minted>>
  BY DEF Governance, NextBlock, rewardVars, ConfigureIssuer, SetClaimsPaused, RevokeIssuer,
         ConfigureRewardDistributor
<1>3. ASSUME NEW c \in Distributor
      PROVE  /\ books'[c].rewardIdUsed = books[c].rewardIdUsed
             /\ books'[c].rewardNonceUsed = books[c].rewardNonceUsed
             /\ books'[c].rewardPeriodIssued = books[c].rewardPeriodIssued
  <2> DEFINE Same == /\ books'[c].rewardIdUsed = books[c].rewardIdUsed
                     /\ books'[c].rewardNonceUsed = books[c].rewardNonceUsed
                     /\ books'[c].rewardPeriodIssued = books[c].rewardPeriodIssued
  <2>1. ASSUME NEW d \in Distributor, NEW b, books' = [books EXCEPT ![d] = b],
               b.rewardIdUsed = books[d].rewardIdUsed,
               b.rewardNonceUsed = books[d].rewardNonceUsed,
               b.rewardPeriodIssued = books[d].rewardPeriodIssued
        PROVE  Same
    BY <1>1, <2>1
  <2>2. ASSUME NEW d \in Distributor, NEW f \in TriedConfigs[d], ConfigureIssuer(d, f)
        PROVE  Same
    <3> DEFINE b == [books[d] EXCEPT !.issuer = f.issuer, !.perClaimCap = f.perClaimCap,
                                     !.periodCap = f.periodCap, !.periodSeconds = f.periodSeconds]
    <3>1. books' = [books EXCEPT ![d] = b]
      BY <1>1, <2>2 DEF ConfigureIssuer, Books
    <3>2. /\ b.rewardIdUsed = books[d].rewardIdUsed /\ b.rewardNonceUsed = books[d].rewardNonceUsed
          /\ b.rewardPeriodIssued = books[d].rewardPeriodIssued
      BY <1>1 DEF Books
    <3> HIDE DEF b, Same
    <3> QED
      BY <2>1, <3>1, <3>2
  <2>3. ASSUME NEW d \in Distributor, NEW paused \in BOOLEAN, SetClaimsPaused(d, paused)
        PROVE  Same
    <3> DEFINE b == [books[d] EXCEPT !.claimsPaused = paused]
    <3>1. books' = [books EXCEPT ![d] = b]
      BY <1>1, <2>3 DEF SetClaimsPaused, Books
    <3>2. /\ b.rewardIdUsed = books[d].rewardIdUsed /\ b.rewardNonceUsed = books[d].rewardNonceUsed
          /\ b.rewardPeriodIssued = books[d].rewardPeriodIssued
      BY <1>1 DEF Books
    <3> HIDE DEF b, Same
    <3> QED
      BY <2>1, <3>1, <3>2
  <2>4. ASSUME NEW d \in Distributor, RevokeIssuer(d)
        PROVE  Same
    <3> DEFINE b == [books[d] EXCEPT !.issuer = NoIssuer, !.claimsPaused = TRUE]
    <3>1. books' = [books EXCEPT ![d] = b]
      BY <1>1, <2>4 DEF RevokeIssuer, Books
    <3>2. /\ b.rewardIdUsed = books[d].rewardIdUsed /\ b.rewardNonceUsed = books[d].rewardNonceUsed
          /\ b.rewardPeriodIssued = books[d].rewardPeriodIssued
      BY <1>1 DEF Books
    <3> HIDE DEF b, Same
    <3> QED
      BY <2>1, <3>1, <3>2
  <2>5. NextBlock \/ UNCHANGED rewardVars
          \/ (\E d \in Distributor \cup {NoDistributor} : ConfigureRewardDistributor(d))
        => UNCHANGED books
    BY DEF NextBlock, rewardVars, ConfigureRewardDistributor
  <2>6. ASSUME UNCHANGED books PROVE Same
    BY <2>6
  <2> HIDE DEF Same
  <2>7. Same
    BY <2>2, <2>3, <2>4, <2>5, <2>6 DEF Governance
  <2> QED
    BY <2>7 DEF Same
<1> QED
  BY <1>2, <1>3 DEF BooksMatchPayments, PaidIn, PaidTo, PaidBy

\* The books say what was paid: a grant is used exactly when its CGOLD was
\* minted, a period's issue is the sum of its payments, and every recipient was
\* minted the sum of his.
THEOREM BooksMatch == RewardSpec => []BooksMatchPayments
<1>1. RewardInit => BooksMatchPayments
  <2> SUFFICES ASSUME RewardInit PROVE BooksMatchPayments
    OBVIOUS
  <2>1. payments = << >> /\ DOMAIN payments = {}
    BY DEF RewardInit
  <2>2. \A r : PaidTo(r) = {} /\ PaidBy(r) = {}
    BY <2>1 DEF PaidTo, PaidBy
  <2>3. PaidIn({}) = 0
    BY SumEmpty DEF PaidIn
  <2>4. \A r : PaidIn(PaidTo(r)) = 0
        /\ \A p : PaidIn({i \in PaidBy(r) : payments[i].period = p}) = 0
    <3>1. \A r, p : {i \in PaidBy(r) : payments[i].period = p} = {}
      BY <2>2
    <3> QED
      BY <2>2, <2>3, <3>1
  <2> QED
    BY <2>2, <2>4 DEF RewardInit, NewBooks, BooksMatchPayments
<1>2. RewardInv /\ BooksMatchPayments /\ [RewardNext]_rewardVars => BooksMatchPayments'
  <2> SUFFICES ASSUME RewardInv, BooksMatchPayments, [RewardNext]_rewardVars
               PROVE  BooksMatchPayments'
    OBVIOUS
  <2>1. ASSUME NEW d \in Distributor, NEW g \in UNION {Signed[i] : i \in Issuer}, Claim(d, g)
        PROVE  BooksMatchPayments'
    <3>1. g \in Grant
      BY RewardAssumption
    <3> QED
      BY <2>1, <3>1, ClaimKeepsBooks
  <2> QED
    BY <2>1, OtherStepsKeepBooks DEF RewardNext
<1> QED
  BY <1>1, <1>2, RewardInvariance, PTL DEF RewardSpec

\* Every grant is paid once at most, and the books of each deployment are right.
THEOREM PaidOnceAsBooked == RewardSpec => []PaidAsBooked
BY GrantsPaidOnce, BooksMatch, PTL DEF PaidAsBooked
=============================================================================
