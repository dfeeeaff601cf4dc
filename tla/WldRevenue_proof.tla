--------------------------- MODULE WldRevenue_proof ---------------------------
(***************************************************************************)
(* Proofs about the WLD of RevenueSplitter, BuybackVault and WldRevenue    *)
(* for every set of players, recipients, distributions, routers and        *)
(* periods, and for every outcome of a router.                             *)
(*                                                                         *)
(* The splitter: the parts of a division are whole and add up to what is   *)
(* divided, the last recipient's included, so that claims stay covered     *)
(* (SplitterInv).  The vault: a batch never exceeds what is pending, so it *)
(* is backed by the balance, and the approval it starts with is the only   *)
(* one there is (VaultInv).  A boost: its two halves make up its price, so *)
(* that what the purses lose the books gain (RevenueInv); and to each of   *)
(* the two contracts it is one of the contract's own operations.           *)
(***************************************************************************)
EXTENDS WldRevenue, SumTheorems

----------------------------------------------------------------------------
(* A distribution and the parts it makes. *)

Split(d) == d \in Seq(ShareRecord) /\ ValidSplit(d)

LEMMA SplitFacts ==
  ASSUME NEW d, Split(d)
  PROVE  /\ Recipients(d) \subseteq Recipient /\ IsFiniteSet(Recipients(d))
         /\ LastOf(d) \in Recipients(d)
         /\ \A i \in DOMAIN d : ShareOf(d, d[i].to) = d[i].share
         /\ \A r \in Recipients(d) : ShareOf(d, r) \in Nat
         /\ SumFunctionOnSet([r \in Recipients(d) |-> ShareOf(d, r)], Recipients(d)) = Bps
<1>1. DOMAIN d = 1 .. Len(d) /\ Len(d) \in Nat /\ Len(d) \in DOMAIN d
      /\ \A i \in DOMAIN d : d[i] \in ShareRecord
  BY DEF Split, ValidSplit
<1>2. \A i, j \in DOMAIN d : d[i].to = d[j].to => i = j
  BY DEF Split, ValidSplit
<1>3. Recipients(d) \subseteq Recipient
  BY <1>1 DEF Recipients, ShareRecord
<1>4. IsFiniteSet(Recipients(d))
  BY <1>3, SplitterAssumption, FS_Subset
<1>5. LastOf(d) \in Recipients(d)
  BY <1>1 DEF LastOf, Recipients
<1>6. ASSUME NEW i \in DOMAIN d PROVE ShareOf(d, d[i].to) = d[i].share
  <2> DEFINE j == CHOOSE j \in DOMAIN d : d[j].to = d[i].to
  <2>1. j \in DOMAIN d /\ d[j].to = d[i].to
    OBVIOUS
  <2>2. j = i
    BY <1>2, <2>1
  <2> QED
    BY <2>2 DEF ShareOf
<1>7. \A r \in Recipients(d) : ShareOf(d, r) \in Nat
  BY <1>1, <1>6 DEF Recipients, ShareRecord
<1>8. SumFunctionOnSet([r \in Recipients(d) |-> ShareOf(d, r)], Recipients(d)) = Bps
  <2> DEFINE D == DOMAIN d
             f == [i \in D |-> d[i].share]
             m == [i \in D |-> d[i].to]
             g == [r \in Recipients(d) |-> ShareOf(d, r)]
  <2>1. IsFiniteSet(D)
    BY <1>1, FS_Interval
  <2>2. \A x, y \in D : m[x] = m[y] => x = y
    BY <1>2
  <2>3. \A x \in D : f[x] \in Int /\ g[m[x]] = f[x]
    BY <1>1, <1>6 DEF ShareRecord, Recipients
  <2>4. {m[x] : x \in D} = Recipients(d)
    BY DEF Recipients
  <2>5. SumFunction(f) = Bps
    BY DEF Split, ValidSplit
  <2>6. SumFunctionOnSet(f, D) = Bps
    BY <2>5 DEF SumFunction
  <2> HIDE DEF D, f, m, g
  <2>7. SumFunctionOnSet(f, D) = SumFunctionOnSet(g, {m[x] : x \in D})
    BY <2>1, <2>2, <2>3, SumRenamed
  <2> QED
    BY <2>4, <2>6, <2>7 DEF g
<1> QED
  BY <1>3, <1>4, <1>5, <1>6, <1>7, <1>8

RoundedPart(d, amount, r) == (amount * ShareOf(d, r)) \div Bps

\* Rounding down each part of some recipients gives them no more together than
\* the sum of their shares.
LEMMA RoundedParts ==
  ASSUME NEW d, Split(d), NEW amount \in Nat, NEW u \in SUBSET Recipients(d)
  PROVE  /\ \A r \in Recipients(d) : RoundedPart(d, amount, r) \in Nat
         /\ SumFunctionOnSet([r \in u |-> RoundedPart(d, amount, r)], u) \in Nat
         /\ SumFunctionOnSet([r \in u |-> RoundedPart(d, amount, r)], u) <= amount
<1> DEFINE A == Recipients(d)
           f == [r \in A |-> RoundedPart(d, amount, r)]
           g == [r \in A |-> ShareOf(d, r)]
           T == {s \in SUBSET A : SumFunctionOnSet(f, s) * Bps <= amount * SumFunctionOnSet(g, s)}
<1>1. IsFiniteSet(A) /\ (\A r \in A : ShareOf(d, r) \in Nat) /\ SumFunctionOnSet(g, A) = Bps
  BY SplitFacts
<1>2. ASSUME NEW r \in A
      PROVE  RoundedPart(d, amount, r) \in Nat
             /\ RoundedPart(d, amount, r) * Bps <= amount * ShareOf(d, r)
  <2> DEFINE n == amount * ShareOf(d, r)
  <2>1. n \in Nat /\ Bps \in Nat \ {0}
    BY <1>1, SplitterAssumption
  <2> HIDE DEF n
  <2>2. n \div Bps \in Nat /\ (n \div Bps) * Bps <= n
    BY <2>1
  <2> QED
    BY <2>2 DEF n, RoundedPart
<1>3. \A r \in A : f[r] \in Nat /\ g[r] \in Nat /\ f[r] * Bps <= amount * g[r]
  BY <1>1, <1>2
<1>0. u \in SUBSET A
  OBVIOUS
<1> HIDE DEF A, f, g
<1>4. \A s \in SUBSET A : SumFunctionOnSet(f, s) \in Nat /\ SumFunctionOnSet(g, s) \in Nat
  BY <1>1, <1>3, SumNat
<1>5. ASSUME NEW s \in SUBSET A, \A x \in s : s \ {x} \in T PROVE s \in T
  <2>1. IsFiniteSet(s)
    BY <1>1, FS_Subset
  <2>2. CASE s = {}
    BY <2>2, SumEmpty, SplitterAssumption
  <2>3. CASE s # {}
    <3> DEFINE c == Some(s)
               F == SumFunctionOnSet(f, s \ {c})
               G == SumFunctionOnSet(g, s \ {c})
    <3>1. c \in s
      BY <2>3, SomeIn
    <3>2. SumFunctionOnSet(f, s) = f[c] + F /\ SumFunctionOnSet(g, s) = g[c] + G
      BY <2>1, <2>3, SumSome
    <3>3. F * Bps <= amount * G
      BY <1>5, <3>1
    <3>4. F \in Nat /\ G \in Nat
      BY <1>4
    <3> HIDE DEF F, G, c
    <3>5. f[c] \in Nat /\ g[c] \in Nat /\ f[c] * Bps <= amount * g[c]
      BY <1>3, <3>1
    <3> DEFINE x == f[c]
               y == g[c]
    <3> HIDE DEF x, y
    <3>6. (x + F) * Bps <= amount * (y + G)
      <4>1. x \in Nat /\ y \in Nat /\ F \in Nat /\ G \in Nat /\ amount \in Nat /\ Bps \in Nat
        BY <3>4, <3>5, SplitterAssumption DEF x, y
      <4>2. (x + F) * Bps = x * Bps + F * Bps
        BY <4>1
      <4>3. amount * (y + G) = amount * y + amount * G
        BY <4>1
      <4>4. x * Bps \in Nat /\ F * Bps \in Nat /\ amount * y \in Nat /\ amount * G \in Nat
        BY <4>1
      <4>5. x * Bps <= amount * y
        BY <3>5 DEF x, y
      <4> QED
        BY <3>3, <4>2, <4>3, <4>4, <4>5
    <3> QED
      BY <3>2, <3>6 DEF x, y
  <2> QED
    BY <2>2, <2>3
<1> HIDE DEF T
<1>6. u \in T
  <2>1. SUBSET A \subseteq T
    BY <1>1, <1>5, SubsetInduction
  <2> QED
    BY <1>0, <2>1
<1>7. SumFunctionOnSet(g, u) <= Bps
  <2>1. SumFunctionOnSet(g, A) = SumFunctionOnSet(g, u) + SumFunctionOnSet(g, A \ u)
    BY <1>1, <1>3, SumSplit DEF A
  <2>2. SumFunctionOnSet(g, u) \in Nat /\ SumFunctionOnSet(g, A \ u) \in Nat
    BY <1>4 DEF A
  <2> QED
    BY <1>1, <2>1, <2>2
<1>8. SumFunctionOnSet(f, u) <= amount
  <2> DEFINE x == SumFunctionOnSet(f, u)
             y == SumFunctionOnSet(g, u)
  <2>1. x \in Nat /\ y \in Nat /\ y <= Bps /\ x * Bps <= amount * y /\ Bps \in Nat \ {0}
    BY <1>4, <1>6, <1>7, SplitterAssumption DEF A, T
  <2> HIDE DEF x, y
  <2>2. amount * y <= amount * Bps
    BY <2>1
  <2>3. x * Bps <= amount * Bps
    BY <2>1, <2>2
  <2>4. x <= amount
    BY <2>1, <2>3
  <2> QED
    BY <2>4 DEF x
<1>9. SumFunctionOnSet([r \in u |-> RoundedPart(d, amount, r)], u) = SumFunctionOnSet(f, u)
  <2> DEFINE h == [r \in u |-> RoundedPart(d, amount, r)]
  <2>1. \A r \in u : h[r] = f[r]
    BY DEF f, A
  <2>2. IsFiniteSet(u)
    BY <1>1, FS_Subset DEF A
  <2> HIDE DEF h
  <2>3. SumFunctionOnSet(h, u) = SumFunctionOnSet(f, u)
    BY <2>1, <2>2, SumSame
  <2> QED
    BY <2>3 DEF h
<1>10. SumFunctionOnSet(f, u) \in Nat
  BY <1>4 DEF A
<1> QED
  BY <1>2, <1>8, <1>9, <1>10 DEF A
\* Nothing is lost or made in dividing: the last recipient gets what the others
\* leave, and that is not negative.
LEMMA PartsAddUp ==
  ASSUME NEW d, Split(d), NEW amount \in Nat
  PROVE  /\ \A r \in Recipient : Part(d, amount, r) \in Nat
         /\ SumFunctionOnSet([r \in Recipient |-> Part(d, amount, r)], Recipient) = amount
<1> DEFINE A      == Recipients(d)
           last   == LastOf(d)
           others == A \ {last}
           rest   == SumFunctionOnSet([o \in others |-> RoundedPart(d, amount, o)], others)
           p      == [r \in Recipient |-> Part(d, amount, r)]
<1>1. A \subseteq Recipient /\ IsFiniteSet(A) /\ last \in A /\ IsFiniteSet(Recipient)
  BY SplitFacts, SplitterAssumption
<1>2. rest \in Nat /\ rest <= amount /\ \A r \in A : RoundedPart(d, amount, r) \in Nat
  BY RoundedParts
<1>3. \A r \in Recipient :
        /\ r \in others => Part(d, amount, r) = RoundedPart(d, amount, r)
        /\ r = last => Part(d, amount, r) = amount - rest
        /\ r \notin A => Part(d, amount, r) = 0
  <2>1. last \in A /\ last \notin others
    BY <1>1
  <2>2. SumFunction([o \in others |-> RoundedPart(d, amount, o)]) = rest
    BY DEF SumFunction
  <2> QED
    BY <2>1, <2>2 DEF Part, RoundedPart
<1> HIDE DEF rest, A, last
<1>4. \A r \in Recipient : Part(d, amount, r) \in Nat
  BY <1>1, <1>2, <1>3
<1>5. \A r \in Recipient : p[r] \in Nat /\ p[r] = Part(d, amount, r)
  BY <1>4
<1> HIDE DEF p
<1>6. SumFunctionOnSet(p, Recipient)
        = SumFunctionOnSet(p, A) + SumFunctionOnSet(p, Recipient \ A)
  BY <1>1, <1>5, SumSplit
<1>7. SumFunctionOnSet(p, Recipient \ A) = 0
  <2>1. \A r \in Recipient \ A : p[r] = 0
    BY <1>3, <1>5
  <2>2. IsFiniteSet(Recipient \ A)
    BY <1>1, FS_Subset
  <2> QED
    BY <2>1, <2>2, SumZero
<1>8. SumFunctionOnSet(p, A) = p[last] + SumFunctionOnSet(p, others)
  <2>1. \A r \in A : p[r] \in Int
    BY <1>1, <1>5
  <2> QED
    BY <1>1, <2>1, SumRemove
<1>9. SumFunctionOnSet(p, others) = rest
  <2> DEFINE q == [o \in others |-> RoundedPart(d, amount, o)]
  <2>1. \A r \in others : p[r] = q[r]
    BY <1>1, <1>3, <1>5
  <2>2. IsFiniteSet(others)
    BY <1>1, FS_RemoveElement
  <2>3. rest = SumFunctionOnSet(q, others)
    BY DEF rest
  <2> HIDE DEF q
  <2> QED
    BY <2>1, <2>2, <2>3, SumSame
<1>10. p[last] = amount - rest
  BY <1>1, <1>3, <1>5
<1>11. SumFunctionOnSet(p, Recipient) = amount
  BY <1>2, <1>6, <1>7, <1>8, <1>9, <1>10
<1> QED
  BY <1>4, <1>11 DEF p

\* With nothing to divide nobody gets anything.
LEMMA NoParts ==
  ASSUME NEW d, Split(d), NEW r \in Recipient
  PROVE  Part(d, 0, r) = 0
<1> DEFINE p == [o \in Recipient |-> Part(d, 0, o)]
<1>1. (\A o \in Recipient : Part(d, 0, o) \in Nat) /\ SumFunctionOnSet(p, Recipient) = 0
  BY PartsAddUp
<1>2. (\A o \in Recipient : p[o] \in Nat) /\ p[r] = Part(d, 0, r)
  BY <1>1
<1> HIDE DEF p
<1>3. p[r] <= 0
  BY <1>1, <1>2, SumBounds, SplitterAssumption
<1> QED
  BY <1>2, <1>3

----------------------------------------------------------------------------
(* The splitter. *)

TimeOK == clock \in Nat /\ nextPayoutAt \in Nat

\* The deadline after a payout lies ahead by at most a period, and a whole
\* number of periods after the one that was due.
LEMMA NextDeadlineAhead ==
  ASSUME TimeOK, Due
  PROVE  /\ NextDeadline \in clock + 1 .. clock + Period
         /\ (NextDeadline - nextPayoutAt) % Period = 0
<1> DEFINE late    == clock - nextPayoutAt
           periods == late \div Period
<1>1. late \in Nat /\ Period \in Nat \ {0}
  BY SplitterAssumption DEF TimeOK, Due
<1> HIDE DEF late
<1>2. periods \in Nat /\ periods * Period <= late /\ late < periods * Period + Period
  BY <1>1
<1> HIDE DEF periods
<1>3. (periods + 1) * Period = periods * Period + Period /\ periods * Period \in Nat
  BY <1>1, <1>2
<1>4. NextDeadline = nextPayoutAt + (periods + 1) * Period
  BY DEF NextDeadline, periods, late
<1>5. NextDeadline \in clock + 1 .. clock + Period
  BY <1>1, <1>2, <1>3, <1>4 DEF late, TimeOK
<1>6. (NextDeadline - nextPayoutAt) % Period = 0
  <2>1. NextDeadline - nextPayoutAt = (periods + 1) * Period
    BY <1>1, <1>2, <1>3, <1>4 DEF TimeOK
  <2>2. ((periods + 1) * Period) % Period = 0
    BY <1>1, <1>2
  <2> QED
    BY <2>1, <2>2
<1> QED
  BY <1>5, <1>6

SplitterTypes ==
  /\ TimeOK
  /\ balance \in Nat /\ totalClaimable \in Nat
  /\ received \in [Recipient -> Nat] /\ claimable \in [Recipient -> Nat]
  /\ Split(split)

SplitterInv == SplitterTypes /\ ClaimsCovered

\* Dividing what is unallocated leaves claims that add up to all there is.
LEMMA AllocatedFacts ==
  ASSUME SplitterInv, NEW available \in Nat, available >= totalClaimable
  PROVE  /\ Allocated(available) \in [Recipient -> Nat]
         /\ SumFunctionOnSet(Allocated(available), Recipient) = available
         /\ \A r \in Recipient : Allocated(available)[r] >= claimable[r]
<1> DEFINE amount == available - totalClaimable
           p == [r \in Recipient |-> Part(split, amount, r)]
           h == Allocated(available)
<1>1. amount \in Nat /\ Split(split) /\ claimable \in [Recipient -> Nat]
      /\ totalClaimable = SumFunctionOnSet(claimable, Recipient) /\ totalClaimable \in Nat
  BY DEF SplitterInv, SplitterTypes, ClaimsCovered, SumFunction
<1>2. (\A r \in Recipient : Part(split, amount, r) \in Nat)
      /\ SumFunctionOnSet(p, Recipient) = amount
  BY <1>1, PartsAddUp
<1>3. h = [r \in Recipient |-> claimable[r] + Part(split, amount, r)]
  BY DEF Allocated
<1>4. \A r \in Recipient : h[r] = claimable[r] + p[r] /\ h[r] \in Nat /\ p[r] \in Nat
  BY <1>1, <1>2, <1>3
<1>5. h \in [Recipient -> Nat]
  BY <1>3, <1>4
<1> HIDE DEF h, p
<1>6. \A r \in Recipient : claimable[r] \in Int /\ p[r] \in Int /\ h[r] = claimable[r] + p[r]
  BY <1>1, <1>4
<1>7. SumFunctionOnSet(h, Recipient)
        = SumFunctionOnSet(claimable, Recipient) + SumFunctionOnSet(p, Recipient)
  BY <1>6, SumPlus, SplitterAssumption
<1>8. SumFunctionOnSet(h, Recipient) = totalClaimable + amount
  BY <1>1, <1>2, <1>7
<1>9. totalClaimable + amount = available
  BY <1>1
<1> QED
  BY <1>1, <1>4, <1>5, <1>8, <1>9 DEF h

LEMMA ReceiveKeeps ==
  ASSUME SplitterInv, NEW amount \in Nat, Receive(amount)
  PROVE  SplitterInv' /\ Income' = Income + amount
<1>1. SumFunction(received) \in Nat
  BY SumNat, SplitterAssumption DEF SplitterInv, SplitterTypes, SumFunction
<1> QED
  BY <1>1 DEF SplitterInv, SplitterTypes, TimeOK, ClaimsCovered, Receive, Income,
     claims, distribution

LEMMA AllocateKeeps ==
  ASSUME SplitterInv, claimable' = Allocated(balance), totalClaimable' = balance,
         UNCHANGED <<clock, balance, received, nextPayoutAt>>, Split(split)'
  PROVE  SplitterInv' /\ Income' = Income
<1>1. claimable' \in [Recipient -> Nat] /\ SumFunctionOnSet(claimable', Recipient) = balance
  BY AllocatedFacts DEF SplitterInv, SplitterTypes, ClaimsCovered
<1>2. SumFunction(claimable') = balance
  BY <1>1 DEF SumFunction
<1> QED
  BY <1>1, <1>2 DEF SplitterInv, SplitterTypes, TimeOK, ClaimsCovered, Income

LEMMA ReleaseKeeps ==
  ASSUME SplitterInv, NEW r \in Recipient, Release(r)
  PROVE  SplitterInv' /\ Income' = Income
<1> DEFINE c == claimable[r]
<1>1. /\ claimable \in [Recipient -> Nat] /\ received \in [Recipient -> Nat] /\ c \in Nat
      /\ claimable' = [claimable EXCEPT ![r] = 0]
      /\ received' = [received EXCEPT ![r] = received[r] + c]
      /\ totalClaimable' = totalClaimable - c /\ balance' = balance - c
      /\ totalClaimable = SumFunction(claimable) /\ totalClaimable <= balance
      /\ totalClaimable \in Nat /\ balance \in Nat
  BY DEF SplitterInv, SplitterTypes, ClaimsCovered, Release
<1> HIDE DEF c
<1>2. SumFunction(claimable') = SumFunction(claimable) + 0 - claimable[r]
  <2>1. claimable \in [Recipient -> Int] /\ 0 \in Int
    BY <1>1
  <2>2. SumFunction([claimable EXCEPT ![r] = 0]) = SumFunction(claimable) + 0 - claimable[r]
    BY <2>1, SumUpdate, SplitterAssumption
  <2> QED
    BY <1>1, <2>2
<1>3. SumFunction(received') = SumFunction(received) + (received[r] + c) - received[r]
  <2>1. received \in [Recipient -> Int] /\ received[r] + c \in Int
    BY <1>1
  <2> QED
    BY <1>1, <2>1, SumUpdate, SplitterAssumption
<1>4. c <= totalClaimable
  <2>1. \A x \in Recipient : claimable[x] \in Nat
    BY <1>1
  <2>2. claimable[r] <= SumFunctionOnSet(claimable, Recipient)
    BY <2>1, SumBounds, SplitterAssumption
  <2> QED
    BY <1>1, <2>2 DEF SumFunction, c
<1>5. SumFunction(received) \in Nat /\ received[r] \in Nat
  BY <1>1, SumNat, SplitterAssumption DEF SumFunction
<1>6. totalClaimable' \in Nat /\ balance' \in Nat /\ totalClaimable' <= balance'
      /\ totalClaimable' = SumFunction(claimable')
  BY <1>1, <1>2, <1>4 DEF c
<1>7. balance' + SumFunction(received') = balance + SumFunction(received)
  BY <1>1, <1>3, <1>5
<1>8. claimable' \in [Recipient -> Nat] /\ received' \in [Recipient -> Nat]
  BY <1>1
<1>9. TimeOK' /\ Split(split)'
  BY DEF SplitterInv, SplitterTypes, TimeOK, Release, distribution
<1> QED
  BY <1>6, <1>7, <1>8, <1>9 DEF SplitterInv, SplitterTypes, ClaimsCovered, Income
\* A payout pays the current recipients all they are entitled to, and the claims
\* of the others stay.
LEMMA PayoutKeeps ==
  ASSUME SplitterInv, NEW inflow \in Nat, MonthlyPayout(inflow)
  PROVE  SplitterInv' /\ Income' = Income + inflow
<1> DEFINE available == balance + inflow
           entitled  == Allocated(available)
           payees    == Recipients(split)
           paid      == SumFunctionOnSet(entitled, payees)
           kept      == SumFunctionOnSet(entitled, Recipient \ payees)
           payment   == [r \in Recipient |-> IF r \in payees THEN entitled[r] ELSE 0]
<1>1. /\ balance \in Nat /\ totalClaimable \in Nat /\ totalClaimable <= balance
      /\ received \in [Recipient -> Nat] /\ claimable \in [Recipient -> Nat]
      /\ Split(split) /\ TimeOK
  BY DEF SplitterInv, SplitterTypes, ClaimsCovered
<1>2. available \in Nat /\ available >= totalClaimable
  BY <1>1
<1>3. /\ received' = [r \in Recipient |-> received[r] + IF r \in payees THEN entitled[r] ELSE 0]
      /\ claimable' = [r \in Recipient |-> IF r \in payees THEN 0 ELSE entitled[r]]
      /\ totalClaimable' = available - paid
      /\ balance' = available - paid
      /\ nextPayoutAt' = NextDeadline
      /\ UNCHANGED <<clock, distribution>>
      /\ Due
  BY DEF MonthlyPayout
<1>4. entitled \in [Recipient -> Nat] /\ SumFunctionOnSet(entitled, Recipient) = available
  BY <1>2, AllocatedFacts
<1>5. payees \in SUBSET Recipient /\ IsFiniteSet(payees) /\ IsFiniteSet(Recipient \ payees)
      /\ IsFiniteSet(Recipient)
  BY <1>1, SplitFacts, SplitterAssumption, FS_Subset
<1>6. payment \in [Recipient -> Nat]
      /\ received' = [r \in Recipient |-> received[r] + payment[r]]
  BY <1>3, <1>4
<1>p. \A r \in Recipient : payment[r] = IF r \in payees THEN entitled[r] ELSE 0
  OBVIOUS
<1> HIDE DEF available, entitled, payees, payment
<1>7. \A r \in Recipient : entitled[r] \in Nat /\ payment[r] \in Nat
  BY <1>4, <1>6
<1>8. available = paid + kept /\ paid \in Nat /\ kept \in Nat
  <2>1. SumFunctionOnSet(entitled, Recipient) = paid + kept
    BY <1>5, <1>7, SumSplit
  <2>2. paid \in Nat /\ kept \in Nat
    BY <1>5, <1>7, SumNat
  <2> QED
    BY <1>4, <2>1, <2>2
<1>9. SumFunctionOnSet(claimable', Recipient) = kept
  <2>1. \A r \in Recipient : claimable'[r] = IF r \in payees THEN 0 ELSE entitled[r]
    BY <1>3
  <2>2. \A r \in Recipient : claimable'[r] \in Int
    BY <1>7, <2>1
  <2> DEFINE c == claimable'
  <2> HIDE DEF c
  <2>3. SumFunctionOnSet(c, Recipient)
          = SumFunctionOnSet(c, payees) + SumFunctionOnSet(c, Recipient \ payees)
    BY <1>5, <2>2, SumSplit DEF c
  <2>4. SumFunctionOnSet(c, payees) = 0
    BY <1>5, <2>1, SumZero DEF c
  <2>5. SumFunctionOnSet(c, Recipient \ payees) = kept
    BY <1>5, <2>1, SumSame DEF c
  <2> QED
    BY <1>8, <2>3, <2>4, <2>5 DEF c
<1>10. SumFunctionOnSet(payment, Recipient) = paid
  <2>1. SumFunctionOnSet(payment, Recipient)
          = SumFunctionOnSet(payment, payees) + SumFunctionOnSet(payment, Recipient \ payees)
    BY <1>5, <1>7, SumSplit
  <2>2. SumFunctionOnSet(payment, payees) = paid
    BY <1>5, <1>p, SumSame
  <2>3. SumFunctionOnSet(payment, Recipient \ payees) = 0
    BY <1>5, <1>p, SumZero
  <2> QED
    BY <1>8, <2>1, <2>2, <2>3
<1>11. SumFunctionOnSet(received', Recipient) = SumFunctionOnSet(received, Recipient) + paid
  <2> DEFINE h == received'
  <2>1. \A r \in Recipient : received[r] \in Int /\ payment[r] \in Int /\ h[r] = received[r] + payment[r]
    BY <1>1, <1>6, <1>7
  <2> HIDE DEF h
  <2>2. SumFunctionOnSet(h, Recipient)
          = SumFunctionOnSet(received, Recipient) + SumFunctionOnSet(payment, Recipient)
    BY <1>5, <2>1, SumPlus
  <2> QED
    BY <1>10, <2>2 DEF h
<1>12. received' \in [Recipient -> Nat] /\ claimable' \in [Recipient -> Nat]
  BY <1>1, <1>3, <1>6, <1>7
<1>13. totalClaimable' = kept /\ balance' = kept
  BY <1>3, <1>8
<1>14. DOMAIN received = Recipient /\ DOMAIN received' = Recipient /\ DOMAIN claimable' = Recipient
  BY <1>1, <1>12
<1>15. TimeOK'
  BY <1>1, <1>3, NextDeadlineAhead, SplitterAssumption DEF TimeOK
<1>16. Split(split)'
  BY <1>1, <1>3 DEF distribution
<1>17. SumFunctionOnSet(received, Recipient) \in Nat
  BY <1>1, <1>5, SumNat
<1>18. Income' = Income + inflow
  BY <1>1, <1>8, <1>11, <1>13, <1>14, <1>17 DEF Income, SumFunction, available
<1>19. ClaimsCovered'
  BY <1>8, <1>9, <1>13, <1>14 DEF ClaimsCovered, SumFunction
<1> QED
  BY <1>8, <1>12, <1>13, <1>15, <1>16, <1>18, <1>19 DEF SplitterInv, SplitterTypes

LEMMA RotationKeeps ==
  ASSUME SplitterInv, NEW d \in TriedSplits, SetDistribution(d)
  PROVE  SplitterInv' /\ Income' = Income
<1>1. Split(split)'
  BY SplitterAssumption DEF SetDistribution, Split
<1>2. UNCHANGED <<clock, balance, received, nextPayoutAt>>
  BY DEF SetDistribution
<1>3. CASE Due
  BY <1>1, <1>2, <1>3, AllocateKeeps DEF SetDistribution
<1>4. CASE ~ Due
  <2>1. UNCHANGED claims
    BY <1>4 DEF SetDistribution
  <2> QED
    BY <1>1, <1>2, <2>1 DEF SplitterInv, SplitterTypes, TimeOK, ClaimsCovered, Income, claims
<1> QED
  BY <1>3, <1>4

LEMMA TickKeeps ==
  ASSUME SplitterInv, NEW d \in SplitterDelays, SplitterTick(d)
  PROVE  SplitterInv' /\ Income' = Income
BY SplitterAssumption DEF SplitterInv, SplitterTypes, TimeOK, ClaimsCovered, SplitterTick,
   Income, claims, distribution

LEMMA StutterKeeps ==
  ASSUME SplitterInv, UNCHANGED splitterVars
  PROVE  SplitterInv' /\ Income' = Income
BY DEF SplitterInv, SplitterTypes, TimeOK, ClaimsCovered, splitterVars, Income, claims,
   distribution

LEMMA SplitterInitInv == SplitterInit => SplitterInv /\ Income = 0
<1> SUFFICES ASSUME SplitterInit PROVE SplitterInv /\ Income = 0
  OBVIOUS
<1>1. SplitterTypes
  BY SplitterAssumption DEF SplitterInit, SplitterTypes, TimeOK, Split
<1>2. SumFunction(claimable) = 0 /\ SumFunction(received) = 0
  <2>1. DOMAIN claimable = Recipient /\ DOMAIN received = Recipient
        /\ \A r \in Recipient : claimable[r] = 0 /\ received[r] = 0
    BY DEF SplitterInit
  <2> QED
    BY <2>1, SumZero, SplitterAssumption DEF SumFunction
<1> QED
  BY <1>1, <1>2 DEF SplitterInit, SplitterInv, ClaimsCovered, Income

LEMMA SplitterStepInv == SplitterInv /\ [SplitterNext]_splitterVars => SplitterInv'
<1> SUFFICES ASSUME SplitterInv, [SplitterNext]_splitterVars PROVE SplitterInv'
  OBVIOUS
<1>1. ASSUME NEW amount \in Inflows, Receive(amount) PROVE SplitterInv'
  BY <1>1, ReceiveKeeps, SplitterAssumption
<1>2. CASE Allocate
  BY <1>2, AllocateKeeps DEF Allocate, distribution, SplitterInv, SplitterTypes
<1>3. ASSUME NEW inflow \in Inflows \cup {0}, MonthlyPayout(inflow) PROVE SplitterInv'
  BY <1>3, PayoutKeeps, SplitterAssumption
<1>4. ASSUME NEW r \in Recipient, Release(r) PROVE SplitterInv'
  BY <1>4, ReleaseKeeps
<1>5. ASSUME NEW d \in TriedSplits, SetDistribution(d) PROVE SplitterInv'
  BY <1>5, RotationKeeps
<1>6. ASSUME NEW d \in SplitterDelays, SplitterTick(d) PROVE SplitterInv'
  BY <1>6, TickKeeps
<1>7. CASE UNCHANGED splitterVars
  BY <1>7, StutterKeeps
<1> QED
  BY <1>1, <1>2, <1>3, <1>4, <1>5, <1>6, <1>7 DEF SplitterNext

\* The claims add up and are covered, for any recipients, shares, rotations and
\* order of payouts, releases and transfers.
THEOREM ClaimsAlwaysCovered == SplitterSpec => []ClaimsCovered
<1>1. SplitterInit => SplitterInv
  BY SplitterInitInv
<1>2. SplitterInv => ClaimsCovered
  BY DEF SplitterInv
<1> QED
  BY <1>1, <1>2, SplitterStepInv, PTL DEF SplitterSpec
\* What a step does to everybody's prospects.
ProspectKept ==
  \A r \in Recipient :
    /\ Due /\ Income' = Income => Prospect(r)' = Prospect(r)
    /\ Entitlement(r)' >= Entitlement(r)

LEMMA AllocationKeepsProspects ==
  ASSUME SplitterInv, claimable' = Allocated(balance), totalClaimable' = balance,
         UNCHANGED <<balance, received>>, Split(split)'
  PROVE  ProspectKept
<1> SUFFICES ASSUME NEW r \in Recipient
             PROVE  Prospect(r)' = Prospect(r) /\ Entitlement(r)' >= Entitlement(r)
  BY DEF ProspectKept
<1> DEFINE part == Part(split, balance - totalClaimable, r)
<1>1. claimable'[r] = claimable[r] + part
  BY DEF Allocated
<1>2. part \in Nat
  <2>1. balance - totalClaimable \in Nat /\ Split(split)
    BY DEF SplitterInv, SplitterTypes, ClaimsCovered
  <2> QED
    BY <2>1, PartsAddUp
<1>3. Part(split, balance - totalClaimable, r)' = 0
  <2>1. balance' - totalClaimable' = 0
    BY DEF SplitterInv, SplitterTypes
  <2>2. Part(split', 0, r) = 0
    <3> DEFINE d == split'
    <3>1. Split(d)
      OBVIOUS
    <3> HIDE DEF d
    <3>2. Part(d, 0, r) = 0
      BY <3>1, NoParts
    <3> QED
      BY <3>2 DEF d
  <2> QED
    BY <2>1, <2>2
<1>4. claimable[r] \in Nat /\ received[r] \in Nat
  BY DEF SplitterInv, SplitterTypes
<1> HIDE DEF part
<1>5. received'[r] + claimable'[r] + 0 = received[r] + claimable[r] + part
      /\ received'[r] + claimable'[r] >= received[r] + claimable[r]
  BY <1>1, <1>2, <1>4
<1> QED
  BY <1>3, <1>5 DEF Prospect, Entitlement, part

LEMMA PayoutKeepsProspects ==
  ASSUME SplitterInv, NEW inflow \in Nat, MonthlyPayout(inflow)
  PROVE  ProspectKept
<1> SUFFICES ASSUME NEW r \in Recipient
             PROVE  /\ inflow = 0 => Prospect(r)' = Prospect(r)
                    /\ Entitlement(r)' >= Entitlement(r)
  <2>1. Income \in Nat /\ Income' = Income + inflow
    <3>1. SumFunction(received) \in Nat
      BY SumNat, SplitterAssumption DEF SplitterInv, SplitterTypes, SumFunction
    <3> QED
      BY <3>1, PayoutKeeps DEF Income, SplitterInv, SplitterTypes
  <2>2. Income' = Income => inflow = 0
    BY <2>1
  <2> QED
    BY <2>2 DEF ProspectKept
<1> DEFINE available == balance + inflow
           part      == Part(split, available - totalClaimable, r)
           payees    == Recipients(split)
<1>1. /\ balance \in Nat /\ totalClaimable \in Nat /\ totalClaimable <= balance
      /\ received[r] \in Nat /\ claimable[r] \in Nat /\ Split(split)
  BY DEF SplitterInv, SplitterTypes, ClaimsCovered
<1>2. Allocated(available)[r] = claimable[r] + part
  BY DEF Allocated
<1>3. part \in Nat
  <2>1. available - totalClaimable \in Nat
    BY <1>1
  <2> HIDE DEF available
  <2> QED
    BY <1>1, <2>1, PartsAddUp
<1>4. /\ received'[r] = received[r] + IF r \in payees THEN claimable[r] + part ELSE 0
      /\ claimable'[r] = IF r \in payees THEN 0 ELSE claimable[r] + part
      /\ balance' = totalClaimable' /\ split' = split
  BY <1>2 DEF MonthlyPayout, distribution
<1>5. Part(split, balance - totalClaimable, r)' = 0
  <2>1. balance' \in Nat /\ totalClaimable' = balance'
    BY <1>4, PayoutKeeps DEF SplitterInv, SplitterTypes
  <2>2. ASSUME NEW x \in Nat, NEW y, y = x PROVE x - y = 0
    BY <2>2
  <2>3. balance' - totalClaimable' = 0
    BY <2>1, <2>2
  <2> QED
    BY <1>1, <1>4, <2>3, NoParts
<1>6. inflow = 0 => part = Part(split, balance - totalClaimable, r)
  BY <1>1
<1> HIDE DEF part, payees
<1>7. received'[r] + claimable'[r] = received[r] + claimable[r] + part
  BY <1>1, <1>3, <1>4
<1>8. /\ received'[r] + claimable'[r] + 0 = received[r] + claimable[r] + part
      /\ received'[r] + claimable'[r] >= received[r] + claimable[r]
  BY <1>1, <1>3, <1>7
<1> QED
  BY <1>5, <1>6, <1>8 DEF Prospect, Entitlement

\* Who gets how much of a period that is over does not depend on what is called
\* first, and nobody's entitlement ever shrinks.
THEOREM DueRevenueSettled == SplitterSpec => DueRevenueFixed
<1>1. SplitterInv /\ [SplitterNext]_splitterVars => [ProspectKept]_splitterVars
  <2> SUFFICES ASSUME SplitterInv, SplitterNext
               PROVE  ProspectKept
    OBVIOUS
  <2>0. balance \in Nat /\ totalClaimable \in Nat
        /\ \A r \in Recipient : claimable[r] \in Nat /\ received[r] \in Nat
    BY DEF SplitterInv, SplitterTypes
  <2>1. ASSUME NEW amount \in Inflows, Receive(amount) PROVE ProspectKept
    <3>1. amount \in Nat /\ Income' = Income + amount
      BY <2>1, ReceiveKeeps, SplitterAssumption
    <3>2. Income \in Nat
      <4>1. SumFunction(received) \in Nat
        BY SumNat, SplitterAssumption DEF SplitterInv, SplitterTypes, SumFunction
      <4> QED
        BY <2>0, <4>1 DEF Income
    <3>3. Income' = Income => amount = 0
      BY <3>1, <3>2
    <3>4. amount = 0 => balance' = balance
      BY <2>0, <2>1 DEF Receive
    <3>5. UNCHANGED <<received, claimable, totalClaimable, split>>
      BY <2>1 DEF Receive, claims, distribution
    <3> QED
      BY <2>0, <3>3, <3>4, <3>5 DEF ProspectKept, Prospect, Entitlement
  <2>2. CASE Allocate
    BY <2>2, AllocationKeepsProspects DEF Allocate, distribution, SplitterInv, SplitterTypes
  <2>3. ASSUME NEW inflow \in Inflows \cup {0}, MonthlyPayout(inflow) PROVE ProspectKept
    BY <2>3, PayoutKeepsProspects, SplitterAssumption
  <2>4. ASSUME NEW r \in Recipient, Release(r) PROVE ProspectKept
    <3>1. /\ claimable' = [claimable EXCEPT ![r] = 0]
          /\ received' = [received EXCEPT ![r] = received[r] + claimable[r]]
          /\ totalClaimable' = totalClaimable - claimable[r]
          /\ balance' = balance - claimable[r] /\ split' = split
      BY <2>4 DEF Release, distribution
    <3>2. balance' - totalClaimable' = balance - totalClaimable
      BY <2>0, <3>1
    <3>3. \A o \in Recipient : received'[o] + claimable'[o] = received[o] + claimable[o]
      BY <2>0, <3>1 DEF SplitterInv, SplitterTypes
    <3> QED
      BY <2>0, <3>1, <3>2, <3>3 DEF ProspectKept, Prospect, Entitlement
  <2>5. ASSUME NEW d \in TriedSplits, SetDistribution(d) PROVE ProspectKept
    <3>1. Split(split)' /\ UNCHANGED <<balance, received>>
      BY <2>5, SplitterAssumption DEF SetDistribution, Split
    <3>2. CASE Due
      BY <2>5, <3>1, <3>2, AllocationKeepsProspects DEF SetDistribution
    <3>3. CASE ~ Due
      BY <2>0, <2>5, <3>1, <3>3 DEF SetDistribution, claims, ProspectKept, Entitlement
    <3> QED
      BY <3>2, <3>3
  <2>6. ASSUME NEW d \in SplitterDelays, SplitterTick(d) PROVE ProspectKept
    BY <2>0, <2>6 DEF SplitterTick, ProspectKept, Prospect, Entitlement, claims, distribution
  <2> QED
    BY <2>1, <2>2, <2>3, <2>4, <2>5, <2>6 DEF SplitterNext
<1>2. SplitterInit => SplitterInv
  BY SplitterInitInv
<1>3. SplitterSpec => [][ProspectKept]_splitterVars
  BY <1>1, <1>2, SplitterStepInv, PTL DEF SplitterSpec
<1> QED
  BY <1>3 DEF ProspectKept, DueRevenueFixed
\* Only a due payout moves the deadline, and it moves it to the first one of the
\* cadence that lies ahead: no period is paid twice and none is skipped over.
THEOREM CadenceKept == SplitterSpec => PayoutCadence
<1>1. SplitterInv /\ [SplitterNext]_splitterVars =>
        [nextPayoutAt' # nextPayoutAt =>
           /\ nextPayoutAt <= clock
           /\ nextPayoutAt' \in clock + 1 .. clock + Period
           /\ (nextPayoutAt' - nextPayoutAt) % Period = 0]_splitterVars
  <2> SUFFICES ASSUME SplitterInv, SplitterNext, nextPayoutAt' # nextPayoutAt
               PROVE  /\ nextPayoutAt <= clock
                      /\ nextPayoutAt' \in clock + 1 .. clock + Period
                      /\ (nextPayoutAt' - nextPayoutAt) % Period = 0
    OBVIOUS
  <2>0. TimeOK
    BY DEF SplitterInv, SplitterTypes
  <2>1. PICK inflow \in Inflows \cup {0} : MonthlyPayout(inflow)
    BY DEF SplitterNext, Receive, Allocate, Release, SetDistribution, SplitterTick
  <2>2. Due /\ nextPayoutAt' = NextDeadline
    BY <2>1 DEF MonthlyPayout
  <2>3. nextPayoutAt <= clock
    BY <2>2 DEF Due
  <2> QED
    BY <2>0, <2>2, <2>3, NextDeadlineAhead
<1>2. SplitterInit => SplitterInv
  BY SplitterInitInv
<1> QED
  BY <1>1, <1>2, SplitterStepInv, PTL DEF SplitterSpec, PayoutCadence

----------------------------------------------------------------------------
(* The vault. *)

VaultInv == VaultTypeOK /\ FundingReconciles /\ NoStandingAllowance

\* The limits of a configuration, also of the empty one.
LEMMA RouteLimits ==
  ASSUME VaultTypeOK
  PROVE  /\ route.threshold \in Nat /\ route.maxBatch \in Nat
         /\ route.slippage \in 0 .. VaultBps
         /\ route.router # NoRouter => route.router \in Router
BY VaultAssumption DEF VaultTypeOK, NoRoute

\* A batch lies within what is pending.
LEMMA BatchPending ==
  ASSUME VaultTypeOK, NEW requested \in Requests
  PROVE  Batch(requested) \in Nat /\ Batch(requested) <= pendingWld
<1>1. requested \in Nat /\ pendingWld \in Nat
  BY VaultAssumption DEF VaultTypeOK
<1>2. route.maxBatch \in Nat
  BY RouteLimits
<1> QED
  BY <1>1, <1>2 DEF Batch, Least

\* An accepted swap has taken exactly the batch: the allowance is used up, the
\* balance and the pending WLD fall by the same amount.
LEMMA BuybackExact ==
  ASSUME VaultInv, NEW requested \in Requests, NEW quote \in Quotes,
         NEW pulled \in 0 .. route.maxBatch, NEW refund \in Refunds,
         NEW fill \in Fills, NEW reported \in Fills,
         Buyback(requested, quote, pulled, refund, fill, reported)
  PROVE  LET amount == Batch(requested) IN
         /\ amount \in Nat /\ amount <= pendingWld
         /\ vaultWld' = vaultWld - amount
         /\ pendingWld' = pendingWld - amount
         /\ cumulativeSpent' = cumulativeSpent + amount
         /\ cumulativeBurned' = cumulativeBurned + fill
         /\ cumulativeFunded' = cumulativeFunded
         /\ routerAllowance' = [routerAllowance EXCEPT ![route.router] = 0]
         /\ UNCHANGED <<route, paused>>
<1> DEFINE amount == Batch(requested)
<1>1. amount \in Nat /\ amount <= pendingWld
  BY BatchPending DEF VaultInv
<1>2. pulled \in Nat /\ refund \in Nat /\ vaultWld \in Nat
  BY RouteLimits, VaultAssumption DEF VaultInv, VaultTypeOK
<1>3. pulled <= amount /\ pulled - refund = amount
  BY DEF Buyback, Accepted
<1>4. pulled = amount /\ refund = 0
  BY <1>1, <1>2, <1>3
<1>5. /\ vaultWld' = vaultWld - pulled + refund
      /\ routerAllowance' = [routerAllowance EXCEPT ![route.router] = amount - pulled]
      /\ pendingWld' = pendingWld - amount
      /\ cumulativeSpent' = cumulativeSpent + amount
      /\ cumulativeBurned' = cumulativeBurned + fill
      /\ cumulativeFunded' = cumulativeFunded
      /\ UNCHANGED <<route, paused>>
  BY DEF Buyback, Spent
<1> HIDE DEF amount
<1>6. vaultWld - pulled + refund = vaultWld - amount /\ amount - pulled = 0
  BY <1>1, <1>2, <1>4
<1> QED
  BY <1>1, <1>5, <1>6 DEF amount

LEMMA VaultInitInv == VaultInit => VaultInv
<1> SUFFICES ASSUME VaultInit
             PROVE  VaultInv
  OBVIOUS
<1>1. paused \in BOOLEAN
  BY DEF VaultInit
<1>2. route \in Routes \cup {NoRoute}
  BY DEF VaultInit
<1>3. VaultTypeOK
  BY <1>1, <1>2 DEF VaultInit, VaultTypeOK
<1> QED
  BY <1>3 DEF VaultInit, VaultInv, FundingReconciles, NoStandingAllowance

LEMMA FundingKeeps ==
  ASSUME VaultInv, NEW amount \in Nat, RecordFunding(amount) \/ Donate(amount)
  PROVE  VaultInv' /\ Handled' = Handled + amount
BY DEF VaultInv, VaultTypeOK, FundingReconciles, NoStandingAllowance, Handled,
   RecordFunding, Donate, counters

\* What the vault does with what it has.
VaultWorks ==
  \/ \E r \in Routes : ConfigureRoute(r)
  \/ \E value \in BOOLEAN : SetPaused(value)
  \/ Execute

LEMMA WorkKeeps ==
  ASSUME VaultInv, VaultWorks \/ UNCHANGED vaultVars
  PROVE  VaultInv' /\ Handled' = Handled
<1> USE DEF VaultInv, VaultTypeOK, FundingReconciles, NoStandingAllowance, Handled
<1>3. ASSUME NEW r \in Routes, ConfigureRoute(r)
      PROVE  VaultInv' /\ Handled' = Handled
  BY <1>3 DEF ConfigureRoute, holdings, counters
<1>4. ASSUME NEW value \in BOOLEAN, SetPaused(value)
      PROVE  VaultInv' /\ Handled' = Handled
  <2>1. paused' \in BOOLEAN
    BY <1>4 DEF SetPaused
  <2>2. UNCHANGED <<vaultWld, routerAllowance, route, counters>>
    BY <1>4 DEF SetPaused, holdings
  <2> QED
    BY <2>1, <2>2 DEF counters
<1>5. ASSUME NEW requested \in Requests, NEW quote \in Quotes,
             RouterFailed(requested, quote)
      PROVE  VaultInv' /\ Handled' = Handled
  BY <1>5 DEF RouterFailed, counters
<1>6. ASSUME NEW requested \in Requests, NEW quote \in Quotes,
             NEW pulled \in 0 .. route.maxBatch, NEW refund \in Refunds,
             NEW fill \in Fills, NEW reported \in Fills,
             Buyback(requested, quote, pulled, refund, fill, reported)
      PROVE  VaultInv' /\ Handled' = Handled
  <2> DEFINE amount == Batch(requested)
  <2>1. /\ amount \in Nat /\ amount <= pendingWld
        /\ vaultWld' = vaultWld - amount
        /\ pendingWld' = pendingWld - amount
        /\ cumulativeSpent' = cumulativeSpent + amount
        /\ cumulativeBurned' = cumulativeBurned + fill
        /\ cumulativeFunded' = cumulativeFunded
        /\ routerAllowance' = [routerAllowance EXCEPT ![route.router] = 0]
        /\ UNCHANGED <<route, paused>>
    BY <1>6, BuybackExact
  <2>2. fill \in Nat
    BY VaultAssumption
  <2> HIDE DEF amount
  <2>3. /\ vaultWld' \in Nat /\ pendingWld' \in Nat /\ pendingWld' <= vaultWld'
        /\ cumulativeSpent' \in Nat /\ cumulativeBurned' \in Nat /\ cumulativeFunded' \in Nat
        /\ cumulativeFunded' = pendingWld' + cumulativeSpent'
        /\ vaultWld' + cumulativeSpent' = vaultWld + cumulativeSpent
    BY <2>1, <2>2
  <2>4. routerAllowance' \in [Router -> Nat] /\ \A x \in Router : routerAllowance'[x] = 0
    BY <2>1
  <2>5. paused' \in BOOLEAN /\ route' \in Routes \cup {NoRoute}
    BY <2>1
  <2> QED
    BY <2>3, <2>4, <2>5
<1>7. CASE UNCHANGED vaultVars
  BY <1>7 DEF vaultVars, holdings, counters
<1> QED
  BY <1>3, <1>4, <1>5, <1>6, <1>7 DEF VaultWorks, Execute

LEMMA VaultNextInv == VaultInv /\ [VaultNext]_vaultVars => VaultInv'
<1> SUFFICES ASSUME VaultInv, [VaultNext]_vaultVars
             PROVE  VaultInv'
  OBVIOUS
<1>1. ASSUME NEW amount \in Donations, Donate(amount)
      PROVE  VaultInv'
  BY <1>1, FundingKeeps, VaultAssumption
<1>2. ASSUME NEW amount \in Credits, RecordFunding(amount)
      PROVE  VaultInv'
  BY <1>2, FundingKeeps, VaultAssumption
<1>3. CASE VaultWorks \/ UNCHANGED vaultVars
  BY <1>3, WorkKeeps
<1> QED
  BY <1>1, <1>2, <1>3 DEF VaultNext, VaultWorks

\* The vault's books, types and allowances hold in every reachable state.
THEOREM VaultInvariance == VaultSpec => []VaultInv
BY VaultInitInv, VaultNextInv, PTL DEF VaultSpec

\* Every credited WLD is pending and backed or was spent on a buyback.
THEOREM VaultReconciles == VaultSpec => []FundingReconciles
<1>1. VaultInv => FundingReconciles
  BY DEF VaultInv
<1> QED
  BY <1>1, VaultInvariance, PTL

\* No router keeps an allowance, after a swap of any outcome.
THEOREM VaultAllowances == VaultSpec => []NoStandingAllowance
<1>1. VaultInv => NoStandingAllowance
  BY DEF VaultInv
<1> QED
  BY <1>1, VaultInvariance, PTL

\* Direct transfers are never spent, and buybacks strand nothing.
THEOREM VaultSurplus == VaultSpec => SurplusOnlyDonated
<1>1. VaultInv /\ [VaultNext]_vaultVars =>
        [vaultWld' - pendingWld' # vaultWld - pendingWld =>
           \E amount \in Donations : Donate(amount)]_vaultVars
  <2> SUFFICES ASSUME VaultInv, VaultNext, ~ \E amount \in Donations : Donate(amount)
               PROVE  vaultWld' - pendingWld' = vaultWld - pendingWld
    OBVIOUS
  <2>1. vaultWld \in Nat /\ pendingWld \in Nat
    BY DEF VaultInv, VaultTypeOK
  <2>2. ASSUME NEW amount \in Credits, RecordFunding(amount)
        PROVE  vaultWld' - pendingWld' = vaultWld - pendingWld
    BY <2>1, <2>2, VaultAssumption DEF RecordFunding
  <2>3. ASSUME NEW requested \in Requests, NEW quote \in Quotes,
               NEW pulled \in 0 .. route.maxBatch, NEW refund \in Refunds,
               NEW fill \in Fills, NEW reported \in Fills,
               Buyback(requested, quote, pulled, refund, fill, reported)
        PROVE  vaultWld' - pendingWld' = vaultWld - pendingWld
    <3> DEFINE amount == Batch(requested)
    <3>1. amount \in Nat /\ vaultWld' = vaultWld - amount /\ pendingWld' = pendingWld - amount
      BY <2>3, BuybackExact
    <3> HIDE DEF amount
    <3> QED
      BY <2>1, <3>1
  <2> QED
    BY <2>2, <2>3 DEF VaultNext, Execute, ConfigureRoute, SetPaused, RouterFailed, holdings, counters
<1> QED
  BY <1>1, VaultInvariance, PTL DEF VaultSpec, SurplusOnlyDonated

----------------------------------------------------------------------------
(* The boosts that feed both. *)

RevenueTypes ==
  /\ purse \in [Player -> Nat] /\ elsewhere \in Nat

RevenueInv == SplitterInv /\ VaultInv /\ RevenueTypes /\ WldConserved

\* WldConserved in the terms of the contracts.
LEMMA Conserved ==
  ASSUME SplitterInv, VaultInv, RevenueTypes
  PROVE  /\ SumFunction(purse) \in Nat /\ Income \in Nat /\ Handled \in Nat
         /\ WldConserved <=> SumFunction(purse) + elsewhere + Handled + Income = Endowment
<1>1. SumFunction(received) \in Nat
  BY SumNat, SplitterAssumption DEF SplitterInv, SplitterTypes, SumFunction
<1>2. SumFunction(purse) \in Nat
  BY SumNat, BoostAssumption DEF RevenueTypes, SumFunction
<1>3. balance \in Nat /\ vaultWld \in Nat /\ cumulativeSpent \in Nat /\ elsewhere \in Nat
  BY DEF SplitterInv, SplitterTypes, VaultInv, VaultTypeOK, RevenueTypes
<1> QED
  BY <1>1, <1>2, <1>3 DEF WldConserved, Income, Handled

LEMMA RevenueInitInv == RevenueInit => RevenueInv
<1> SUFFICES ASSUME RevenueInit PROVE RevenueInv
  OBVIOUS
<1>1. SplitterInv /\ Income = 0 /\ VaultInv /\ Handled = 0
  BY SplitterInitInv, VaultInitInv DEF RevenueInit, VaultInit, Handled
<1>2. RevenueTypes
  BY BoostAssumption DEF RevenueInit, RevenueTypes
<1>3. SumFunction(purse) = Endowment /\ elsewhere = 0
  BY DEF RevenueInit, Endowment
<1> QED
  BY <1>1, <1>2, <1>3, Conserved DEF RevenueInv

\* A step that moves WLD between the books keeps the whole.
LEMMA MovesKeep ==
  ASSUME RevenueInv, SplitterInv', VaultInv', RevenueTypes',
         SumFunction(purse)' + elsewhere' + Handled' + Income'
           = SumFunction(purse) + elsewhere + Handled + Income
  PROVE  RevenueInv'
<1>1. SumFunction(purse) + elsewhere + Handled + Income = Endowment
  BY Conserved DEF RevenueInv
<1>2. Endowment' = Endowment
  BY DEF Endowment
<1>3. WldConserved' <=> SumFunction(purse)' + elsewhere' + Handled' + Income' = Endowment'
  <2>1. SumFunction(received') \in Nat
    BY SumNat, SplitterAssumption DEF SplitterInv, SplitterTypes, SumFunction
  <2>2. SumFunction(purse') \in Nat
    BY SumNat, BoostAssumption DEF RevenueTypes, SumFunction
  <2>3. balance' \in Nat /\ vaultWld' \in Nat /\ cumulativeSpent' \in Nat /\ elsewhere' \in Nat
    BY DEF SplitterInv, SplitterTypes, VaultInv, VaultTypeOK, RevenueTypes
  <2> QED
    BY <2>1, <2>2, <2>3 DEF WldConserved, Income, Handled
<1> QED
  BY <1>1, <1>2, <1>3 DEF RevenueInv

LEMMA PayFrom ==
  ASSUME RevenueInv, NEW p \in Player, NEW amount \in Nat, purse[p] >= amount,
         purse' = [purse EXCEPT ![p] = @ - amount]
  PROVE  /\ purse' \in [Player -> Nat]
         /\ SumFunction(purse)' = SumFunction(purse) - amount
<1>1. purse \in [Player -> Nat] /\ purse[p] - amount \in Nat
  BY DEF RevenueInv, RevenueTypes
<1>2. purse' = [purse EXCEPT ![p] = purse[p] - amount]
  OBVIOUS
<1>3. SumFunction([purse EXCEPT ![p] = purse[p] - amount])
        = SumFunction(purse) + (purse[p] - amount) - purse[p]
  <2>1. purse \in [Player -> Int] /\ purse[p] - amount \in Int
    BY <1>1
  <2> QED
    BY <2>1, SumUpdate, BoostAssumption
<1>4. SumFunction(purse) \in Nat
  BY Conserved DEF RevenueInv
<1>5. SumFunction(purse) + (purse[p] - amount) - purse[p] = SumFunction(purse) - amount
  BY <1>1, <1>4
<1> QED
  BY <1>1, <1>2, <1>3, <1>5

\* Both halves of a price are whole and make up the price.
LEMMA Halves ==
  ASSUME NEW hours \in BoostHours
  PROVE  /\ ForVault(hours) \in Nat /\ ForSplitter(hours) \in Nat
         /\ hours * WldUnit \in Nat
         /\ ForVault(hours) + ForSplitter(hours) = hours * WldUnit
<1> DEFINE n == hours * WldUnit
<1>1. n \in Nat
  BY BoostAssumption
<1> HIDE DEF n
<1>2. n \div 2 \in Nat /\ n - n \div 2 \in Nat /\ n \div 2 + (n - n \div 2) = n
  BY <1>1
<1> QED
  BY <1>1, <1>2 DEF ForVault, ForSplitter, n

LEMMA PayBoostKeeps ==
  ASSUME RevenueInv, NEW p \in Player, NEW hours \in BoostHours, PayBoost(p, hours)
  PROVE  RevenueInv'
<1> DEFINE v == ForVault(hours)
           s == ForSplitter(hours)
           toVault == IF buybackVault = "this" THEN v ELSE 0
           toSplitter == IF revenueSplitter = "this" THEN s ELSE 0
<1>1. v \in Nat /\ s \in Nat /\ hours * WldUnit \in Nat /\ v + s = hours * WldUnit
  BY Halves
<1>2. /\ purse[p] >= hours * WldUnit
      /\ purse' = [purse EXCEPT ![p] = @ - hours * WldUnit]
      /\ ToVault(v) /\ ToSplitter(s)
      /\ elsewhere' = elsewhere + SentElsewhere(hours)
  BY DEF PayBoost
<1>3. purse' \in [Player -> Nat] /\ SumFunction(purse)' = SumFunction(purse) - (v + s)
  BY <1>1, <1>2, PayFrom
<1>4. VaultInv' /\ Handled' = Handled + toVault
  <2>1. CASE buybackVault = "this"
    BY <1>1, <1>2, <2>1, FundingKeeps DEF ToVault, RevenueInv
  <2>2. CASE buybackVault # "this"
    <3>1. VaultInv' /\ Handled' = Handled
      BY <1>2, <2>2, WorkKeeps DEF ToVault, RevenueInv
    <3>2. Handled \in Nat
      BY Conserved DEF RevenueInv
    <3> QED
      BY <2>2, <3>1, <3>2
  <2> QED
    BY <2>1, <2>2
<1>5. SplitterInv' /\ Income' = Income + toSplitter
  <2>1. CASE revenueSplitter = "this"
    BY <1>1, <1>2, <2>1, PayoutKeeps, ReceiveKeeps DEF ToSplitter, RevenueInv
  <2>2. CASE revenueSplitter # "this"
    <3>1. SplitterInv' /\ Income' = Income
      BY <1>2, <2>2, StutterKeeps DEF ToSplitter, RevenueInv
    <3>2. Income \in Nat
      BY Conserved DEF RevenueInv
    <3> QED
      BY <2>2, <3>1, <3>2
  <2> QED
    BY <2>1, <2>2
<1>6. elsewhere' = elsewhere + (v - toVault) + (s - toSplitter)
  BY <1>1, <1>2 DEF SentElsewhere, RevenueInv, RevenueTypes
<1>7. toVault \in 0 .. v /\ toSplitter \in 0 .. s
  BY <1>1
<1>8. SumFunction(purse) \in Nat /\ Income \in Nat /\ Handled \in Nat /\ elsewhere \in Nat
  BY Conserved DEF RevenueInv, RevenueTypes
<1> HIDE DEF v, s, toVault, toSplitter
<1>9. RevenueTypes'
  BY <1>1, <1>3, <1>6, <1>7, <1>8 DEF RevenueTypes
<1>10. SumFunction(purse)' + elsewhere' + Handled' + Income'
         = SumFunction(purse) + elsewhere + Handled + Income
  BY <1>1, <1>3, <1>4, <1>5, <1>6, <1>7, <1>8
<1> QED
  BY <1>4, <1>5, <1>9, <1>10, MovesKeep

LEMMA RevenueNextInv == RevenueInv /\ [RevenueNext]_revenueVars => RevenueInv'
<1> SUFFICES ASSUME RevenueInv, [RevenueNext]_revenueVars PROVE RevenueInv'
  OBVIOUS
<1>0. SumFunction(purse) \in Nat /\ Income \in Nat /\ Handled \in Nat /\ elsewhere \in Nat
      /\ SplitterInv /\ VaultInv /\ RevenueTypes
  BY Conserved DEF RevenueInv, RevenueTypes
<1>1. ASSUME NEW p \in Player, NEW hours \in BoostHours, PayBoost(p, hours)
      PROVE  RevenueInv'
  BY <1>1, PayBoostKeeps
<1>2. ASSUME NEW p \in Player, NEW amount \in Donations, SendDirectly(p, amount)
      PROVE  RevenueInv'
  <2>1. amount \in Nat
    BY VaultAssumption
  <2>2. purse' \in [Player -> Nat] /\ SumFunction(purse)' = SumFunction(purse) - amount
        /\ elsewhere' = elsewhere
    BY <1>2, <2>1, PayFrom DEF SendDirectly
  <2>3. /\ SplitterInv' /\ VaultInv'
        /\ \/ Income' = Income + amount /\ Handled' = Handled
           \/ Income' = Income /\ Handled' = Handled + amount
    BY <1>0, <1>2, <2>1, ReceiveKeeps, StutterKeeps, FundingKeeps, WorkKeeps DEF SendDirectly
  <2>4. SumFunction(purse)' + elsewhere' + Handled' + Income'
          = SumFunction(purse) + elsewhere + Handled + Income
    BY <1>0, <2>1, <2>2, <2>3
  <2> QED
    BY <1>0, <2>2, <2>3, <2>4, MovesKeep DEF RevenueTypes
<1>3. CASE UNCHANGED <<purse, elsewhere, splitterVars, vaultVars>>
  <2>1. SplitterInv' /\ VaultInv' /\ Income' = Income /\ Handled' = Handled
    BY <1>0, <1>3, StutterKeeps, WorkKeeps
  <2> QED
    BY <1>0, <1>3, <2>1, MovesKeep DEF RevenueTypes
<1>4. CASE SplitterStep
  <2>1. SplitterInv' /\ Income' = Income
    <3>1. CASE Allocate
      BY <1>0, <3>1, AllocateKeeps DEF Allocate, distribution, SplitterInv, SplitterTypes
    <3>2. CASE MonthlyPayout(0)
      BY <1>0, <3>2, PayoutKeeps
    <3>3. ASSUME NEW r \in Recipient, Release(r) PROVE SplitterInv' /\ Income' = Income
      BY <1>0, <3>3, ReleaseKeeps
    <3>4. ASSUME NEW d \in TriedSplits, SetDistribution(d)
          PROVE  SplitterInv' /\ Income' = Income
      BY <1>0, <3>4, RotationKeeps
    <3>5. ASSUME NEW d \in SplitterDelays, SplitterTick(d)
          PROVE  SplitterInv' /\ Income' = Income
      BY <1>0, <3>5, TickKeeps
    <3> QED
      BY <1>4, <3>1, <3>2, <3>3, <3>4, <3>5 DEF SplitterStep
  <2>2. UNCHANGED <<purse, elsewhere, vaultVars>>
    BY <1>4 DEF SplitterStep
  <2>3. VaultInv' /\ Handled' = Handled
    BY <1>0, <2>2, WorkKeeps
  <2> QED
    BY <1>0, <2>1, <2>2, <2>3, MovesKeep DEF RevenueTypes
<1>5. CASE VaultStep
  <2>1. VaultWorks /\ UNCHANGED <<purse, elsewhere, splitterVars>>
    BY <1>5 DEF VaultStep, VaultWorks
  <2>2. SplitterInv' /\ VaultInv' /\ Income' = Income /\ Handled' = Handled
    BY <1>0, <2>1, StutterKeeps, WorkKeeps
  <2> QED
    BY <1>0, <2>1, <2>2, MovesKeep DEF RevenueTypes
<1> QED
  BY <1>1, <1>2, <1>3, <1>4, <1>5
  DEF RevenueNext, SetBuybackVault, SetRevenueSplitter, revenueVars

\* No WLD is lost between players, vault, splitter and recipients, however the
\* contracts are wired and whatever payouts and batches do.
THEOREM WldNeverLost == RevenueSpec => []WldConserved
<1>1. RevenueInv => WldConserved
  BY DEF RevenueInv
<1> QED
  BY <1>1, RevenueInitInv, RevenueNextInv, PTL DEF RevenueSpec

----------------------------------------------------------------------------
(* What a boost is to each of the two contracts. *)

\* No more WLD reaches either contract than the players had.
WithinEndowment ==
  /\ Endowment \in Nat /\ Income \in Nat /\ Handled \in Nat
  /\ Income <= Endowment /\ Handled <= Endowment

LEMMA RevenueWithinEndowment == RevenueInv => WithinEndowment
<1> SUFFICES ASSUME RevenueInv PROVE WithinEndowment
  OBVIOUS
<1>1. SumFunction(purse) \in Nat /\ Income \in Nat /\ Handled \in Nat /\ elsewhere \in Nat
      /\ SumFunction(purse) + elsewhere + Handled + Income = Endowment
  BY Conserved DEF RevenueInv, RevenueTypes
<1> QED
  BY <1>1 DEF WithinEndowment

LEMMA NextWithinEndowment == RevenueInv' => WithinEndowment'
BY RevenueWithinEndowment, PTL

\* The instance differs from the module in two constants only, so that what the
\* operations do is the same.
LEMMA SameSplitter ==
  /\ SplitterInit <=> Splitter!SplitterInit
  /\ UNCHANGED splitterVars <=> UNCHANGED Splitter!splitterVars
  /\ Income = Splitter!Income
  /\ \A amount : Receive(amount) <=> Splitter!Receive(amount)
  /\ Allocate <=> Splitter!Allocate
  /\ \A inflow : MonthlyPayout(inflow) <=> Splitter!MonthlyPayout(inflow)
  /\ \A r : Release(r) <=> Splitter!Release(r)
  /\ \A d : SetDistribution(d) <=> Splitter!SetDistribution(d)
  /\ \A d : SplitterTick(d) <=> Splitter!SplitterTick(d)
<1>1. /\ UNCHANGED splitterVars <=> UNCHANGED Splitter!splitterVars
      /\ claims = Splitter!claims /\ distribution = Splitter!distribution
      /\ claims' = Splitter!claims' /\ distribution' = Splitter!distribution'
  BY DEF splitterVars, Splitter!splitterVars, claims, Splitter!claims, distribution,
     Splitter!distribution
<1>2. \A f, s : Splitter!SumFunctionOnSet(f, s) = SumFunctionOnSet(f, s)
  BY DEF SumFunctionOnSet, FoldFunctionOnSet, MapThenFoldSet, Splitter!SumFunctionOnSet,
     Splitter!FoldFunctionOnSet, Splitter!MapThenFoldSet
<1>3. \A f : Splitter!SumFunction(f) = SumFunction(f)
  BY <1>2 DEF SumFunction, Splitter!SumFunction
<1>4. /\ \A d : Splitter!Recipients(d) = Recipients(d) /\ Splitter!LastOf(d) = LastOf(d)
      /\ \A d, r : Splitter!ShareOf(d, r) = ShareOf(d, r)
  BY DEF Recipients, Splitter!Recipients, ShareOf, Splitter!ShareOf, LastOf, Splitter!LastOf
<1>5. ASSUME NEW d PROVE ValidSplit(d) <=> Splitter!ValidSplit(d)
  <2>1. Splitter!SumFunction([i \in DOMAIN d |-> d[i].share])
          = SumFunction([i \in DOMAIN d |-> d[i].share])
    BY <1>3
  <2> QED
    BY <2>1, Zenon DEF ValidSplit, Splitter!ValidSplit
<1>6. ASSUME NEW d, NEW amount, NEW r PROVE Splitter!Part(d, amount, r) = Part(d, amount, r)
  <2>1. Splitter!SumFunction([o \in Recipients(d) \ {LastOf(d)} |-> (amount * ShareOf(d, o)) \div Bps])
          = SumFunction([o \in Recipients(d) \ {LastOf(d)} |-> (amount * ShareOf(d, o)) \div Bps])
    BY <1>3
  <2> QED
    BY <1>4, <2>1 DEF Part, Splitter!Part
<1>7. \A available : Allocated(available) = Splitter!Allocated(available)
  BY <1>6 DEF Allocated, Splitter!Allocated
<1>8. Due <=> Splitter!Due
  BY DEF Due, Splitter!Due
<1>9. SplitterInit <=> Splitter!SplitterInit
  BY <1>5 DEF SplitterInit, Splitter!SplitterInit
<1>10. \A amount : Receive(amount) <=> Splitter!Receive(amount)
  BY <1>1 DEF Receive, Splitter!Receive
<1>11. Allocate <=> Splitter!Allocate
  BY <1>1, <1>7, <1>8 DEF Allocate, Splitter!Allocate
<1>12. NextDeadline = Splitter!NextDeadline
  BY DEF NextDeadline, Splitter!NextDeadline
<1>13. ASSUME NEW inflow PROVE MonthlyPayout(inflow) <=> Splitter!MonthlyPayout(inflow)
  <2> DEFINE entitled == Allocated(balance + inflow)
             payees   == Recipients(split)
  <2>1. Splitter!Allocated(balance + inflow) = entitled /\ Splitter!Recipients(split) = payees
    BY <1>4, <1>7
  <2>2. Splitter!SumFunctionOnSet(entitled, payees) = SumFunctionOnSet(entitled, payees)
    BY <1>2
  <2> HIDE DEF entitled, payees
  <2>3. MonthlyPayout(inflow) <=>
          /\ Due
          /\ received' = [r \in Recipient |-> received[r] + IF r \in payees THEN entitled[r] ELSE 0]
          /\ claimable' = [r \in Recipient |-> IF r \in payees THEN 0 ELSE entitled[r]]
          /\ totalClaimable' = (balance + inflow) - SumFunctionOnSet(entitled, payees)
          /\ balance' = (balance + inflow) - SumFunctionOnSet(entitled, payees)
          /\ nextPayoutAt' = NextDeadline
          /\ UNCHANGED <<clock, distribution>>
    BY DEF MonthlyPayout, entitled, payees
  <2>4. Splitter!MonthlyPayout(inflow) <=>
          /\ Due
          /\ received' = [r \in Recipient |-> received[r] + IF r \in payees THEN entitled[r] ELSE 0]
          /\ claimable' = [r \in Recipient |-> IF r \in payees THEN 0 ELSE entitled[r]]
          /\ totalClaimable' = (balance + inflow) - SumFunctionOnSet(entitled, payees)
          /\ balance' = (balance + inflow) - SumFunctionOnSet(entitled, payees)
          /\ nextPayoutAt' = NextDeadline
          /\ UNCHANGED <<clock, distribution>>
    BY <1>1, <1>8, <1>12, <2>1, <2>2 DEF Splitter!MonthlyPayout
  <2> QED
    BY <2>3, <2>4
<1>14. \A r : Release(r) <=> Splitter!Release(r)
  BY <1>1 DEF Release, Splitter!Release
<1>15. ASSUME NEW d PROVE SetDistribution(d) <=> Splitter!SetDistribution(d)
  BY <1>1, <1>5, <1>7, <1>8 DEF SetDistribution, Splitter!SetDistribution
<1>16. \A d : SplitterTick(d) <=> Splitter!SplitterTick(d)
  BY <1>1 DEF SplitterTick, Splitter!SplitterTick
<1>17. Income = Splitter!Income
  BY <1>3 DEF Income, Splitter!Income
<1> QED
  BY <1>1, <1>9, <1>10, <1>11, <1>13, <1>14, <1>15, <1>16, <1>17

\* To the splitter a step of the whole is one of its own or nothing.
LEMMA SplitterSimulated ==
  ASSUME RevenueInv, RevenueInv', [RevenueNext]_revenueVars
  PROVE  [Splitter!SplitterNext]_(Splitter!splitterVars)
<1>1. /\ Income' <= Endowment /\ Income' \in Nat /\ Income \in Nat /\ Endowment \in Nat
  BY RevenueWithinEndowment, NextWithinEndowment DEF WithinEndowment, Endowment
<1>2. ASSUME NEW amount \in Nat, Receive(amount)
      PROVE  Splitter!SplitterNext
  <2>1. Income' = Income + amount
    BY <1>2, ReceiveKeeps DEF RevenueInv
  <2> QED
    BY <1>1, <1>2, <2>1, SameSplitter DEF Splitter!SplitterNext
<1>3. ASSUME NEW inflow \in Nat, MonthlyPayout(inflow)
      PROVE  Splitter!SplitterNext
  <2>1. Income' = Income + inflow
    BY <1>3, PayoutKeeps DEF RevenueInv
  <2> QED
    BY <1>1, <1>3, <2>1, SameSplitter DEF Splitter!SplitterNext
<1>4. ASSUME NEW p \in Player, NEW hours \in BoostHours, PayBoost(p, hours)
      PROVE  Splitter!SplitterNext \/ UNCHANGED splitterVars
  <2>1. ForSplitter(hours) \in Nat
    BY Halves
  <2> QED
    BY <1>2, <1>3, <1>4, <2>1 DEF PayBoost, ToSplitter
<1>5. ASSUME NEW p \in Player, NEW amount \in Donations, SendDirectly(p, amount)
      PROVE  Splitter!SplitterNext \/ UNCHANGED splitterVars
  BY <1>2, <1>5, VaultAssumption DEF SendDirectly
<1>6. CASE SplitterStep
  <2>1. CASE Allocate
    BY <2>1, SameSplitter DEF Splitter!SplitterNext
  <2>2. CASE MonthlyPayout(0)
    BY <1>3, <2>2
  <2>3. CASE \E r \in Recipient : Release(r)
    BY <2>3, SameSplitter DEF Splitter!SplitterNext
  <2>4. CASE \E d \in TriedSplits : splitVersion < MaxVersion /\ SetDistribution(d)
    BY <2>4, SameSplitter DEF Splitter!SplitterNext
  <2>5. CASE \E d \in SplitterDelays : SplitterTick(d)
    BY <2>5, SameSplitter DEF Splitter!SplitterNext
  <2> QED
    BY <1>6, <2>1, <2>2, <2>3, <2>4, <2>5 DEF SplitterStep
<1>7. CASE VaultStep
  BY <1>7, SameSplitter DEF VaultStep
<1>8. CASE UNCHANGED revenueVars
  BY <1>8, SameSplitter DEF revenueVars
<1> QED
  BY <1>4, <1>5, <1>6, <1>7, <1>8, SameSplitter
  DEF RevenueNext, SetBuybackVault, SetRevenueSplitter

\* A boost over three contracts is to the splitter a transfer with or without a
\* payout, whatever the vault and the game do beside it.
THEOREM RevenueImplementsSplitter == RevenueSpec => SplitterImplemented
<1>1. RevenueInit => Splitter!SplitterInit
  BY SameSplitter DEF RevenueInit
<1> QED
  BY <1>1, RevenueInitInv, RevenueNextInv, SplitterSimulated, PTL
  DEF RevenueSpec, SplitterImplemented, Splitter!SplitterSpec

LEMMA SameVault ==
  /\ VaultInit <=> Vault!VaultInit
  /\ UNCHANGED vaultVars <=> UNCHANGED Vault!vaultVars
  /\ Handled = Vault!Handled
  /\ \A amount : Donate(amount) <=> Vault!Donate(amount)
  /\ \A amount : RecordFunding(amount) <=> Vault!RecordFunding(amount)
  /\ \A r : ConfigureRoute(r) <=> Vault!ConfigureRoute(r)
  /\ \A value : SetPaused(value) <=> Vault!SetPaused(value)
  /\ Execute <=> Vault!Execute
<1>1. VaultInit <=> Vault!VaultInit
  BY DEF VaultInit, Vault!VaultInit, NoRoute, Vault!NoRoute
<1>2. UNCHANGED vaultVars <=> UNCHANGED Vault!vaultVars
  BY DEF vaultVars, Vault!vaultVars, holdings, Vault!holdings, counters, Vault!counters
<1>3. \A amount : Donate(amount) <=> Vault!Donate(amount)
  BY DEF Donate, Vault!Donate, counters, Vault!counters
<1>4. \A amount : RecordFunding(amount) <=> Vault!RecordFunding(amount)
  BY DEF RecordFunding, Vault!RecordFunding
<1>5. \A r : ConfigureRoute(r) <=> Vault!ConfigureRoute(r)
  BY DEF ConfigureRoute, Vault!ConfigureRoute, holdings, Vault!holdings, counters, Vault!counters
<1>6. \A value : SetPaused(value) <=> Vault!SetPaused(value)
  BY DEF SetPaused, Vault!SetPaused, holdings, Vault!holdings, counters, Vault!counters
<1>7. \A requested : Batch(requested) = Vault!Batch(requested)
  BY DEF Batch, Vault!Batch, Least, Vault!Least
<1>8. \A amount, quote : /\ MinOut(amount, quote) = Vault!MinOut(amount, quote)
                         /\ Tradable(amount, quote) <=> Vault!Tradable(amount, quote)
  BY DEF MinOut, Vault!MinOut, Tradable, Vault!Tradable
<1>9. \A requested, quote : RouterFailed(requested, quote) <=> Vault!RouterFailed(requested, quote)
  BY <1>7, <1>8 DEF RouterFailed, Vault!RouterFailed, counters, Vault!counters
<1>10. \A requested, quote, pulled, refund, fill, reported :
         Buyback(requested, quote, pulled, refund, fill, reported)
           <=> Vault!Buyback(requested, quote, pulled, refund, fill, reported)
  BY <1>7, <1>8 DEF Buyback, Vault!Buyback, Accepted, Vault!Accepted, Spent, Vault!Spent
<1>11. Execute <=> Vault!Execute
  BY <1>9, <1>10 DEF Execute, Vault!Execute
<1>12. Handled = Vault!Handled
  BY DEF Handled, Vault!Handled
<1> QED
  BY <1>1, <1>2, <1>3, <1>4, <1>5, <1>6, <1>11, <1>12

\* To the vault a step of the whole is one of its own or nothing.
LEMMA VaultSimulated ==
  ASSUME RevenueInv, RevenueInv', [RevenueNext]_revenueVars
  PROVE  [Vault!VaultNext]_(Vault!vaultVars)
<1>1. /\ Handled' <= Endowment /\ Handled' \in Nat /\ Handled \in Nat /\ Endowment \in Nat
  BY RevenueWithinEndowment, NextWithinEndowment DEF WithinEndowment, Endowment
<1>2. ASSUME NEW amount \in Nat, RecordFunding(amount) \/ Donate(amount)
      PROVE  Vault!VaultNext
  <2>1. Handled' = Handled + amount
    BY <1>2, FundingKeeps DEF RevenueInv
  <2> QED
    BY <1>1, <1>2, <2>1, SameVault DEF Vault!VaultNext
<1>3. ASSUME NEW p \in Player, NEW hours \in BoostHours, PayBoost(p, hours)
      PROVE  Vault!VaultNext \/ UNCHANGED vaultVars
  <2>1. ForVault(hours) \in Nat
    BY Halves
  <2> QED
    BY <1>2, <1>3, <2>1 DEF PayBoost, ToVault
<1>4. ASSUME NEW p \in Player, NEW amount \in Donations, SendDirectly(p, amount)
      PROVE  Vault!VaultNext \/ UNCHANGED vaultVars
  BY <1>2, <1>4, VaultAssumption DEF SendDirectly
<1>5. CASE VaultStep
  BY <1>5, SameVault DEF VaultStep, Vault!VaultNext
<1>6. CASE SplitterStep
  BY <1>6, SameVault DEF SplitterStep
<1>7. CASE UNCHANGED revenueVars
  BY <1>7, SameVault DEF revenueVars
<1> QED
  BY <1>3, <1>4, <1>5, <1>6, <1>7, SameVault
  DEF RevenueNext, SetBuybackVault, SetRevenueSplitter

\* To the vault a boost is one funding that a transfer backs.
THEOREM RevenueImplementsVault == RevenueSpec => VaultImplemented
<1>1. RevenueInit => Vault!VaultInit
  BY SameVault DEF RevenueInit
<1> QED
  BY <1>1, RevenueInitInv, RevenueNextInv, VaultSimulated, PTL
  DEF RevenueSpec, VaultImplemented, Vault!VaultSpec

\* The composition refines the specifications of both contracts.
THEOREM RevenueImplements == RevenueSpec => ContractsImplemented
BY RevenueImplementsSplitter, RevenueImplementsVault, PTL DEF ContractsImplemented

\* Claims are covered and keep to whom they are due.
THEOREM ClaimsAreHeld == SplitterSpec => ClaimsHold
BY ClaimsAlwaysCovered, DueRevenueSettled, PTL DEF ClaimsHold
=============================================================================
