-------------------------- MODULE WorldClient_proof --------------------------
(***************************************************************************)
(* A client does what was confirmed, for any number of operations, pages   *)
(* and reloads: every operation that is sent has a confirmation of its own,*)
(* a review that found nothing outstanding is confirmed by its own         *)
(* operation, and no concurrent read undoes what was shown as done.        *)
(* Before that, no second registration of the village is signed while one  *)
(* that the page knows of may still succeed.                               *)
(*                                                                         *)
(* Notices: what any tab shows is due by its own last read, is not shown   *)
(* twice and not after the switch was turned off (NoticeInv).              *)
(*                                                                         *)
(* The demo: however many tabs overwrite each other's saves, villages stay *)
(* within their bounds, and no step makes one richer than production has   *)
(* (DemoInv, Frugal).                                                      *)
(***************************************************************************)
EXTENDS WorldClient, VillageRegistration, CompletionNotices, DemoGame,
        FiniteSetTheorems, TLAPS

----------------------------------------------------------------------------
(* The registration. *)

RegOpRecord == [status : {"unused", "sent", "success", "failed"}, known : BOOLEAN]

\* A registration whose hash reached a page is settled, or page and storage
\* still hold its hash.
Remembered ==
    \A p \in RegOp : regOps[p].known /\ regOps[p].status # "failed" =>
        village \/ (reg.hash = p /\ regStored = p)

\* The page asks for a signature only when all it knows of has failed.
AskedKnowing ==
    reg.phase \in {"prompt", "approved"} =>
        \A p \in RegOp : regOps[p].known => regOps[p].status = "failed"

RegOpsOK ==
    /\ \A p \in RegOp : regOps[p].status = "success" => village
    /\ \A p \in RegOp : regOps[p].known => regOps[p].status # "unused"
    /\ reg.phase \in {"approved", "polling"} => reg.op \in RegOp
    /\ reg.phase = "approved" => regOps[reg.op].status # "unused"
    /\ reg.phase = "polling" => reg.op = reg.hash

RegInv == RegTypeOK /\ Remembered /\ AskedKnowing /\ RegOpsOK

LEMMA RegHashes == NoHash \notin RegOp
BY RegistrationAssumption DEF NoHash, RegOp

LEMMA RegInitially == RegInit => RegInv
<1> SUFFICES ASSUME RegInit PROVE RegInv
  OBVIOUS
<1>1. RegTypeOK
  BY DEF RegInit, RegTypeOK, Opened, RegPage
<1> QED
  BY <1>1 DEF RegInit, RegInv, Remembered, AskedKnowing, RegOpsOK, Opened

\* Whatever step it takes, the page signs only where it has asked knowingly.
LEMMA RegStep == RegInv /\ [RegNext \/ RegReopen]_regVars => RegInv'
<1> SUFFICES ASSUME RegInv, [RegNext \/ RegReopen]_regVars PROVE RegInv'
  OBVIOUS
<1> USE RegHashes DEF RegInv, RegTypeOK, Remembered, AskedKnowing, RegOpsOK
<1>1. CASE CheckAgain
  BY <1>1 DEF CheckAgain, RegPage
<1>2. CASE CheckArrives
  BY <1>2 DEF CheckArrives, Cleared, RegPage
<1>3. CASE CheckFails
  BY <1>3 DEF CheckFails, RegPage
<1>4. CASE RegisterVillage
  BY <1>4 DEF RegisterVillage, RegPage
<1>5. CASE ReadFirst
  BY <1>5 DEF ReadFirst, Cleared, RegPage
<1>6. CASE RegistrationFails
  BY <1>6 DEF RegistrationFails, Interrupted, RegPage
<1>7. CASE RegistrationApproved
  <2>1. PICK o \in RegOp :
          /\ regOps[o].status = "unused"
          /\ regOps' = [regOps EXCEPT ![o].status = "sent"]
          /\ reg' = [reg EXCEPT !.phase = "approved", !.op = o]
          /\ reg.phase = "prompt" /\ UNCHANGED <<village, regStored>>
    BY <1>7 DEF RegistrationApproved
  <2>2. regOps \in [RegOp -> RegOpRecord] /\ reg \in RegPage
    BY DEF RegOpRecord
  <2>3. regOps'[o] = [regOps[o] EXCEPT !.status = "sent"] /\ regOps'[o] \in RegOpRecord
    BY <2>1, <2>2 DEF RegOpRecord
  <2>4. \A p \in RegOp \ {o} : regOps'[p] = regOps[p]
    BY <2>1, <2>2
  <2>5. reg' \in RegPage /\ reg'.phase = "approved" /\ reg'.op = o /\ reg'.hash = reg.hash
    BY <2>1, <2>2 DEF RegPage
  <2>6. regOps' \in [RegOp -> RegOpRecord]
    BY <2>1, <2>2 DEF RegOpRecord
  <2>7. RegTypeOK'
    BY <2>1, <2>5, <2>6 DEF RegOpRecord
  <2>8. regOps'[o].status = "sent" /\ ~ regOps'[o].known
    BY <2>1, <2>2, <2>3 DEF RegOpRecord
  <2>9. Remembered' /\ AskedKnowing'
    BY <2>1, <2>4, <2>5, <2>8
  <2>10. RegOpsOK'
    BY <2>1, <2>4, <2>5, <2>8
  <2> QED
    BY <2>7, <2>9, <2>10
<1>8. CASE RegistrationHash
  <2> DEFINE o == reg.op
  <2>1. /\ reg.phase = "approved" /\ o \in RegOp
        /\ reg' = [reg EXCEPT !.phase = "polling", !.hash = o] /\ regStored' = o
        /\ regOps' = [regOps EXCEPT ![o].known = TRUE] /\ UNCHANGED village
    BY <1>8 DEF RegistrationHash
  <2>2. regOps \in [RegOp -> RegOpRecord] /\ reg \in RegPage
    BY DEF RegOpRecord
  <2>3. regOps'[o] = [regOps[o] EXCEPT !.known = TRUE]
    BY <2>1, <2>2
  <2>4. \A p \in RegOp : p # o => regOps'[p] = regOps[p]
    BY <2>1, <2>2
  <2>5. reg' \in RegPage /\ reg'.phase = "polling" /\ reg'.op = o /\ reg'.hash = o
    BY <2>1, <2>2 DEF RegPage
  <2>6. regOps' \in [RegOp -> RegOpRecord]
    BY <2>1, <2>2 DEF RegOpRecord
  <2>7. RegTypeOK'
    BY <2>1, <2>5, <2>6 DEF RegOpRecord
  <2>8. regOps'[o].status = regOps[o].status
    BY <2>1, <2>2, <2>3 DEF RegOpRecord
  <2> HIDE DEF o
  <2>9. Remembered' /\ AskedKnowing'
    BY <2>1, <2>4, <2>5
  <2>10. RegOpsOK'
    BY <2>1, <2>4, <2>5, <2>8
  <2> QED
    BY <2>7, <2>9, <2>10
<1>9. CASE RegistrationReceipt
  BY <1>9 DEF RegistrationReceipt, Interrupted, RegPage
<1>10. CASE ReadBack
  BY <1>10 DEF ReadBack, Cleared, RegPage
<1>11. ASSUME NEW o \in RegOp, RegistrationIncluded(o) PROVE RegInv'
  <2>1. PICK result \in {"success", "failed"} :
          /\ regOps[o].status = "sent"
          /\ regOps' = [regOps EXCEPT ![o].status = result]
          /\ village' \in BOOLEAN /\ (village => village')
          /\ result = "success" => village'
          /\ UNCHANGED <<regStored, reg>>
    BY <1>11 DEF RegistrationIncluded
  <2>2. regOps \in [RegOp -> RegOpRecord]
    BY DEF RegOpRecord
  <2>3. regOps' \in [RegOp -> RegOpRecord]
    BY <2>1, <2>2 DEF RegOpRecord
  <2>4. regOps'[o].status = result /\ regOps'[o].known = regOps[o].known
    BY <2>1, <2>2 DEF RegOpRecord
  <2>5. \A p \in RegOp : p # o => regOps'[p] = regOps[p]
    BY <2>1, <2>2
  <2>6. RegTypeOK'
    BY <2>1, <2>3 DEF RegOpRecord
  <2>7. Remembered' /\ AskedKnowing'
    BY <2>1, <2>4, <2>5
  <2>8. RegOpsOK'
    BY <2>1, <2>4, <2>5
  <2> QED
    BY <2>6, <2>7, <2>8
<1>12. CASE RegReopen
  BY <1>12 DEF RegReopen, Opened, RegPage
<1>13. CASE UNCHANGED regVars
  BY <1>13 DEF regVars
<1> QED
  BY <1>1, <1>2, <1>3, <1>4, <1>5, <1>6, <1>7, <1>8, <1>9, <1>10, <1>11, <1>12, <1>13
  DEF RegNext

\* Only an approval makes an operation out of nothing.
LEMMA SignedKnowing ==
  ASSUME RegInv, [RegNext \/ RegReopen]_regVars, NEW o \in RegOp,
         regOps[o].status = "unused", regOps'[o].status = "sent",
         NEW p \in RegOp, regOps[p].known
  PROVE  regOps[p].status = "failed"
<1>1. CASE reg.phase \in {"prompt", "approved"}
  BY <1>1 DEF RegInv, AskedKnowing
<1>2. CASE reg.phase \notin {"prompt", "approved"}
  BY <1>2 DEF RegInv, RegTypeOK, regVars, RegNext, RegReopen, CheckAgain, CheckArrives,
     CheckFails, RegisterVillage, ReadFirst, RegistrationFails, RegistrationApproved,
     RegistrationHash, RegistrationReceipt, ReadBack, RegistrationIncluded
<1> QED
  BY <1>1, <1>2

\* A second registration is never signed while the first may succeed.
THEOREM RegisteredOnce == RegSpec => NoSecondRegistration
<1> DEFINE Knowing ==
      \A o \in RegOp : regOps[o].status = "unused" /\ regOps'[o].status = "sent" =>
        \A p \in RegOp : regOps[p].known => regOps[p].status = "failed"
<1>1. RegInv /\ [RegNext \/ RegReopen]_regVars => [Knowing]_regVars
  BY SignedKnowing
<1> HIDE DEF Knowing
<1>2. RegSpec => [][Knowing]_regVars
  BY <1>1, RegInitially, RegStep, PTL DEF RegSpec
<1> QED
  BY <1>2 DEF Knowing, NoSecondRegistration

----------------------------------------------------------------------------
(* The app. *)

Phases == {"none", "unsent", "approved", "polling", "reading", "read"}
Followed == {"approved", "polling", "reading", "read"}

\* An operation in flight; all are the operations that were sent.
FlightOK(f, all) ==
    /\ DOMAIN f = {"phase", "intent", "op", "pending", "seen", "waiting"}
    /\ f.phase \in Phases /\ f.waiting \subseteq {"dispatch", "resume"}
    /\ f.phase = "none" => f.waiting = {}
    /\ f.phase = "unsent" => f.intent \in Intents
    /\ f.phase \in Followed => f.op \in Op
    /\ f.phase \in {"reading", "read"} /\ ~f.pending => all[f.op].status = "success"
    /\ f.phase = "read" /\ ~f.pending => f.op \in f.seen

RecordOK(known) ==
    DOMAIN known = {"op", "action"} /\ known.op \in Op \cup {NoOp}

AdapterOK(ad, all) ==
    /\ DOMAIN ad = {"known", "flight"}
    /\ RecordOK(ad.known) /\ FlightOK(ad.flight, all)

OpsOK(all) ==
    \A o \in Op : /\ all[o] = [intent |-> all[o].intent, status |-> all[o].status]
                  /\ all[o].status # "unused" => all[o].intent \in Intents

ReviewOK(r, f, all) ==
    /\ DOMAIN r = {"status", "intent", "op", "fresh"}
    /\ r.status = "reviewing" => r.intent \in Intents
    /\ "dispatch" \in f.waiting => r.status = "confirming"
    /\ r.fresh => r.status \in {"confirming", "pending", "confirmed"}
    /\ r.fresh /\ r.status = "confirming" =>
         /\ "dispatch" \in f.waiting
         /\ f.intent = r.intent
         /\ f.phase \in Followed =>
              all[f.op].intent = r.intent /\ all[f.op].status # "unused"
    /\ r.fresh /\ r.status = "confirmed" =>
         r.op \in Op /\ all[r.op] = [intent |-> r.intent, status |-> "success"]

ReadsOK(f, r, done, included) ==
    /\ DOMAIN r = {"phase", "seen", "stale"}
    /\ done \subseteq included
    /\ r.phase = "read" /\ ~r.stale => done \subseteq r.seen
    /\ f.phase = "read" => done \subseteq f.seen

\* Every operation, and everyone who may still send one, has a confirmation.
SentFor(i, all) == {o \in Op : all[o].intent = i}
MaySend(i, some) ==
    {a \in Adapter : some[a].flight.phase = "unsent" /\ some[a].flight.intent = i}

Permitted(all, some, given) ==
    /\ DOMAIN given = Intents
    /\ \A i \in Intents :
         /\ given[i] \in Nat
         /\ Cardinality(SentFor(i, all)) + Cardinality(MaySend(i, some)) <= given[i]

PageOK ==
    /\ current \in Adapter /\ draft \in Drafts
    /\ ~mounted => review.status = "idle"
    /\ reported \subseteq shown

ClientInv ==
    /\ DOMAIN ops = Op /\ OpsOK(ops)
    /\ RecordOK(stored)
    /\ DOMAIN adapters = Adapter
    /\ \A a \in Adapter : AdapterOK(adapters[a], ops)
    /\ PageOK
    /\ ReviewOK(review, adapters[current].flight, ops)
    /\ ReadsOK(adapters[current].flight, refresh, reported, Included)
    /\ Permitted(ops, adapters, confirms)

----------------------------------------------------------------------------
\* Operations keep what they were sent for, and how they ended.
Grown(all, more) ==
    \A o \in Op : /\ all[o].status # "unused" => more[o].intent = all[o].intent
                                                 /\ more[o].status # "unused"
                  /\ all[o].status = "success" => more[o] = all[o]

LEMMA FlightGrown ==
  ASSUME NEW f, NEW all, NEW more, Grown(all, more), FlightOK(f, all)
  PROVE  FlightOK(f, more)
BY DEF Grown, FlightOK, Followed

LEMMA AdapterGrown ==
  ASSUME NEW ad, NEW all, NEW more, Grown(all, more), AdapterOK(ad, all)
  PROVE  AdapterOK(ad, more)
BY FlightGrown DEF AdapterOK

LEMMA ReviewGrown ==
  ASSUME NEW r, NEW f, NEW all, NEW more, Grown(all, more), FlightOK(f, all),
         ReviewOK(r, f, all)
  PROVE  ReviewOK(r, f, more)
<1>1. r.fresh /\ r.status = "confirming" /\ f.phase \in Followed =>
        more[f.op].intent = r.intent /\ more[f.op].status # "unused"
  BY DEF Grown, ReviewOK, FlightOK
<1>2. r.fresh /\ r.status = "confirmed" =>
        r.op \in Op /\ more[r.op] = [intent |-> r.intent, status |-> "success"]
  BY DEF Grown, ReviewOK
<1> QED
  BY <1>1, <1>2 DEF ReviewOK

LEMMA FiniteParts ==
  ASSUME NEW i, NEW all, NEW some
  PROVE  /\ IsFiniteSet(SentFor(i, all)) /\ Cardinality(SentFor(i, all)) \in Nat
         /\ IsFiniteSet(MaySend(i, some)) /\ Cardinality(MaySend(i, some)) \in Nat
<1>1. IsFiniteSet(Op) /\ IsFiniteSet(Adapter)
  BY FS_Interval, ClientAssumption DEF ClientBounds, Op, Adapter
<1>2. SentFor(i, all) \subseteq Op /\ MaySend(i, some) \subseteq Adapter
  BY DEF SentFor, MaySend
<1> QED
  BY <1>1, <1>2, FS_Subset, FS_CardinalityType

LEMMA OneMore ==
  ASSUME NEW S, IsFiniteSet(S), NEW x
  PROVE  IsFiniteSet(S \cup {x}) /\ Cardinality(S \cup {x}) <= Cardinality(S) + 1
<1>1. /\ IsFiniteSet(S \cup {x})
      /\ Cardinality(S \cup {x}) =
           IF x \in S THEN Cardinality(S) ELSE Cardinality(S) + 1
  BY FS_AddElement
<1>2. Cardinality(S) \in Nat
  BY FS_CardinalityType
<1> QED
  BY <1>1, <1>2

\* Who may send loses that by anything but a confirmation.
LEMMA FewerSend ==
  ASSUME NEW all, NEW some, NEW fewer, NEW given, Permitted(all, some, given),
         \A a \in Adapter : fewer[a].flight.phase = "unsent" =>
           some[a].flight.phase = "unsent" /\ some[a].flight.intent = fewer[a].flight.intent
  PROVE  Permitted(all, fewer, given)
<1>1. ASSUME NEW i \in Intents
      PROVE  Cardinality(SentFor(i, all)) + Cardinality(MaySend(i, fewer)) <= given[i]
  <2>1. MaySend(i, fewer) \subseteq MaySend(i, some)
    BY DEF MaySend
  <2>2. Cardinality(MaySend(i, fewer)) <= Cardinality(MaySend(i, some))
    BY <2>1, FiniteParts, FS_Subset
  <2> QED
    BY <2>2, FiniteParts DEF Permitted
<1> QED
  BY <1>1 DEF Permitted

\* A confirmation permits one adapter to send.
LEMMA OnePermitted ==
  ASSUME NEW all, NEW some, NEW more, NEW given, NEW next,
         NEW a \in Adapter, NEW i \in Intents, Permitted(all, some, given),
         \A b \in Adapter \ {a} : more[b] = some[b],
         more[a].flight.phase = "unsent" =>
           \/ more[a].flight.intent = i
           \/ some[a].flight.phase = "unsent" /\ some[a].flight.intent = more[a].flight.intent,
         DOMAIN next = Intents, next[i] = given[i] + 1,
         \A j \in Intents \ {i} : next[j] = given[j]
  PROVE  Permitted(all, more, next)
<1>1. ASSUME NEW j \in Intents, j # i
      PROVE  Cardinality(SentFor(j, all)) + Cardinality(MaySend(j, more)) <= next[j]
  <2>1. MaySend(j, more) \subseteq MaySend(j, some)
    BY <1>1 DEF MaySend
  <2>2. Cardinality(MaySend(j, more)) <= Cardinality(MaySend(j, some))
    BY <2>1, FiniteParts, FS_Subset
  <2>3. next[j] = given[j]
    BY <1>1 DEF Permitted
  <2> QED
    BY <2>2, <2>3, FiniteParts DEF Permitted
<1>2. Cardinality(SentFor(i, all)) + Cardinality(MaySend(i, more)) <= next[i]
  <2>1. MaySend(i, more) \subseteq MaySend(i, some) \cup {a}
    BY DEF MaySend
  <2>2. Cardinality(MaySend(i, more)) <= Cardinality(MaySend(i, some)) + 1
    <3>1. /\ IsFiniteSet(MaySend(i, some) \cup {a})
          /\ Cardinality(MaySend(i, some) \cup {a}) <= Cardinality(MaySend(i, some)) + 1
      BY FiniteParts, OneMore
    <3> QED
      BY <2>1, <3>1, FiniteParts, FS_Subset, FS_CardinalityType
  <2>3. next[i] = given[i] + 1
    BY DEF Permitted
  <2> QED
    BY <2>2, <2>3, FiniteParts DEF Permitted
<1> QED
  BY <1>1, <1>2 DEF Permitted

\* Who sends may not send again.
LEMMA PermitUsed ==
  ASSUME NEW all, NEW more, NEW some, NEW fewer, NEW given, Permitted(all, some, given),
         NEW a \in Adapter, NEW o \in Op, NEW i \in Intents,
         some[a].flight.phase = "unsent", some[a].flight.intent = i,
         fewer[a].flight.phase # "unsent",
         \A b \in Adapter \ {a} : fewer[b] = some[b],
         \A p \in Op \ {o} : more[p] = all[p], more[o].intent = i
  PROVE  Permitted(more, fewer, given)
<1>1. ASSUME NEW j \in Intents, j # i
      PROVE  Cardinality(SentFor(j, more)) + Cardinality(MaySend(j, fewer)) <= given[j]
  <2>1. MaySend(j, fewer) \subseteq MaySend(j, some) /\ SentFor(j, more) \subseteq SentFor(j, all)
    BY <1>1 DEF MaySend, SentFor
  <2>2. /\ Cardinality(MaySend(j, fewer)) <= Cardinality(MaySend(j, some))
        /\ Cardinality(SentFor(j, more)) <= Cardinality(SentFor(j, all))
    BY <2>1, FiniteParts, FS_Subset
  <2> QED
    BY <2>2, FiniteParts DEF Permitted
<1>2. Cardinality(SentFor(i, more)) + Cardinality(MaySend(i, fewer)) <= given[i]
  <2>1. MaySend(i, fewer) = MaySend(i, some) \ {a} /\ a \in MaySend(i, some)
    BY DEF MaySend
  <2>2. Cardinality(MaySend(i, fewer)) = Cardinality(MaySend(i, some)) - 1
    BY <2>1, FiniteParts, FS_RemoveElement
  <2>3. SentFor(i, more) \subseteq SentFor(i, all) \cup {o}
    BY DEF SentFor
  <2>4. Cardinality(SentFor(i, more)) <= Cardinality(SentFor(i, all)) + 1
    <3>1. /\ IsFiniteSet(SentFor(i, all) \cup {o})
          /\ Cardinality(SentFor(i, all) \cup {o}) <= Cardinality(SentFor(i, all)) + 1
      BY FiniteParts, OneMore
    <3> QED
      BY <2>3, <3>1, FiniteParts, FS_Subset, FS_CardinalityType
  <2> QED
    BY <2>2, <2>4, FiniteParts DEF Permitted
<1> QED
  BY <1>1, <1>2 DEF Permitted

----------------------------------------------------------------------------
\* What a step has to show that sends nothing and leaves the adapters alone.
LEMMA PageKeeps ==
  ASSUME ClientInv, UNCHANGED <<ops, stored, adapters, current, confirms>>,
         PageOK', ReviewOK(review', adapters[current].flight, ops),
         ReadsOK(adapters[current].flight, refresh', reported', Included)
  PROVE  ClientInv'
BY DEF ClientInv, Included

LEMMA PageSteps ==
  ASSUME ClientInv,
         \/ StartApp \/ CancelReview \/ QuoteMarket \/ MarketOrder
         \/ \E b \in Buildings : RequestUpgrade(b)
         \/ \E d \in Drafts : MarketInputsChanged(d)
         \/ \E q \in quoting : QuoteArrives(q)
         \/ RefreshStarts \/ RefreshReads \/ RefreshFails
  PROVE  ClientInv'
<1>0. /\ PageOK /\ ReviewOK(review, adapters[current].flight, ops)
      /\ ReadsOK(adapters[current].flight, refresh, reported, Included)
  BY DEF ClientInv
<1>1. CASE StartApp
  BY <1>0, <1>1, PageKeeps DEF StartApp, runtimeVars, PageOK
<1>2. CASE CancelReview
  BY <1>0, <1>2, PageKeeps DEF CancelReview, PageOK, ReviewOK, Ended, NoReview
<1>3. CASE QuoteMarket
  BY <1>0, <1>3, PageKeeps DEF QuoteMarket, PageOK
<1>4. ASSUME NEW intent \in Intents, Begin(intent) PROVE ClientInv'
  BY <1>0, <1>4, PageKeeps DEF Begin, Access, Waiting, PageOK, ReviewOK, NoReview
<1>5. CASE MarketOrder
  <2>1. quote \in Drafts /\ <<"market_buy", quote>> \in Intents
    BY <1>0, <1>5 DEF MarketOrder, PageOK, Intents
  <2> QED
    BY <1>4, <1>5, <2>1 DEF MarketOrder
<1>6. ASSUME NEW b \in Buildings, RequestUpgrade(b) PROVE ClientInv'
  <2>1. <<"upgrade", b>> \in Intents
    BY DEF Intents
  <2> QED
    BY <1>4, <1>6, <2>1 DEF RequestUpgrade
<1>7. ASSUME NEW d \in Drafts, MarketInputsChanged(d) PROVE ClientInv'
  <2>1. ReviewOK(review', adapters[current].flight, ops)
    BY <1>0, <1>7 DEF MarketInputsChanged, Invalidated, ReviewOK, Ended, NoReview
  <2> QED
    BY <1>0, <1>7, <2>1, PageKeeps DEF MarketInputsChanged, PageOK
<1>8. ASSUME NEW q \in quoting, QuoteArrives(q) PROVE ClientInv'
  BY <1>0, <1>8, PageKeeps DEF QuoteArrives, PageOK
<1>9. CASE RefreshStarts
  BY <1>0, <1>9, PageKeeps DEF RefreshStarts, PageOK, ReadsOK, NoRefresh
<1>10. CASE RefreshReads
  BY <1>0, <1>10, PageKeeps DEF RefreshReads, PageOK, ReadsOK, Outdated
<1>11. CASE RefreshFails
  BY <1>0, <1>11, PageKeeps DEF RefreshFails, PageOK, ReadsOK, NoRefresh
<1> QED
  BY <1>1, <1>2, <1>3, <1>5, <1>6, <1>7, <1>8, <1>9, <1>10, <1>11

\* What is left of the invariant when one adapter has changed, and what it
\* follows was sent before.
LEMMA AdapterKeeps ==
  ASSUME ClientInv, NEW a \in Adapter,
         UNCHANGED <<ops, current, confirms>>, RecordOK(stored'),
         DOMAIN adapters' = Adapter,
         \A b \in Adapter \ {a} : adapters'[b] = adapters[b],
         AdapterOK(adapters'[a], ops),
         adapters'[a].flight.phase # "unsent",
         PageOK', ReviewOK(review', adapters'[current].flight, ops),
         ReadsOK(adapters'[current].flight, refresh', reported', Included)
  PROVE  ClientInv'
<1>1. Permitted(ops, adapters', confirms)
  BY FewerSend DEF ClientInv
<1> QED
  BY <1>1 DEF ClientInv, Included

\* A promise that settles ends its flight, and so does nothing twice.
LEMMA SettledKeeps ==
  ASSUME ClientInv, NEW a \in Adapter, NEW done, NEW op, NEW seen,
         Settled(a, done, op, seen),
         DOMAIN adapters' = Adapter,
         \A b \in Adapter \ {a} : adapters'[b] = adapters[b],
         DOMAIN adapters'[a] = {"known", "flight"},
         RecordOK(adapters'[a].known), adapters'[a].flight = NoFlight,
         RecordOK(stored'),
         adapters[a].flight.phase # "none",
         \/ done = "reverted"
         \/ /\ adapters[a].flight.phase = "read"
            /\ op = adapters[a].flight.op /\ seen = adapters[a].flight.seen
            /\ done = IF adapters[a].flight.pending THEN "pending" ELSE "confirmed"
  PROVE  ClientInv'
<1> DEFINE f == adapters[a].flight
<1>0. /\ PageOK /\ ReviewOK(review, adapters[current].flight, ops)
      /\ ReadsOK(adapters[current].flight, refresh, reported, Included)
      /\ FlightOK(f, ops)
  BY DEF ClientInv, AdapterOK
<1>1. UNCHANGED <<ops, current, mounted, draft, confirms>>
  BY DEF Settled
<1>2. FlightOK(NoFlight, ops) /\ NoFlight.phase = "none"
  BY DEF FlightOK, NoFlight, Phases, Followed
<1>3. AdapterOK(adapters'[a], ops)
  BY <1>2 DEF AdapterOK
<1>4. ASSUME a # current PROVE ClientInv'
  <2>1. UNCHANGED <<review, refresh, shown, reported>>
    BY <1>4 DEF Settled
  <2>2. PageOK'
    BY <1>0, <1>1, <2>1 DEF PageOK
  <2>3. adapters'[current] = adapters[current]
    BY <1>0, <1>4 DEF PageOK
  <2> QED
    BY <1>0, <1>1, <1>2, <1>3, <2>1, <2>2, <2>3, AdapterKeeps
<1>5. ASSUME a = current, ~mounted PROVE ClientInv'
  <2>1. UNCHANGED <<review, refresh, shown, reported>>
    BY <1>5 DEF Settled
  <2>2. PageOK'
    BY <1>0, <1>1, <2>1 DEF PageOK
  <2>3. ReviewOK(review', NoFlight, ops)
    BY <1>0, <1>5, <2>1 DEF PageOK, ReviewOK, NoFlight
  <2>4. ReadsOK(NoFlight, refresh', reported', Included)
    BY <1>0, <1>5, <2>1 DEF ReadsOK, NoFlight
  <2> QED
    BY <1>0, <1>1, <1>2, <1>3, <1>5, <2>2, <2>3, <2>4, AdapterKeeps
<1>6. ASSUME a = current, mounted PROVE ClientInv'
  <2>1. ReviewOK(review', NoFlight, ops)
    <3>1. CASE "dispatch" \notin f.waiting
      <4>1. review' = review
        BY <1>6, <3>1 DEF Settled
      <4> QED
        BY <1>0, <1>6, <3>1, <4>1 DEF ReviewOK, NoFlight
    <3>2. CASE "dispatch" \in f.waiting /\ done = "reverted"
      <4>1. review' = Ended("reverted")
        BY <1>6, <3>2 DEF Settled
      <4> QED
        BY <4>1 DEF ReviewOK, NoFlight, Ended, NoReview
    <3>3. CASE "dispatch" \in f.waiting /\ done # "reverted"
      <4>1. /\ review' = [review EXCEPT !.status = done, !.op = op]
            /\ done \in {"pending", "confirmed"} /\ f.phase = "read"
            /\ done = "confirmed" => ~f.pending
            /\ op = f.op
        BY <1>6, <3>3 DEF Settled
      <4>2. ASSUME review.fresh, done = "confirmed"
            PROVE  op \in Op /\ ops[op] = [intent |-> review.intent, status |-> "success"]
        <5>1. /\ op \in Op /\ ops[op].status = "success"
              /\ ops[op].intent = review.intent
          BY <1>0, <1>6, <3>3, <4>1, <4>2 DEF ReviewOK, FlightOK, Followed
        <5>2. OpsOK(ops)
          BY DEF ClientInv
        <5> QED
          BY <5>1, <5>2 DEF OpsOK
      <4> QED
        BY <1>0, <4>1, <4>2 DEF ReviewOK, NoFlight
    <3> QED
      BY <3>1, <3>2, <3>3
  <2>2. /\ ReadsOK(NoFlight, refresh', reported', Included)
        /\ reported' \subseteq shown'
    <3>1. CASE done = "reverted"
      <4>1. UNCHANGED <<shown, reported>> /\ (refresh' = NoRefresh \/ refresh' = refresh)
        BY <3>1 DEF Settled
      <4> QED
        BY <1>0, <4>1 DEF ReadsOK, PageOK, NoFlight, NoRefresh
    <3>2. CASE f.waiting = {}
      <4>1. UNCHANGED <<shown, reported, refresh>>
        BY <3>2 DEF Settled
      <4> QED
        BY <1>0, <4>1 DEF ReadsOK, PageOK, NoFlight
    <3>3. CASE done # "reverted" /\ f.waiting # {}
      <4>1. "dispatch" \in f.waiting \/ "resume" \in f.waiting
        BY <1>0, <3>3 DEF FlightOK
      <4>2. /\ shown' = seen
            /\ reported' = IF done = "confirmed" THEN reported \cup {op} ELSE reported
            /\ \/ refresh' = NoRefresh
               \/ refresh' = [refresh EXCEPT !.stale = TRUE]
               \/ refresh' = refresh /\ refresh.phase = "idle"
        BY <1>6, <3>3, <4>1 DEF Settled
      <4>3. /\ f.phase = "read" /\ op = f.op /\ seen = f.seen
            /\ done = "confirmed" => ~f.pending
        BY <3>3
      <4>4. reported \subseteq seen /\ (done = "confirmed" => op \in seen /\ op \in Included)
        BY <1>0, <1>6, <4>3 DEF ReadsOK, FlightOK, Followed, Included
      <4>5. reported' \subseteq shown' /\ reported' \subseteq Included
        BY <1>0, <4>2, <4>4 DEF ReadsOK
      <4>6. DOMAIN refresh' = {"phase", "seen", "stale"} /\ (refresh'.phase = "read" => refresh'.stale)
        BY <1>0, <4>2 DEF ReadsOK, NoRefresh
      <4> QED
        BY <4>5, <4>6 DEF ReadsOK, NoFlight
    <3> QED
      BY <3>1, <3>2, <3>3
  <2>3. PageOK'
    BY <1>0, <1>1, <1>6, <2>2 DEF PageOK
  <2> QED
    BY <1>1, <1>2, <1>3, <1>6, <2>1, <2>2, <2>3, AdapterKeeps
<1> QED
  BY <1>4, <1>5, <1>6

LEMMA SettlingSteps ==
  ASSUME ClientInv, NEW a \in Adapter,
         NotSent(a) \/ PollingFails(a) \/ ReceiptOfFailure(a) \/ ResultArrives(a)
           \/ StateUnreadable(a)
  PROVE  ClientInv'
<1>0. /\ DOMAIN adapters = Adapter /\ AdapterOK(adapters[a], ops) /\ RecordOK(stored)
  BY DEF ClientInv
<1>1. RecordOK(NoRecord)
  BY DEF RecordOK, NoRecord
<1>2. CASE NotSent(a)
  <2>1. Settled(a, "reverted", NoOp, {})
    BY <1>2 DEF NotSent, Rejected
  <2> QED
    BY <1>0, <1>2, <2>1, SettledKeeps DEF NotSent, AdapterOK
<1>3. CASE PollingFails(a)
  <2>1. Settled(a, "reverted", NoOp, {})
    BY <1>3 DEF PollingFails, Rejected
  <2> QED
    BY <1>0, <1>3, <2>1, SettledKeeps DEF PollingFails, AdapterOK
<1>4. CASE ReceiptOfFailure(a)
  <2>1. Settled(a, "reverted", NoOp, {})
    BY <1>4 DEF ReceiptOfFailure, Rejected
  <2> QED
    BY <1>0, <1>1, <1>4, <2>1, SettledKeeps DEF ReceiptOfFailure, AdapterOK, NoAdapter
<1>5. CASE ResultArrives(a)
  <2> DEFINE done == IF adapters[a].flight.pending THEN "pending" ELSE "confirmed"
  <2>1. Settled(a, done, adapters[a].flight.op, adapters[a].flight.seen)
    BY <1>5 DEF ResultArrives
  <2>2. /\ DOMAIN adapters' = Adapter
        /\ \A b \in Adapter \ {a} : adapters'[b] = adapters[b]
        /\ DOMAIN adapters'[a] = {"known", "flight"}
        /\ RecordOK(adapters'[a].known) /\ adapters'[a].flight = NoFlight
        /\ RecordOK(stored') /\ adapters[a].flight.phase = "read"
    BY <1>0, <1>5 DEF ResultArrives, AdapterOK
  <2> QED
    BY <2>1, <2>2, SettledKeeps
<1>6. CASE StateUnreadable(a)
  <2>1. Settled(a, "reverted", NoOp, {})
    BY <1>6 DEF StateUnreadable, Rejected
  <2> QED
    BY <1>0, <1>6, <2>1, SettledKeeps DEF StateUnreadable, AdapterOK
<1> QED
  BY <1>2, <1>3, <1>4, <1>5, <1>6

\* An adapter that goes on with what it has sent. Nobody awaits one that is
\* forgotten.
LEMMA FlightGoesOn ==
  ASSUME ClientInv, NEW a \in Adapter, NEW next,
         UNCHANGED <<ops, current, mounted, confirms>>, UNCHANGED runtimeVars,
         RecordOK(stored'), adapters' = [adapters EXCEPT ![a] = next],
         AdapterOK(next, ops),
         next.flight.phase # "unsent",
         next.flight.waiting = adapters[a].flight.waiting,
         next.flight.phase \in Followed =>
           next.flight.op = adapters[a].flight.op /\ next.flight.intent = adapters[a].flight.intent,
         adapters[a].flight.phase \in Followed,
         next.flight.phase = "read" => reported \subseteq next.flight.seen
  PROVE  ClientInv'
<1>0. /\ PageOK /\ ReviewOK(review, adapters[current].flight, ops)
      /\ ReadsOK(adapters[current].flight, refresh, reported, Included)
      /\ DOMAIN adapters = Adapter
  BY DEF ClientInv
<1>1. PageOK'
  BY <1>0 DEF PageOK, runtimeVars
<1>2. /\ DOMAIN adapters' = Adapter /\ adapters'[a] = next
      /\ \A b \in Adapter \ {a} : adapters'[b] = adapters[b]
  BY <1>0
<1>3. /\ ReviewOK(review', adapters'[current].flight, ops)
      /\ ReadsOK(adapters'[current].flight, refresh', reported', Included)
  <2>1. CASE a # current
    BY <1>0, <1>2, <2>1 DEF PageOK, runtimeVars
  <2>2. CASE a = current
    <3>0. next.flight.phase \in Followed \cup {"none"} /\ (next.flight.phase = "none" => next.flight.waiting = {})
      BY DEF AdapterOK, FlightOK, Phases, Followed
    <3>1. ReviewOK(review, next.flight, ops)
      BY <1>0, <2>2, <3>0 DEF ReviewOK, Followed
    <3>2. ReadsOK(next.flight, refresh, reported, Included)
      BY <1>0, <2>2 DEF ReadsOK
    <3> QED
      BY <1>2, <2>2, <3>1, <3>2 DEF runtimeVars
  <2> QED
    BY <2>1, <2>2
<1> QED
  BY <1>1, <1>2, <1>3, AdapterKeeps

LEMMA FlyingSteps ==
  ASSUME ClientInv, NEW a \in Adapter,
         HashArrives(a) \/ ReceiptLate(a) \/ ReceiptArrives(a) \/ StateRead(a)
  PROVE  ClientInv'
<1>0. /\ DOMAIN adapters = Adapter /\ AdapterOK(adapters[a], ops) /\ RecordOK(stored)
      /\ FlightOK(adapters[a].flight, ops) /\ reported \subseteq Included
  BY DEF ClientInv, AdapterOK, ReadsOK
<1>1. RecordOK(NoRecord) /\ AdapterOK(NoAdapter, ops)
  BY DEF AdapterOK, NoAdapter, RecordOK, NoRecord, FlightOK, NoFlight, Phases, Followed
<1>2. CASE HashArrives(a)
  <2> DEFINE record == [op |-> adapters[a].flight.op,
                        action |-> TypeOf(adapters[a].flight.intent)]
             next == [adapters[a] EXCEPT !.known = record, !.flight.phase = "polling"]
  <2>1. RecordOK(record) /\ stored' = record
    BY <1>0, <1>2 DEF HashArrives, RecordOK, FlightOK, Followed
  <2>2. adapters' = [adapters EXCEPT ![a] = next]
    BY <1>0, <1>2 DEF HashArrives, AdapterOK
  <2>3. AdapterOK(next, ops)
    BY <1>0, <1>2, <2>1 DEF HashArrives, AdapterOK, FlightOK, Followed, Phases
  <2>4. /\ next.flight.phase = "polling"
        /\ next.flight.waiting = adapters[a].flight.waiting
        /\ next.flight.op = adapters[a].flight.op
        /\ next.flight.intent = adapters[a].flight.intent
    BY <1>0 DEF AdapterOK, FlightOK
  <2> HIDE DEF next, record
  <2> QED
    BY <1>2, <2>1, <2>2, <2>3, <2>4, FlightGoesOn DEF HashArrives, Followed
<1>3. ASSUME NEW ad, AdapterOK(ad, ops), ad.flight.phase = "reading",
             ad.flight.waiting = adapters[a].flight.waiting,
             ad.flight.op = adapters[a].flight.op,
             ad.flight.intent = adapters[a].flight.intent,
             adapters[a].flight.phase \in Followed,
             UNCHANGED <<ops, current, mounted, confirms>>, UNCHANGED runtimeVars,
             RecordOK(stored'), adapters' = [adapters EXCEPT ![a] = Kept(ad)]
      PROVE  ClientInv'
  <2>1. CASE Kept(ad) = ad
    BY <1>3, <2>1, FlightGoesOn DEF Followed
  <2>2. CASE Kept(ad) = NoAdapter /\ ad.flight.waiting = {}
    <3>1. /\ NoAdapter.flight.phase = "none"
          /\ NoAdapter.flight.waiting = {}
      BY DEF NoAdapter, NoFlight
    <3> QED
      BY <1>1, <1>3, <2>2, <3>1, FlightGoesOn DEF Followed
  <2> QED
    BY <2>1, <2>2 DEF Kept
<1>4. CASE ReceiptLate(a)
  <2> DEFINE ad == [adapters[a] EXCEPT !.flight.phase = "reading", !.flight.pending = TRUE]
  <2>1. adapters' = [adapters EXCEPT ![a] = Kept(ad)]
    BY <1>0, <1>4 DEF ReceiptLate, AdapterOK
  <2>2. /\ AdapterOK(ad, ops) /\ ad.flight.phase = "reading"
        /\ ad.flight.waiting = adapters[a].flight.waiting
        /\ ad.flight.op = adapters[a].flight.op
        /\ ad.flight.intent = adapters[a].flight.intent
    BY <1>0, <1>4 DEF ReceiptLate, AdapterOK, FlightOK, Followed, Phases
  <2> HIDE DEF ad
  <2> QED
    BY <1>0, <1>3, <1>4, <2>1, <2>2 DEF ReceiptLate, Followed
<1>5. CASE ReceiptArrives(a)
  <2> DEFINE ad == [adapters[a] EXCEPT !.flight.phase = "reading", !.known = NoRecord]
  <2>1. adapters' = [adapters EXCEPT ![a] = Kept(ad)]
    BY <1>0, <1>5 DEF ReceiptArrives, AdapterOK
  <2>2. /\ AdapterOK(ad, ops) /\ ad.flight.phase = "reading"
        /\ ad.flight.waiting = adapters[a].flight.waiting
        /\ ad.flight.op = adapters[a].flight.op
        /\ ad.flight.intent = adapters[a].flight.intent
    BY <1>0, <1>1, <1>5 DEF ReceiptArrives, Succeeded, AdapterOK, FlightOK, Followed, Phases
  <2> HIDE DEF ad
  <2> QED
    BY <1>0, <1>1, <1>3, <1>5, <2>1, <2>2 DEF ReceiptArrives, Followed
<1>6. CASE StateRead(a)
  <2> DEFINE next == [adapters[a] EXCEPT !.flight.phase = "read", !.flight.seen = Included]
  <2>1. adapters' = [adapters EXCEPT ![a] = next]
    BY <1>0, <1>6 DEF StateRead, AdapterOK
  <2>2. /\ AdapterOK(next, ops) /\ next.flight.phase = "read"
        /\ next.flight.waiting = adapters[a].flight.waiting
        /\ next.flight.op = adapters[a].flight.op
        /\ next.flight.intent = adapters[a].flight.intent
        /\ next.flight.seen = Included
    BY <1>0, <1>6 DEF StateRead, AdapterOK, FlightOK, Followed, Phases, Included
  <2> HIDE DEF next
  <2> QED
    BY <1>0, <1>6, <2>1, <2>2, FlightGoesOn DEF StateRead, Followed
<1> QED
  BY <1>2, <1>4, <1>5, <1>6

\* The wallet signs what was confirmed.
LEMMA ApprovedKeeps ==
  ASSUME ClientInv, NEW a \in Adapter, Approved(a)
  PROVE  ClientInv'
<1> DEFINE f == adapters[a].flight
<1>0. /\ DOMAIN adapters = Adapter /\ AdapterOK(adapters[a], ops) /\ FlightOK(f, ops)
      /\ DOMAIN ops = Op /\ OpsOK(ops) /\ PageOK
      /\ ReviewOK(review, adapters[current].flight, ops)
      /\ ReadsOK(adapters[current].flight, refresh, reported, Included)
      /\ Permitted(ops, adapters, confirms)
  BY DEF ClientInv, AdapterOK
<1>1. PICK o \in Op :
        /\ ops[o].status = "unused"
        /\ ops' = [ops EXCEPT ![o] = [intent |-> f.intent, status |-> "sent"]]
        /\ adapters' = [adapters EXCEPT ![a].flight.phase = "approved", ![a].flight.op = o]
  BY DEF Approved
<1> DEFINE next == [adapters[a] EXCEPT !.flight.phase = "approved", !.flight.op = o]
<1>2. /\ f.phase = "unsent" /\ f.intent \in Intents
      /\ UNCHANGED <<stored, current, mounted, confirms>> /\ UNCHANGED runtimeVars
  BY <1>0 DEF Approved, FlightOK
<1>3. adapters' = [adapters EXCEPT ![a] = next]
  BY <1>0, <1>1 DEF AdapterOK
<1>4. /\ next.flight.phase = "approved" /\ next.flight.op = o
      /\ next.flight.intent = f.intent /\ next.flight.waiting = f.waiting
      /\ DOMAIN next = {"known", "flight"} /\ next.known = adapters[a].known
      /\ DOMAIN next.flight = {"phase", "intent", "op", "pending", "seen", "waiting"}
  BY <1>0 DEF AdapterOK, FlightOK
<1> HIDE DEF next
<1>5. Grown(ops, ops') /\ DOMAIN ops' = Op
  BY <1>0, <1>1 DEF Grown
<1>6. OpsOK(ops')
  BY <1>0, <1>1, <1>2 DEF OpsOK
<1>7. /\ \A b \in Adapter : AdapterOK(adapters[b], ops')
      /\ AdapterOK(next, ops')
  <2>1. \A b \in Adapter : AdapterOK(adapters[b], ops')
    BY <1>5, AdapterGrown DEF ClientInv
  <2>2. FlightOK(next.flight, ops')
    BY <1>0, <1>4 DEF FlightOK, Phases, Followed
  <2> QED
    BY <1>0, <1>4, <2>1, <2>2 DEF AdapterOK
<1>8. Permitted(ops', adapters', confirms)
  <2>1. ops'[o].intent = f.intent /\ \A p \in Op \ {o} : ops'[p] = ops[p]
    BY <1>0, <1>1
  <2>2. adapters'[a] = next /\ \A b \in Adapter \ {a} : adapters'[b] = adapters[b]
    BY <1>0, <1>3
  <2>3. adapters'[a].flight.phase # "unsent"
    BY <1>4, <2>2
  <2> QED
    BY <1>0, <1>2, <2>1, <2>2, <2>3, PermitUsed
<1>9. ReviewOK(review', adapters'[current].flight, ops')
  <2>0. FlightOK(adapters[current].flight, ops)
    BY <1>0 DEF ClientInv, AdapterOK, PageOK
  <2>1. CASE a # current
    <3>1. ReviewOK(review, adapters[current].flight, ops')
      BY <1>0, <1>5, <2>0, ReviewGrown
    <3> QED
      BY <1>0, <1>2, <1>3, <2>1, <3>1 DEF PageOK, runtimeVars
  <2>2. CASE a = current
    <3>1. ReviewOK(review, f, ops')
      BY <1>0, <1>5, <2>0, <2>2, ReviewGrown
    <3>2. ops'[o].intent = f.intent /\ ops'[o].status # "unused"
      BY <1>0, <1>1
    <3>3. ReviewOK(review, next.flight, ops')
      BY <1>4, <3>1, <3>2 DEF ReviewOK
    <3> QED
      BY <1>0, <1>2, <1>3, <2>2, <3>3 DEF runtimeVars
  <2> QED
    BY <2>1, <2>2
<1>10. ReadsOK(adapters'[current].flight, refresh', reported', Included')
  <2>1. Included \subseteq Included'
    BY <1>0, <1>1 DEF Included
  <2>2. CASE a # current
    BY <1>0, <1>2, <1>3, <2>1, <2>2 DEF PageOK, runtimeVars, ReadsOK
  <2>3. CASE a = current
    <3>1. ReadsOK(next.flight, refresh, reported, Included')
      BY <1>0, <1>4, <2>1 DEF ReadsOK
    <3> QED
      BY <1>0, <1>2, <1>3, <2>3, <3>1 DEF runtimeVars
  <2> QED
    BY <2>2, <2>3
<1>11. PageOK'
  BY <1>0, <1>2 DEF PageOK, runtimeVars
<1>12. DOMAIN adapters' = Adapter /\ \A b \in Adapter : AdapterOK(adapters'[b], ops')
  BY <1>0, <1>3, <1>7
<1> QED
  BY <1>2, <1>5, <1>6, <1>8, <1>9, <1>10, <1>11, <1>12 DEF ClientInv

\* The chain settles an operation.
LEMMA IncludedKeeps ==
  ASSUME ClientInv, NEW o \in Op, OpIncluded(o)
  PROVE  ClientInv'
<1>0. /\ DOMAIN ops = Op /\ OpsOK(ops) /\ PageOK
      /\ ReviewOK(review, adapters[current].flight, ops)
      /\ ReadsOK(adapters[current].flight, refresh, reported, Included)
      /\ Permitted(ops, adapters, confirms)
  BY DEF ClientInv
<1>1. PICK outcome \in {"success", "failed"} : ops' = [ops EXCEPT ![o].status = outcome]
  BY DEF OpIncluded
<1>2. /\ ops[o].status = "sent"
      /\ UNCHANGED <<stored, adapters, current, mounted, confirms>> /\ UNCHANGED runtimeVars
  BY DEF OpIncluded
<1>3. /\ DOMAIN ops' = Op /\ \A p \in Op \ {o} : ops'[p] = ops[p]
      /\ ops'[o] = [intent |-> ops[o].intent, status |-> outcome]
  BY <1>0, <1>1 DEF OpsOK
<1>4. Grown(ops, ops')
  BY <1>2, <1>3 DEF Grown
<1>5. OpsOK(ops')
  BY <1>0, <1>2, <1>3 DEF OpsOK
<1>6. \A b \in Adapter : AdapterOK(adapters[b], ops')
  BY <1>4, AdapterGrown DEF ClientInv
<1>7. Permitted(ops', adapters, confirms)
  <2>1. \A i \in Intents : SentFor(i, ops') = SentFor(i, ops)
    BY <1>3 DEF SentFor
  <2> QED
    BY <1>0, <2>1 DEF Permitted
<1>8. ReviewOK(review, adapters[current].flight, ops')
  <2>1. FlightOK(adapters[current].flight, ops)
    BY <1>0 DEF ClientInv, AdapterOK, PageOK
  <2> QED
    BY <1>0, <1>4, <2>1, ReviewGrown
<1>9. ReadsOK(adapters[current].flight, refresh, reported, Included')
  <2>1. Included \subseteq Included'
    BY <1>2, <1>3 DEF Included
  <2> QED
    BY <1>0, <2>1 DEF ReadsOK
<1>10. PageOK'
  BY <1>0, <1>2 DEF PageOK, runtimeVars
<1> QED
  BY <1>2, <1>3, <1>5, <1>6, <1>7, <1>8, <1>9, <1>10 DEF ClientInv, runtimeVars

\* A new page takes over what was stored, and nothing else.
LEMMA ReopenKeeps ==
  ASSUME ClientInv, NEW reload \in BOOLEAN, Reopen(reload)
  PROVE  ClientInv'
<1>0. /\ DOMAIN adapters = Adapter /\ PageOK /\ RecordOK(stored)
      /\ \A a \in Adapter : AdapterOK(adapters[a], ops)
      /\ Permitted(ops, adapters, confirms)
      /\ UNCHANGED <<ops, stored, confirms>>
  BY DEF ClientInv, Reopen
<1>1. current + 1 \in Adapter
  BY <1>0, ClientAssumption DEF Reopen, PageOK, Adapter, ClientBounds
<1> DEFINE fresh == [NoAdapter EXCEPT !.known = stored]
<1>2. AdapterOK(NoAdapter, ops) /\ NoAdapter.flight.phase = "none"
  BY DEF AdapterOK, NoAdapter, RecordOK, NoRecord, FlightOK, NoFlight, Phases, Followed
<1>3. AdapterOK(fresh, ops) /\ fresh.flight = NoFlight
  BY <1>0, <1>2 DEF AdapterOK, NoAdapter
<1>4. ASSUME NEW a \in Adapter
      PROVE  /\ AdapterOK(Orphan(adapters[a]), ops)
             /\ Orphan(adapters[a]).flight.phase = "unsent" =>
                  /\ adapters[a].flight.phase = "unsent"
                  /\ Orphan(adapters[a]).flight.intent = adapters[a].flight.intent
  <2> DEFINE ad == [adapters[a] EXCEPT !.flight.waiting = {}]
  <2>1. AdapterOK(adapters[a], ops)
    BY <1>0
  <2>2. /\ AdapterOK(ad, ops) /\ ad.flight.phase = adapters[a].flight.phase
        /\ ad.flight.intent = adapters[a].flight.intent
    BY <2>1 DEF AdapterOK, FlightOK
  <2>3. Orphan(adapters[a]) = ad \/ Orphan(adapters[a]) = NoAdapter
    BY DEF Orphan, Kept
  <2> HIDE DEF ad
  <2> QED
    BY <1>2, <2>2, <2>3
<1>5. /\ DOMAIN adapters' = Adapter
      /\ adapters'[current + 1] = fresh
      /\ \A a \in Adapter \ {current + 1} :
           adapters'[a] = NoAdapter \/ adapters'[a] = Orphan(adapters[a])
      /\ current' = current + 1
  BY <1>1 DEF Reopen
<1> HIDE DEF fresh
<1>6. \A a \in Adapter : AdapterOK(adapters'[a], ops)
  BY <1>2, <1>3, <1>4, <1>5
<1>7. Permitted(ops, adapters', confirms)
  <2>1. NoFlight.phase = "none"
    BY DEF NoFlight
  <2>2. \A a \in Adapter : adapters'[a].flight.phase = "unsent" =>
          /\ adapters[a].flight.phase = "unsent"
          /\ adapters[a].flight.intent = adapters'[a].flight.intent
    BY <1>2, <1>3, <1>4, <1>5, <2>1
  <2> QED
    BY <1>0, <2>2, FewerSend
<1>8. ReviewOK(review', NoFlight, ops)
  BY DEF Reopen, ReviewOK, NoReview, NoFlight
<1>9. ReadsOK(NoFlight, refresh', reported', Included)
  BY DEF Reopen, ReadsOK, NoRefresh, NoFlight
<1>10. PageOK'
  BY <1>1, ClientAssumption DEF Reopen, PageOK, ClientBounds, NoReview
<1>11. Included' = Included
  BY <1>0 DEF Included
<1> QED
  BY <1>0, <1>3, <1>5, <1>6, <1>7, <1>8, <1>9, <1>10, <1>11 DEF ClientInv

\* What execute makes of an adapter.
LEMMA ExecutedOK ==
  ASSUME NEW ad, NEW all, AdapterOK(ad, all), NEW caller \in {"dispatch", "resume"},
         NEW intent, intent \in Intents \/ ad.known.op # NoOp \/ ad.flight.phase # "none"
  PROVE  /\ AdapterOK(Executed(ad, intent, caller), all)
         /\ Executed(ad, intent, caller).flight.waiting = ad.flight.waiting \cup {caller}
         /\ ad.flight.phase # "none" =>
              \E f : /\ Executed(ad, intent, caller).flight = f
                     /\ f.phase = ad.flight.phase /\ f.intent = ad.flight.intent
                     /\ f.op = ad.flight.op /\ f.seen = ad.flight.seen
         /\ ad.flight.phase = "none" =>
              /\ Executed(ad, intent, caller).flight.intent = intent
              /\ Executed(ad, intent, caller).flight.phase =
                   IF ad.known.op = NoOp THEN "unsent" ELSE "polling"
<1> DEFINE x == Executed(ad, intent, caller)
<1>1. CASE ad.flight.phase # "none"
  <2>1. x = [ad EXCEPT !.flight.waiting = ad.flight.waiting \cup {caller}]
    BY <1>1 DEF Executed, AdapterOK, FlightOK
  <2>2. AdapterOK(x, all)
    BY <1>1, <2>1 DEF AdapterOK, FlightOK
  <2>3. /\ x.flight.waiting = ad.flight.waiting \cup {caller}
        /\ x.flight.phase = ad.flight.phase /\ x.flight.intent = ad.flight.intent
        /\ x.flight.op = ad.flight.op /\ x.flight.seen = ad.flight.seen
    BY <2>1 DEF AdapterOK, FlightOK
  <2> QED
    BY <1>1, <2>2, <2>3
<1>2. CASE ad.flight.phase = "none"
  <2> DEFINE f == [NoFlight EXCEPT !.phase = IF ad.known.op = NoOp THEN "unsent" ELSE "polling",
                                   !.intent = intent, !.op = ad.known.op,
                                   !.waiting = {caller}]
  <2>1. x = [ad EXCEPT !.flight = f]
    BY <1>2 DEF Executed
  <2>2. /\ DOMAIN f = {"phase", "intent", "op", "pending", "seen", "waiting"}
        /\ f.phase = IF ad.known.op = NoOp THEN "unsent" ELSE "polling"
        /\ f.intent = intent /\ f.op = ad.known.op /\ f.waiting = {caller}
    BY DEF NoFlight
  <2> HIDE DEF f
  <2>3. FlightOK(f, all)
    BY <1>2, <2>2 DEF FlightOK, Phases, Followed, AdapterOK, RecordOK
  <2>4. x.flight = f /\ DOMAIN x = DOMAIN ad /\ x.known = ad.known
    BY <2>1 DEF AdapterOK
  <2>5. ad.flight.waiting = {}
    BY <1>2 DEF AdapterOK, FlightOK
  <2> HIDE DEF x
  <2>6. AdapterOK(x, all)
    BY <2>3, <2>4 DEF AdapterOK
  <2>7. x.flight.waiting = ad.flight.waiting \cup {caller}
    BY <2>2, <2>4, <2>5
  <2>8. x.flight.intent = intent /\ x.flight.phase = IF ad.known.op = NoOp THEN "unsent" ELSE "polling"
    BY <2>2, <2>4
  <2> QED
    BY <1>2, <2>6, <2>7, <2>8 DEF x
<1> QED
  BY <1>1, <1>2

\* A confirmation is used by the adapter of the page at most.
LEMMA ConfirmKeeps ==
  ASSUME ClientInv, ConfirmReview
  PROVE  ClientInv'
<1> DEFINE ad == adapters[current]
           intent == review.intent
<1>0. /\ DOMAIN adapters = Adapter /\ current \in Adapter /\ AdapterOK(ad, ops)
      /\ ReviewOK(review, ad.flight, ops)
      /\ ReadsOK(ad.flight, refresh, reported, Included)
      /\ Permitted(ops, adapters, confirms) /\ PageOK
      /\ \A b \in Adapter : AdapterOK(adapters[b], ops)
  BY DEF ClientInv, PageOK
<1>1. /\ mounted /\ review.status = "reviewing" /\ intent \in Intents /\ ~review.fresh
      /\ confirms' = [confirms EXCEPT ![intent] = @ + 1]
      /\ UNCHANGED <<ops, stored, current, mounted, shown, refresh, draft, reported>>
      /\ "dispatch" \notin ad.flight.waiting
  BY <1>0 DEF ConfirmReview, ReviewOK
<1>2. PageOK'
  BY <1>0, <1>1 DEF PageOK
<1>3. ASSUME NEW x, AdapterOK(x, ops), DOMAIN adapters' = Adapter, adapters'[current] = x,
             \A b \in Adapter \ {current} : adapters'[b] = adapters[b],
             x.flight.phase = "unsent" =>
               \/ x.flight.intent = intent
               \/ ad.flight.phase = "unsent" /\ ad.flight.intent = x.flight.intent,
             ReviewOK(review', x.flight, ops),
             x.flight.phase = "read" => ad.flight.phase = "read" /\ x.flight.seen = ad.flight.seen
      PROVE  ClientInv'
  <2>2. Permitted(ops, adapters', confirms')
    <3>1. adapters'[current].flight.phase = "unsent" =>
            \/ adapters'[current].flight.intent = intent
            \/ /\ adapters[current].flight.phase = "unsent"
               /\ adapters[current].flight.intent = adapters'[current].flight.intent
      BY <1>3
    <3>2. /\ DOMAIN confirms' = Intents /\ confirms'[intent] = confirms[intent] + 1
          /\ \A j \in Intents \ {intent} : confirms'[j] = confirms[j]
      BY <1>0, <1>1 DEF Permitted
    <3>3. intent \in Intents /\ current \in Adapter /\ Permitted(ops, adapters, confirms)
      BY <1>0, <1>1
    <3> HIDE DEF intent
    <3> QED
      BY <1>3, <3>1, <3>2, <3>3, OnePermitted
  <2>3. ReadsOK(x.flight, refresh, reported, Included)
    BY <1>0, <1>3 DEF ReadsOK
  <2>4. Included' = Included
    BY <1>1 DEF Included
  <2>5. \A b \in Adapter : AdapterOK(adapters'[b], ops)
    BY <1>0, <1>3
  <2>6. DOMAIN ops = Op /\ OpsOK(ops) /\ RecordOK(stored)
    BY DEF ClientInv
  <2> QED
    BY <1>1, <1>2, <1>3, <2>2, <2>3, <2>4, <2>5, <2>6 DEF ClientInv
<1>4. CASE ~Access
  <2>1. review' = [review EXCEPT !.status = "confirming"] /\ adapters' = adapters
    BY <1>4 DEF ConfirmReview
  <2>2. ReviewOK(review', ad.flight, ops)
    BY <1>0, <1>1, <2>1 DEF ReviewOK
  <2> HIDE DEF ad
  <2> QED
    BY <1>0, <1>3, <2>1, <2>2 DEF ad
<1>5. CASE Access /\ Refused(ad, TypeOf(intent))
  <2>1. review' = Ended("reverted") /\ adapters' = adapters
    BY <1>5 DEF ConfirmReview
  <2>2. ReviewOK(review', ad.flight, ops)
    BY <1>1, <2>1 DEF ReviewOK, Ended, NoReview
  <2> HIDE DEF ad
  <2> QED
    BY <1>0, <1>3, <2>1, <2>2 DEF ad
<1>6. CASE Access /\ ~Refused(ad, TypeOf(intent))
  <2>1. /\ review' = [review EXCEPT !.status = "confirming", !.fresh = ad = NoAdapter]
        /\ adapters' = [adapters EXCEPT ![current] = Executed(ad, intent, "dispatch")]
    BY <1>6 DEF ConfirmReview
  <2> DEFINE x == Executed(ad, intent, "dispatch")
  <2>2. /\ AdapterOK(x, ops) /\ "dispatch" \in x.flight.waiting
        /\ ad.flight.phase # "none" =>
             x.flight.phase = ad.flight.phase /\ x.flight.intent = ad.flight.intent
               /\ x.flight.seen = ad.flight.seen
        /\ ad.flight.phase = "none" =>
             /\ x.flight.intent = intent
             /\ x.flight.phase = IF ad.known.op = NoOp THEN "unsent" ELSE "polling"
    BY <1>0, <1>1, ExecutedOK
  <2>3. DOMAIN review' = DOMAIN review /\ review'.status = "confirming"
        /\ review'.intent = intent /\ (review'.fresh => ad = NoAdapter)
    BY <1>0, <2>1 DEF ReviewOK
  <2>4. ad = NoAdapter => ad.flight.phase = "none" /\ ad.known.op = NoOp
    BY DEF NoAdapter, NoFlight, NoRecord
  <2> HIDE DEF x
  <2>5. ReviewOK(review', x.flight, ops)
    BY <1>0, <2>2, <2>3, <2>4 DEF ReviewOK, Followed
  <2>6. /\ DOMAIN adapters' = Adapter /\ adapters'[current] = x
        /\ \A b \in Adapter \ {current} : adapters'[b] = adapters[b]
    BY <1>0, <2>1 DEF x
  <2>7. x.flight.phase = "read" => ad.flight.phase = "read" /\ x.flight.seen = ad.flight.seen
    BY <2>2
  <2>8. x.flight.phase = "unsent" =>
          \/ x.flight.intent = intent
          \/ ad.flight.phase = "unsent" /\ ad.flight.intent = x.flight.intent
    BY <2>2
  <2> HIDE DEF ad, intent
  <2> QED
    BY <1>3, <2>2, <2>5, <2>6, <2>7, <2>8
<1> QED
  BY <1>4, <1>5, <1>6

\* A refresh that arrives shows what it has read, and resumes what is pending
\* without sending.
LEMMA ArrivesKeeps ==
  ASSUME ClientInv, RefreshArrives
  PROVE  ClientInv'
<1> DEFINE ad == adapters[current]
<1>0. /\ DOMAIN adapters = Adapter /\ current \in Adapter /\ AdapterOK(ad, ops)
      /\ ReviewOK(review, ad.flight, ops) /\ PageOK /\ RecordOK(stored)
      /\ ReadsOK(ad.flight, refresh, reported, Included)
  BY DEF ClientInv, PageOK
<1>1. /\ mounted /\ refresh.phase = "read"
      /\ UNCHANGED <<ops, stored, current, mounted, draft, confirms, reported>>
  BY DEF RefreshArrives
<1>2. CASE refresh.stale
  <2>1. refresh' = NoRefresh /\ UNCHANGED <<adapters, shown, review>>
    BY <1>2 DEF RefreshArrives, Outdated
  <2>2. ReadsOK(ad.flight, refresh', reported', Included)
    BY <1>0, <1>1, <2>1 DEF ReadsOK, NoRefresh
  <2>3. PageOK'
    BY <1>0, <1>1, <2>1 DEF PageOK
  <2> QED
    BY <1>0, <1>1, <2>1, <2>2, <2>3, PageKeeps
<1>3. ASSUME ~refresh.stale PROVE ClientInv'
  <2>1. /\ shown' = refresh.seen /\ reported \subseteq refresh.seen
        /\ review' = review \/ review' = Invalidated(review)
    BY <1>0, <1>1, <1>3 DEF RefreshArrives, Outdated, ReadsOK
  <2>2. ReviewOK(review', ad.flight, ops)
    BY <1>0, <2>1 DEF Invalidated, ReviewOK, Ended, NoReview
  <2>3. PageOK'
    BY <1>0, <1>1, <2>1 DEF PageOK
  <2>4. CASE ad.known.op = NoOp
    <3>1. refresh' = NoRefresh /\ UNCHANGED adapters
      BY <1>3, <2>4 DEF RefreshArrives, Outdated
    <3>2. ReadsOK(ad.flight, refresh', reported', Included)
      BY <1>0, <1>1, <3>1 DEF ReadsOK, NoRefresh
    <3> QED
      BY <1>1, <2>2, <2>3, <3>1, <3>2, PageKeeps
  <2>5. CASE ad.known.op # NoOp
    <3> DEFINE intent == <<"resume", ad.known.action>>
               x == Executed(ad, intent, "resume")
    <3>1. /\ refresh' = [NoRefresh EXCEPT !.phase = "resuming"]
          /\ adapters' = [adapters EXCEPT ![current] = x]
      BY <1>3, <2>5 DEF RefreshArrives, Outdated
    <3>2. /\ AdapterOK(x, ops) /\ x.flight.waiting = ad.flight.waiting \cup {"resume"}
          /\ ad.flight.phase # "none" =>
               x.flight.phase = ad.flight.phase /\ x.flight.intent = ad.flight.intent
                 /\ x.flight.op = ad.flight.op /\ x.flight.seen = ad.flight.seen
          /\ ad.flight.phase = "none" => x.flight.phase = "polling"
      BY <1>0, <2>5, ExecutedOK
    <3>3. /\ DOMAIN adapters' = Adapter /\ adapters'[current] = x
          /\ \A b \in Adapter \ {current} : adapters'[b] = adapters[b]
      BY <1>0, <3>1
    <3> HIDE DEF x, intent
    <3>4. ReviewOK(review', x.flight, ops)
      <4>1. ad.flight.phase = "none" => "dispatch" \notin ad.flight.waiting
        BY <1>0 DEF AdapterOK, FlightOK
      <4> QED
        BY <2>2, <3>2, <4>1 DEF ReviewOK
    <3>5. ReadsOK(x.flight, refresh', reported', Included)
      BY <1>0, <1>1, <3>1, <3>2 DEF ReadsOK, NoRefresh
    <3>6. Permitted(ops, adapters', confirms)
      <4>1. Permitted(ops, adapters, confirms)
        BY DEF ClientInv
      <4>2. \A a \in Adapter : adapters'[a].flight.phase = "unsent" =>
              /\ adapters[a].flight.phase = "unsent"
              /\ adapters[a].flight.intent = adapters'[a].flight.intent
        BY <3>2, <3>3
      <4> QED
        BY <4>1, <4>2, FewerSend
    <3>7. \A b \in Adapter : AdapterOK(adapters'[b], ops)
      BY <3>2, <3>3 DEF ClientInv
    <3>8. DOMAIN ops = Op /\ OpsOK(ops)
      BY DEF ClientInv
    <3> QED
      BY <1>0, <1>1, <2>3, <3>3, <3>4, <3>5, <3>6, <3>7, <3>8 DEF ClientInv, Included
  <2> QED
    BY <2>4, <2>5
<1> QED
  BY <1>2, <1>3

LEMMA ClientStart == ClientInit => ClientInv
<1> SUFFICES ASSUME ClientInit PROVE ClientInv
  OBVIOUS
<1>1. RecordOK(stored) /\ AdapterOK(NoAdapter, ops) /\ NoAdapter.flight = NoFlight
  BY DEF ClientInit, AdapterOK, NoAdapter, RecordOK, NoRecord, FlightOK, NoFlight, Phases,
         Followed
<1>2. DOMAIN ops = Op /\ OpsOK(ops)
  BY DEF ClientInit, OpsOK
<1>3. /\ DOMAIN adapters = Adapter /\ current \in Adapter
      /\ \A a \in Adapter : adapters[a] = NoAdapter
  BY ClientAssumption DEF ClientInit, ClientBounds, Adapter
<1>4. PageOK
  BY <1>3, ClientAssumption DEF ClientInit, ClientBounds, PageOK, NoReview
<1>5. /\ ReviewOK(review, NoFlight, ops)
      /\ ReadsOK(NoFlight, refresh, reported, Included)
  BY DEF ClientInit, ReviewOK, NoReview, NoFlight, ReadsOK, NoRefresh, Included
<1>6. Permitted(ops, adapters, confirms)
  <2>1. ASSUME NEW i \in Intents PROVE SentFor(i, ops) = {} /\ MaySend(i, adapters) = {}
    <3>1. i # Nothing
      BY DEF Intents, Nothing
    <3> QED
      BY <1>3, <3>1 DEF ClientInit, SentFor, MaySend, NoAdapter, NoFlight
  <2> QED
    BY <2>1, FS_EmptySet DEF ClientInit, Permitted
<1> QED
  BY <1>1, <1>2, <1>3, <1>4, <1>5, <1>6 DEF ClientInv

LEMMA ClientStep == ClientInv /\ [ClientNext]_clientVars => ClientInv'
<1> SUFFICES ASSUME ClientInv, [ClientNext]_clientVars PROVE ClientInv'
  OBVIOUS
<1>1. CASE UNCHANGED clientVars
  BY <1>1, PageKeeps DEF clientVars, ClientInv, PageOK
<1>2. CASE StartApp \/ AppNext
  BY <1>2, PageSteps, ConfirmKeeps, ArrivesKeeps DEF AppNext
<1>3. ASSUME NEW reload \in BOOLEAN, Reopen(reload) PROVE ClientInv'
  BY <1>3, ReopenKeeps
<1>4. ASSUME NEW a \in Adapter, Flying(a) PROVE ClientInv'
  BY <1>4, SettlingSteps, FlyingSteps, ApprovedKeeps DEF Flying
<1>5. ASSUME NEW o \in Op, OpIncluded(o) PROVE ClientInv'
  BY <1>5, IncludedKeeps
<1> QED
  BY <1>1, <1>2, <1>3, <1>4, <1>5 DEF ClientNext

\* No operation is sent without a confirmation of its own.
THEOREM SentAsConfirmed == ClientSpec => []OneOpPerConfirmation
<1>1. ASSUME ClientInv PROVE OneOpPerConfirmation
  <2>1. ASSUME NEW i \in Intents
        PROVE  Cardinality({o \in Op : ops[o].intent = i}) <= confirms[i]
    <3>1. Cardinality(SentFor(i, ops)) + Cardinality(MaySend(i, adapters)) <= confirms[i]
          /\ confirms[i] \in Nat
      BY <1>1 DEF ClientInv, Permitted
    <3>2. Cardinality(SentFor(i, ops)) <= confirms[i]
      BY <3>1, FiniteParts
    <3> QED
      BY <3>2 DEF SentFor
  <2> QED
    BY <1>1, <2>1 DEF ClientInv, OpsOK, OneOpPerConfirmation
<1>2. ClientInv => OneOpPerConfirmation
  BY <1>1
<1> QED
  BY <1>2, ClientStart, ClientStep, PTL DEF ClientSpec

\* A review that found nothing outstanding is confirmed by its own operation.
THEOREM FreshExecuted == ClientSpec => []FreshReviewWasExecuted
<1>1. ClientInv => FreshReviewWasExecuted
  BY DEF ClientInv, ReviewOK, FreshReviewWasExecuted, ConfirmedWasExecuted
<1> QED
  BY <1>1, ClientStart, ClientStep, PTL DEF ClientSpec

\* What was shown as done stays shown.
THEOREM DoneStaysShown == ClientSpec => []NothingUndone
<1>1. ClientInv => NothingUndone
  BY DEF ClientInv, PageOK, NothingUndone
<1> QED
  BY <1>1, ClientStart, ClientStep, PTL DEF ClientSpec

----------------------------------------------------------------------------
(* Notices of completed upgrades. *)

\* What a read of the chain gives: a time, unless it fails, and what is due when.
ChainRead == [time : Int \cup {None}, due : [Slot -> Int \cup {None}]]

NoticeTypeOK ==
  /\ chain \in ChainRead /\ chain.time \in Int /\ earlier \in ChainRead /\ earlier.time \in Int
  /\ notices \in [Tab -> {None} \cup SUBSET (Slot \X (0 .. MaxTime))]
  /\ snapshot \in [Tab -> ChainRead]

NoticeInv == NoticeTypeOK /\ NoticeIsDue

LEMMA NoticeInvInit == NoticeInit => NoticeInv
BY DEF NoticeInit, NoticeInv, NoticeTypeOK, NoticeIsDue, NoSnapshot, ChainRead, IsOpen

\* What is displayed was displayed or is due and new.
LEMMA WhatIsDisplayed ==
  ASSUME NEW t \in Tab, NEW snap, Reads(t, snap), NoticeTypeOK
  PROVE  /\ notices[t] # None /\ notices[t] \subseteq Slot \X (0 .. MaxTime)
         /\ snapshot' = [snapshot EXCEPT ![t] = snap]
         /\ \E more \in SUBSET Fresh(t, snap) :
              notices' = [notices EXCEPT ![t] = (@ \cap DueIn(snap)) \cup more]
<1>1. notices[t] # None /\ notices[t] \subseteq Slot \X (0 .. MaxTime)
      /\ snapshot' = [snapshot EXCEPT ![t] = snap]
  BY DEF Reads, IsOpen, NoticeTypeOK
<1>2. CASE storageFull /\ Fresh(t, snap) # {}
  <2>1. notices' = [notices EXCEPT ![t] = (@ \cap DueIn(snap)) \cup {}]
    BY <1>2 DEF Reads, Retained
  <2> QED BY <1>1, <2>1
<1>3. CASE ~ (storageFull /\ Fresh(t, snap) # {})
  <2>1. notices' = [notices EXCEPT ![t] = (@ \cap DueIn(snap)) \cup Fresh(t, snap)]
    BY <1>3 DEF Reads, Retained
  <2> QED BY <1>1, <2>1
<1> QED BY <1>2, <1>3

\* What is new is due, was not notified, and is nothing while notices are off.
LEMMA FreshIsDue ==
  ASSUME NEW t, NEW snap
  PROVE  /\ Fresh(t, snap) \subseteq DueIn(snap)
         /\ DueIn(snap) \subseteq Slot \X (0 .. MaxTime)
         /\ Fresh(t, snap) \cap notified = {}
         /\ ~ enabled => Fresh(t, snap) = {}
BY DEF Fresh, DueIn

\* What is displayed is due by the tab's own snapshot, whatever the chain does.
LEMMA BlockKeeps ==
  ASSUME NEW due \in [Slot -> Int \cup {None}], NewBlock(due), NoticeInv
  PROVE  NoticeInv'
<1>1. UNCHANGED <<notices, snapshot>> /\ earlier' = chain
      /\ chain' = [time |-> chain.time + 1, due |-> due]
  BY DEF NewBlock
<1>2. chain' \in ChainRead /\ chain'.time \in Int
  BY <1>1 DEF NoticeInv, NoticeTypeOK, ChainRead
<1> QED BY <1>1, <1>2 DEF NoticeInv, NoticeTypeOK, NoticeIsDue, IsOpen, DueIn

LEMMA NoticeInvNext == NoticeInv /\ [NoticeNext]_noticeVars => NoticeInv'
<1> SUFFICES ASSUME NoticeInv, [NoticeNext]_noticeVars PROVE NoticeInv'
  OBVIOUS
<1>1. ASSUME NEW s \in Slot, JobChanges(s)
      PROVE  NoticeInv'
  <2> PICK at \in {None} \cup (chain.time .. MaxTime) : NewBlock([chain.due EXCEPT ![s] = at])
    BY <1>1 DEF JobChanges
  <2>1. at \in Int \cup {None}
    OBVIOUS
  <2>2. [chain.due EXCEPT ![s] = at] \in [Slot -> Int \cup {None}]
    BY <2>1 DEF NoticeInv, NoticeTypeOK, ChainRead
  <2> QED BY <2>2, BlockKeeps
<1>2. CASE BlockPasses
  BY <1>2, BlockKeeps DEF BlockPasses, NoticeInv, NoticeTypeOK, ChainRead
<1>3. CASE Reorganized
  BY <1>3 DEF Reorganized, NoticeInv, NoticeTypeOK, NoticeIsDue, IsOpen, DueIn
<1>4. CASE StorageFills
  BY <1>4 DEF StorageFills, chainVars, NoticeInv, NoticeTypeOK, NoticeIsDue, IsOpen, DueIn
<1>5. ASSUME NEW t \in Tab, OpenTab(t)
      PROVE  NoticeInv'
  <2>1. NoSnapshot \in ChainRead
    BY DEF NoSnapshot, ChainRead
  <2> QED BY <1>5, <2>1
    DEF OpenTab, chainVars, NoticeInv, NoticeTypeOK, NoticeIsDue, IsOpen, DueIn
<1>6. ASSUME NEW t \in Tab, CloseTab(t)
      PROVE  NoticeInv'
  BY <1>6 DEF CloseTab, chainVars, NoticeInv, NoticeTypeOK, NoticeIsDue, IsOpen, DueIn
<1>7. ASSUME NEW t \in Tab, ReadsSnapshot(t)
      PROVE  NoticeInv'
  <2> PICK snap \in {chain, earlier, [chain EXCEPT !.time = None], FirstSlotOnly(chain)} :
            Reads(t, snap)
    BY <1>7 DEF ReadsSnapshot
  <2>1. snap \in ChainRead
    BY DEF NoticeInv, NoticeTypeOK, ChainRead, FirstSlotOnly
  <2>2. NoticeTypeOK /\ UNCHANGED <<chain, earlier>>
    BY DEF NoticeInv, Reads, chainVars
  <2>3. /\ notices[t] \subseteq Slot \X (0 .. MaxTime)
        /\ snapshot' = [snapshot EXCEPT ![t] = snap]
    BY <2>2, WhatIsDisplayed
  <2>4. PICK more \in SUBSET Fresh(t, snap) :
          notices' = [notices EXCEPT ![t] = (@ \cap DueIn(snap)) \cup more]
    BY <2>2, WhatIsDisplayed
  <2>5. more \subseteq DueIn(snap) /\ more \subseteq Slot \X (0 .. MaxTime)
    BY FreshIsDue
  <2>6. NoticeTypeOK'
    <3>1. (notices[t] \cap DueIn(snap)) \cup more \in SUBSET (Slot \X (0 .. MaxTime))
      BY <2>3, <2>5
    <3>2. notices' \in [Tab -> {None} \cup SUBSET (Slot \X (0 .. MaxTime))]
      BY <2>2, <2>4, <3>1 DEF NoticeTypeOK
    <3>3. snapshot' \in [Tab -> ChainRead]
      BY <2>1, <2>2, <2>3 DEF NoticeTypeOK
    <3> QED BY <2>2, <3>2, <3>3 DEF NoticeTypeOK
  <2>7. NoticeIsDue'
    <3> SUFFICES ASSUME NEW u \in Tab, IsOpen(u)'
                 PROVE  notices'[u] \subseteq DueIn(snapshot'[u])
      BY DEF NoticeIsDue, DueIn
    <3>1. CASE u = t
      BY <2>2, <2>3, <2>4, <2>5, <3>1 DEF NoticeTypeOK
    <3>2. CASE u # t
      <4>1. notices'[u] = notices[u] /\ snapshot'[u] = snapshot[u]
        BY <2>2, <2>3, <2>4, <3>2 DEF NoticeTypeOK
      <4> QED BY <4>1 DEF NoticeInv, NoticeIsDue, IsOpen
    <3> QED BY <3>1, <3>2
  <2> QED BY <2>6, <2>7 DEF NoticeInv
<1>8. ASSUME NEW t \in Tab, NEW on \in BOOLEAN, SetCompletionNotifications(t, on)
      PROVE  NoticeInv'
  <2>1. \/ notices' = notices
        \/ notices' = [notices EXCEPT ![t] = {}]
    BY <1>8 DEF SetCompletionNotifications
  <2>2. UNCHANGED <<chain, earlier, snapshot>>
    BY <1>8 DEF SetCompletionNotifications, chainVars
  <2> QED BY <2>1, <2>2 DEF NoticeInv, NoticeTypeOK, NoticeIsDue, IsOpen, DueIn
<1>9. CASE UNCHANGED noticeVars
  BY <1>9 DEF noticeVars, NoticeInv, NoticeTypeOK, NoticeIsDue, IsOpen, DueIn
<1> QED BY <1>1, <1>2, <1>3, <1>4, <1>5, <1>6, <1>7, <1>8, <1>9 DEF NoticeNext

\* Types, and every notice displayed is due: NoticeInv.
THEOREM NoticeInvariant == NoticeSpec => []NoticeInv
BY NoticeInvInit, NoticeInvNext, PTL DEF NoticeSpec

\* However many tabs there are and whatever chain they read: a notice that a tab shows
\* is of an upgrade that its last snapshot says can be completed.
THEOREM NoticesAreDue == NoticeSpec => []NoticeIsDue
<1>1. NoticeInv => NoticeIsDue
  BY DEF NoticeInv
<1> QED BY <1>1, NoticeInvariant, PTL

\* What a step adds to a tab that stays open.
LEMMA WhatAppears ==
  ASSUME NoticeInv, [NoticeNext]_noticeVars, NEW t \in Tab, IsOpen(t), IsOpen(t)'
  PROVE  /\ (notices'[t] \ notices[t]) \cap notified = {}
         /\ ~ enabled => notices'[t] \subseteq notices[t]
<1> DEFINE Appears == /\ (notices'[t] \ notices[t]) \cap notified = {}
                      /\ ~ enabled => notices'[t] \subseteq notices[t]
<1>0. notices \in [Tab -> {None} \cup SUBSET (Slot \X (0 .. MaxTime))]
  BY DEF NoticeInv, NoticeTypeOK
<1>1. ASSUME UNCHANGED notices PROVE Appears
  BY <1>1
<1>2. ASSUME NEW u \in Tab, OpenTab(u) \/ CloseTab(u) PROVE Appears
  BY <1>0, <1>2 DEF OpenTab, CloseTab, IsOpen
<1>3. ASSUME NEW u \in Tab, NEW snap, Reads(u, snap) PROVE Appears
  <2>1. PICK more \in SUBSET Fresh(u, snap) :
          notices' = [notices EXCEPT ![u] = (@ \cap DueIn(snap)) \cup more]
    BY <1>3, WhatIsDisplayed DEF NoticeInv
  <2>2. more \cap notified = {} /\ (~ enabled => more = {})
    BY FreshIsDue
  <2> QED BY <1>0, <2>1, <2>2
<1>4. ASSUME NEW u \in Tab, NEW on \in BOOLEAN, SetCompletionNotifications(u, on) PROVE Appears
  BY <1>0, <1>4 DEF SetCompletionNotifications
<1>5. (\E s \in Slot : JobChanges(s)) \/ BlockPasses \/ Reorganized \/ StorageFills
        \/ UNCHANGED noticeVars => UNCHANGED notices
  BY DEF JobChanges, BlockPasses, NewBlock, Reorganized, StorageFills, noticeVars
<1> HIDE DEF Appears
<1>6. Appears
  BY <1>1, <1>2, <1>3, <1>4, <1>5 DEF NoticeNext, ReadsSnapshot
<1> QED BY <1>6 DEF Appears

\* Once notices are off, in whichever tab, no tab that stays open shows another one.
THEOREM OffIsSilent == NoticeSpec => SilentWhenOff
<1> DEFINE Silent == notices' # notices /\ ~ enabled =>
                       \A t \in Tab : IsOpen(t) /\ IsOpen(t)' => notices'[t] \subseteq notices[t]
<1>1. NoticeInv /\ [NoticeNext]_noticeVars => [Silent]_noticeVars
  BY WhatAppears
<1>2. [][Silent]_noticeVars => SilentWhenOff
  BY PTL DEF SilentWhenOff
<1> HIDE DEF Silent
<1> QED BY <1>1, <1>2, NoticeInvariant, PTL DEF NoticeSpec

\* A notice that was recorded as shown is not shown again by any tab.
THEOREM NoticesOnce == NoticeSpec => ShownOnce
<1> DEFINE Once == notices' # notices =>
                     \A t \in Tab : IsOpen(t) /\ IsOpen(t)' =>
                       (notices'[t] \ notices[t]) \cap notified = {}
<1>1. NoticeInv /\ [NoticeNext]_noticeVars => [Once]_noticeVars
  BY WhatAppears
<1>2. [][Once]_noticeVars => ShownOnce
  BY PTL DEF ShownOnce
<1> HIDE DEF Once
<1> QED BY <1>1, <1>2, NoticeInvariant, PTL DEF NoticeSpec

----------------------------------------------------------------------------
(* The demo. *)

\* The villages in memory and in the storage are sound.
DemoInv ==
  /\ DOMAIN game = DemoTab /\ now \in Int
  /\ \A t \in DemoTab : DemoIsOpen(t) => Sound(game[t])
  /\ saved = Empty \/ Sound(Migrated(saved))

\* No tab has become richer.
Frugal ==
  \A t \in DemoTab :
    DemoIsOpen(t) /\ DemoIsOpen(t)' /\ saved' # Empty /\ UNCHANGED now =>
      Due(game[t])' <= Due(game[t])

----------------------------------------------------------------------------
(* States. *)

\* The warehouse's level is in the table of capacities.
LEMMA CapacityOf ==
  ASSUME NEW s, Sound(s)
  PROVE  Capacity(s) \in Nat
<1> DEFINE level == s.buildings["warehouse"]
<1>1. level \in 0 .. MaxLevel /\ MaxLevel \in Nat \ {0}
  BY PowersAssumption DEF Sound, Building
<1> HIDE DEF level
<1>2. AtLeastZero(level - 1) \in 0 .. MaxLevel
  BY <1>1 DEF AtLeastZero
<1>3. CapacityAt(AtLeastZero(level - 1)) \in Nat
  BY <1>2, PowersAssumption
<1> QED BY <1>3 DEF Capacity, level

LEMMA SoundIsNot ==
  ASSUME NEW s, Sound(s)
  PROVE  s # Empty /\ s # Closed /\ Migrated(s) = s
<1>1. "fields" \in DOMAIN s
  BY DEF Sound
<1>2. "fields" \notin DOMAIN Empty /\ "fields" \notin DOMAIN Closed
  BY DEF Empty, Closed
<1> QED BY <1>1, <1>2 DEF Migrated

LEMMA AmountsAre ==
  ASSUME NEW w, NEW c, NEW s, NEW g
  PROVE  LET a == Amounts(w, c, s, g)
         IN  /\ a = [r \in Resource |-> a[r]]
             /\ a["wood"] = w /\ a["clay"] = c /\ a["stone"] = s /\ a["gold"] = g
BY DEF Amounts, Resource

\* The village of a new visit is sound.
LEMMA NewGameSound == now \in Int => Sound(NewGame)
<1> SUFFICES ASSUME now \in Int PROVE Sound(NewGame)
  OBVIOUS
<1> DEFINE s == NewGame
<1>1. DOMAIN s = {"resources", "unclaimed", "buildings", "troops", "fields",
                  "gatherAvailableAt", "march", "last"}
  BY DEF NewGame
<1>2. /\ s.resources \in [Resource -> Int] /\ s.unclaimed \in [Resource -> Int]
      /\ \A r \in Resource : /\ s.resources[r] >= 0 /\ s.resources[r] <= 50000
                             /\ s.unclaimed[r] >= 0 /\ s.unclaimed[r] <= 50000
  BY DEF NewGame, Hundredths, Amounts, Resource
<1>3. s.buildings \in [Building -> 0 .. MaxLevel] /\ s.buildings["warehouse"] = 1
  BY PowersAssumption DEF NewGame, Building
<1>4. Field \in [Target -> [Resource -> Nat]]
  BY DEF Field, Target, Amounts, Resource
<1>5. /\ s.troops \in [Troop -> Nat] /\ s.fields = Field /\ s.march = NoMarch
      /\ s.last \in Int
  BY DEF NewGame
<1>6. Capacity(s) = 50000
  BY <1>3, PowersAssumption DEF Capacity, AtLeastZero
<1> HIDE DEF s
<1> QED BY <1>1, <1>2, <1>3, <1>4, <1>5, <1>6 DEF Sound, StocksFit, MarchersAreThere, s

LEMMA LoadedSound == DemoInv => Sound(Loaded)
BY NewGameSound DEF DemoInv, Loaded

\* An earlier version's save has all that it had before the fields were renamed.
LEMMA MigratedHolds ==
  ASSUME NEW save, Sound(Migrated(save))
  PROVE  StocksFit(save) /\ MarchersAreThere(save)
<1> DEFINE m == Migrated(save)
<1>1. /\ m.resources = save.resources /\ m.unclaimed = save.unclaimed
      /\ m.buildings = save.buildings /\ m.troops = save.troops /\ m.march = save.march
  <2>1. CASE "fields" \in DOMAIN save
    BY <2>1 DEF Migrated
  <2>2. CASE "fields" \notin DOMAIN save
    <3>1. m = [x \in (DOMAIN save \ {"loot"}) \cup {"fields"} |->
                 IF x = "fields" THEN save.loot ELSE save[x]]
      BY <2>2 DEF Migrated
    <3>2. {"resources", "unclaimed", "buildings", "troops", "march"}
            \subseteq (DOMAIN save \ {"loot"}) \cup {"fields"}
      BY <3>1 DEF Sound
    <3> HIDE DEF m
    <3> QED BY <3>1, <3>2
  <2> QED BY <2>1, <2>2
<1>2. StocksFit(m) /\ MarchersAreThere(m)
  BY DEF Sound
<1> HIDE DEF m
<1> QED BY <1>1, <1>2 DEF StocksFit, MarchersAreThere, Capacity, Available

----------------------------------------------------------------------------
(* Settling. *)

LEMMA ProductionOf ==
  ASSUME NEW s, Sound(s)
  PROVE  Production(s) \in [Resource -> Nat]
<1>1. /\ s.buildings["timber"] \in Nat /\ s.buildings["claypit"] \in Nat
      /\ s.buildings["quarry"] \in Nat /\ s.buildings["goldmine"] \in Nat
  BY PowersAssumption DEF Sound, Building
<1> QED BY <1>1 DEF Production, Amounts, Resource

\* A settlement keeps a village sound and credits no more than what was produced.
LEMMA SettledSound ==
  ASSUME NEW s, Sound(s), now \in Int
  PROVE  LET x == Settle(s)
         IN  /\ Sound(x)
             /\ x.resources = s.resources /\ x.buildings = s.buildings /\ x.troops = s.troops
             /\ x.fields = s.fields /\ x.march = s.march /\ x.last = now
             /\ Elapsed(s) \in Nat /\ Elapsed(x) = 0
             /\ \A r \in Resource :
                  x.unclaimed[r] <= s.unclaimed[r] + Production(s)[r] * Elapsed(s)
<1> DEFINE x == Settle(s)
           field == [r \in Resource |->
                       Least(Capacity(s), s.unclaimed[r] + Production(s)[r] * Elapsed(s))]
<1>1. /\ DOMAIN x = DOMAIN s /\ x.last = now /\ x.resources = s.resources
      /\ x.troops = s.troops /\ x.buildings = s.buildings /\ x.fields = s.fields
      /\ x.march = s.march /\ x.gatherAvailableAt = s.gatherAvailableAt /\ x.unclaimed = field
  BY DEF Sound, Settle
<1>2. Elapsed(s) \in Nat
  BY DEF Sound, Elapsed, Least, AtLeastZero, OfflineLimit
<1>3. \A r \in Resource :
        /\ field[r] \in Int /\ field[r] >= 0 /\ field[r] <= Capacity(s)
        /\ field[r] <= s.unclaimed[r] + Production(s)[r] * Elapsed(s)
  <2> SUFFICES ASSUME NEW r \in Resource
               PROVE  LET n == Least(Capacity(s), s.unclaimed[r] + Production(s)[r] * Elapsed(s))
                      IN  /\ n \in Int /\ n >= 0 /\ n <= Capacity(s)
                          /\ n <= s.unclaimed[r] + Production(s)[r] * Elapsed(s)
    OBVIOUS
  <2> DEFINE p == Production(s)[r]
             e == Elapsed(s)
  <2>1. p \in Nat
    BY ProductionOf
  <2>2. e \in Nat
    BY <1>2
  <2> HIDE DEF p, e
  <2>3. p * e \in Nat
    BY <2>1, <2>2
  <2>4. s.unclaimed[r] \in Int /\ s.unclaimed[r] >= 0
    BY DEF Sound, StocksFit
  <2>5. Capacity(s) \in Nat
    BY CapacityOf
  <2> QED BY <2>3, <2>4, <2>5 DEF Least, p, e
<1>4. Capacity(x) = Capacity(s)
  BY <1>1 DEF Capacity
<1>5. Elapsed(x) = 0
  BY <1>1 DEF Elapsed, Least, AtLeastZero, OfflineLimit
<1> HIDE DEF x, field
<1>6. x.unclaimed \in [Resource -> Int]
  BY <1>1, <1>3 DEF field
<1>7. StocksFit(x) /\ MarchersAreThere(x)
  BY <1>1, <1>3, <1>4 DEF Sound, StocksFit, MarchersAreThere, Available
<1>8. Sound(x)
  BY <1>1, <1>6, <1>7 DEF Sound
<1> QED BY <1>1, <1>2, <1>3, <1>5, <1>8 DEF x

----------------------------------------------------------------------------
(* Wealth. *)

\* All there is of a resource.
Of(s, r) ==
  s.resources[r] + s.unclaimed[r]
    + 100 * (s.fields["river"][r] + s.fields["ash"][r] + s.fields["iron"][r])

LEMMA OfIsInt ==
  ASSUME NEW s, Sound(s), NEW r \in Resource
  PROVE  /\ Of(s, r) \in Int /\ s.resources[r] \in Int /\ s.unclaimed[r] \in Int
         /\ \A target \in Target : s.fields[target][r] \in Nat
<1>1. s.resources[r] \in Int /\ s.unclaimed[r] \in Int
  BY DEF Sound
<1>2. \A target \in Target : s.fields[target][r] \in Nat
  BY DEF Sound
<1>3. /\ s.fields["river"][r] \in Nat /\ s.fields["ash"][r] \in Nat
      /\ s.fields["iron"][r] \in Nat
  BY <1>2 DEF Target
<1> QED BY <1>1, <1>2, <1>3 DEF Of

LEMMA WealthIs ==
  ASSUME NEW s
  PROVE  Wealth(s) = 20 * Of(s, "wood") + 22 * Of(s, "clay") + 25 * Of(s, "stone")
BY DEF Wealth, Of

\* Who has no more of any resource is not richer.
LEMMA LessIsPoorer ==
  ASSUME NEW x, Sound(x), NEW s, Sound(s), \A r \in Resource : Of(x, r) <= Of(s, r)
  PROVE  Wealth(x) <= Wealth(s)
<1>1. \A r \in {"wood", "clay", "stone"} :
        Of(x, r) \in Int /\ Of(s, r) \in Int /\ Of(x, r) <= Of(s, r)
  BY OfIsInt DEF Resource
<1>2. /\ Of(x, "wood") \in Int /\ Of(s, "wood") \in Int /\ Of(x, "wood") <= Of(s, "wood")
      /\ Of(x, "clay") \in Int /\ Of(s, "clay") \in Int /\ Of(x, "clay") <= Of(s, "clay")
      /\ Of(x, "stone") \in Int /\ Of(s, "stone") \in Int /\ Of(x, "stone") <= Of(s, "stone")
  BY <1>1
<1> QED BY <1>2, WealthIs

LEMMA Distributed ==
  ASSUME NEW w \in Nat, NEW c \in Nat, NEW s \in Nat, NEW e \in Nat
  PROVE  /\ w * e \in Nat /\ c * e \in Nat /\ s * e \in Nat
         /\ (20 * w + 22 * c + 25 * s) * e = 20 * (w * e) + 22 * (c * e) + 25 * (s * e)
OBVIOUS

\* What is due covers a settled village: a cap on the field only takes away.
LEMMA SettledIsDue ==
  ASSUME NEW s, Sound(s), now \in Int
  PROVE  /\ Wealth(Settle(s)) <= Due(s)
         /\ Due(s) \in Int /\ Wealth(s) \in Int /\ Wealth(Settle(s)) \in Int
         /\ Elapsed(s) = 0 => Due(s) = Wealth(s)
<1> DEFINE x == Settle(s)
           e == Elapsed(s)
           pw == Production(s)["wood"]
           pc == Production(s)["clay"]
           ps == Production(s)["stone"]
<1>1. pw \in Nat /\ pc \in Nat /\ ps \in Nat
  BY ProductionOf DEF Resource
<1>2. /\ Sound(x) /\ e \in Nat
      /\ x.resources = s.resources /\ x.fields = s.fields
      /\ \A r \in Resource : x.unclaimed[r] <= s.unclaimed[r] + Production(s)[r] * e
  BY SettledSound
<1>3. /\ x.unclaimed["wood"] <= s.unclaimed["wood"] + pw * e
      /\ x.unclaimed["clay"] <= s.unclaimed["clay"] + pc * e
      /\ x.unclaimed["stone"] <= s.unclaimed["stone"] + ps * e
  BY <1>2 DEF Resource
<1>4. Due(s) = Wealth(s) + (20 * pw + 22 * pc + 25 * ps) * e
  BY DEF Due
<1> HIDE DEF x, e, pw, pc, ps
<1>5. /\ pw * e \in Nat /\ pc * e \in Nat /\ ps * e \in Nat
      /\ (20 * pw + 22 * pc + 25 * ps) * e = 20 * (pw * e) + 22 * (pc * e) + 25 * (ps * e)
  BY <1>1, <1>2, Distributed
<1>6. ASSUME NEW r \in Resource, NEW n \in Nat, x.unclaimed[r] <= s.unclaimed[r] + n
      PROVE  Of(x, r) <= Of(s, r) + n
  <2>1. /\ s.resources[r] \in Int /\ s.unclaimed[r] \in Int /\ x.unclaimed[r] \in Int
        /\ s.fields["river"][r] \in Nat /\ s.fields["ash"][r] \in Nat
        /\ s.fields["iron"][r] \in Nat
    BY <1>2, OfIsInt DEF Target
  <2> QED BY <1>2, <1>6, <2>1 DEF Of
<1>7. /\ Of(x, "wood") <= Of(s, "wood") + pw * e
      /\ Of(x, "clay") <= Of(s, "clay") + pc * e
      /\ Of(x, "stone") <= Of(s, "stone") + ps * e
  BY <1>3, <1>5, <1>6 DEF Resource
<1>8. /\ Of(x, "wood") \in Int /\ Of(s, "wood") \in Int
      /\ Of(x, "clay") \in Int /\ Of(s, "clay") \in Int
      /\ Of(x, "stone") \in Int /\ Of(s, "stone") \in Int
  BY <1>2, OfIsInt DEF Resource
<1>9. Wealth(x) \in Int /\ Wealth(s) \in Int
  BY <1>8, WealthIs
<1>10. Wealth(x) <= Wealth(s) + (20 * (pw * e) + 22 * (pc * e) + 25 * (ps * e))
  <2>1. /\ Wealth(x) = 20 * Of(x, "wood") + 22 * Of(x, "clay") + 25 * Of(x, "stone")
        /\ Wealth(s) = 20 * Of(s, "wood") + 22 * Of(s, "clay") + 25 * Of(s, "stone")
    BY WealthIs
  <2> DEFINE a == pw * e
             b == pc * e
             c == ps * e
  <2>2. a \in Nat /\ b \in Nat /\ c \in Nat
    BY <1>5
  <2>3. /\ Of(x, "wood") <= Of(s, "wood") + a /\ Of(x, "clay") <= Of(s, "clay") + b
        /\ Of(x, "stone") <= Of(s, "stone") + c
    BY <1>7
  <2> HIDE DEF a, b, c
  <2>4. Wealth(x) <= Wealth(s) + (20 * a + 22 * b + 25 * c)
    BY <1>8, <2>1, <2>2, <2>3
  <2> QED BY <2>4 DEF a, b, c
<1>11. Due(s) \in Int /\ (e = 0 => Due(s) = Wealth(s))
  <2> DEFINE p == 20 * pw + 22 * pc + 25 * ps
  <2>1. p \in Nat
    BY <1>1
  <2> HIDE DEF p
  <2>2. p * e \in Nat /\ (e = 0 => p * e = 0)
    BY <1>2, <2>1
  <2> QED BY <1>4, <1>9, <2>2 DEF p
<1>12. Wealth(x) <= Due(s)
  BY <1>4, <1>5, <1>10
<1> QED BY <1>9, <1>11, <1>12 DEF x, e

----------------------------------------------------------------------------
(* Steps. *)

\* Whatever is written by a tab: the tab and the save stay sound, nobody gains.
LEMMA KeepsFrugally ==
  ASSUME DemoInv, NEW t \in DemoTab, DemoIsOpen(t), NEW s, Sound(s), Keeps(t, s),
         Wealth(Settle(s)) <= Due(game[t])
  PROVE  DemoInv' /\ Frugal
<1>1. now \in Int /\ now' = now /\ game' = [game EXCEPT ![t] = Settle(s)] /\ saved' = s
  BY DEF DemoInv, Keeps
<1>2. Sound(Settle(s)) /\ Settle(s).last = now
  BY <1>1, SettledSound
<1>3. DemoInv'
  <2>1. DOMAIN game' = DemoTab
    BY <1>1 DEF DemoInv
  <2>2. ASSUME NEW u \in DemoTab, DemoIsOpen(u)' PROVE Sound(game'[u])
    BY <1>1, <1>2, <2>2 DEF DemoInv, DemoIsOpen
  <2>3. Sound(Migrated(saved'))
    BY <1>1, SoundIsNot
  <2> QED BY <1>1, <2>1, <2>2, <2>3 DEF DemoInv
<1>4. \A x : Due(x)' = Due(x)
  BY <1>1 DEF Due, Elapsed
<1>5. ASSUME NEW u \in DemoTab, DemoIsOpen(u)
      PROVE  Due(game[u])' <= Due(game[u])
  <2>1. Due(game[u])' = Due(game'[u])
    BY <1>1 DEF Due, Elapsed
  <2>2. CASE u = t
    <3>1. game'[u] = Settle(s)
      BY <1>1, <2>2 DEF DemoInv
    <3>2. Elapsed(Settle(s)) = 0
      BY <1>1, SettledSound
    <3>3. Due(Settle(s)) = Wealth(Settle(s))
      BY <1>1, <1>2, <3>2, SettledIsDue
    <3> QED BY <2>1, <2>2, <3>1, <3>3
  <2>3. CASE u # t
    <3>1. game'[u] = game[u] /\ Sound(game[u])
      BY <1>1, <1>5, <2>3 DEF DemoInv
    <3>2. Due(game[u]) \in Int
      BY <1>1, <3>1, SettledIsDue
    <3> QED BY <2>1, <3>1, <3>2
  <2> QED BY <2>2, <2>3
<1> QED BY <1>3, <1>5 DEF Frugal

LEMMA GameSound ==
  ASSUME DemoInv, NEW t \in DemoTab, DemoIsOpen(t)
  PROVE  /\ now \in Int /\ Sound(game[t]) /\ Sound(Settle(game[t]))
         /\ Settle(game[t]).last = now
BY SettledSound DEF DemoInv

\* A command that leaves the village no richer than it was settled.
LEMMA Command ==
  ASSUME DemoInv, NEW t \in DemoTab, DemoIsOpen(t), NEW s, Sound(s), s.last = now, Keeps(t, s),
         Wealth(s) <= Wealth(Settle(game[t]))
  PROVE  DemoInv' /\ Frugal
<1>1. now \in Int /\ Sound(game[t]) /\ Sound(Settle(game[t]))
  BY GameSound
<1>2. Elapsed(s) = 0
  BY <1>1 DEF Elapsed, Least, AtLeastZero, OfflineLimit
<1>3. Wealth(Settle(s)) <= Wealth(s) /\ Wealth(Settle(s)) \in Int /\ Wealth(s) \in Int
  BY <1>1, <1>2, SettledIsDue
<1>4. /\ Wealth(Settle(game[t])) <= Due(game[t])
      /\ Due(game[t]) \in Int /\ Wealth(Settle(game[t])) \in Int
  BY <1>1, SettledIsDue
<1>5. Wealth(Settle(s)) <= Due(game[t])
  BY <1>3, <1>4
<1> QED BY <1>5, KeepsFrugally

\* What is paid for leaves a village sound.
LEMMA Paid ==
  ASSUME NEW s, Sound(s), NEW cost \in [Resource -> Nat], CanPay(s, cost), NEW x,
         DOMAIN x = DOMAIN s,
         x.resources = [r \in Resource |-> s.resources[r] - cost[r]],
         x.unclaimed = s.unclaimed, x.fields = s.fields, x.march = s.march, x.last = s.last,
         x.buildings \in [Building -> 0 .. MaxLevel], Capacity(s) <= Capacity(x),
         Capacity(x) \in Nat,
         x.troops \in [Troop -> Nat], \A u \in Troop : s.troops[u] <= x.troops[u]
  PROVE  Sound(x) /\ Wealth(x) <= Wealth(s)
<1>1. Capacity(s) \in Nat
  BY CapacityOf
<1>2. \A r \in Resource : /\ s.resources[r] \in Int /\ s.unclaimed[r] \in Int
                          /\ s.resources[r] >= cost[r] /\ cost[r] \in Nat
                          /\ s.resources[r] <= Capacity(s)
                          /\ s.unclaimed[r] >= 0 /\ s.unclaimed[r] <= Capacity(s)
  BY DEF Sound, StocksFit, CanPay
<1>3. \A r \in Resource : /\ x.resources[r] \in Int /\ x.resources[r] >= 0
                          /\ x.resources[r] <= Capacity(x)
                          /\ x.unclaimed[r] >= 0 /\ x.unclaimed[r] <= Capacity(x)
                          /\ x.resources[r] <= s.resources[r]
  BY <1>1, <1>2
<1>4. x.resources \in [Resource -> Int]
  BY <1>2
<1>5. MarchersAreThere(x)
  <2> SUFFICES ASSUME s.march # NoMarch, NEW u \in Troop
               PROVE  s.march.army[u] <= x.troops[u]
    BY DEF MarchersAreThere, Available
  <2>1. s.march.army[u] <= s.troops[u]
    BY DEF Sound, MarchersAreThere, Available
  <2>2. s.march.army \in [Troop -> Nat]
    BY DEF Sound
  <2>3. s.march.army[u] \in Nat /\ s.troops[u] \in Nat /\ x.troops[u] \in Nat
    BY <2>2 DEF Sound
  <2> QED BY <2>1, <2>3
<1>6. Sound(x)
  BY <1>3, <1>4, <1>5 DEF Sound, StocksFit
<1>7. \A r \in Resource : Of(x, r) <= Of(s, r)
  <2> SUFFICES ASSUME NEW r \in Resource PROVE Of(x, r) <= Of(s, r)
    OBVIOUS
  <2>1. /\ s.fields["river"][r] \in Nat /\ s.fields["ash"][r] \in Nat
        /\ s.fields["iron"][r] \in Nat
    BY OfIsInt DEF Target
  <2> QED BY <1>2, <1>3, <2>1 DEF Of
<1> QED BY <1>6, <1>7, LessIsPoorer

\* A price is paid, and a larger warehouse holds what the smaller one held.
LEMMA UpgradeKeeps ==
  ASSUME DemoInv, NEW t \in DemoTab, DemoIsOpen(t), NEW b \in TriedBuildings,
         DemoUpgrade(t, b)
  PROVE  DemoInv' /\ Frugal
<1> DEFINE s == Settle(game[t])
           cost == DemoCost(s, b)
           x == [Pay(s, cost) EXCEPT !.buildings[b] = @ + 1]
<1>1. Sound(s) /\ s.last = now
  BY GameSound
<1>2. /\ s.buildings[b] < MaxLevel /\ CanPay(s, cost) /\ Keeps(t, x)
  BY DEF DemoUpgrade, Leaves
<1> HIDE DEF s
<1>3. b \in Building /\ s.buildings[b] \in 0 .. MaxLevel - 1 /\ MaxLevel \in Nat \ {0}
  BY <1>1, <1>2, PowersAssumption, TriedAssumption DEF Sound
<1>4. cost \in [Resource -> Nat]
  BY <1>3, PowersAssumption DEF DemoCost
<1> HIDE DEF cost
<1>5. /\ DOMAIN x = DOMAIN s /\ x.resources = [r \in Resource |-> s.resources[r] - cost[r]]
      /\ x.unclaimed = s.unclaimed /\ x.fields = s.fields /\ x.march = s.march
      /\ x.last = s.last /\ x.troops = s.troops
      /\ x.buildings = [s.buildings EXCEPT ![b] = @ + 1]
  BY <1>1 DEF Sound, Pay
<1> HIDE DEF x
<1>6. x.buildings \in [Building -> 0 .. MaxLevel]
  BY <1>1, <1>3, <1>5 DEF Sound
<1>7. Capacity(s) <= Capacity(x) /\ Capacity(x) \in Nat
  <2>1. CASE b = "warehouse"
    <3> DEFINE level == s.buildings["warehouse"]
    <3>1. level \in 0 .. MaxLevel - 1 /\ x.buildings["warehouse"] = level + 1
      BY <1>1, <1>3, <1>5, <2>1 DEF Sound
    <3> HIDE DEF level
    <3>2. CASE level = 0
      <4>1. AtLeastZero(level - 1) = 0 /\ AtLeastZero(level + 1 - 1) = 0
        BY <3>2 DEF AtLeastZero
      <4> QED BY <3>1, <4>1, PowersAssumption DEF Capacity, level
    <3>3. CASE level # 0
      <4>1. /\ AtLeastZero(level - 1) = level - 1 /\ AtLeastZero(level + 1 - 1) = level
            /\ level - 1 \in 0 .. MaxLevel - 1 /\ level \in 0 .. MaxLevel
            /\ (level - 1) + 1 = level
        BY <1>3, <3>1, <3>3 DEF AtLeastZero
      <4>2. CapacityAt(level - 1) <= CapacityAt((level - 1) + 1) /\ CapacityAt(level) \in Nat
        BY <4>1, PowersAssumption
      <4> QED BY <3>1, <4>1, <4>2 DEF Capacity, level
    <3> QED BY <3>2, <3>3
  <2>2. CASE b # "warehouse"
    <3>1. x.buildings["warehouse"] = s.buildings["warehouse"]
      BY <1>1, <1>5, <2>2 DEF Sound, Building
    <3>2. Capacity(x) = Capacity(s)
      BY <3>1 DEF Capacity
    <3> QED BY <1>1, <3>2, CapacityOf
  <2> QED BY <2>1, <2>2
<1>8. x.troops \in [Troop -> Nat] /\ \A u \in Troop : s.troops[u] <= x.troops[u]
  BY <1>1, <1>5 DEF Sound
<1>9. Sound(x) /\ Wealth(x) <= Wealth(s)
  BY <1>1, <1>2, <1>4, <1>5, <1>6, <1>7, <1>8, Paid
<1>10. x.last = now
  BY <1>1, <1>5
<1> QED BY <1>2, <1>9, <1>10, Command DEF s

\* A price is paid, and there are more troops than before.
LEMMA TrainKeeps ==
  ASSUME DemoInv, NEW t \in DemoTab, DemoIsOpen(t), NEW u \in Troop, NEW n \in TriedTroops,
         DemoTrain(t, u, n)
  PROVE  DemoInv' /\ Frugal
<1> DEFINE s == Settle(game[t])
           cost == [r \in Resource |-> TroopCost[u][r] * n]
           x == [Pay(s, cost) EXCEPT !.troops[u] = @ + n]
<1>1. Sound(s) /\ s.last = now /\ n \in Nat
  BY GameSound, TriedAssumption
<1>2. CanPay(s, cost) /\ Keeps(t, x)
  BY DEF DemoTrain, Leaves
<1> HIDE DEF s
<1>3. \A r \in Resource : TroopCost[u][r] \in Nat
  BY DEF TroopCost, Hundredths, Amounts, Resource, Troop
<1>4. cost \in [Resource -> Nat]
  BY <1>1, <1>3
<1> HIDE DEF cost
<1>5. /\ DOMAIN x = DOMAIN s /\ x.resources = [r \in Resource |-> s.resources[r] - cost[r]]
      /\ x.unclaimed = s.unclaimed /\ x.fields = s.fields /\ x.march = s.march
      /\ x.last = s.last /\ x.buildings = s.buildings
      /\ x.troops = [s.troops EXCEPT ![u] = @ + n]
  BY <1>1 DEF Sound, Pay
<1> HIDE DEF x
<1>6. Capacity(s) <= Capacity(x) /\ Capacity(x) \in Nat
  <2>1. Capacity(x) = Capacity(s)
    BY <1>5 DEF Capacity
  <2> QED BY <1>1, <2>1, CapacityOf
<1>7. x.troops \in [Troop -> Nat] /\ \A v \in Troop : s.troops[v] <= x.troops[v]
  BY <1>1, <1>5 DEF Sound
<1>8. x.buildings \in [Building -> 0 .. MaxLevel]
  BY <1>1, <1>5 DEF Sound
<1>9. Sound(x) /\ Wealth(x) <= Wealth(s)
  BY <1>1, <1>2, <1>4, <1>5, <1>6, <1>7, <1>8, Paid
<1>10. x.last = now
  BY <1>1, <1>5
<1> QED BY <1>2, <1>9, <1>10, Command DEF s

\* What leaves the field is what arrives in the warehouse, and fits.
LEMMA GatherKeeps ==
  ASSUME DemoInv, NEW t \in DemoTab, DemoIsOpen(t), DemoGather(t)
  PROVE  DemoInv' /\ Frugal
<1> DEFINE s == Settle(game[t])
           collected == [r \in Resource |->
                           Least(s.unclaimed[r], AtLeastZero(Capacity(s) - s.resources[r]))]
           x == [s EXCEPT
                   !.resources = [r \in Resource |-> s.resources[r] + collected[r]],
                   !.unclaimed = [r \in Resource |-> s.unclaimed[r] - collected[r]],
                   !.gatherAvailableAt = now + CollectionCooldown]
<1>1. Sound(s) /\ s.last = now
  BY GameSound
<1>2. Keeps(t, x)
  BY DEF DemoGather, Leaves
<1> HIDE DEF s
<1>3. /\ DOMAIN x = DOMAIN s
      /\ x.resources = [r \in Resource |-> s.resources[r] + collected[r]]
      /\ x.unclaimed = [r \in Resource |-> s.unclaimed[r] - collected[r]]
      /\ x.fields = s.fields /\ x.march = s.march /\ x.last = s.last
      /\ x.buildings = s.buildings /\ x.troops = s.troops
  BY <1>1 DEF Sound
<1> HIDE DEF x
<1>4. ASSUME NEW r \in Resource
      PROVE  /\ collected[r] \in Nat /\ collected[r] <= s.unclaimed[r]
             /\ s.resources[r] + collected[r] <= Capacity(s)
             /\ s.resources[r] \in Int /\ s.resources[r] >= 0
             /\ s.unclaimed[r] \in Int /\ s.unclaimed[r] <= Capacity(s)
             /\ Capacity(s) \in Nat
  <2>1. /\ s.resources[r] \in Int /\ s.resources[r] >= 0 /\ s.resources[r] <= Capacity(s)
        /\ s.unclaimed[r] \in Int /\ s.unclaimed[r] >= 0 /\ s.unclaimed[r] <= Capacity(s)
        /\ Capacity(s) \in Nat
    BY <1>1, CapacityOf DEF Sound, StocksFit
  <2>2. collected[r] = Least(s.unclaimed[r], AtLeastZero(Capacity(s) - s.resources[r]))
    OBVIOUS
  <2> QED BY <2>1, <2>2 DEF Least, AtLeastZero
<1> HIDE DEF collected
<1>5. Capacity(x) = Capacity(s)
  BY <1>3 DEF Capacity
<1>6. x.resources \in [Resource -> Int] /\ x.unclaimed \in [Resource -> Int]
  BY <1>3, <1>4
<1>7. StocksFit(x) /\ MarchersAreThere(x)
  <2>1. \A r \in Resource : /\ x.resources[r] >= 0 /\ x.resources[r] <= Capacity(s)
                            /\ x.unclaimed[r] >= 0 /\ x.unclaimed[r] <= Capacity(s)
    BY <1>3, <1>4
  <2> QED BY <1>1, <1>3, <1>5, <2>1 DEF Sound, StocksFit, MarchersAreThere, Available
<1>8. Sound(x)
  BY <1>1, <1>3, <1>6, <1>7 DEF Sound
<1>9. \A r \in Resource : Of(x, r) <= Of(s, r)
  <2> SUFFICES ASSUME NEW r \in Resource PROVE Of(x, r) <= Of(s, r)
    OBVIOUS
  <2>1. /\ s.fields["river"][r] \in Nat /\ s.fields["ash"][r] \in Nat
        /\ s.fields["iron"][r] \in Nat
    BY <1>1, OfIsInt DEF Target
  <2> QED BY <1>3, <1>4, <2>1 DEF Of
<1>10. Wealth(x) <= Wealth(s)
  BY <1>1, <1>8, <1>9, LessIsPoorer
<1>11. x.last = now
  BY <1>1, <1>3
<1> QED BY <1>2, <1>8, <1>10, <1>11, Command DEF s

\* The timer settles, once or twice.
LEMMA TimerKeeps ==
  ASSUME DemoInv, NEW t \in DemoTab, DemoIsOpen(t), TimerSaves(t) \/ GatherTooEarly(t)
  PROVE  DemoInv' /\ Frugal
<1>1. /\ now \in Int /\ Sound(game[t]) /\ Sound(Settle(game[t]))
      /\ Settle(game[t]).last = now
  BY GameSound
<1>2. CASE TimerSaves(t)
  <2>1. Keeps(t, Settle(game[t]))
    BY <1>2 DEF TimerSaves
  <2>2. Wealth(Settle(game[t])) \in Int
    BY <1>1, SettledIsDue
  <2> QED BY <1>1, <2>1, <2>2, Command
<1>3. CASE GatherTooEarly(t)
  BY <1>1, <1>3, SettledIsDue, KeepsFrugally DEF GatherTooEarly
<1> QED BY <1>2, <1>3

\* However the quotient is rounded, what comes out is not worth more.
LEMMA OutputIsWorth ==
  ASSUME NEW n \in Nat \ {0}, NEW d \in {20, 22, 25}, NEW output \in RoundedDown(n, d)
  PROVE  output \in Nat /\ d * output <= 100 * n
<1>1. CASE d = 20
  BY <1>1 DEF RoundedDown
<1>2. CASE d = 22
  BY <1>2 DEF RoundedDown
<1>3. CASE d = 25
  BY <1>3 DEF RoundedDown
<1> QED BY <1>1, <1>2, <1>3

\* An exchange that gives something takes a whole number of something else.
LEMMA SwapKeeps ==
  ASSUME DemoInv, NEW t \in DemoTab, DemoIsOpen(t), NEW w \in TriedSwaps,
         DemoSwap(t, w.from, w.to, w.amount)
  PROVE  DemoInv' /\ Frugal
<1> DEFINE s == Settle(game[t])
           from == w.from
           to == w.to
           amount == w.amount
<1>1. Sound(s) /\ s.last = now
  BY GameSound
<1>2. /\ from \in {"wood", "clay", "stone"} /\ to \in {"wood", "clay", "stone"}
      /\ amount \in Nat
  BY TriedAssumption DEF Worth
<1>3. PICK output \in RoundedDown(amount * Worth[from], Worth[to]) :
        Leaves(t, Swapped(s, from, to, 100 * amount, Received(s, to, output)))
  BY DEF DemoSwap
<1>4. from # to /\ amount > 0 /\ s.resources[from] >= 100 * amount
  BY DEF DemoSwap
<1> DEFINE received == Received(s, to, output)
           x == Swapped(s, from, to, 100 * amount, received)
           stock == x.resources
<1>5. Keeps(t, x)
  BY <1>3 DEF Leaves
<1> HIDE DEF s, from, to, amount
<1>6. output \in Nat /\ Worth[to] * output <= 100 * (amount * Worth[from])
  <2>1. Worth[to] \in {20, 22, 25} /\ Worth[from] \in {20, 22, 25}
    BY <1>2 DEF Worth
  <2>2. amount * Worth[from] \in Nat \ {0}
    BY <1>2, <1>4, <2>1
  <2> QED BY <2>1, <2>2, OutputIsWorth
<1>7. from \in Resource /\ to \in Resource
  BY <1>2 DEF Resource
<1>8. \A r \in Resource :
        /\ s.resources[r] \in Int /\ s.resources[r] >= 0 /\ s.resources[r] <= Capacity(s)
        /\ s.unclaimed[r] \in Int
        /\ s.fields["river"][r] \in Nat /\ s.fields["ash"][r] \in Nat
        /\ s.fields["iron"][r] \in Nat
        /\ Capacity(s) \in Nat
  BY <1>1, CapacityOf, OfIsInt DEF Sound, StocksFit, Target
<1>9. /\ received \in Nat /\ received <= output
      /\ s.resources[to] + received <= Capacity(s)
  <2>1. /\ s.resources[to] \in Int /\ s.resources[to] <= Capacity(s) /\ Capacity(s) \in Nat
    BY <1>7, <1>8
  <2> QED BY <1>6, <2>1 DEF Received, Least, AtLeastZero
<1> HIDE DEF received
<1>10. /\ DOMAIN x = DOMAIN s /\ x.resources = stock
       /\ x.unclaimed = s.unclaimed /\ x.fields = s.fields /\ x.march = s.march
       /\ x.last = s.last /\ x.buildings = s.buildings /\ x.troops = s.troops
       /\ stock = [r \in Resource |->
                     s.resources[r] + (IF r = to THEN received ELSE 0)
                                    - (IF r = from THEN 100 * amount ELSE 0)]
  BY <1>1 DEF Sound, Swapped
<1> HIDE DEF x
<1>11. /\ stock \in [Resource -> Int] /\ stock[from] = s.resources[from] - 100 * amount
       /\ stock[to] = s.resources[to] + received
       /\ \A r \in Resource : r # from /\ r # to => stock[r] = s.resources[r]
  <2>1. \A r \in Resource : /\ r = from => stock[r] = s.resources[r] - 100 * amount
                            /\ r = to => stock[r] = s.resources[r] + received
                            /\ r # from /\ r # to => stock[r] = s.resources[r]
    <3> SUFFICES ASSUME NEW r \in Resource
                 PROVE  /\ r = from => stock[r] = s.resources[r] - 100 * amount
                        /\ r = to => stock[r] = s.resources[r] + received
                        /\ r # from /\ r # to => stock[r] = s.resources[r]
      OBVIOUS
    <3>1. stock[r] = s.resources[r] + (IF r = to THEN received ELSE 0)
                                    - (IF r = from THEN 100 * amount ELSE 0)
      BY <1>10
    <3>2. s.resources[r] \in Int /\ received \in Int /\ 100 * amount \in Int
      BY <1>2, <1>8, <1>9
    <3> QED BY <1>4, <3>1, <3>2
  <2>2. \A r \in Resource : stock[r] \in Int
    BY <1>2, <1>8, <1>9, <2>1
  <2>3. stock \in [Resource -> Int]
    BY <1>10, <2>2
  <2> QED BY <1>7, <2>1, <2>3
<1> HIDE DEF stock
<1>12. Capacity(x) = Capacity(s)
  BY <1>10 DEF Capacity
<1>13. \A r \in Resource : stock[r] >= 0 /\ stock[r] <= Capacity(s)
  <2> SUFFICES ASSUME NEW r \in Resource PROVE stock[r] >= 0 /\ stock[r] <= Capacity(s)
    OBVIOUS
  <2>1. CASE r = from
    BY <1>2, <1>4, <1>8, <1>11, <2>1
  <2>2. CASE r = to
    BY <1>7, <1>8, <1>9, <1>11, <2>2
  <2>3. CASE r # from /\ r # to
    BY <1>8, <1>11, <2>3
  <2> QED BY <2>1, <2>2, <2>3
<1>14. Sound(x)
  <2>1. StocksFit(x) /\ MarchersAreThere(x)
    BY <1>1, <1>10, <1>12, <1>13 DEF Sound, StocksFit, MarchersAreThere, Available
  <2> QED BY <1>1, <1>10, <1>11, <2>1 DEF Sound
<1>15. /\ Of(x, from) = Of(s, from) - 100 * amount
       /\ Of(x, to) = Of(s, to) + received
       /\ \A r \in Resource : r # from /\ r # to => Of(x, r) = Of(s, r)
       /\ \A r \in Resource : Of(s, r) \in Int /\ Of(x, r) \in Int
  <2>1. \A r \in Resource : Of(s, r) \in Int /\ Of(x, r) \in Int
    BY <1>1, <1>14, OfIsInt
  <2>2. Of(x, from) = Of(s, from) - 100 * amount
    BY <1>2, <1>7, <1>8, <1>10, <1>11 DEF Of
  <2>3. Of(x, to) = Of(s, to) + received
    BY <1>7, <1>8, <1>9, <1>10, <1>11 DEF Of
  <2>4. \A r \in Resource : r # from /\ r # to => Of(x, r) = Of(s, r)
    BY <1>10, <1>11 DEF Of
  <2> QED BY <2>1, <2>2, <2>3, <2>4
<1>16. Worth[to] * received <= 100 * (amount * Worth[from])
  <2>1. Worth[to] \in {20, 22, 25}
    BY <1>2 DEF Worth
  <2>2. Worth[to] * received <= Worth[to] * output
    BY <1>6, <1>9, <2>1
  <2>3. /\ Worth[to] * received \in Int /\ Worth[to] * output \in Int
        /\ 100 * (amount * Worth[from]) \in Int
    <3>1. Worth[from] \in Nat
      BY <1>2 DEF Worth
    <3> QED BY <1>2, <1>6, <1>9, <2>1, <3>1
  <2> QED BY <1>6, <2>2, <2>3
<1>17. Wealth(x) <= Wealth(s)
  <2>1. Worth["wood"] = 20 /\ Worth["clay"] = 22 /\ Worth["stone"] = 25
    BY DEF Worth
  <2>2. "wood" \in Resource /\ "clay" \in Resource /\ "stone" \in Resource
    BY DEF Resource
  <2>3. CASE from = "wood" /\ to = "clay"
    BY <1>2, <1>9, <1>15, <1>16, <2>1, <2>2, <2>3, WealthIs
  <2>4. CASE from = "wood" /\ to = "stone"
    BY <1>2, <1>9, <1>15, <1>16, <2>1, <2>2, <2>4, WealthIs
  <2>5. CASE from = "clay" /\ to = "wood"
    BY <1>2, <1>9, <1>15, <1>16, <2>1, <2>2, <2>5, WealthIs
  <2>6. CASE from = "clay" /\ to = "stone"
    BY <1>2, <1>9, <1>15, <1>16, <2>1, <2>2, <2>6, WealthIs
  <2>7. CASE from = "stone" /\ to = "wood"
    BY <1>2, <1>9, <1>15, <1>16, <2>1, <2>2, <2>7, WealthIs
  <2>8. CASE from = "stone" /\ to = "clay"
    BY <1>2, <1>9, <1>15, <1>16, <2>1, <2>2, <2>8, WealthIs
  <2> QED BY <1>2, <1>4, <2>3, <2>4, <2>5, <2>6, <2>7, <2>8
<1>18. x.last = now
  BY <1>1, <1>10
<1> QED BY <1>5, <1>14, <1>17, <1>18, Command DEF s

\* An army that sets out is among the troops, and stays there.
LEMMA MarchKeeps ==
  ASSUME DemoInv, NEW t \in DemoTab, DemoIsOpen(t), NEW target \in Target,
         NEW army \in TriedArmies, DemoMarch(t, target, army)
  PROVE  DemoInv' /\ Frugal
<1> DEFINE s == Settle(game[t])
           march == [target |-> target, army |-> army, arrivesAt |-> now + MarchDuration]
           x == [s EXCEPT !.march = march]
<1>1. Sound(s) /\ s.last = now /\ now \in Int
  BY GameSound
<1>2. Available(s, army) /\ Keeps(t, x)
  BY DEF DemoMarch, Leaves
<1> HIDE DEF s
<1>3. army \in [Troop -> Nat]
  BY TriedAssumption
<1>4. march \in [target : Target, army : [Troop -> Nat], arrivesAt : Int] /\ march.army = army
  BY <1>1, <1>3 DEF MarchDuration
<1> HIDE DEF march
<1>5. /\ DOMAIN x = DOMAIN s /\ x.resources = s.resources /\ x.unclaimed = s.unclaimed
      /\ x.fields = s.fields /\ x.march = march /\ x.last = s.last
      /\ x.buildings = s.buildings /\ x.troops = s.troops
  BY <1>1 DEF Sound
<1> HIDE DEF x
<1>6. StocksFit(x) /\ MarchersAreThere(x)
  BY <1>1, <1>2, <1>4, <1>5 DEF Sound, StocksFit, MarchersAreThere, Available, Capacity
<1>7. Sound(x)
  BY <1>1, <1>4, <1>5, <1>6 DEF Sound
<1>8. Wealth(x) <= Wealth(s)
  <2>1. Wealth(x) = Wealth(s) /\ Wealth(s) \in Int
    BY <1>1, <1>5, SettledIsDue DEF Wealth
  <2> QED BY <2>1
<1> QED BY <1>1, <1>2, <1>5, <1>7, <1>8, Command DEF s

LEMMA QuotientIsNat ==
  ASSUME NEW n \in Nat, NEW d \in Nat \ {0}
  PROVE  n \div d \in Nat
OBVIOUS

\* No more is taken from a field than it has.
LEMMA LootFits ==
  ASSUME NEW field \in [Resource -> Nat], NEW load \in Nat
  PROVE  \A r \in Resource : Loot(field, load)[r] \in Nat /\ Loot(field, load)[r] <= field[r]
<1> DEFINE total == field["wood"] + field["clay"] + field["stone"] + field["gold"]
<1>1. total \in Nat
  BY DEF Resource
<1> HIDE DEF total
<1> SUFFICES ASSUME NEW r \in Resource
             PROVE  Loot(field, load)[r] \in Nat /\ Loot(field, load)[r] <= field[r]
  OBVIOUS
<1>2. field[r] \in Nat
  OBVIOUS
<1>3. Loot(field, load)[r] = IF total = 0 THEN 0
                             ELSE Least(field[r], (field[r] * load) \div total)
  BY DEF Loot, total
<1>4. total # 0 => (field[r] * load) \div total \in Nat
  <2>1. field[r] * load \in Nat
    BY <1>2
  <2> QED BY <1>1, <2>1, QuotientIsNat
<1> QED BY <1>2, <1>3, <1>4 DEF Least

\* No more fall than were sent.
LEMMA CasualtiesFit ==
  ASSUME NEW army \in [Troop -> Nat], NEW won \in BOOLEAN, NEW u \in Troop
  PROVE  Casualties(army, won)[u] \in Nat /\ Casualties(army, won)[u] <= army[u]
<1>1. army[u] \in Nat
  OBVIOUS
<1>2. CeilOf(army[u] * 8, 100) \in Nat /\ CeilOf(army[u] * 38, 100) \in Nat
  BY <1>1 DEF CeilOf
<1>3. Casualties(army, won)[u] = Least(army[u], CeilOf(army[u] * (IF won THEN 8 ELSE 38), 100))
  BY DEF Casualties
<1>4. CASE won
  BY <1>1, <1>2, <1>3, <1>4 DEF Least
<1>5. CASE ~ won
  BY <1>1, <1>2, <1>3, <1>5 DEF Least
<1> QED BY <1>4, <1>5

\* A battle only moves what is in a field, and loses what does not fit.
LEMMA BattleKeeps ==
  ASSUME NEW s, Sound(s), s.march = NoMarch, NEW target \in Target,
         NEW army \in [Troop -> Nat], Available(s, army)
  PROVE  LET x == Fought(s, target, army)
         IN  Sound(x) /\ Wealth(x) <= Wealth(s) /\ x.last = s.last
<1> DEFINE won == Attack(army) >= Defense[target]
           field == s.fields[target]
           stolen == IF won THEN Loot(field, 18 * Soldiers(army)) ELSE Amounts(0, 0, 0, 0)
           troops == [u \in Troop |-> s.troops[u] - Casualties(army, won)[u]]
           left == [r \in Resource |-> field[r] - stolen[r]]
           stock == [r \in Resource |-> Least(Capacity(s), s.resources[r] + 100 * stolen[r])]
           x == Fought(s, target, army)
<1>1. /\ DOMAIN x = DOMAIN s /\ x.resources = stock /\ x.unclaimed = s.unclaimed
      /\ x.fields = [s.fields EXCEPT ![target] = left] /\ x.march = s.march
      /\ x.last = s.last /\ x.buildings = s.buildings /\ x.troops = troops
  BY DEF Sound, Fought
<1> HIDE DEF x
<1>2. field \in [Resource -> Nat]
  BY DEF Sound
<1>3. Soldiers(army) \in Nat
  BY DEF Soldiers, Troop
<1>4. \A r \in Resource : stolen[r] \in Nat /\ stolen[r] <= field[r]
  <2>1. CASE won
    <3>1. 18 * Soldiers(army) \in Nat
      BY <1>3
    <3> QED BY <1>2, <2>1, <3>1, LootFits
  <2>2. CASE ~ won
    <3>1. \A r \in Resource : Amounts(0, 0, 0, 0)[r] = 0
      BY DEF Amounts, Resource
    <3>2. stolen = Amounts(0, 0, 0, 0)
      BY <2>2
    <3> HIDE DEF stolen
    <3> QED BY <1>2, <3>1, <3>2
  <2> QED BY <2>1, <2>2
<1>5. troops \in [Troop -> Nat]
  <2> SUFFICES ASSUME NEW u \in Troop PROVE s.troops[u] - Casualties(army, won)[u] \in Nat
    OBVIOUS
  <2>1. won \in BOOLEAN
    OBVIOUS
  <2>2. Casualties(army, won)[u] \in Nat /\ Casualties(army, won)[u] <= army[u]
    <3> HIDE DEF won
    <3> QED BY <2>1, CasualtiesFit
  <2>3. s.troops[u] \in Nat /\ army[u] \in Nat /\ army[u] <= s.troops[u]
    BY DEF Sound, Available
  <2> HIDE DEF won
  <2> QED BY <2>2, <2>3
<1> HIDE DEF stolen, field, troops, won
<1>6. \A r \in Resource :
        /\ s.resources[r] \in Int /\ s.resources[r] >= 0 /\ s.resources[r] <= Capacity(s)
        /\ Capacity(s) \in Nat /\ field[r] \in Nat /\ stolen[r] \in Nat
        /\ stolen[r] <= field[r]
  BY <1>2, <1>4, CapacityOf DEF Sound, StocksFit
<1>7. left \in [Resource -> Nat] /\ \A r \in Resource : left[r] = field[r] - stolen[r]
  BY <1>6
<1>8. \A r \in Resource : /\ stock[r] \in Int /\ stock[r] >= 0 /\ stock[r] <= Capacity(s)
                          /\ stock[r] <= s.resources[r] + 100 * stolen[r]
  BY <1>6 DEF Least
<1>9. stock \in [Resource -> Int]
  BY <1>8
<1> HIDE DEF left, stock
<1>10. Capacity(x) = Capacity(s)
  BY <1>1 DEF Capacity
<1>11. StocksFit(x)
  BY <1>1, <1>8, <1>10 DEF Sound, StocksFit
<1>12. x.fields \in [Target -> [Resource -> Nat]]
  BY <1>1, <1>7 DEF Sound
<1>13. Sound(x)
  BY <1>1, <1>5, <1>9, <1>11, <1>12 DEF Sound, MarchersAreThere
<1>14. \A r \in Resource : Of(x, r) <= Of(s, r)
  <2> SUFFICES ASSUME NEW r \in Resource PROVE Of(x, r) <= Of(s, r)
    OBVIOUS
  <2>1. /\ s.unclaimed[r] \in Int
        /\ \A y \in {"river", "ash", "iron"} : s.fields[y][r] \in Nat
    BY OfIsInt DEF Target
  <2>2. /\ x.fields[target][r] = s.fields[target][r] - stolen[r]
        /\ \A y \in Target : y # target => x.fields[y][r] = s.fields[y][r]
    BY <1>1, <1>7 DEF Sound, field
  <2>3. /\ stock[r] <= s.resources[r] + 100 * stolen[r] /\ stock[r] \in Int
        /\ s.resources[r] \in Int /\ stolen[r] \in Nat
    BY <1>6, <1>8
  <2>4. CASE target = "river"
    BY <1>1, <2>1, <2>2, <2>3, <2>4 DEF Of, Target
  <2>5. CASE target = "ash"
    BY <1>1, <2>1, <2>2, <2>3, <2>5 DEF Of, Target
  <2>6. CASE target = "iron"
    BY <1>1, <2>1, <2>2, <2>3, <2>6 DEF Of, Target
  <2> QED BY <2>4, <2>5, <2>6 DEF Target
<1>15. Wealth(x) <= Wealth(s)
  BY <1>13, <1>14, LessIsPoorer
<1> QED BY <1>1, <1>13, <1>15 DEF x

\* An army that arrives is there, and its march is struck off before the battle.
LEMMA ArrivalKeeps ==
  ASSUME DemoInv, NEW t \in DemoTab, DemoIsOpen(t), DemoArrives(t)
  PROVE  DemoInv' /\ Frugal
<1> DEFINE m == game[t].march
           before == Settle(game[t])
           s == [before EXCEPT !.march = NoMarch]
           x == IF Available(s, m.army) THEN Fought(s, m.target, m.army) ELSE s
<1>1. m # NoMarch /\ Keeps(t, x)
  BY DEF DemoArrives
<1>2. Sound(game[t]) /\ Sound(before) /\ before.last = now
  BY GameSound
<1>3. m.target \in Target /\ m.army \in [Troop -> Nat]
  BY <1>1, <1>2 DEF Sound
<1> HIDE DEF before, m
<1>4. /\ DOMAIN s = DOMAIN before /\ s.resources = before.resources
      /\ s.unclaimed = before.unclaimed /\ s.fields = before.fields /\ s.march = NoMarch
      /\ s.last = before.last /\ s.buildings = before.buildings /\ s.troops = before.troops
  BY <1>2 DEF Sound
<1> HIDE DEF s
<1>5. StocksFit(s) /\ MarchersAreThere(s)
  BY <1>2, <1>4 DEF Sound, StocksFit, MarchersAreThere, Capacity
<1>6. Sound(s)
  BY <1>2, <1>4, <1>5 DEF Sound
<1>7. Wealth(s) = Wealth(before) /\ Wealth(before) \in Int
  BY <1>2, <1>4, GameSound, SettledIsDue DEF Wealth
<1>8. Sound(x) /\ Wealth(x) <= Wealth(before) /\ x.last = now
  <2>1. CASE Available(s, m.army)
    BY <1>2, <1>3, <1>4, <1>6, <1>7, <2>1, BattleKeeps
  <2>2. CASE ~ Available(s, m.army)
    BY <1>2, <1>4, <1>6, <1>7, <2>2
  <2> QED BY <2>1, <2>2
<1> HIDE DEF x
<1> QED BY <1>1, <1>8, Command DEF before

\* Opening and leaving a tab, a reset and the clock.
LEMMA OthersKeep ==
  ASSUME DemoInv,
         \/ \E t \in DemoTab : OpenDemo(t) \/ CloseDemo(t) \/ DemoReset(t)
         \/ \E d \in Delays : ClockMoves(d)
         \/ UNCHANGED demoVars
  PROVE  DemoInv' /\ Frugal
<1>0. now \in Int /\ DOMAIN game = DemoTab
  BY DEF DemoInv
<1>1. ASSUME NEW t \in DemoTab, NEW s, s = Closed \/ Sound(s),
             game' = [game EXCEPT ![t] = s], saved' = saved \/ saved' = Empty,
             UNCHANGED now, s = Closed \/ ~ DemoIsOpen(t) \/ saved' = Empty
      PROVE  DemoInv' /\ Frugal
  <2>1. DemoInv'
    BY <1>0, <1>1 DEF DemoInv, DemoIsOpen
  <2>2. Frugal
    <3> SUFFICES ASSUME NEW u \in DemoTab, DemoIsOpen(u), DemoIsOpen(u)', saved' # Empty
                 PROVE  Due(game[u])' <= Due(game[u])
      BY DEF Frugal
    <3>1. game'[u] = game[u]
      BY <1>0, <1>1 DEF DemoIsOpen
    <3>2. Sound(game[u])
      BY DEF DemoInv
    <3>3. Due(game[u]) \in Int
      BY <1>0, <3>2, SettledIsDue
    <3>4. Due(game[u])' = Due(game[u])
      BY <1>1, <3>1 DEF Due, Elapsed
    <3> QED BY <3>3, <3>4
  <2> QED BY <2>1, <2>2
<1>2. ASSUME NEW t \in DemoTab, OpenDemo(t) PROVE DemoInv' /\ Frugal
  <2>1. Sound(Settle(Loaded))
    BY <1>0, LoadedSound, SettledSound
  <2> QED BY <1>1, <1>2, <2>1 DEF OpenDemo
<1>3. ASSUME NEW t \in DemoTab, CloseDemo(t) PROVE DemoInv' /\ Frugal
  BY <1>1, <1>3 DEF CloseDemo
<1>4. ASSUME NEW t \in DemoTab, DemoReset(t) PROVE DemoInv' /\ Frugal
  <2>1. Sound(Settle(NewGame))
    BY <1>0, NewGameSound, SettledSound
  <2> QED BY <1>1, <1>4, <2>1 DEF DemoReset
<1>5. ASSUME NEW d \in Delays, ClockMoves(d) PROVE DemoInv' /\ Frugal
  <2>1. d \in Int /\ now' = now + d /\ UNCHANGED <<game, saved>>
    BY <1>5, TriedAssumption DEF ClockMoves
  <2>2. DemoInv'
    BY <1>0, <2>1 DEF DemoInv, DemoIsOpen
  <2>3. CASE now' = now
    <3>1. \A u \in DemoTab : DemoIsOpen(u) =>
            Due(game[u])' = Due(game[u]) /\ Due(game[u]) \in Int
      BY <1>0, <2>1, <2>3, SettledIsDue DEF DemoInv, Due, Elapsed
    <3> QED BY <2>2, <3>1 DEF Frugal
  <2>4. CASE now' # now
    BY <2>2, <2>4 DEF Frugal
  <2> QED BY <2>3, <2>4
<1>6. CASE UNCHANGED demoVars
  <2>1. UNCHANGED <<game, saved, now>>
    BY <1>6 DEF demoVars
  <2>2. DemoInv'
    BY <2>1 DEF DemoInv, DemoIsOpen
  <2>3. \A u \in DemoTab : DemoIsOpen(u) =>
          Due(game[u])' = Due(game[u]) /\ Due(game[u]) \in Int
    BY <1>0, <2>1, SettledIsDue DEF DemoInv, Due, Elapsed
  <2> QED BY <2>2, <2>3 DEF Frugal
<1> QED BY <1>2, <1>3, <1>4, <1>5, <1>6

LEMMA DemoInvInit == DemoInit => DemoInv
BY SavesAssumption DEF DemoInit, DemoInv, DemoIsOpen

\* Every step keeps the villages sound and makes nobody richer.
LEMMA DemoInvNext == DemoInv /\ [DemoNext]_demoVars => DemoInv' /\ Frugal
<1> SUFFICES ASSUME DemoInv, [DemoNext]_demoVars PROVE DemoInv' /\ Frugal
  OBVIOUS
<1>1. ASSUME NEW t \in DemoTab, DemoIsOpen(t),
             \/ TimerSaves(t) \/ DemoGather(t) \/ GatherTooEarly(t)
             \/ DemoArrives(t) \/ DemoReset(t)
             \/ \E b \in TriedBuildings : DemoUpgrade(t, b)
             \/ \E x \in TriedSwaps : DemoSwap(t, x.from, x.to, x.amount)
             \/ \E u \in Troop, n \in TriedTroops : DemoTrain(t, u, n)
             \/ \E target \in Target, army \in TriedArmies : DemoMarch(t, target, army)
      PROVE  DemoInv' /\ Frugal
  BY <1>1, TimerKeeps, GatherKeeps, ArrivalKeeps, OthersKeep, UpgradeKeeps, SwapKeeps,
     TrainKeeps, MarchKeeps
<1> QED BY <1>1, OthersKeep DEF DemoNext

\* Every tab's village and the save, migrated, is one as a visit leaves it: DemoInv.
THEOREM DemoInvariant == DemoSpec => []DemoInv
BY DemoInvInit, DemoInvNext, PTL DEF DemoSpec

\* However many tabs overwrite each other's saves and wherever the clock is set: no
\* stock is overdrawn or over capacity.
THEOREM StocksAlwaysHold == DemoSpec => []StocksHold
<1>1. DemoInv => StocksHold
  BY MigratedHolds DEF DemoInv, StocksHold, Alive, Sound
<1> QED BY <1>1, DemoInvariant, PTL

\* However many tabs overwrite each other's saves: an army on the march is among the
\* troops when it arrives.
THEOREM MarchersAlwaysStay == DemoSpec => []MarchersStay
<1>1. DemoInv => MarchersStay
  BY MigratedHolds DEF DemoInv, MarchersStay, Alive, Sound
<1> QED BY <1>1, DemoInvariant, PTL

\* No command of any tab and no timer creates wealth: exchanges, loot, prices and caps
\* all round in the bank's favour, and no second is paid for twice.
THEOREM NothingIsConjured == DemoSpec => NothingConjured
<1>1. DemoInv /\ [DemoNext]_demoVars => [Frugal]_demoVars
  BY DemoInvNext
<1>2. [][Frugal]_demoVars => NothingConjured
  <2>1. [Frugal]_demoVars
          => [\A t \in DemoTab :
                DemoIsOpen(t) /\ DemoIsOpen(t)' /\ saved' # Empty /\ UNCHANGED now =>
                  Due(game[t])' <= Due(game[t])]_demoVars
    BY DEF Frugal
  <2> QED BY <2>1, PTL DEF NothingConjured
<1> QED BY <1>1, <1>2, DemoInvariant, PTL DEF DemoSpec

\* The villages of the demo, in memory and saved.
THEOREM VillagesAreHeld == DemoSpec => []VillagesHold
BY StocksAlwaysHold, MarchersAlwaysStay, PTL DEF VillagesHold

\* Notices of completed upgrades.
THEOREM NoticesAreHeld == NoticeSpec => NoticesHold
BY NoticesAreDue, OffIsSilent, NoticesOnce, PTL DEF NoticesHold
=============================================================================
