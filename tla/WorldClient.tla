---------------------------- MODULE WorldClient ----------------------------
(* The client of a wallet: the review of an intent, the runtime of the       *)
(* mounted app, and the adapter that turns a confirmed intent into a user    *)
(* operation and follows it (src/world-game/adapter.js, review.js,           *)
(* src/game-world-runtime.js, src/game-actions.js, src/app.js). Handlers run *)
(* to their next await; between two steps anything else may happen. A page   *)
(* that is reloaded loses every promise; one that is remounted does not, and *)
(* the old adapter goes on with its operation.                               *)
EXTENDS Naturals, FiniteSetsExt

CONSTANTS
    Buildings,    \* what an upgrade names
    Drafts,       \* contents of the market form: resource and amount
    FirstDraft,   \* what the form of a new runtime contains
    MaxOps,       \* bound: user operations the wallet signs
    MaxConfirms,  \* bound: reviews the user confirms
    MaxAdapters   \* bound: adapters created, one per (re)mount

ClientBounds ==
    /\ MaxOps \in Nat /\ MaxConfirms \in Nat
    /\ MaxAdapters \in Nat \ {0}
    /\ FirstDraft \in Drafts

ASSUME ClientAssumption == ClientBounds

VARIABLES
    ops,       \* user operations: what each does and what became of it
    stored,    \* the pending record in sessionStorage
    adapters,  \* adapters created so far
    current,   \* the adapter of the present page
    mounted,   \* is the app running on it?
    ready, busy, shown, refresh, review,   \* its runtime
    draft, quote, quoting,                 \* its market form
    confirms,  \* reviews confirmed, per intent
    reported   \* operations this runtime has shown as done

clientVars == <<ops, stored, adapters, current, mounted, ready, busy, shown,
                refresh, review, draft, quote, quoting, confirms, reported>>
runtimeVars == <<ready, busy, shown, refresh, review, draft, quote, quoting,
                 reported>>

Op == 1..MaxOps
NoOp == 0
Adapter == 1..MaxAdapters
Types == {"upgrade", "market_buy"}
Intents == ({"upgrade"} \X Buildings) \cup ({"market_buy"} \X Drafts)
Nothing == <<"none", "none">>
TypeOf(intent) == intent[1]

Statuses == {"idle", "reviewing", "invalidated", "cancelled", "confirming",
             "pending", "confirmed", "reverted"}

\* A pending operation as the adapter and the storage remember it.
Record == [op : Op \cup {NoOp}, action : Types \cup {"none"}]
NoRecord == [op |-> NoOp, action |-> "none"]

\* The promise of an adapter's operation in flight, how far it has come, and
\* who awaits it.
Flight == [phase : {"none", "unsent", "approved", "polling", "reading", "read"},
           intent : Intents \cup ({"resume"} \X Types) \cup {Nothing},
           op : Op \cup {NoOp}, pending : BOOLEAN, seen : SUBSET Op,
           waiting : SUBSET {"dispatch", "resume"}]
NoFlight == [phase |-> "none", intent |-> Nothing, op |-> NoOp,
             pending |-> FALSE, seen |-> {}, waiting |-> {}]
NoAdapter == [known |-> NoRecord, flight |-> NoFlight]

Refresh == [phase : {"idle", "reading", "read", "resuming"},
            seen : SUBSET Op, stale : BOOLEAN]
NoRefresh == [phase |-> "idle", seen |-> {}, stale |-> FALSE]

\* intent is what the user reviews (kept here while it may still be executed or
\* stands as confirmed); op the operation reported for it; fresh whether nothing
\* was outstanding when it was dispatched.
Review == [status : Statuses, intent : Intents \cup {Nothing},
           op : Op \cup {NoOp}, fresh : BOOLEAN]
NoReview == [status |-> "idle", intent |-> Nothing, op |-> NoOp, fresh |-> FALSE]

Ended(status) == [NoReview EXCEPT !.status = status]

NoQuote == "none"

\* A request for a quote is what it asks for, or Outpaced once the form changed.
Outpaced == "outpaced"

ClientTypeOK ==
    /\ ops \in [Op -> [intent : Intents \cup {Nothing},
                       status : {"unused", "sent", "success", "failed"}]]
    /\ stored \in Record
    /\ adapters \in [Adapter -> [known : Record, flight : Flight]]
    /\ current \in Adapter
    /\ mounted \in BOOLEAN /\ ready \in BOOLEAN /\ busy \in BOOLEAN
    /\ shown \in SUBSET Op /\ reported \in SUBSET Op
    /\ refresh \in Refresh
    /\ review \in Review
    /\ draft \in Drafts /\ quote \in Drafts \cup {NoQuote}
    /\ quoting \in SUBSET (Drafts \cup {Outpaced})
    /\ confirms \in [Intents -> 0..MaxConfirms]

\* What a read of the chain finds at this moment.
Included == {o \in Op : ops[o].status = "success"}

ClientInit ==
    /\ ops = [o \in Op |-> [intent |-> Nothing, status |-> "unused"]]
    /\ stored = NoRecord
    /\ adapters = [a \in Adapter |-> NoAdapter]
    /\ current = 1
    /\ mounted = FALSE
    /\ ready = FALSE /\ busy = FALSE /\ shown = {} /\ reported = {}
    /\ refresh = [NoRefresh EXCEPT !.phase = "reading"]
    /\ review = NoReview
    /\ draft = FirstDraft /\ quote = NoQuote /\ quoting = {}
    /\ confirms = [i \in Intents |-> 0]

------------------------------------------------------------------------------
(* Pages.                                                                    *)

\* startCivilizationApp: the new runtime of the page, which reads the state at
\* once (its variables have the values it starts with since the page opened).
StartApp ==
    /\ ~mounted
    /\ mounted' = TRUE
    /\ UNCHANGED <<ops, stored, adapters, current, confirms>>
    /\ UNCHANGED runtimeVars

\* An adapter that has no receipt to await, and nobody to tell, is forgotten.
Kept(ad) ==
    IF ad.flight.waiting = {} /\ ad.flight.phase \in {"none", "reading", "read"}
    THEN NoAdapter ELSE ad

\* An adapter of a former page, with the operation it still follows.
Orphan(ad) == Kept([ad EXCEPT !.flight.waiting = {}])

\* The page is left and opened again: stopCivilizationApp, and a new adapter
\* that restores the stored record. A reload ends all JavaScript of the page;
\* leaving the component (logging out and in) lets the old promise go on.
Reopen(reload) ==
    /\ mounted
    /\ current < MaxAdapters
    /\ current' = current + 1
    /\ adapters' = [a \in Adapter |->
                      IF a = current + 1 THEN [NoAdapter EXCEPT !.known = stored]
                      ELSE IF reload THEN NoAdapter ELSE Orphan(adapters[a])]
    /\ mounted' = FALSE
    /\ ready' = FALSE /\ busy' = FALSE /\ shown' = {} /\ reported' = {}
    /\ refresh' = [NoRefresh EXCEPT !.phase = "reading"]
    /\ review' = NoReview
    /\ draft' = FirstDraft /\ quote' = NoQuote /\ quoting' = {}
    /\ UNCHANGED <<ops, stored, confirms>>

------------------------------------------------------------------------------
(* The review of an intent.                                                  *)

\* requireAccess: the world's state is loaded and nothing is under way.
Access == mounted /\ ready /\ ~busy

Waiting == review.status \in {"confirming", "pending"}

\* requestAction: a review is begun unless one is being confirmed or pending.
Begin(intent) ==
    /\ Access
    /\ ~Waiting
    /\ review' = [NoReview EXCEPT !.status = "reviewing", !.intent = intent]
    /\ UNCHANGED <<ops, stored, adapters, current, mounted, ready, busy, shown,
                   refresh, draft, quote, quoting, confirms, reported>>

RequestUpgrade(building) == Begin(<<"upgrade", building>>)

\* marketOrder: the quote has to be for what the form shows.
MarketOrder ==
    /\ quote # NoQuote
    /\ quote = draft
    /\ Begin(<<"market_buy", quote>>)

CancelReview ==
    /\ mounted
    /\ review.status \in {"reviewing", "invalidated"}
    /\ review' = Ended("cancelled")
    /\ UNCHANGED <<ops, stored, adapters, current, mounted, ready, busy, shown,
                   refresh, draft, quote, quoting, confirms, reported>>

Invalidated(r) == IF r.status = "reviewing" THEN Ended("invalidated") ELSE r

\* marketInputsChanged, openMarket: the form's contents change; what was
\* quoted or is being quoted for the old ones no longer counts.
MarketInputsChanged(d) ==
    /\ mounted
    /\ draft' = d
    /\ quote' = NoQuote
    /\ quoting' = {Outpaced : q \in quoting}
    /\ review' = Invalidated(review)
    /\ UNCHANGED <<ops, stored, adapters, current, mounted, ready, busy, shown,
                   refresh, confirms, reported>>

\* quoteMarket: the request for a quote of the form's contents (bound: one at a
\* time) ...
QuoteMarket ==
    /\ Access
    /\ quoting = {}
    /\ busy' = TRUE
    /\ quoting' = {draft}
    /\ UNCHANGED <<ops, stored, adapters, current, mounted, ready, shown,
                   refresh, review, draft, quote, confirms, reported>>

\* ... and its answer, which is dropped if the inputs changed meanwhile, or
\* its failure.
QuoteArrives(q) ==
    /\ mounted
    /\ quoting' = quoting \ {q}
    /\ busy' = FALSE
    /\ quote' \in {quote} \cup ({q} \cap Drafts)
    /\ UNCHANGED <<ops, stored, adapters, current, mounted, ready, shown,
                   refresh, review, draft, confirms, reported>>

------------------------------------------------------------------------------
(* The adapter's execute, and the two that call it.                          *)

\* Another operation is in flight or pending: execute throws.
Refused(ad, type) ==
    IF ad.flight.phase # "none"
    THEN ad.known.action # type /\ TypeOf(ad.flight.intent) # type
                                /\ ad.flight.intent # <<"resume", type>>
    ELSE ad.known.op # NoOp /\ ad.known.action # type

\* A variant that sends again instead of polling the pending operation.
FaultyExecuted(ad, intent, caller) ==
    IF ad.flight.phase # "none"
    THEN [ad EXCEPT !.flight.waiting = @ \cup {caller}]
    ELSE [ad EXCEPT !.flight = [NoFlight EXCEPT !.phase = "unsent",
                                  !.intent = intent, !.waiting = {caller}]]

\* The promise of an operation in flight is shared; a pending one is polled
\* again; else the checks before a new one begin.
Executed(ad, intent, caller) ==
    IF ad.flight.phase # "none"
    THEN [ad EXCEPT !.flight.waiting = @ \cup {caller}]
    ELSE [ad EXCEPT !.flight =
            [NoFlight EXCEPT !.phase = IF ad.known.op = NoOp THEN "unsent" ELSE "polling",
                             !.intent = intent, !.op = ad.known.op,
                             !.waiting = {caller}]]

\* confirmReview: the review turns confirming even when dispatching it is
\* then declined because the runtime is busy or no longer ready.
ConfirmReview ==
    LET ad == adapters[current]
        refused == Refused(ad, TypeOf(review.intent))
    IN  /\ mounted
        /\ review.status = "reviewing"
        /\ MapThenSumSet(LAMBDA i : confirms[i], Intents) < MaxConfirms
        /\ confirms' = [confirms EXCEPT ![review.intent] = @ + 1]
        /\ IF Access
           THEN /\ review' = IF refused THEN Ended("reverted")
                             ELSE [review EXCEPT !.status = "confirming",
                                                 !.fresh = ad = NoAdapter]
                /\ busy' = ~refused
                /\ adapters' = IF refused THEN adapters
                               ELSE [adapters EXCEPT ![current] =
                                       Executed(ad, review.intent, "dispatch")]
           ELSE /\ review' = [review EXCEPT !.status = "confirming"]
                /\ UNCHANGED <<busy, adapters>>
        /\ UNCHANGED <<ops, stored, current, mounted, ready, shown, refresh,
                       draft, quote, quoting, reported>>

\* refresh: started by the timer, when the page becomes visible, or by hand,
\* also while an operation is in flight.
RefreshStarts ==
    /\ mounted
    /\ refresh.phase = "idle"
    /\ refresh' = [NoRefresh EXCEPT !.phase = "reading"]
    /\ UNCHANGED <<ops, stored, adapters, current, mounted, ready, busy, shown,
                   review, draft, quote, quoting, confirms, reported>>

\* A variant without the check.
FaultyOutdated(r) == FALSE

\* The state moved on since the refresh began: its answer is dropped.
Outdated(r) == r.stale

RefreshReads ==
    /\ mounted
    /\ refresh.phase = "reading"
    /\ refresh' = [refresh EXCEPT !.phase = "read",
                                  !.seen = IF Outdated(refresh) THEN {} ELSE Included]
    /\ UNCHANGED <<ops, stored, adapters, current, mounted, ready, busy, shown,
                   review, draft, quote, quoting, confirms, reported>>

\* The answer: it replaces the state, invalidates the review of an upgrade,
\* and if an operation is pending goes on to resume it.
RefreshArrives ==
    /\ mounted
    /\ refresh.phase = "read"
    /\ IF Outdated(refresh)
       THEN /\ refresh' = NoRefresh
            /\ UNCHANGED <<adapters, ready, busy, shown, review>>
       ELSE /\ shown' = refresh.seen
            /\ ready' = TRUE
            /\ review' = IF TypeOf(review.intent) = "upgrade"
                         THEN Invalidated(review) ELSE review
            /\ LET ad == adapters[current]
               IN  IF ad.known.op = NoOp
                   THEN refresh' = NoRefresh /\ UNCHANGED <<adapters, busy>>
                   ELSE /\ refresh' = [NoRefresh EXCEPT !.phase = "resuming"]
                        /\ busy' = TRUE
                        /\ adapters' = [adapters EXCEPT ![current] =
                             Executed(ad, <<"resume", ad.known.action>>, "resume")]
    /\ UNCHANGED <<ops, stored, current, mounted, draft, quote, quoting,
                   confirms, reported>>

RefreshFails ==
    /\ mounted
    /\ refresh.phase \in {"reading", "read"}
    /\ refresh' = NoRefresh
    /\ ready' = FALSE
    /\ UNCHANGED <<ops, stored, adapters, current, mounted, busy, shown, review,
                   draft, quote, quoting, confirms, reported>>

------------------------------------------------------------------------------
(* One operation in flight at adapter a.                                     *)

\* A promise settles: every caller that still belongs to the present page goes
\* on. A result replaces the state and makes reads begun earlier outdated.
Settled(a, done, op, seen) ==
    LET waiting == adapters[a].flight.waiting
        held == mounted /\ a = current
        Of(caller) == held /\ caller \in waiting
    IN  /\ busy' = IF Of("dispatch") \/ Of("resume") THEN FALSE ELSE busy
        /\ review' = IF ~Of("dispatch") THEN review
                     ELSE IF done = "reverted" THEN Ended(done)
                     ELSE [review EXCEPT !.status = done, !.op = op]
        /\ refresh' = IF Of("resume") THEN NoRefresh
                      ELSE IF Of("dispatch") /\ done # "reverted" /\ refresh.phase # "idle"
                           THEN [refresh EXCEPT !.stale = TRUE]
                      ELSE refresh
        /\ IF done # "reverted" /\ (Of("dispatch") \/ Of("resume"))
           THEN /\ shown' = seen
                /\ reported' = IF done = "confirmed" THEN reported \cup {op} ELSE reported
           ELSE UNCHANGED <<shown, reported>>
        /\ UNCHANGED <<ops, current, mounted, ready, draft, quote, quoting, confirms>>

Rejected(a) == Settled(a, "reverted", NoOp, {})

\* A check before sending fails (the reads of eligibility, the encoding, the
\* runtime gate, the call that simulates the transaction), or the wallet
\* declines or answers with what is not this wallet's operation.
NotSent(a) ==
    /\ adapters[a].flight.phase = "unsent"
    /\ adapters' = [adapters EXCEPT ![a].flight = NoFlight]
    /\ Rejected(a)
    /\ UNCHANGED stored

\* The checks pass and the user approves in the wallet: the operation is
\* submitted ...
Approved(a) ==
    /\ adapters[a].flight.phase = "unsent"
    /\ \E o \in Op :
         /\ ops[o].status = "unused"
         /\ \A p \in Op : p < o => ops[p].status # "unused"
         /\ ops' = [ops EXCEPT ![o] = [intent |-> adapters[a].flight.intent,
                                       status |-> "sent"]]
         /\ adapters' = [adapters EXCEPT ![a].flight.phase = "approved",
                                         ![a].flight.op = o]
    /\ UNCHANGED <<stored, current, mounted, confirms>> /\ UNCHANGED runtimeVars

\* ... and its hash reaches the adapter, which keeps and stores it.
HashArrives(a) ==
    LET flight == adapters[a].flight
        record == [op |-> flight.op, action |-> TypeOf(flight.intent)]
    IN  /\ flight.phase = "approved"
        /\ adapters' = [adapters EXCEPT ![a].known = record,
                                        ![a].flight.phase = "polling"]
        /\ stored' = record
        /\ UNCHANGED <<ops, current, mounted, confirms>> /\ UNCHANGED runtimeVars

\* pollReceipt times out: the state is read and the operation stays pending.
ReceiptLate(a) ==
    /\ adapters[a].flight.phase = "polling"
    /\ adapters' = [adapters EXCEPT ![a] =
         Kept([@ EXCEPT !.flight.phase = "reading", !.flight.pending = TRUE])]
    /\ UNCHANGED <<ops, stored, current, mounted, confirms>> /\ UNCHANGED runtimeVars

\* Any other error of polling: the operation stays pending too.
PollingFails(a) ==
    /\ adapters[a].flight.phase = "polling"
    /\ adapters' = [adapters EXCEPT ![a].flight = NoFlight]
    /\ Rejected(a)
    /\ UNCHANGED stored

\* A variant that takes a receipt of either outcome for success.
FaultySucceeded(op) == ops[op].status \in {"success", "failed"}
Succeeded(op) == ops[op].status = "success"

\* A receipt of success: the pending record is cleared, then the state read.
ReceiptArrives(a) ==
    /\ adapters[a].flight.phase = "polling"
    /\ Succeeded(adapters[a].flight.op)
    /\ adapters' = [adapters EXCEPT ![a] =
         Kept([@ EXCEPT !.flight.phase = "reading", !.known = NoRecord])]
    /\ stored' = NoRecord
    /\ UNCHANGED <<ops, current, mounted, confirms>> /\ UNCHANGED runtimeVars

\* A receipt of failure: the record is cleared and the promise rejected.
ReceiptOfFailure(a) ==
    /\ adapters[a].flight.phase = "polling"
    /\ ops[adapters[a].flight.op].status = "failed"
    /\ adapters' = [adapters EXCEPT ![a] = NoAdapter]
    /\ stored' = NoRecord
    /\ Rejected(a)

StateRead(a) ==
    /\ adapters[a].flight.phase = "reading"
    /\ adapters' = [adapters EXCEPT ![a].flight.phase = "read",
                                    ![a].flight.seen = Included]
    /\ UNCHANGED <<ops, stored, current, mounted, confirms>> /\ UNCHANGED runtimeVars

\* The state arrives and the promise resolves ...
ResultArrives(a) ==
    LET flight == adapters[a].flight
    IN  /\ flight.phase = "read"
        /\ adapters' = [adapters EXCEPT ![a].flight = NoFlight]
        /\ Settled(a, IF flight.pending THEN "pending" ELSE "confirmed",
                   flight.op, flight.seen)
        /\ UNCHANGED stored

\* ... or reading it fails, and with it the operation, even if it succeeded.
StateUnreadable(a) ==
    /\ adapters[a].flight.phase \in {"reading", "read"}
    /\ adapters' = [adapters EXCEPT ![a].flight = NoFlight]
    /\ Rejected(a)
    /\ UNCHANGED stored

\* The chain includes an operation, which succeeds or reverts.
OpIncluded(o) ==
    /\ ops[o].status = "sent"
    /\ \E outcome \in {"success", "failed"} :
         ops' = [ops EXCEPT ![o].status = outcome]
    /\ UNCHANGED <<stored, adapters, current, mounted, confirms>>
    /\ UNCHANGED runtimeVars

------------------------------------------------------------------------------
Flying(a) ==
    \/ NotSent(a) \/ Approved(a) \/ HashArrives(a)
    \/ ReceiptLate(a) \/ PollingFails(a) \/ ReceiptArrives(a)
    \/ ReceiptOfFailure(a) \/ StateRead(a) \/ ResultArrives(a)
    \/ StateUnreadable(a)

AppNext ==
    \/ \E b \in Buildings : RequestUpgrade(b)
    \/ MarketOrder \/ CancelReview \/ ConfirmReview
    \/ \E d \in Drafts : MarketInputsChanged(d)
    \/ QuoteMarket \/ \E q \in quoting : QuoteArrives(q)
    \/ RefreshStarts \/ RefreshReads \/ RefreshArrives \/ RefreshFails

ClientNext ==
    \/ StartApp
    \/ \E reload \in BOOLEAN : Reopen(reload)
    \/ AppNext
    \/ \E a \in Adapter : Flying(a)
    \/ \E o \in Op : OpIncluded(o)

ClientSpec == ClientInit /\ [][ClientNext]_clientVars

------------------------------------------------------------------------------
(* Properties.                                                               *)

\* No operation is sent without a review of exactly that intent having been
\* confirmed for it: retries and remounts never send again, and resuming a
\* pending operation never sends at all (adapter.js, executeAction).
OneOpPerConfirmation ==
    /\ \A o \in Op : ops[o].status # "unused" => ops[o].intent \in Intents
    /\ \A i \in Intents :
          Cardinality({o \in Op : ops[o].intent = i}) <= confirms[i]

\* What confirmReview promises: a review is shown as confirmed only when the
\* reviewed intent itself was executed. The code does not keep it: an
\* operation of the same type that is pending or in flight answers for it.
ConfirmedWasExecuted ==
    review.status = "confirmed" =>
        ops[review.op] = [intent |-> review.intent, status |-> "success"]

\* It does keep it whenever the adapter had nothing outstanding at the time.
FreshReviewWasExecuted == review.fresh => ConfirmedWasExecuted

\* The state that is shown never goes back behind an operation that was
\* reported as done, whichever of the concurrent reads arrives last.
NothingUndone == reported \subseteq shown

=============================================================================
