------------------------------ MODULE Server_proof ------------------------------
(***************************************************************************)
(* What the server's routes and the pages they serve keep.                 *)
(*                                                                         *)
(* Signing in, for any number of browsers, wallets and requests at a time, *)
(* over failures, lost answers and repeated requests: a challenge yields   *)
(* at most one session, for the wallet that has signed it (AuthInv,        *)
(* SignedOnce); the challenges outstanding exceed the limit by no more     *)
(* than the requests that can count at the same time (Limits, LimitsHold); *)
(* a page shows an address only if a session of its own browser was        *)
(* created for it (LinkInv, OwnSessionShown).                              *)
(*                                                                         *)
(* History: whatever stays in the table is on the list of a page or below  *)
(* its end, however the indexer moves between the pages, for any chains    *)
(* and any page length (HistoryInv, ListKeepsUp).                          *)
(*                                                                         *)
(* Status: each part of a release reported as verified stood when the      *)
(* probe began or later, and a result is not served after CACHE_TTL_MS     *)
(* (StatusInv, StatusRecent).                                              *)
(*                                                                         *)
(* Raids: the cooldown holds, and time only gives rights to raid and raids *)
(* only take them, for every policy that is accepted (RaidInv).            *)
(*                                                                         *)
(* Appearance: a tab has at most one write under way, and what it shows as *)
(* saved is stored, for any number of tabs and lost answers.  That needs   *)
(* what each answer under way says (PutsAreTrue).                          *)
(***************************************************************************)
EXTENDS WalletAuth, HistoryPages, RuntimeStatus, RaidEligibility, VillageAppearance,
        FiniteSetTheorems, SequenceTheorems, TLAPS

Used(t) == session[t].status # "unused"

\* A request that has taken challenge n.
Holds(r, n) == r.kind = "verify" /\ r.phase \in {"taken", "verified"} /\ r.nonce = n

\* What a request carries was signed, and comes with a session that exists.
Carried(r) ==
  /\ r.kind = "nonce" /\ r.phase = "ok" => r.nonce \in Nonce
  /\ r.kind = "verify" /\ r.phase \in {"received", "taken"} =>
       r.nonce \in Nonce /\ r.payload \in signed
  /\ r.kind = "verify" /\ r.phase = "verified" =>
       r.nonce \in Nonce /\ [nonce |-> r.nonce, address |-> r.address] \in signed
  /\ r.token # None => Used(r.token)
  /\ r.phase # "none" => r.kind # "none"

Requests == \A x \in Exchange : Carried(exchange[x])

\* A consumed challenge is with one request, or with one session.
Single ==
  \A x \in Exchange, n \in Nonce : Holds(exchange[x], n) =>
    /\ challenge[n].status = "consumed"
    /\ \A y \in Exchange : Holds(exchange[y], n) => y = x
    /\ \A t \in Token : Used(t) => session[t].nonce # n

Sessions ==
  \A t \in Token : Used(t) =>
    /\ session[t].nonce \in Nonce
    /\ challenge[session[t].nonce].status = "consumed"
    /\ [nonce |-> session[t].nonce, address |-> session[t].address] \in signed
    /\ \A u \in Token : Used(u) /\ session[u].nonce = session[t].nonce => u = t

Pages ==
  \A b \in Browser :
    /\ page[b].attempt = "signing" => page[b].nonce \in Nonce
    /\ cookie[b] # None => Used(cookie[b])

AuthInv == AuthTypeOK /\ Requests /\ Single /\ Sessions /\ Pages

LEMMA NoneApart == None \notin Nonce /\ None \notin Token
BY AuthAssumption

LEMMA NoRequestOK == NoRequest \in Request
BY DEF NoRequest, Request

LEMMA NothingAsked ==
  /\ NoRequest \in Request /\ NoRequest.token = None
  /\ NoRequest.phase = "none" /\ NoRequest.kind = "none"
BY DEF NoRequest, Request

LEMMA NewPageOK == NewPage \in Page
BY DEF NewPage, Page

\* The invariant holds at the start.
LEMMA AuthInitially == AuthInit => AuthInv
<1> SUFFICES ASSUME AuthInit PROVE AuthInv
  OBVIOUS
<1>1. AuthTypeOK
  BY NoRequestOK, NewPageOK DEF AuthInit, AuthTypeOK, Challenge, Session
<1>2. Requests /\ Single
  BY DEF AuthInit, Requests, Carried, Single, Holds, NoRequest
<1>3. Sessions /\ Pages
  BY DEF AuthInit, Sessions, Used, Pages, NewPage
<1> QED
  BY <1>1, <1>2, <1>3 DEF AuthInv

\* A step that takes no challenge and creates no session.
LEMMA OthersKeep ==
  ASSUME AuthInv, AuthTypeOK', Requests', Pages', signed \subseteq signed',
         \A n \in Nonce : challenge[n].status = "consumed" => challenge'[n].status = "consumed",
         \A t \in Token : /\ session'[t].nonce = session[t].nonce
                          /\ session'[t].address = session[t].address
                          /\ Used(t)' <=> Used(t),
         \A y \in Exchange, n \in Nonce : Holds(exchange[y], n)' => Holds(exchange[y], n)
  PROVE  AuthInv'
<1>1. Single'
  BY DEF AuthInv, Single
<1>2. Sessions'
  BY DEF AuthInv, Sessions
<1> QED
  BY <1>1, <1>2 DEF AuthInv

\* A step on one request that takes no challenge and leaves the tables alone.
LEMMA RequestKeeps ==
  ASSUME AuthInv, NEW x \in Exchange, NEW r \in Request,
         exchange' = [exchange EXCEPT ![x] = r],
         UNCHANGED <<now, challenge, session>>,
         signed \subseteq signed', signed' \subseteq Payload,
         page' \in [Browser -> Page], cookie' \in [Browser -> Token \cup {None}],
         Carried(r)', Pages',
         \A n \in Nonce : Holds(r, n) => Holds(exchange[x], n)
  PROVE  AuthInv'
<1>1. exchange \in [Exchange -> Request]
  BY DEF AuthInv, AuthTypeOK
<1>2. AuthTypeOK'
  BY <1>1 DEF AuthInv, AuthTypeOK
<1>3. \A y \in Exchange : exchange'[y] = IF y = x THEN r ELSE exchange[y]
  BY <1>1
<1>4. ASSUME NEW y \in Exchange PROVE Carried(exchange[y])'
  <2>1. Carried(exchange[y])
    BY DEF AuthInv, Requests
  <2> QED
    BY <2>1, <1>3 DEF Carried, Used
<1>5. \A y \in Exchange, n \in Nonce : Holds(exchange[y], n)' => Holds(exchange[y], n)
  BY <1>3 DEF Holds
<1> QED
  BY <1>2, <1>4, <1>5, OthersKeep DEF Requests, Used

\* What a handler answers: nobody may await it any more.
LEMMA ReplyKeeps ==
  ASSUME AuthInv, NEW x \in Exchange, NEW answer \in Request, Reply(x, answer),
         UNCHANGED <<now, tables, signed, browsers>>,
         Carried(answer), answer.phase \in {"ok", "expired", "failed"}
  PROVE  AuthInv'
<1>1. PICK r \in {answer, NoRequest} : exchange' = [exchange EXCEPT ![x] = r]
  BY DEF Reply, AuthInv, AuthTypeOK
<1>2. r \in Request
  BY NoRequestOK
<1>3. Carried(r)'
  <2>1. Carried(NoRequest)
    BY DEF Carried, NoRequest
  <2>2. Carried(r)
    BY <2>1
  <2> QED
    BY <2>2 DEF Carried, Used, tables
<1>4. \A n \in Nonce : ~ Holds(r, n)
  BY DEF Holds, NoRequest
<1>5. Pages'
  BY DEF AuthInv, Pages, browsers, tables, Used
<1>6. page' \in [Browser -> Page] /\ cookie' \in [Browser -> Token \cup {None}]
  BY DEF AuthInv, AuthTypeOK, browsers
<1>7. signed' \subseteq Payload /\ signed \subseteq signed'
  BY DEF AuthInv, AuthTypeOK
<1>8. UNCHANGED <<now, challenge, session>>
  BY DEF tables
<1> QED
  BY <1>1, <1>2, <1>3, <1>4, <1>5, <1>6, <1>7, <1>8, RequestKeeps

\* The answers and requests the operators build are of their type.
LEMMA AnswerOK ==
  ASSUME AuthTypeOK, NEW x \in Exchange, NEW phase \in {"ok", "expired", "failed"}
  PROVE  /\ Answer(x, phase) \in Request
         /\ Answer(x, phase).token = None /\ Answer(x, phase).phase = phase
         /\ Answer(x, phase).nonce = None
         /\ Answer(x, phase).kind = exchange[x].kind
BY DEF AuthTypeOK, Answer, NoRequest, Request

LEMMA FailedKeeps ==
  ASSUME AuthInv, NEW x \in Exchange, Refuse(x), exchange[x].kind # "none",
         UNCHANGED <<now, tables, signed, browsers>>
  PROVE  AuthInv'
<1>1. AuthTypeOK
  BY DEF AuthInv
<1>2. Answer(x, "failed") \in Request /\ Carried(Answer(x, "failed"))
      /\ Answer(x, "failed").phase = "failed"
  BY <1>1, AnswerOK DEF Carried
<1> QED
  BY <1>2, ReplyKeeps DEF Refuse

LEMMA SentOK ==
  ASSUME AuthTypeOK, NEW b \in Browser, NEW kind \in {"nonce", "session", "logout"}
  PROVE  /\ Sent(b, kind) \in Request /\ SentCookie(b, kind) \in Request
         /\ Sent(b, kind).kind = kind /\ SentCookie(b, kind).kind = kind
         /\ Sent(b, kind).phase = "received" /\ SentCookie(b, kind).phase = "received"
         /\ Sent(b, kind).token = None /\ SentCookie(b, kind).token = cookie[b]
BY DEF AuthTypeOK, Sent, SentCookie, NoRequest, Request

LEMMA AskSessionKeeps ==
  ASSUME AuthInv, NEW x \in Exchange, NEW b \in Browser,
         AskSession(x, b) \/ Logout(x, b)
  PROVE  AuthInv'
<1>1. PICK kind \in {"session", "logout"} : Send(x, SentCookie(b, kind))
  BY DEF AskSession, Logout
<1>2. PICK r \in Request : /\ r = SentCookie(b, kind) /\ exchange' = [exchange EXCEPT ![x] = r]
                           /\ r.kind = kind /\ r.phase = "received" /\ r.token = cookie[b]
  BY <1>1, SentOK DEF Send, AuthInv
<1>3. UNCHANGED <<now, tables, signed, browsers>>
  BY DEF AskSession, Logout
<1>4. Carried(r)'
  BY <1>1, <1>2, <1>3 DEF Carried, AuthInv, Pages, Used, tables, browsers
<1>5. \A n \in Nonce : ~ Holds(r, n)
  BY <1>2 DEF Holds
<1>6. Pages'
  BY <1>3 DEF AuthInv, Pages, browsers, tables, Used
<1>7. /\ page' \in [Browser -> Page] /\ cookie' \in [Browser -> Token \cup {None}]
      /\ signed' \subseteq Payload /\ signed \subseteq signed'
      /\ UNCHANGED <<now, challenge, session>>
  BY <1>3 DEF AuthInv, AuthTypeOK, browsers, tables
<1> QED
  BY <1>2, <1>4, <1>5, <1>6, <1>7, RequestKeeps

LEMMA LoginKeeps ==
  ASSUME AuthInv, NEW x \in Exchange, NEW b \in Browser, Login(x, b)
  PROVE  AuthInv'
<1>1. PICK r \in Request : /\ exchange' = [exchange EXCEPT ![x] = r]
                           /\ r.kind = "nonce" /\ r.phase = "received" /\ r.token = None
  <2>1. /\ Sent(b, "nonce") \in Request
        /\ Sent(b, "nonce").kind = "nonce" /\ Sent(b, "nonce").phase = "received"
        /\ Sent(b, "nonce").token = None
    BY SentOK DEF AuthInv
  <2> QED
    BY <2>1 DEF Send, Login
<1>2. /\ page' = [page EXCEPT ![b].attempt = "nonce"]
      /\ UNCHANGED <<now, challenge, session, signed, cookie>>
  BY DEF Login, tables
<1>3. Carried(r)' /\ \A n \in Nonce : ~ Holds(r, n)
  BY <1>1 DEF Carried, Holds
<1>4. /\ page \in [Browser -> Page] /\ cookie \in [Browser -> Token \cup {None}]
      /\ signed \subseteq Payload
  BY DEF AuthInv, AuthTypeOK
<1>5. page' \in [Browser -> Page]
  BY <1>2, <1>4 DEF Page
<1>6. Pages'
  BY <1>2, <1>4 DEF AuthInv, Pages, Used
<1> QED
  BY <1>1, <1>2, <1>3, <1>4, <1>5, <1>6, RequestKeeps

LEMMA SignKeeps ==
  ASSUME AuthInv, NEW x \in Exchange, NEW b \in Browser, NEW payload \in Payload,
         Sign(x, b, payload)
  PROVE  AuthInv'
<1>1. /\ page \in [Browser -> Page] /\ cookie \in [Browser -> Token \cup {None}]
      /\ signed \subseteq Payload
  BY DEF AuthInv, AuthTypeOK
<1>2. page[b].nonce \in Nonce
  BY DEF AuthInv, Pages, Sign
<1>3. PICK r \in Request : /\ exchange' = [exchange EXCEPT ![x] = r]
                           /\ r.kind = "verify" /\ r.phase = "received" /\ r.token = None
                           /\ r.nonce = page[b].nonce /\ r.payload = payload
  <2> DEFINE r == [Sent(b, "verify") EXCEPT !.nonce = page[b].nonce, !.payload = payload]
  <2>1. r \in Request
    BY <1>2 DEF Sent, NoRequest, Request
  <2>2. /\ r.kind = "verify" /\ r.phase = "received" /\ r.token = None
        /\ r.nonce = page[b].nonce /\ r.payload = payload
    BY DEF Sent, NoRequest
  <2>3. exchange' = [exchange EXCEPT ![x] = r]
    BY DEF Send, Sign
  <2> HIDE DEF r
  <2> QED
    BY <2>1, <2>2, <2>3
<1>4. /\ signed' = signed \cup {payload}
      /\ page' = [page EXCEPT ![b].attempt = "verify", ![b].nonce = None]
      /\ UNCHANGED <<now, challenge, session, cookie>>
  BY DEF Sign, tables
<1>5. Carried(r)' /\ \A n \in Nonce : ~ Holds(r, n)
  BY <1>2, <1>3, <1>4 DEF Carried, Holds
<1>6. page' \in [Browser -> Page]
  BY <1>1, <1>4 DEF Page
<1>7. Pages'
  BY <1>1, <1>4 DEF AuthInv, Pages, Used
<1> QED
  BY <1>1, <1>3, <1>4, <1>5, <1>6, <1>7, RequestKeeps

LEMMA RepeatedKeeps ==
  ASSUME AuthInv, NEW x \in Exchange, NEW y \in Exchange, Repeated(x, y)
  PROVE  AuthInv'
<1>1. exchange[y] \in Request /\ Carried(exchange[y])
  BY DEF AuthInv, AuthTypeOK, Requests
<1>2. PICK r \in Request : /\ exchange' = [exchange EXCEPT ![x] = r]
                           /\ r.kind = "verify" /\ r.phase = "received"
                           /\ r.token = exchange[y].token
                           /\ r.nonce = exchange[y].nonce /\ r.payload = exchange[y].payload
  <2> DEFINE r == [exchange[y] EXCEPT !.phase = "received", !.awaited = FALSE]
  <2>1. r \in Request
    BY <1>1 DEF Request
  <2>2. /\ r.kind = "verify" /\ r.phase = "received" /\ r.token = exchange[y].token
        /\ r.nonce = exchange[y].nonce /\ r.payload = exchange[y].payload
    BY <1>1 DEF Repeated, At, Request
  <2>3. exchange' = [exchange EXCEPT ![x] = r]
    BY DEF Send, Repeated
  <2> HIDE DEF r
  <2> QED
    BY <2>1, <2>2, <2>3
<1>3. UNCHANGED <<now, challenge, session, signed, page, cookie>>
  BY DEF Repeated, tables, browsers
<1>4. exchange[y].kind = "verify" /\ exchange[y].phase \in {"received", "taken"}
  BY DEF Repeated, At
<1>5. Carried(r)' /\ \A n \in Nonce : ~ Holds(r, n)
  BY <1>1, <1>2, <1>3, <1>4 DEF Carried, Holds, Used
<1>6. Pages'
  BY <1>3 DEF AuthInv, Pages, Used
<1>7. /\ page' \in [Browser -> Page] /\ cookie' \in [Browser -> Token \cup {None}]
      /\ signed' \subseteq Payload /\ signed \subseteq signed'
  BY <1>3 DEF AuthInv, AuthTypeOK
<1> QED
  BY <1>2, <1>3, <1>5, <1>6, <1>7, RequestKeeps


\* What an answer makes of a page that is of its type.
LEMMA AnsweredOK ==
  ASSUME NEW p \in Page, NEW r \in Request, Carried(r), r.phase # "none"
  PROVE  /\ Answered(p, r) \in Page
         /\ Answered(p, r).attempt = "signing" =>
              Answered(p, r).nonce \in Nonce
              \/ (p.attempt = "signing" /\ Answered(p, r).nonce = p.nonce)
<1>1. r.kind \in {"nonce", "verify", "session", "logout"}
  BY DEF Carried, Request
<1>2. Shown(r) \in Address \cup {None}
  BY DEF Shown, Request
<1>3. CASE r.kind = "session"
  <2>1. Answered(p, r) = Restored(p, r)
    BY <1>3 DEF Answered
  <2> QED
    BY <2>1, <1>2 DEF Restored, Page
<1>4. CASE r.kind = "nonce"
  <2>1. Answered(p, r) = [p EXCEPT !.attempt = IF r.phase = "ok" THEN "signing" ELSE "idle",
                                   !.nonce = r.nonce]
    BY <1>4 DEF Answered
  <2> QED
    BY <2>1, <1>4 DEF Page, Request, Carried
<1>5. CASE r.kind = "verify"
  <2>1. Answered(p, r) = [p EXCEPT !.attempt = "idle", !.shown = Shown(r)]
    BY <1>5 DEF Answered
  <2> QED
    BY <2>1, <1>2 DEF Page
<1>6. CASE r.kind = "logout"
  <2>1. Answered(p, r) = IF r.phase = "ok" THEN [p EXCEPT !.shown = None] ELSE p
    BY <1>6 DEF Answered
  <2> QED
    BY <2>1 DEF Page
<1> QED
  BY <1>1, <1>3, <1>4, <1>5, <1>6

\* A cookie is that of an answer, none, or the one there was.
LEMMA CookieOK ==
  ASSUME NEW b \in Browser, NEW r
  PROVE  CookieAfter(b, r) \in {r.token, None, cookie[b]}
<1>1. CASE r.kind = "verify" /\ r.phase = "ok"
  BY <1>1 DEF CookieAfter
<1>2. CASE r.kind = "logout" /\ r.phase = "ok"
  BY <1>2 DEF CookieAfter
<1>3. CASE r.phase = "expired"
  BY <1>3 DEF CookieAfter
<1>4. CASE ~ (\/ r.kind = "verify" /\ r.phase = "ok"
              \/ r.kind = "logout" /\ r.phase = "ok"
              \/ r.phase = "expired")
  BY <1>4 DEF CookieAfter
<1> QED
  BY <1>1, <1>2, <1>3, <1>4

LEMMA DeliverKeeps ==
  ASSUME AuthInv, NEW x \in Exchange, Deliver(x)
  PROVE  AuthInv'
<1>1. PICK r : r = exchange[x]
  OBVIOUS
<1>2. /\ exchange' = [exchange EXCEPT ![x] = NoRequest]
      /\ page' = [page EXCEPT ![r.browser] = Answered(@, r)]
      /\ cookie' = [cookie EXCEPT ![r.browser] = CookieAfter(r.browser, r)]
      /\ UNCHANGED <<now, challenge, session, signed>>
      /\ r.phase # "none"
  BY <1>1 DEF Deliver, tables
<1>3. /\ page \in [Browser -> Page] /\ cookie \in [Browser -> Token \cup {None}]
      /\ signed \subseteq Payload /\ r \in Request /\ Carried(r)
  BY <1>1 DEF AuthInv, AuthTypeOK, Requests
<1>4. Carried(NoRequest)' /\ \A n \in Nonce : ~ Holds(NoRequest, n)
  BY DEF Carried, NoRequest, Holds
<1>5. ASSUME NEW b \in Browser
      PROVE  /\ page'[b] \in Page /\ cookie'[b] \in Token \cup {None}
             /\ page'[b].attempt = "signing" => page'[b].nonce \in Nonce
             /\ cookie'[b] # None => Used(cookie'[b])
  <2>1. /\ page[b].attempt = "signing" => page[b].nonce \in Nonce
        /\ cookie[b] # None => Used(cookie[b])
    BY DEF AuthInv, Pages
  <2>2. CASE b # r.browser
    BY <1>2, <1>3, <2>1, <2>2
  <2>3. CASE b = r.browser
    <3>1. page'[b] = Answered(page[b], r) /\ cookie'[b] = CookieAfter(b, r)
      BY <1>2, <1>3, <2>3
    <3>2. CookieAfter(b, r) \in {r.token, None, cookie[b]}
      BY CookieOK
    <3>3. r.token \in Token \cup {None} /\ (r.token # None => Used(r.token))
      BY <1>3 DEF Request, Carried
    <3>4. /\ Answered(page[b], r) \in Page
          /\ Answered(page[b], r).attempt = "signing" => Answered(page[b], r).nonce \in Nonce
      BY <1>2, <1>3, <2>1, AnsweredOK
    <3> QED
      BY <1>3, <2>1, <3>1, <3>2, <3>3, <3>4
  <2> QED
    BY <2>2, <2>3
<1>6. /\ page' \in [Browser -> Page] /\ cookie' \in [Browser -> Token \cup {None}]
  BY <1>2, <1>3, <1>5
<1>7. Pages'
  BY <1>2, <1>5 DEF Pages, Used
<1> QED
  BY <1>2, <1>3, <1>4, <1>6, <1>7, NoRequestOK, RequestKeeps


LEMMA CountKeeps ==
  ASSUME AuthInv, NEW x \in Exchange, CountChallenges(x)
  PROVE  AuthInv'
<1>1. PICK r : r = [exchange[x] EXCEPT !.phase = "counted", !.free = Free(exchange[x].browser)]
  OBVIOUS
<1>2. exchange \in [Exchange -> Request] /\ Carried(exchange[x]) /\ exchange[x].kind = "nonce"
  BY DEF CountChallenges, At, AuthInv, AuthTypeOK, Requests
<1>3. exchange' = [exchange EXCEPT ![x] = r]
  BY <1>1, <1>2 DEF CountChallenges
<1>4. r \in Request
  <2>1. Free(exchange[x].browser) \in BOOLEAN
    BY DEF Free
  <2> QED
    BY <1>1, <1>2, <2>1 DEF Request
<1>5. r.kind = "nonce" /\ r.phase = "counted" /\ r.token = exchange[x].token
  BY <1>1, <1>2 DEF Request
<1>6. UNCHANGED <<now, challenge, session, signed, page, cookie>>
  BY DEF CountChallenges, tables, browsers
<1>7. Carried(r)' /\ \A n \in Nonce : ~ Holds(r, n)
  BY <1>2, <1>5, <1>6 DEF Carried, Holds, Used
<1>8. Pages'
  BY <1>6 DEF AuthInv, Pages, Used
<1>9. /\ page' \in [Browser -> Page] /\ cookie' \in [Browser -> Token \cup {None}]
      /\ signed' \subseteq Payload /\ signed \subseteq signed'
  BY <1>6 DEF AuthInv, AuthTypeOK
<1> QED
  BY <1>3, <1>4, <1>6, <1>7, <1>8, <1>9, RequestKeeps

LEMMA VerifyKeeps ==
  ASSUME AuthInv, NEW x \in Exchange, VerifyPayload(x)
  PROVE  AuthInv'
<1>1. PICK q : q = exchange[x]
  OBVIOUS
<1>2. /\ exchange \in [Exchange -> Request] /\ q \in Request /\ Carried(q)
      /\ q.kind = "verify" /\ q.phase = "taken"
  BY <1>1 DEF VerifyPayload, At, AuthInv, AuthTypeOK, Requests
<1>3. CASE q.payload.nonce = q.nonce
  <2>1. PICK r : r = [q EXCEPT !.phase = "verified", !.payload = NoPayload,
                               !.address = q.payload.address]
    OBVIOUS
  <2>2. exchange' = [exchange EXCEPT ![x] = r]
    BY <1>1, <1>3, <2>1 DEF VerifyPayload
  <2>3. /\ q.payload \in signed /\ q.payload \in Payload /\ q.nonce \in Nonce
    BY <1>2 DEF Carried, AuthInv, AuthTypeOK
  <2>4. r \in Request
    BY <1>2, <2>1, <2>3 DEF Request, Payload
  <2>5. /\ r.kind = "verify" /\ r.phase = "verified" /\ r.token = q.token
        /\ r.nonce = q.nonce /\ r.address = q.payload.address
    BY <1>2, <2>1 DEF Request
  <2>6. [nonce |-> r.nonce, address |-> r.address] = q.payload
    BY <1>3, <2>3, <2>5 DEF Payload
  <2>7. UNCHANGED <<now, challenge, session, signed, page, cookie>>
    BY DEF VerifyPayload, tables, browsers
  <2>8. Carried(r)'
    BY <1>2, <2>3, <2>5, <2>6, <2>7 DEF Carried, Used
  <2>9. \A n \in Nonce : Holds(r, n) => Holds(exchange[x], n)
    BY <1>1, <1>2, <2>5 DEF Holds
  <2>10. Pages'
    BY <2>7 DEF AuthInv, Pages, Used
  <2>11. /\ page' \in [Browser -> Page] /\ cookie' \in [Browser -> Token \cup {None}]
         /\ signed' \subseteq Payload /\ signed \subseteq signed'
    BY <2>7 DEF AuthInv, AuthTypeOK
  <2> QED
    BY <2>2, <2>4, <2>7, <2>8, <2>9, <2>10, <2>11, RequestKeeps
<1>4. CASE q.payload.nonce # q.nonce
  BY <1>1, <1>2, <1>4, FailedKeeps DEF VerifyPayload
<1> QED
  BY <1>3, <1>4

LEMMA ReadKeeps ==
  ASSUME AuthInv, NEW x \in Exchange, ReadSession(x)
  PROVE  AuthInv'
<1>1. /\ AuthTypeOK /\ exchange[x] \in Request
      /\ exchange[x].kind = "session"
  BY DEF ReadSession, At, AuthInv, AuthTypeOK
<1>2. UNCHANGED <<now, tables, signed, browsers>>
  BY DEF ReadSession
<1>3. PICK a : a = session[exchange[x].token].address
  OBVIOUS
<1>4. CASE /\ exchange[x].token # None
           /\ session[exchange[x].token].status = "live"
           /\ session[exchange[x].token].expires > now
  <2>1. Reply(x, [Answer(x, "ok") EXCEPT !.address = a])
    BY <1>3, <1>4 DEF ReadSession
  <2>2. a \in Address \cup {None}
    BY <1>1, <1>3, <1>4 DEF AuthTypeOK, Session, Request
  <2>3. /\ Answer(x, "ok") \in Request /\ Answer(x, "ok").token = None
        /\ Answer(x, "ok").phase = "ok" /\ Answer(x, "ok").kind = "session"
    BY <1>1, AnswerOK
  <2>4. PICK r : r = [Answer(x, "ok") EXCEPT !.address = a]
    OBVIOUS
  <2>5. r \in Request /\ r.token = None /\ r.phase = "ok" /\ r.kind = "session"
    BY <2>2, <2>3, <2>4 DEF Request
  <2>6. Carried(r)
    BY <2>5 DEF Carried
  <2> QED
    BY <1>2, <2>1, <2>4, <2>5, <2>6, ReplyKeeps
<1>5. CASE ~ (/\ exchange[x].token # None
              /\ session[exchange[x].token].status = "live"
              /\ session[exchange[x].token].expires > now)
  <2>1. Reply(x, Answer(x, "expired"))
    BY <1>5 DEF ReadSession
  <2>2. /\ Answer(x, "expired") \in Request /\ Answer(x, "expired").token = None
        /\ Answer(x, "expired").phase = "expired" /\ Answer(x, "expired").kind = "session"
    BY <1>1, AnswerOK
  <2>3. Carried(Answer(x, "expired"))
    BY <2>2 DEF Carried
  <2> QED
    BY <1>2, <2>1, <2>2, <2>3, ReplyKeeps
<1> QED
  BY <1>4, <1>5


\* A step that replaces one request by one that holds no challenge, whatever it does
\* to the tables beyond what OthersKeep allows.
LEMMA TableKeeps ==
  ASSUME AuthInv, NEW x \in Exchange, NEW r \in Request,
         exchange' = [exchange EXCEPT ![x] = r],
         UNCHANGED <<signed, page, cookie>>, now' = now,
         challenge' \in [Nonce -> Challenge], session' \in [Token -> Session],
         r.phase \in {"none", "ok", "failed"}, r.token = None,
         r.kind = "nonce" /\ r.phase = "ok" => r.nonce \in Nonce,
         r.phase # "none" => r.kind # "none",
         \A n \in Nonce : challenge[n].status = "consumed" => challenge'[n].status = "consumed",
         \A t \in Token : /\ session'[t].nonce = session[t].nonce
                          /\ session'[t].address = session[t].address
                          /\ Used(t)' <=> Used(t)
  PROVE  AuthInv'
<1>1. /\ exchange \in [Exchange -> Request] /\ cookie \in [Browser -> Token \cup {None}]
      /\ now \in Nat /\ signed \subseteq Payload /\ page \in [Browser -> Page]
  BY DEF AuthInv, AuthTypeOK
<1>2. AuthTypeOK'
  BY <1>1 DEF AuthTypeOK
<1>3. \A y \in Exchange : exchange'[y] = IF y = x THEN r ELSE exchange[y]
  BY <1>1
<1>4. ASSUME NEW y \in Exchange PROVE Carried(exchange[y])'
  <2>1. Carried(exchange[y]) /\ exchange[y] \in Request
    BY <1>1 DEF AuthInv, Requests
  <2>2. CASE y = x
    BY <1>3, <2>2 DEF Carried
  <2>3. CASE y # x
    BY <1>3, <2>1, <2>3 DEF Carried, Request
  <2> QED
    BY <2>2, <2>3
<1>5. \A y \in Exchange, n \in Nonce : Holds(exchange[y], n)' => Holds(exchange[y], n)
  BY <1>3 DEF Holds
<1>6. Pages'
  BY <1>1 DEF AuthInv, Pages
<1> QED
  BY <1>2, <1>4, <1>5, <1>6, OthersKeep DEF Requests

LEMMA CreateChallengeKeeps ==
  ASSUME AuthInv, NEW x \in Exchange, CreateChallenge(x)
  PROVE  AuthInv'
<1>1. /\ AuthTypeOK /\ exchange \in [Exchange -> Request] /\ now \in Nat
      /\ challenge \in [Nonce -> Challenge] /\ session \in [Token -> Session]
      /\ exchange[x].kind = "nonce"
  BY DEF CreateChallenge, At, AuthInv, AuthTypeOK
<1>2. UNCHANGED <<now, session, signed, page, cookie>>
  BY DEF CreateChallenge, browsers
<1>3. CASE exchange[x].free
  <2>1. PICK n \in Nonce :
          /\ challenge[n].status = "unused"
          /\ challenge' = [challenge EXCEPT ![n] =
               [status |-> "open", source |-> exchange[x].browser,
                expires |-> now + ChallengeTtl]]
          /\ Reply(x, [Answer(x, "ok") EXCEPT !.nonce = n])
    BY <1>3 DEF CreateChallenge
  <2>2. /\ Answer(x, "ok") \in Request /\ Answer(x, "ok").token = None
        /\ Answer(x, "ok").phase = "ok" /\ Answer(x, "ok").kind = "nonce"
    BY <1>1, AnswerOK
  <2>3. PICK a : a = [Answer(x, "ok") EXCEPT !.nonce = n]
    OBVIOUS
  <2>4. /\ a \in Request /\ a.token = None /\ a.phase = "ok" /\ a.kind = "nonce"
        /\ a.nonce = n
    BY <2>2, <2>3 DEF Request
  <2>5. PICK r \in {a, NoRequest} : exchange' = [exchange EXCEPT ![x] = r]
    BY <1>1, <2>1, <2>3 DEF Reply
  <2>6. /\ r \in Request /\ r.token = None /\ r.phase \in {"none", "ok"}
        /\ r.phase = "ok" => r.kind = "nonce" /\ r.nonce \in Nonce
        /\ r.phase # "none" => r.kind # "none"
        /\ r.kind = "nonce" /\ r.phase = "ok" => r.nonce \in Nonce
    BY <2>4, <2>5, NothingAsked
  <2>7. [status |-> "open", source |-> exchange[x].browser,
         expires |-> now + ChallengeTtl] \in Challenge
    BY <1>1, AuthAssumption DEF Challenge, Request
  <2>8. challenge' \in [Nonce -> Challenge]
    BY <1>1, <2>1, <2>7
  <2>9. \A m \in Nonce : challenge[m].status = "consumed" => challenge'[m].status = "consumed"
    BY <1>1, <2>1
  <2> QED
    BY <1>1, <1>2, <2>5, <2>6, <2>8, <2>9, TableKeeps DEF Used
<1>4. CASE ~ exchange[x].free
  <2>1. Refuse(x) /\ UNCHANGED <<now, tables, signed, browsers>>
    BY <1>4 DEF CreateChallenge, tables, browsers
  <2> QED
    BY <1>1, <2>1, FailedKeeps
<1> QED
  BY <1>3, <1>4

LEMMA DeleteKeeps ==
  ASSUME AuthInv, NEW x \in Exchange, DeleteSession(x)
  PROVE  AuthInv'
<1>1. /\ AuthTypeOK /\ exchange \in [Exchange -> Request] /\ session \in [Token -> Session]
      /\ challenge \in [Nonce -> Challenge]
      /\ exchange[x].kind = "logout" /\ Carried(exchange[x])
  BY DEF DeleteSession, At, AuthInv, AuthTypeOK, Requests
<1>2. UNCHANGED <<now, challenge, signed, page, cookie>>
  BY DEF DeleteSession, browsers
<1>3. PICK t : t = exchange[x].token
  OBVIOUS
<1>4. session' = IF t = None THEN session ELSE [session EXCEPT ![t].status = "deleted"]
  BY <1>3 DEF DeleteSession
<1>5. t # None => t \in Token /\ session[t].status # "unused"
  BY <1>1, <1>3 DEF Carried, Used, Request
<1>6. session' \in [Token -> Session]
  BY <1>1, <1>4, <1>5 DEF Session
<1>7. \A u \in Token : /\ session'[u].nonce = session[u].nonce
                       /\ session'[u].address = session[u].address
                       /\ Used(u)' <=> Used(u)
  BY <1>1, <1>4, <1>5 DEF Session, Used
<1>8. /\ Answer(x, "ok") \in Request /\ Answer(x, "ok").token = None
      /\ Answer(x, "ok").phase = "ok" /\ Answer(x, "ok").kind = "logout"
  BY <1>1, AnswerOK
<1>9. PICK r \in {Answer(x, "ok"), NoRequest} : exchange' = [exchange EXCEPT ![x] = r]
  BY <1>1 DEF DeleteSession, Reply
<1>10. /\ r \in Request /\ r.token = None /\ r.phase \in {"none", "ok"} /\ r.kind # "nonce"
       /\ r.phase # "none" => r.kind # "none"
  BY <1>8, <1>9, NothingAsked
<1> QED
  BY <1>1, <1>2, <1>6, <1>7, <1>9, <1>10, TableKeeps


LEMMA ReloadKeeps ==
  ASSUME AuthInv, NEW b \in Browser, Reload(b)
  PROVE  AuthInv'
<1>1. /\ exchange \in [Exchange -> Request] /\ page \in [Browser -> Page]
      /\ cookie \in [Browser -> Token \cup {None}]
      /\ page' = [page EXCEPT ![b] = NewPage]
      /\ UNCHANGED <<now, challenge, session, signed, cookie>>
  BY DEF Reload, tables, AuthInv, AuthTypeOK
<1>2. ASSUME NEW y \in Exchange
      PROVE  /\ exchange'[y] \in Request /\ Carried(exchange[y])'
             /\ \A n \in Nonce : Holds(exchange[y], n)' => Holds(exchange[y], n)
  <2>1. PICK q : q = exchange[y]
    OBVIOUS
  <2>2. q \in Request /\ Carried(q)
    BY <1>1, <2>1 DEF AuthInv, Requests
  <2>3. exchange'[y] \in {q, NoRequest, [q EXCEPT !.awaited = FALSE]}
    BY <2>1 DEF Reload, Unawaited
  <2>4. CASE exchange'[y] = q
    BY <1>1, <2>1, <2>2, <2>4 DEF Carried, Holds, Used
  <2>5. CASE exchange'[y] = NoRequest
    <3>1. exchange'[y] \in Request
      BY <2>5, NothingAsked
    <3>2. Carried(exchange[y])' /\ \A n \in Nonce : ~ Holds(exchange[y], n)'
      BY <2>5, NothingAsked DEF Carried, Holds
    <3> QED
      BY <3>1, <3>2
  <2>6. CASE exchange'[y] = [q EXCEPT !.awaited = FALSE]
    <3>1. PICK r : r = [q EXCEPT !.awaited = FALSE]
      OBVIOUS
    <3>2. /\ r \in Request /\ r.kind = q.kind /\ r.phase = q.phase /\ r.token = q.token
          /\ r.nonce = q.nonce /\ r.payload = q.payload /\ r.address = q.address
      BY <2>2, <3>1 DEF Request
    <3>3. exchange'[y] = r
      BY <2>6, <3>1
    <3> QED
      BY <1>1, <2>1, <2>2, <3>2, <3>3 DEF Carried, Holds, Used
  <2> QED
    BY <2>3, <2>4, <2>5, <2>6
<1>3. exchange' \in [Exchange -> Request]
  <2>1. exchange' = [x \in Exchange |-> exchange'[x]]
    BY DEF Reload
  <2> QED
    BY <1>2, <2>1
<1>4. AuthTypeOK'
  BY <1>1, <1>3, NewPageOK DEF AuthInv, AuthTypeOK
<1>5. Pages'
  BY <1>1 DEF AuthInv, Pages, Used, NewPage
<1> QED
  BY <1>1, <1>2, <1>4, <1>5, OthersKeep DEF Requests, Used

LEMMA RejectedKeeps ==
  ASSUME AuthInv, NEW b \in Browser, Rejected(b)
  PROVE  AuthInv'
<1>1. /\ page \in [Browser -> Page]
      /\ page' = [page EXCEPT ![b].attempt = "idle", ![b].nonce = None]
      /\ UNCHANGED <<now, challenge, session, signed, cookie, exchange>>
  BY DEF Rejected, tables, AuthInv, AuthTypeOK
<1>2. page' \in [Browser -> Page]
  BY <1>1 DEF Page
<1>3. AuthTypeOK'
  BY <1>1, <1>2 DEF AuthInv, AuthTypeOK
<1>4. Pages'
  BY <1>1 DEF AuthInv, Pages, Used
<1>5. Requests' /\ \A y \in Exchange, n \in Nonce : Holds(exchange[y], n)' => Holds(exchange[y], n)
  BY <1>1 DEF AuthInv, Requests, Carried, Used, Holds
<1> QED
  BY <1>1, <1>3, <1>4, <1>5, OthersKeep DEF Used

LEMMA TickKeeps ==
  ASSUME AuthInv, AuthTick
  PROVE  AuthInv'
<1>1. /\ UNCHANGED <<challenge, session, signed, page, cookie, exchange>>
      /\ now' = now + 1 /\ now \in Nat
  BY DEF AuthTick, tables, browsers, AuthInv, AuthTypeOK
<1>2. AuthTypeOK'
  BY <1>1 DEF AuthInv, AuthTypeOK
<1>3. Pages' /\ Requests' /\ Single' /\ Sessions'
  BY <1>1 DEF AuthInv, Pages, Requests, Carried, Single, Sessions, Used, Holds
<1> QED
  BY <1>2, <1>3 DEF AuthInv

\* The challenge of x is open until x takes it: no request holds it and no session
\* was created for it.
LEMMA TakeKeeps ==
  ASSUME AuthInv, NEW x \in Exchange, TakeChallenge(x)
  PROVE  AuthInv'
<1>1. /\ exchange \in [Exchange -> Request] /\ challenge \in [Nonce -> Challenge]
      /\ exchange[x].kind = "verify" /\ exchange[x].phase = "received" /\ Carried(exchange[x])
      /\ UNCHANGED <<now, session, signed, page, cookie>>
  BY DEF TakeChallenge, At, AuthInv, AuthTypeOK, Requests, browsers
<1>2. PICK n \in Nonce : n = exchange[x].nonce
  BY <1>1 DEF Carried
<1>3. CASE Takeable(n)
  <2>1. /\ challenge' = [challenge EXCEPT ![n].status = "consumed"]
        /\ challenge[n].status = "open"
    BY <1>2, <1>3 DEF TakeChallenge, Takeable
  <2>2. PICK r : r = [exchange[x] EXCEPT !.phase = "taken"]
    OBVIOUS
  <2>3. exchange' = [exchange EXCEPT ![x] = r]
    BY <1>1, <1>2, <1>3, <2>2 DEF TakeChallenge
  <2>4. /\ r \in Request /\ r.kind = "verify" /\ r.phase = "taken" /\ r.nonce = n
        /\ r.token = exchange[x].token /\ r.payload = exchange[x].payload
    BY <1>1, <1>2, <2>2 DEF Request
  <2>5. \A y \in Exchange : exchange'[y] = IF y = x THEN r ELSE exchange[y]
    BY <1>1, <2>3
  <2>6. /\ challenge' \in [Nonce -> Challenge]
        /\ challenge'[n].status = "consumed"
        /\ \A m \in Nonce : m # n => challenge'[m] = challenge[m]
    BY <1>1, <2>1 DEF Challenge
  <2>7. AuthTypeOK'
    BY <1>1, <2>3, <2>4, <2>6 DEF AuthInv, AuthTypeOK
  <2>8. Requests'
    <3> SUFFICES ASSUME NEW y \in Exchange PROVE Carried(exchange[y])'
      BY DEF Requests
    <3>1. Carried(exchange[y])
      BY DEF AuthInv, Requests
    <3> QED
      BY <1>1, <2>4, <2>5, <3>1 DEF Carried, Used
  <2>9. Pages'
    BY <1>1 DEF AuthInv, Pages, Used
  <2>10. /\ \A y \in Exchange : ~ Holds(exchange[y], n)
         /\ \A t \in Token : Used(t) => session[t].nonce # n
    BY <2>1 DEF AuthInv, Single, Sessions
  <2>11. Single'
    <3> SUFFICES ASSUME NEW y \in Exchange, NEW m \in Nonce, Holds(exchange[y], m)'
                 PROVE  /\ challenge'[m].status = "consumed"
                        /\ \A z \in Exchange : Holds(exchange[z], m)' => z = y
                        /\ \A t \in Token : Used(t)' => session'[t].nonce # m
      BY DEF Single
    <3>1. CASE m = n
      <4>1. y = x
        BY <2>5, <2>10, <3>1 DEF Holds
      <4> QED
        BY <1>1, <2>5, <2>6, <2>10, <3>1, <4>1 DEF Holds, Used
    <3>2. CASE m # n
      <4>1. y # x /\ Holds(exchange[y], m)
        BY <2>4, <2>5, <3>2 DEF Holds
      <4>2. /\ challenge[m].status = "consumed"
            /\ \A z \in Exchange : Holds(exchange[z], m) => z = y
            /\ \A t \in Token : Used(t) => session[t].nonce # m
        BY <4>1 DEF AuthInv, Single
      <4>3. \A z \in Exchange : Holds(exchange[z], m)' => Holds(exchange[z], m)
        BY <2>4, <2>5, <3>2 DEF Holds
      <4> QED
        BY <1>1, <2>6, <3>2, <4>2, <4>3 DEF Used
    <3> QED
      BY <3>1, <3>2
  <2>12. Sessions'
    BY <1>1, <2>6 DEF AuthInv, Sessions, Used
  <2> QED
    BY <2>7, <2>8, <2>9, <2>11, <2>12 DEF AuthInv
<1>4. CASE ~ Takeable(n)
  <2>1. Refuse(x) /\ UNCHANGED <<now, tables, signed, browsers>>
    BY <1>2, <1>4 DEF TakeChallenge, tables, browsers
  <2> QED
    BY <1>1, <2>1, FailedKeeps
<1> QED
  BY <1>3, <1>4


\* The session takes over the challenge that its request has held alone.
LEMMA CreateSessionKeeps ==
  ASSUME AuthInv, NEW x \in Exchange, CreateSession(x)
  PROVE  AuthInv'
<1>1. PICK q : q = exchange[x]
  OBVIOUS
<1>2. /\ AuthTypeOK /\ exchange \in [Exchange -> Request] /\ session \in [Token -> Session]
      /\ now \in Nat /\ cookie \in [Browser -> Token \cup {None}]
      /\ q \in Request /\ q.kind = "verify" /\ q.phase = "verified" /\ Carried(q)
      /\ UNCHANGED <<now, challenge, signed, page, cookie>>
  BY <1>1 DEF CreateSession, At, AuthInv, AuthTypeOK, Requests, browsers
<1>3. PICK t \in Token :
        /\ session[t].status = "unused"
        /\ session' = [session EXCEPT ![t] =
             [status |-> "live", address |-> q.address, expires |-> now + SessionTtl,
              nonce |-> q.nonce, browser |-> q.browser]]
        /\ Reply(x, [Answer(x, "ok") EXCEPT !.token = t, !.address = q.address])
  BY <1>1 DEF CreateSession
<1>4. PICK s : s = [status |-> "live", address |-> q.address, expires |-> now + SessionTtl,
                    nonce |-> q.nonce, browser |-> q.browser]
  OBVIOUS
<1>5. /\ s \in Session /\ s.status # "unused" /\ s.address = q.address /\ s.nonce = q.nonce
      /\ session' \in [Token -> Session]
      /\ \A u \in Token : session'[u] = IF u = t THEN s ELSE session[u]
  <2>1. now + SessionTtl \in Nat
    BY <1>2, AuthAssumption
  <2>2. s \in Session
    BY <1>2, <1>4, <2>1 DEF Session, Request
  <2>3. s.status # "unused" /\ s.address = q.address /\ s.nonce = q.nonce
    BY <1>4
  <2>4. session' = [session EXCEPT ![t] = s]
    BY <1>3, <1>4
  <2> QED
    BY <1>2, <2>2, <2>3, <2>4
<1>6. PICK a : a = [Answer(x, "ok") EXCEPT !.token = t, !.address = q.address]
  OBVIOUS
<1>7. /\ a \in Request /\ a.token = t /\ a.phase = "ok" /\ a.kind = "verify"
  <2>1. /\ Answer(x, "ok") \in Request /\ Answer(x, "ok").phase = "ok"
        /\ Answer(x, "ok").kind = "verify"
    BY <1>1, <1>2, AnswerOK
  <2> QED
    BY <1>2, <1>6, <2>1 DEF Request
<1>8. PICK r \in {a, NoRequest} : exchange' = [exchange EXCEPT ![x] = r]
  BY <1>2, <1>3, <1>6 DEF Reply
<1>9. /\ r \in Request /\ r.phase \in {"ok", "none"} /\ r.kind \in {"verify", "none"}
      /\ r.token \in {t, None} /\ (r.phase # "none" => r.kind # "none")
  BY <1>7, <1>8, NothingAsked
<1>10. \A y \in Exchange : exchange'[y] = IF y = x THEN r ELSE exchange[y]
  BY <1>2, <1>8
<1>11. Used(t)' /\ ~ Used(t) /\ \A u \in Token : Used(u) => Used(u)'
  BY <1>3, <1>5 DEF Used
<1>12. AuthTypeOK'
  BY <1>2, <1>5, <1>8, <1>9 DEF AuthTypeOK
<1>13. Requests'
  <2> SUFFICES ASSUME NEW y \in Exchange PROVE Carried(exchange[y])'
    BY DEF Requests
  <2>1. Carried(exchange[y]) /\ exchange[y].token \in Token \cup {None}
    BY <1>2 DEF AuthInv, Requests, Request
  <2>2. CASE y = x
    BY <1>9, <1>10, <1>11, <2>2 DEF Carried
  <2>3. CASE y # x
    BY <1>2, <1>10, <1>11, <2>1, <2>3 DEF Carried
  <2> QED
    BY <2>2, <2>3
<1>14. Pages'
  BY <1>2, <1>11 DEF AuthInv, Pages
\* q held its challenge, and nobody else.
<1>15. /\ q.nonce \in Nonce /\ challenge[q.nonce].status = "consumed"
       /\ \A y \in Exchange : Holds(exchange[y], q.nonce) => y = x
       /\ \A u \in Token : Used(u) => session[u].nonce # q.nonce
       /\ [nonce |-> q.nonce, address |-> q.address] \in signed
  <2>1. q.nonce \in Nonce /\ [nonce |-> q.nonce, address |-> q.address] \in signed
    BY <1>2 DEF Carried
  <2>2. Holds(exchange[x], q.nonce)
    BY <1>1, <1>2 DEF Holds
  <2> QED
    BY <2>1, <2>2 DEF AuthInv, Single
<1>16. Single'
  <2> SUFFICES ASSUME NEW y \in Exchange, NEW m \in Nonce, Holds(exchange[y], m)'
               PROVE  /\ challenge'[m].status = "consumed"
                      /\ \A z \in Exchange : Holds(exchange[z], m)' => z = y
                      /\ \A u \in Token : Used(u)' => session'[u].nonce # m
    BY DEF Single
  <2>1. \A z \in Exchange : Holds(exchange[z], m)' => z # x /\ Holds(exchange[z], m)
    BY <1>9, <1>10 DEF Holds
  <2>2. /\ challenge[m].status = "consumed"
        /\ \A z \in Exchange : Holds(exchange[z], m) => z = y
        /\ \A u \in Token : Used(u) => session[u].nonce # m
    BY <2>1 DEF AuthInv, Single
  <2>3. m # q.nonce
    BY <1>15, <2>1
  <2> QED
    BY <1>2, <1>5, <2>1, <2>2, <2>3 DEF Used
<1>17. Sessions'
  <2> SUFFICES ASSUME NEW u \in Token, Used(u)'
               PROVE  /\ session'[u].nonce \in Nonce
                      /\ challenge'[session'[u].nonce].status = "consumed"
                      /\ [nonce |-> session'[u].nonce, address |-> session'[u].address] \in signed'
                      /\ \A v \in Token :
                           Used(v)' /\ session'[v].nonce = session'[u].nonce => v = u
    BY DEF Sessions
  <2>1. CASE u = t
    BY <1>2, <1>5, <1>15, <2>1 DEF Used
  <2>2. CASE u # t
    <3>1. /\ session[u].nonce \in Nonce /\ Used(u)
          /\ challenge[session[u].nonce].status = "consumed"
          /\ [nonce |-> session[u].nonce, address |-> session[u].address] \in signed
          /\ \A v \in Token : Used(v) /\ session[v].nonce = session[u].nonce => v = u
      BY <1>5, <2>2 DEF AuthInv, Sessions, Used
    <3> QED
      BY <1>2, <1>5, <1>15, <2>2, <3>1 DEF Used
  <2> QED
    BY <2>1, <2>2
<1> QED
  BY <1>12, <1>13, <1>14, <1>16, <1>17 DEF AuthInv

\* Every step keeps the invariant.
LEMMA AuthStep == AuthInv /\ [AuthNext]_authVars => AuthInv'
<1> SUFFICES ASSUME AuthInv, [AuthNext]_authVars PROVE AuthInv'
  OBVIOUS
<1>1. ASSUME NEW x \in Exchange, PageStep(x) PROVE AuthInv'
  BY <1>1, AskSessionKeeps, LoginKeeps, SignKeeps, RepeatedKeeps DEF PageStep
<1>2. ASSUME NEW x \in Exchange, HandlerStep(x) PROVE AuthInv'
  <2>1. CASE Failed(x)
    <3>1. exchange[x].kind # "none"
      BY <2>1 DEF Failed, AuthInv, Requests, Carried
    <3> QED
      BY <2>1, <3>1, FailedKeeps DEF Failed
  <2> QED
    BY <1>2, <2>1, CountKeeps, CreateChallengeKeeps, TakeKeeps, VerifyKeeps,
       CreateSessionKeeps, ReadKeeps, DeleteKeeps DEF HandlerStep
<1>3. ASSUME NEW x \in Exchange, Deliver(x) PROVE AuthInv'
  BY <1>3, DeliverKeeps
<1>4. ASSUME NEW b \in Browser, Rejected(b) \/ Reload(b) PROVE AuthInv'
  BY <1>4, RejectedKeeps, ReloadKeeps
<1>5. CASE AuthTick
  BY <1>5, TickKeeps
<1>6. CASE UNCHANGED authVars
  <2>1. UNCHANGED <<now, challenge, session, signed, page, cookie, exchange>>
    BY <1>6 DEF authVars, tables, browsers
  <2> QED
    BY <2>1 DEF AuthInv, AuthTypeOK, Pages, Requests, Carried, Single, Sessions, Used, Holds
<1> QED
  BY <1>1, <1>2, <1>3, <1>4, <1>5, <1>6 DEF AuthNext

\* A signature is good for one session: a challenge is consumed by the one
\* request that takes it (takeWalletAuthChallenge), and whatever else fails, is
\* repeated or runs at the same time, no second session is created for it.
THEOREM SignedOnce == AuthSpec => []OneSessionPerSignature
<1>1. AuthInv => OneSessionPerSignature
  BY DEF AuthInv, Sessions, Used, OneSessionPerSignature
<1> QED
  BY AuthInitially, AuthStep, <1>1, PTL DEF AuthSpec

(***************************************************************************)
(* The limits on outstanding challenges.                                   *)
(***************************************************************************)

\* The requests that have counted free capacity and not yet used it.
Ready == {x \in Exchange : At(x, "nonce", "counted") /\ exchange[x].free}
ReadyOf(b) == {x \in Ready : exchange[x].browser = b}

\* Of the challenges above the limit, each was counted by a request of its own,
\* and so will be those of the requests that are ready.
Limits ==
  /\ Cardinality(Outstanding) + Cardinality(Ready) < Cap + Cardinality(Exchange)
  /\ \A b \in Browser :
       Cardinality(OutstandingOf(b)) + Cardinality(ReadyOf(b)) < SourceCap + Cardinality(Exchange)

LEMMA LimitSets ==
  /\ IsFiniteSet(Nonce) /\ IsFiniteSet(Exchange)
  /\ Cardinality(Exchange) \in Nat /\ Cap \in Nat \ {0} /\ SourceCap \in Nat \ {0}
  /\ \A S \in SUBSET Nonce : IsFiniteSet(S) /\ Cardinality(S) \in Nat
  /\ \A S \in SUBSET Exchange : /\ IsFiniteSet(S) /\ Cardinality(S) \in Nat
                                /\ Cardinality(S) <= Cardinality(Exchange)
<1>1. IsFiniteSet(Nonce)
  BY AuthAssumption, FS_Interval DEF Nonce
<1> QED
  BY <1>1, AuthAssumption, FS_Subset, FS_CardinalityType

\* A set that gains at most one element while another loses one, or that only
\* loses elements, does not raise the sum of the two sizes.
LEMMA SizesKept ==
  ASSUME NEW P, NEW Q, NEW S, NEW T, IsFiniteSet(P), IsFiniteSet(S),
         \/ Q \subseteq P /\ T \subseteq S
         \/ \E p, s : s \in S /\ Q \subseteq P \cup {p} /\ T \subseteq S \ {s}
  PROVE  Cardinality(Q) + Cardinality(T) <= Cardinality(P) + Cardinality(S)
<1>1. Cardinality(P) \in Nat /\ Cardinality(S) \in Nat
  BY FS_CardinalityType
<1>2. CASE Q \subseteq P /\ T \subseteq S
  <2>1. /\ Cardinality(Q) <= Cardinality(P) /\ Cardinality(T) <= Cardinality(S)
        /\ IsFiniteSet(Q) /\ IsFiniteSet(T)
    BY <1>2, FS_Subset
  <2>2. Cardinality(Q) \in Nat /\ Cardinality(T) \in Nat
    BY <2>1, FS_CardinalityType
  <2> QED
    BY <1>1, <2>1, <2>2
<1>3. ASSUME NEW p, NEW s, s \in S, Q \subseteq P \cup {p}, T \subseteq S \ {s}
      PROVE  Cardinality(Q) + Cardinality(T) <= Cardinality(P) + Cardinality(S)
  <2>1. /\ IsFiniteSet(P \cup {p}) /\ Cardinality(P \cup {p}) \in Nat
        /\ Cardinality(P \cup {p}) <= Cardinality(P) + 1
    <3>1. /\ IsFiniteSet(P \cup {p})
          /\ Cardinality(P \cup {p}) = IF p \in P THEN Cardinality(P) ELSE Cardinality(P) + 1
      BY FS_AddElement
    <3> QED
      BY <1>1, <3>1
  <2>2. IsFiniteSet(S \ {s}) /\ Cardinality(S \ {s}) = Cardinality(S) - 1
        /\ Cardinality(S \ {s}) \in Nat
    <3>1. IsFiniteSet(S \ {s}) /\ Cardinality(S \ {s}) = Cardinality(S) - 1
      BY <1>3, FS_RemoveElement
    <3> QED
      BY <3>1, FS_CardinalityType
  <2>3. /\ IsFiniteSet(Q) /\ Cardinality(Q) <= Cardinality(P \cup {p})
        /\ IsFiniteSet(T) /\ Cardinality(T) <= Cardinality(S \ {s})
    BY <1>3, <2>1, <2>2, FS_Subset
  <2>4. Cardinality(Q) \in Nat /\ Cardinality(T) \in Nat
    BY <2>3, FS_CardinalityType
  <2> QED
    BY <1>1, <2>1, <2>2, <2>3, <2>4
<1> QED
  BY <1>2, <1>3

\* A step after which no challenge is outstanding and no request ready that was
\* not before.
Shrinks ==
  /\ \A n \in Nonce : n \in Outstanding' =>
       n \in Outstanding /\ challenge'[n].source = challenge[n].source
  /\ \A y \in Exchange : y \in Ready' =>
       y \in Ready /\ exchange'[y].browser = exchange[y].browser

LEMMA ShrinksKeeps ==
  ASSUME Limits, Shrinks
  PROVE  Limits'
<1>1. /\ Outstanding \subseteq Nonce /\ Outstanding' \subseteq Outstanding
      /\ Ready \subseteq Exchange /\ Ready' \subseteq Ready
  BY DEF Shrinks, Outstanding, Ready
<1>2. Cardinality(Outstanding') + Cardinality(Ready') < Cap + Cardinality(Exchange)
  <2>1. Cardinality(Outstanding') + Cardinality(Ready')
          <= Cardinality(Outstanding) + Cardinality(Ready)
    BY <1>1, LimitSets, SizesKept
  <2>2. Cardinality(Outstanding') \in Nat /\ Cardinality(Ready') \in Nat
    BY <1>1, LimitSets
  <2> QED
    BY <1>1, <2>1, <2>2, LimitSets DEF Limits
<1>3. ASSUME NEW b \in Browser
      PROVE  Cardinality(OutstandingOf(b)') + Cardinality(ReadyOf(b)')
               < SourceCap + Cardinality(Exchange)
  <2>1. /\ OutstandingOf(b) \subseteq Nonce /\ OutstandingOf(b)' \subseteq OutstandingOf(b)
        /\ ReadyOf(b) \subseteq Exchange /\ ReadyOf(b)' \subseteq ReadyOf(b)
    BY <1>1 DEF Shrinks, OutstandingOf, ReadyOf
  <2>2. Cardinality(OutstandingOf(b)') + Cardinality(ReadyOf(b)')
          <= Cardinality(OutstandingOf(b)) + Cardinality(ReadyOf(b))
    BY <2>1, LimitSets, SizesKept
  <2>3. /\ Cardinality(OutstandingOf(b)') \in Nat /\ Cardinality(ReadyOf(b)') \in Nat
        /\ Cardinality(OutstandingOf(b)) \in Nat /\ Cardinality(ReadyOf(b)) \in Nat
    BY <2>1, LimitSets
  <2>4. Cardinality(OutstandingOf(b)) + Cardinality(ReadyOf(b))
          < SourceCap + Cardinality(Exchange)
    BY DEF Limits
  <2> QED
    BY <2>2, <2>3, <2>4, LimitSets
<1> QED
  BY <1>2, <1>3 DEF Limits

\* The request that counts free capacity is at most one more than are ready.
LEMMA CountLimits ==
  ASSUME AuthInv, Limits, NEW x \in Exchange, CountChallenges(x)
  PROVE  Limits'
<1>1. exchange \in [Exchange -> Request]
  BY DEF AuthInv, AuthTypeOK
<1>2. /\ Outstanding' = Outstanding /\ Ready' \subseteq Exchange
      /\ \A b : OutstandingOf(b)' = OutstandingOf(b)
  BY DEF CountChallenges, tables, Outstanding, OutstandingOf, Ready
<1>3. \A y \in Exchange : y # x => exchange'[y] = exchange[y]
  BY <1>1 DEF CountChallenges
<1>4. exchange'[x].browser = exchange[x].browser /\ exchange'[x].free = Free(exchange[x].browser)
  BY <1>1 DEF CountChallenges, Request
<1>5. CASE ~ Free(exchange[x].browser)
  <2>1. x \notin Ready'
    BY <1>4, <1>5 DEF Ready
  <2>2. Shrinks
    BY <1>2, <1>3, <2>1 DEF Shrinks, Ready, At, CountChallenges, tables, Outstanding
  <2> QED
    BY <2>2, ShrinksKeeps
<1>6. CASE Free(exchange[x].browser)
  <2>1. Cardinality(Outstanding) < Cap /\ Cardinality(OutstandingOf(exchange[x].browser)) < SourceCap
    BY <1>6 DEF Free
  <2>2. Cardinality(Ready') <= Cardinality(Exchange) /\ Cardinality(Ready') \in Nat
    BY <1>2, LimitSets
  <2>3. Cardinality(Outstanding) \in Nat
    BY LimitSets DEF Outstanding
  <2>4. Cardinality(Outstanding') + Cardinality(Ready') < Cap + Cardinality(Exchange)
    BY <1>2, <2>1, <2>2, <2>3, LimitSets
  <2>5. ASSUME NEW b \in Browser
        PROVE  Cardinality(OutstandingOf(b)') + Cardinality(ReadyOf(b)')
                 < SourceCap + Cardinality(Exchange)
    <3>1. /\ OutstandingOf(b) \subseteq Nonce /\ ReadyOf(b) \subseteq Exchange
          /\ ReadyOf(b)' \subseteq Exchange
      BY <1>2 DEF OutstandingOf, Outstanding, ReadyOf, Ready
    <3>2. /\ Cardinality(OutstandingOf(b)) \in Nat /\ Cardinality(ReadyOf(b)) \in Nat
          /\ Cardinality(ReadyOf(b)') \in Nat
          /\ Cardinality(ReadyOf(b)') <= Cardinality(Exchange)
      BY <3>1, LimitSets
    <3>3. CASE b = exchange[x].browser
      BY <1>2, <2>1, <3>2, <3>3, LimitSets
    <3>4. CASE b # exchange[x].browser
      <4>1. ReadyOf(b)' \subseteq ReadyOf(b)
        BY <1>3, <1>4, <3>4 DEF ReadyOf, Ready, At
      <4>2. Cardinality(OutstandingOf(b)') + Cardinality(ReadyOf(b)')
              <= Cardinality(OutstandingOf(b)) + Cardinality(ReadyOf(b))
        BY <1>2, <3>1, <4>1, LimitSets, SizesKept
      <4>3. Cardinality(OutstandingOf(b)) + Cardinality(ReadyOf(b))
              < SourceCap + Cardinality(Exchange)
        BY DEF Limits
      <4> QED
        BY <1>2, <3>2, <4>2, <4>3, LimitSets
    <3> QED
      BY <3>3, <3>4
  <2> QED
    BY <2>4, <2>5 DEF Limits
<1> QED
  BY <1>5, <1>6

\* A request that was ready leaves a challenge behind.
LEMMA CreateLimits ==
  ASSUME AuthInv, Limits, NEW x \in Exchange, CreateChallenge(x)
  PROVE  Limits'
<1>1. /\ exchange \in [Exchange -> Request] /\ challenge \in [Nonce -> Challenge]
      /\ now' = now /\ At(x, "nonce", "counted")
  BY DEF CreateChallenge, AuthInv, AuthTypeOK
<1>2. PICK r : exchange' = [exchange EXCEPT ![x] = r] /\ r.phase # "counted"
  <2>1. PICK answer : /\ Reply(x, answer)
                      /\ answer.phase \in {"ok", "failed"}
    <3>1. \A n : [Answer(x, "ok") EXCEPT !.nonce = n].phase = "ok"
      BY DEF Answer, NoRequest
    <3>2. Answer(x, "failed").phase = "failed"
      BY DEF Answer, NoRequest
    <3> QED
      BY <3>1, <3>2 DEF CreateChallenge, Refuse
  <2>2. \/ exchange' = [exchange EXCEPT ![x] = answer]
        \/ exchange' = [exchange EXCEPT ![x] = NoRequest]
    BY <1>1, <2>1 DEF Reply
  <2>3. NoRequest.phase # "counted"
    BY DEF NoRequest
  <2> QED
    BY <2>1, <2>2, <2>3
<1>3. /\ x \notin Ready' /\ Ready' \subseteq Ready
      /\ \A y \in Exchange : y # x => exchange'[y] = exchange[y]
  BY <1>1, <1>2 DEF Ready, At
<1>4. \A b : ReadyOf(b)' \subseteq ReadyOf(b) \ {x}
  BY <1>3 DEF ReadyOf, Ready
<1>5. CASE ~ exchange[x].free
  <2>1. UNCHANGED challenge
    BY <1>5 DEF CreateChallenge
  <2>2. Shrinks
    BY <1>1, <1>3, <2>1 DEF Shrinks, Outstanding, Ready
  <2> QED
    BY <2>2, ShrinksKeeps
<1>6. CASE exchange[x].free
  <2>1. PICK n \in Nonce :
          challenge' = [challenge EXCEPT ![n] =
            [status |-> "open", source |-> exchange[x].browser, expires |-> now + ChallengeTtl]]
    BY <1>6 DEF CreateChallenge
  <2>2. /\ challenge'[n].source = exchange[x].browser
        /\ \A m \in Nonce : m # n => challenge'[m] = challenge[m]
    BY <1>1, <2>1
  <2>3. x \in Ready
    BY <1>1, <1>6 DEF Ready
  <2>4. Outstanding' \subseteq Outstanding \cup {n} /\ Outstanding \subseteq Nonce
        /\ Ready \subseteq Exchange /\ Ready' \subseteq Ready \ {x}
    BY <1>1, <1>3, <2>2 DEF Outstanding, Ready
  <2>5. Cardinality(Outstanding') + Cardinality(Ready') < Cap + Cardinality(Exchange)
    <3>1. Cardinality(Outstanding') + Cardinality(Ready')
            <= Cardinality(Outstanding) + Cardinality(Ready)
      BY <2>3, <2>4, LimitSets, SizesKept
    <3>2. /\ Cardinality(Outstanding') \in Nat /\ Cardinality(Ready') \in Nat
          /\ Cardinality(Outstanding) \in Nat /\ Cardinality(Ready) \in Nat
      BY <2>4, LimitSets
    <3> QED
      BY <3>1, <3>2, LimitSets DEF Limits
  <2>6. ASSUME NEW b \in Browser
        PROVE  Cardinality(OutstandingOf(b)') + Cardinality(ReadyOf(b)')
                 < SourceCap + Cardinality(Exchange)
    <3>1. /\ OutstandingOf(b) \subseteq Nonce /\ OutstandingOf(b)' \subseteq Nonce
          /\ ReadyOf(b) \subseteq Exchange /\ ReadyOf(b)' \subseteq Exchange
      BY <2>4 DEF OutstandingOf, Outstanding, ReadyOf, Ready
    <3>2. Cardinality(OutstandingOf(b)') + Cardinality(ReadyOf(b)')
            <= Cardinality(OutstandingOf(b)) + Cardinality(ReadyOf(b))
      <4>1. CASE b = exchange[x].browser
        <5>1. OutstandingOf(b)' \subseteq OutstandingOf(b) \cup {n}
          BY <2>2, <2>4 DEF OutstandingOf, Outstanding
        <5>2. x \in ReadyOf(b)
          BY <2>3, <4>1 DEF ReadyOf
        <5> QED
          BY <1>4, <3>1, <5>1, <5>2, LimitSets, SizesKept
      <4>2. CASE b # exchange[x].browser
        <5>1. OutstandingOf(b)' \subseteq OutstandingOf(b)
          BY <2>2, <2>4, <4>2 DEF OutstandingOf, Outstanding
        <5> QED
          BY <1>4, <3>1, <5>1, LimitSets, SizesKept
      <4> QED
        BY <4>1, <4>2
    <3>3. /\ Cardinality(OutstandingOf(b)) \in Nat /\ Cardinality(ReadyOf(b)) \in Nat
          /\ Cardinality(OutstandingOf(b)') \in Nat /\ Cardinality(ReadyOf(b)') \in Nat
      BY <3>1, LimitSets
    <3>4. Cardinality(OutstandingOf(b)) + Cardinality(ReadyOf(b))
            < SourceCap + Cardinality(Exchange)
      BY DEF Limits
    <3> QED
      BY <3>2, <3>3, <3>4, LimitSets
  <2> QED
    BY <2>5, <2>6 DEF Limits
<1> QED
  BY <1>5, <1>6

\* Every other step lets challenges expire or be taken, and makes no request ready.
LEMMA OtherShrinks ==
  ASSUME AuthInv, NEW x \in Exchange, NEW r, r.phase # "counted",
         exchange' = [exchange EXCEPT ![x] = r], now' = now,
         \/ UNCHANGED challenge
         \/ \E n \in Nonce : challenge' = [challenge EXCEPT ![n].status = "consumed"]
  PROVE  Shrinks
<1>1. exchange \in [Exchange -> Request] /\ challenge \in [Nonce -> Challenge]
  BY DEF AuthInv, AuthTypeOK
<1>2. \A n \in Nonce : /\ challenge'[n].source = challenge[n].source
                       /\ challenge'[n].expires = challenge[n].expires
                       /\ challenge'[n].status = "open" => challenge[n].status = "open"
  BY <1>1 DEF Challenge
<1>3. \A n \in Nonce : n \in Outstanding' => n \in Outstanding
  BY <1>2 DEF Outstanding
<1>4. \A y \in Exchange : y \in Ready' => y # x /\ exchange'[y] = exchange[y]
  BY <1>1 DEF Ready, At
<1> QED
  BY <1>2, <1>3, <1>4 DEF Shrinks, Ready, At

LEMMA ReplyShrinks ==
  ASSUME AuthInv, NEW x \in Exchange, NEW answer, answer.phase # "counted", Reply(x, answer),
         now' = now, UNCHANGED challenge
  PROVE  Shrinks
<1>1. PICK r \in {answer, NoRequest} : exchange' = [exchange EXCEPT ![x] = r]
  BY DEF Reply, AuthInv, AuthTypeOK
<1>2. r.phase # "counted"
  BY DEF NoRequest
<1> QED
  BY <1>1, <1>2, OtherShrinks

\* The phases of what is sent and answered.
LEMMA PhasesSent ==
  ASSUME NEW x, NEW b, NEW kind, NEW phase
  PROVE  /\ Sent(b, kind).phase = "received" /\ SentCookie(b, kind).phase = "received"
         /\ \A n, p : [Sent(b, kind) EXCEPT !.nonce = n, !.payload = p].phase = "received"
         /\ Answer(x, phase).phase = phase
         /\ \A a : [Answer(x, phase) EXCEPT !.address = a].phase = phase
         /\ \A t, a : [Answer(x, phase) EXCEPT !.token = t, !.address = a].phase = phase
BY DEF Sent, SentCookie, Answer, NoRequest

LEMMA StepLimits ==
  ASSUME AuthInv, Limits, [AuthNext]_authVars
  PROVE  Limits'
<1>1. ASSUME NEW x \in Exchange, PageStep(x)
      PROVE  Shrinks
  <2>1. PICK r : exchange' = [exchange EXCEPT ![x] = r] /\ r.phase = "received"
    <3>1. ASSUME NEW b \in Browser, AskSession(x, b) \/ Login(x, b) \/ Logout(x, b)
          PROVE  \E r : exchange' = [exchange EXCEPT ![x] = r] /\ r.phase = "received"
      <4>1. PICK r \in {SentCookie(b, "session"), Sent(b, "nonce"), SentCookie(b, "logout")} :
              exchange' = [exchange EXCEPT ![x] = r]
        BY <3>1 DEF AskSession, Login, Logout, Send
      <4>2. r.phase = "received"
        BY <4>1, PhasesSent
      <4> QED
        BY <4>1, <4>2
    <3>2. ASSUME NEW b \in Browser, NEW payload \in Payload, Sign(x, b, payload)
          PROVE  \E r : exchange' = [exchange EXCEPT ![x] = r] /\ r.phase = "received"
      <4>1. PICK r : /\ r = [Sent(b, "verify") EXCEPT !.nonce = page[b].nonce,
                                                      !.payload = payload]
                     /\ exchange' = [exchange EXCEPT ![x] = r]
        BY <3>2 DEF Sign, Send
      <4>2. r.phase = "received"
        BY <4>1 DEF Sent, NoRequest
      <4> QED
        BY <4>1, <4>2
    <3>3. ASSUME NEW y \in Exchange, Repeated(x, y)
          PROVE  \E r : exchange' = [exchange EXCEPT ![x] = r] /\ r.phase = "received"
      <4>1. exchange[y] \in Request
        BY DEF AuthInv, AuthTypeOK
      <4>2. [exchange[y] EXCEPT !.phase = "received", !.awaited = FALSE].phase = "received"
        BY <4>1 DEF Request
      <4> QED
        BY <3>3, <4>2 DEF Repeated, Send
    <3> QED
      BY <1>1, <3>1, <3>2, <3>3 DEF PageStep
  <2>2. UNCHANGED challenge /\ now' = now
    BY <1>1 DEF PageStep, AskSession, Login, Logout, Sign, Repeated, tables
  <2> QED
    BY <2>1, <2>2, OtherShrinks
<1>2. ASSUME NEW x \in Exchange,
             \/ TakeChallenge(x) \/ VerifyPayload(x) \/ CreateSession(x)
             \/ ReadSession(x) \/ DeleteSession(x) \/ Failed(x)
      PROVE  Shrinks
  <2>1. exchange \in [Exchange -> Request] /\ exchange[x] \in Request
    BY DEF AuthInv, AuthTypeOK
  <2>2. CASE Refuse(x) /\ UNCHANGED challenge /\ now' = now
    BY <2>2, PhasesSent, ReplyShrinks DEF Refuse
  <2>3. CASE TakeChallenge(x) /\ Takeable(exchange[x].nonce)
    <3>1. PICK r : r = [exchange[x] EXCEPT !.phase = "taken"]
      OBVIOUS
    <3>2. r.phase = "taken" /\ exchange' = [exchange EXCEPT ![x] = r]
      BY <2>1, <2>3, <3>1 DEF TakeChallenge, Request
    <3>3. exchange[x].nonce \in Nonce
      BY <2>3 DEF TakeChallenge, At, AuthInv, Requests, Carried
    <3>4. /\ challenge' = [challenge EXCEPT ![exchange[x].nonce].status = "consumed"]
          /\ now' = now
      BY <2>3 DEF TakeChallenge
    <3> QED
      BY <3>2, <3>3, <3>4, OtherShrinks
  <2>4. CASE VerifyPayload(x) /\ exchange[x].payload.nonce = exchange[x].nonce
    <3>1. PICK r : r = [exchange[x] EXCEPT !.phase = "verified", !.payload = NoPayload,
                                           !.address = exchange[x].payload.address]
      OBVIOUS
    <3>2. r.phase = "verified" /\ exchange' = [exchange EXCEPT ![x] = r]
      BY <2>1, <2>4, <3>1 DEF VerifyPayload, Request
    <3>3. UNCHANGED challenge /\ now' = now
      BY <2>4 DEF VerifyPayload, tables
    <3> QED
      BY <3>2, <3>3, OtherShrinks
  <2>5. CASE CreateSession(x)
    <3>1. UNCHANGED challenge /\ now' = now
      BY <2>5 DEF CreateSession
    <3>2. PICK t \in Token : Reply(x, [Answer(x, "ok") EXCEPT !.token = t,
                                                           !.address = exchange[x].address])
      BY <2>5 DEF CreateSession
    <3>3. PICK answer : answer = [Answer(x, "ok") EXCEPT !.token = t,
                                                         !.address = exchange[x].address]
      OBVIOUS
    <3>4. answer.phase = "ok" /\ Reply(x, answer)
      BY <3>2, <3>3, PhasesSent
    <3> QED
      BY <3>1, <3>4, ReplyShrinks
  <2>6. CASE ReadSession(x)
    <3>1. UNCHANGED challenge /\ now' = now
      BY <2>6 DEF ReadSession, tables
    <3>2. PICK answer :
            /\ Reply(x, answer)
            /\ \/ \E a : answer = [Answer(x, "ok") EXCEPT !.address = a]
               \/ answer = Answer(x, "expired")
      BY <2>6 DEF ReadSession
    <3>3. answer.phase \in {"ok", "expired"}
      BY <3>2 DEF Answer, NoRequest
    <3> QED
      BY <3>1, <3>2, <3>3, ReplyShrinks
  <2>7. CASE DeleteSession(x)
    <3>1. UNCHANGED challenge /\ now' = now /\ Reply(x, Answer(x, "ok"))
      BY <2>7 DEF DeleteSession
    <3> QED
      BY <3>1, PhasesSent, ReplyShrinks
  <2> QED
    BY <1>2, <2>2, <2>3, <2>4, <2>5, <2>6, <2>7 DEF TakeChallenge, VerifyPayload, Failed, tables
<1>3. ASSUME NEW x \in Exchange, Deliver(x)
      PROVE  Shrinks
  <2>1. NoRequest.phase # "counted"
    BY DEF NoRequest
  <2> QED
    BY <1>3, <2>1, OtherShrinks DEF Deliver, tables
<1>4. ASSUME NEW b \in Browser, Rejected(b) \/ Reload(b)
      PROVE  Shrinks
  <2>1. CASE Rejected(b)
    BY <2>1 DEF Rejected, tables, Shrinks, Outstanding, Ready, At
  <2>2. CASE Reload(b)
    <3>1. UNCHANGED challenge /\ now' = now
      BY <2>2 DEF Reload, tables
    <3>2. ASSUME NEW y \in Exchange, y \in Ready'
          PROVE  y \in Ready /\ exchange'[y].browser = exchange[y].browser
      <4>1. exchange[y] \in Request
        BY DEF AuthInv, AuthTypeOK
      <4>2. exchange'[y] \in {exchange[y], NoRequest, [exchange[y] EXCEPT !.awaited = FALSE]}
        BY <2>2 DEF Reload, Unawaited
      <4> QED
        BY <3>2, <4>1, <4>2 DEF Ready, At, Request, NoRequest
    <3> QED
      BY <3>1, <3>2 DEF Shrinks, Outstanding
  <2> QED
    BY <1>4, <2>1, <2>2
<1>5. CASE AuthTick
  <2>1. UNCHANGED <<challenge, exchange>> /\ now' = now + 1
    BY <1>5 DEF AuthTick, tables
  <2>2. now \in Nat /\ challenge \in [Nonce -> Challenge]
    BY DEF AuthInv, AuthTypeOK
  <2> QED
    BY <2>1, <2>2, ShrinksKeeps DEF Shrinks, Outstanding, Ready, At, Challenge
<1>6. CASE UNCHANGED authVars
  BY <1>6, ShrinksKeeps DEF authVars, tables, Shrinks, Outstanding, Ready, At
<1> QED
  BY <1>1, <1>2, <1>3, <1>4, <1>5, <1>6, CountLimits, CreateLimits, ShrinksKeeps
  DEF AuthNext, HandlerStep

\* However many requests count at the same time, the limits on outstanding
\* challenges are exceeded by less than one challenge for each of them.
THEOREM LimitsHold == AuthSpec => []OutstandingBounded
<1>1. AuthInit => Limits
  <2> SUFFICES ASSUME AuthInit PROVE Limits
    OBVIOUS
  <2>1. Outstanding = {} /\ Ready = {} /\ \A b : OutstandingOf(b) = {} /\ ReadyOf(b) = {}
    BY DEF AuthInit, Outstanding, Ready, OutstandingOf, ReadyOf, At, NoRequest
  <2> QED
    BY <2>1, LimitSets, FS_EmptySet DEF Limits
<1>2. Limits => OutstandingBounded
  <2> SUFFICES ASSUME Limits PROVE OutstandingBounded
    OBVIOUS
  <2>1. /\ Cardinality(Ready) \in Nat /\ Cardinality(Outstanding) \in Nat
        /\ \A b : Cardinality(ReadyOf(b)) \in Nat /\ Cardinality(OutstandingOf(b)) \in Nat
    BY LimitSets DEF Ready, ReadyOf, Outstanding, OutstandingOf
  <2> QED
    BY <2>1, LimitSets DEF Limits, OutstandingBounded
<1> QED
  BY <1>1, <1>2, AuthInitially, AuthStep, StepLimits, PTL DEF AuthSpec

(***************************************************************************)
(* What a page shows is of a session of its own.                           *)
(***************************************************************************)

\* Browser b may show address a.
Owns(b, a) ==
  /\ \E t \in Token : Used(t) /\ session[t].browser = b /\ session[t].address = a
  /\ cookie[b] # None => session[cookie[b]].address = a

\* An answer is awaited; only a page that has been restored awaits anything but a
\* session; and the session a page is being restored from is that of its cookie.
Linked(r) ==
  /\ r.phase \in {"ok", "expired", "failed"} => r.awaited
  /\ r.awaited => r.browser \in Browser
  /\ r.awaited /\ r.kind # "session" => page[r.browser].restored
  /\ r.awaited /\ r.kind = "session" /\ ~ page[r.browser].restored =>
       /\ r.phase = "received" => r.token = cookie[r.browser]
       /\ r.phase = "ok" => Owns(r.browser, r.address)
  /\ r.kind = "verify" /\ r.phase = "ok" =>
       /\ r.token \in Token /\ Used(r.token)
       /\ session[r.token].browser = r.browser /\ session[r.token].address = r.address

PagesLinked ==
  \A b \in Browser :
    /\ cookie[b] # None => session[cookie[b]].browser = b
    /\ page[b].attempt # "idle" \/ page[b].shown # None => page[b].restored
    /\ page[b].shown # None => Owns(b, page[b].shown)

LinkInv == PagesLinked /\ \A x \in Exchange : Linked(exchange[x])

\* No step changes whose a session is.
SessionsStay ==
  \A t \in Token : Used(t) =>
    /\ Used(t)' /\ session'[t].browser = session[t].browser
    /\ session'[t].address = session[t].address

LEMMA OwnsStays ==
  ASSUME AuthInv, SessionsStay, NEW b \in Browser, NEW a, Owns(b, a), cookie'[b] = cookie[b]
  PROVE  Owns(b, a)'
<1>1. cookie[b] # None => Used(cookie[b]) /\ cookie[b] \in Token
  BY DEF AuthInv, Pages, AuthTypeOK
<1> QED
  BY <1>1 DEF Owns, SessionsStay

LEMMA PagesStay ==
  ASSUME AuthInv, PagesLinked, SessionsStay, UNCHANGED <<page, cookie>>
  PROVE  PagesLinked'
<1> SUFFICES ASSUME NEW b \in Browser
             PROVE  /\ cookie[b] # None => session'[cookie[b]].browser = b
                    /\ page[b].attempt # "idle" \/ page[b].shown # None => page[b].restored
                    /\ page[b].shown # None => Owns(b, page[b].shown)'
  BY DEF PagesLinked
<1>1. cookie[b] # None => Used(cookie[b]) /\ cookie[b] \in Token
  BY DEF AuthInv, Pages, AuthTypeOK
<1>2. page[b].shown # None => Owns(b, page[b].shown)'
  <2>1. PICK a : a = page[b].shown
    OBVIOUS
  <2>2. a # None => Owns(b, a)
    BY <2>1 DEF PagesLinked
  <2>3. a # None => Owns(b, a)'
    BY <2>2, OwnsStays
  <2> QED
    BY <2>1, <2>3 DEF Owns
<1> QED
  BY <1>1, <1>2 DEF PagesLinked, SessionsStay

\* A request is still linked when its page is restored, or as it was.
LEMMA LinkStays ==
  ASSUME AuthInv, SessionsStay, NEW r \in Request, Linked(r),
         \/ page'[r.browser].restored
         \/ /\ page'[r.browser].restored = page[r.browser].restored
            /\ cookie'[r.browser] = cookie[r.browser]
         \/ ~ r.awaited
  PROVE  Linked(r)'
<1>1. r.kind = "verify" /\ r.phase = "ok" =>
        /\ r.token \in Token /\ Used(r.token)'
        /\ session'[r.token].browser = r.browser /\ session'[r.token].address = r.address
  BY DEF Linked, SessionsStay
<1>2. r.awaited /\ r.kind # "session" => page'[r.browser].restored
  BY DEF Linked
<1>3. r.awaited /\ r.kind = "session" /\ ~ page'[r.browser].restored =>
        /\ r.phase = "received" => r.token = cookie'[r.browser]
        /\ r.phase = "ok" => Owns(r.browser, r.address)'
  BY OwnsStays DEF Linked
<1> QED
  BY <1>1, <1>2, <1>3 DEF Linked

\* One request becomes another.
LEMMA OneLinked ==
  ASSUME AuthInv, LinkInv, SessionsStay, NEW x \in Exchange, NEW r,
         exchange' = [exchange EXCEPT ![x] = r], Linked(r)', PagesLinked',
         \A y \in Exchange : y # x /\ exchange[y].awaited =>
           \/ page'[exchange[y].browser].restored
           \/ /\ page'[exchange[y].browser].restored = page[exchange[y].browser].restored
              /\ cookie'[exchange[y].browser] = cookie[exchange[y].browser]
  PROVE  LinkInv'
<1> SUFFICES ASSUME NEW y \in Exchange PROVE Linked(exchange[y])'
  BY DEF LinkInv
<1>1. exchange \in [Exchange -> Request]
  BY DEF AuthInv, AuthTypeOK
<1>2. CASE y = x
  <2>1. exchange'[y] = r
    BY <1>1, <1>2
  <2> QED
    BY <2>1 DEF Linked, Owns, Used
<1>3. CASE y # x
  <2>1. PICK q : q = exchange[y]
    OBVIOUS
  <2>2. exchange'[y] = q /\ q \in Request /\ Linked(q)
    BY <1>1, <1>3, <2>1 DEF LinkInv
  <2>3. Linked(q)'
    BY <1>3, <2>1, <2>2, LinkStays
  <2> QED
    BY <2>2, <2>3 DEF Linked, Owns, Used
<1> QED
  BY <1>2, <1>3

LEMMA NothingLinked == Linked(NoRequest)'
BY DEF Linked, NoRequest

\* A handler answers; the pages and cookies stay.
LEMMA ReplyLinks ==
  ASSUME AuthInv, LinkInv, SessionsStay, UNCHANGED <<page, cookie>>,
         NEW x \in Exchange, NEW answer, Reply(x, answer),
         exchange[x].awaited => Linked(answer)'
  PROVE  LinkInv'
<1>1. PICK r : exchange' = [exchange EXCEPT ![x] = r] /\ Linked(r)'
  BY NothingLinked DEF Reply, AuthInv, AuthTypeOK
<1>2. PagesLinked'
  BY PagesStay DEF LinkInv
<1> QED
  BY <1>1, <1>2, OneLinked

LEMMA TablesStay == ASSUME UNCHANGED session PROVE SessionsStay
BY DEF SessionsStay, Used

\* What an answer inherits from the request.
LEMMA AnswerFrom ==
  ASSUME AuthInv, NEW x \in Exchange, NEW phase
  PROVE  /\ Answer(x, phase).kind = exchange[x].kind /\ Answer(x, phase).phase = phase
         /\ Answer(x, phase).browser = exchange[x].browser /\ Answer(x, phase).awaited = TRUE
BY DEF Answer, NoRequest

LEMMA RefuseLinks ==
  ASSUME AuthInv, LinkInv, NEW x \in Exchange, Refuse(x), UNCHANGED <<session, page, cookie>>
  PROVE  LinkInv'
<1>1. PICK r : r = Answer(x, "failed")
  OBVIOUS
<1>2. exchange[x].awaited => Linked(r)'
  <2>1. Linked(exchange[x])
    BY DEF LinkInv
  <2>2. /\ r.kind = exchange[x].kind /\ r.phase = "failed"
        /\ r.browser = exchange[x].browser /\ r.awaited = TRUE
    BY <1>1, AnswerFrom
  <2> QED
    BY <2>1, <2>2 DEF Linked
<1>3. Reply(x, r)
  BY <1>1 DEF Refuse
<1> QED
  BY <1>2, <1>3, TablesStay, ReplyLinks

\* Nothing changes what is known of other requests when the pages, but for what
\* they attempt, and the cookies stay.
LEMMA PageStepLinks ==
  ASSUME AuthInv, LinkInv, NEW x \in Exchange, PageStep(x)
  PROVE  LinkInv'
<1>1. UNCHANGED <<session, cookie>> /\ SessionsStay
  BY TablesStay DEF PageStep, AskSession, Login, Logout, Sign, Repeated, tables, browsers
<1>2. page \in [Browser -> Page] /\ exchange \in [Exchange -> Request]
  BY DEF AuthInv, AuthTypeOK
<1>3. ASSUME NEW b \in Browser, AskSession(x, b) \/ Logout(x, b)
      PROVE  LinkInv'
  <2>1. UNCHANGED page
    BY <1>3 DEF AskSession, Logout, browsers
  <2>2. PICK kind \in {"session", "logout"} :
          /\ Send(x, SentCookie(b, kind))
          /\ kind = "logout" => page[b].restored
    BY <1>3 DEF AskSession, Logout, LinkInv, PagesLinked
  <2>3. PICK r : r = SentCookie(b, kind)
    OBVIOUS
  <2>4. /\ r.kind = kind /\ r.phase = "received" /\ r.browser = b /\ r.awaited = TRUE
        /\ r.token = cookie[b] /\ exchange' = [exchange EXCEPT ![x] = r]
    BY <2>2, <2>3 DEF SentCookie, Sent, NoRequest, Send
  <2>5. Linked(r)'
    BY <1>1, <2>1, <2>2, <2>4 DEF Linked
  <2>6. PagesLinked'
    BY <1>1, <2>1, PagesStay DEF LinkInv
  <2> QED
    BY <1>1, <2>1, <2>4, <2>5, <2>6, OneLinked
<1>4. ASSUME NEW b \in Browser, NEW r, exchange' = [exchange EXCEPT ![x] = r],
             r.kind \in {"nonce", "verify"}, r.phase = "received", r.browser = b, r.awaited,
             page[b].restored,
             NEW p, p.restored, page' = [page EXCEPT ![b] = p], p.shown = page[b].shown
      PROVE  LinkInv'
  <2>1. page'[b] = p /\ \A c \in Browser : c # b => page'[c] = page[c]
    BY <1>2, <1>4
  <2>2. Linked(r)'
    BY <1>4, <2>1 DEF Linked
  <2>3. PagesLinked'
    <3> SUFFICES ASSUME NEW c \in Browser
                 PROVE  /\ cookie'[c] # None => session'[cookie'[c]].browser = c
                        /\ page'[c].attempt # "idle" \/ page'[c].shown # None =>
                             page'[c].restored
                        /\ page'[c].shown # None => Owns(c, page[c].shown)'
      BY DEF PagesLinked
    <3>1. page'[c].shown = page[c].shown /\ (c = b => page'[c].restored)
      BY <1>4, <2>1
    <3>2. page[c].shown # None => Owns(c, page[c].shown)
      BY DEF LinkInv, PagesLinked
    <3>3. page'[c].shown # None => Owns(c, page[c].shown)'
      BY <1>1, <3>1, <3>2 DEF Owns, Used
    <3> QED
      BY <1>1, <2>1, <3>1, <3>3 DEF LinkInv, PagesLinked
  <2>4. \A y \in Exchange : exchange[y].awaited =>
          \/ page'[exchange[y].browser].restored
          \/ /\ page'[exchange[y].browser].restored = page[exchange[y].browser].restored
             /\ cookie'[exchange[y].browser] = cookie[exchange[y].browser]
    <3> SUFFICES ASSUME NEW y \in Exchange, exchange[y].awaited
                 PROVE  \/ page'[exchange[y].browser].restored
                        \/ page'[exchange[y].browser].restored = page[exchange[y].browser].restored
      BY <1>1
    <3>1. exchange[y].browser \in Browser
      BY DEF LinkInv, Linked
    <3> QED
      BY <1>4, <2>1, <3>1
  <2> QED
    BY <1>1, <1>4, <2>2, <2>3, <2>4, OneLinked
<1>5. ASSUME NEW b \in Browser, Login(x, b)
      PROVE  LinkInv'
  <2>1. PICK r : /\ exchange' = [exchange EXCEPT ![x] = r] /\ r.kind = "nonce"
                 /\ r.phase = "received" /\ r.browser = b /\ r.awaited = TRUE
    <3>1. PICK r : exchange' = [exchange EXCEPT ![x] = r] /\ r = Sent(b, "nonce")
      BY <1>5 DEF Login, Send
    <3>2. /\ r.kind = "nonce" /\ r.phase = "received" /\ r.browser = b /\ r.awaited = TRUE
      BY <3>1 DEF Sent, NoRequest
    <3> QED
      BY <3>1, <3>2
  <2>2. PICK p : p = [page[b] EXCEPT !.attempt = "nonce"]
    OBVIOUS
  <2>3. p.restored = page[b].restored /\ p.shown = page[b].shown
    BY <1>2, <2>2 DEF Page
  <2>4. page' = [page EXCEPT ![b] = p] /\ page[b].restored
    BY <1>5, <2>2 DEF Login
  <2> QED
    BY <1>4, <2>1, <2>3, <2>4
<1>6. ASSUME NEW b \in Browser, NEW payload \in Payload, Sign(x, b, payload)
      PROVE  LinkInv'
  <2>1. PICK r : /\ exchange' = [exchange EXCEPT ![x] = r] /\ r.kind = "verify"
                 /\ r.phase = "received" /\ r.browser = b /\ r.awaited = TRUE
    <3>1. PICK r : /\ exchange' = [exchange EXCEPT ![x] = r]
                   /\ r = [Sent(b, "verify") EXCEPT !.nonce = page[b].nonce, !.payload = payload]
      BY <1>6 DEF Sign, Send
    <3>2. /\ r.kind = "verify" /\ r.phase = "received" /\ r.browser = b /\ r.awaited = TRUE
      BY <3>1 DEF Sent, NoRequest
    <3> QED
      BY <3>1, <3>2
  <2>2. PICK p : p = [page[b] EXCEPT !.attempt = "verify", !.nonce = None]
    OBVIOUS
  <2>3. p.restored = page[b].restored /\ p.shown = page[b].shown
    BY <1>2, <2>2 DEF Page
  <2>4. page' = [page EXCEPT ![b] = p]
    BY <1>2, <1>6, <2>2 DEF Sign, Page
  <2>5. page[b].restored
    BY <1>6 DEF Sign, LinkInv, PagesLinked
  <2> QED
    BY <1>4, <2>1, <2>3, <2>4, <2>5
<1>7. ASSUME NEW y \in Exchange, Repeated(x, y)
      PROVE  LinkInv'
  <2>1. PICK r : r = [exchange[y] EXCEPT !.phase = "received", !.awaited = FALSE]
    OBVIOUS
  <2>2. /\ exchange' = [exchange EXCEPT ![x] = r] /\ r.phase = "received" /\ ~ r.awaited
    BY <1>2, <1>7, <2>1 DEF Repeated, Send, Request
  <2>3. Linked(r)'
    BY <2>2 DEF Linked
  <2>4. UNCHANGED page
    BY <1>7 DEF Repeated, browsers
  <2>5. PagesLinked'
    BY <1>1, <2>4, PagesStay DEF LinkInv
  <2> QED
    BY <1>1, <2>2, <2>3, <2>4, <2>5, OneLinked
<1> QED
  BY <1>3, <1>5, <1>6, <1>7 DEF PageStep

\* A handler goes on with its request: kind, browser and whether it is awaited stay.
LEMMA GoesOnLinks ==
  ASSUME AuthInv, LinkInv, UNCHANGED <<session, page, cookie>>, NEW x \in Exchange, NEW r,
         exchange' = [exchange EXCEPT ![x] = r],
         r.kind = exchange[x].kind, r.kind # "session",
         r.browser = exchange[x].browser, r.awaited = exchange[x].awaited,
         r.phase \notin {"ok", "expired", "failed"}
  PROVE  LinkInv'
<1>1. Linked(exchange[x])
  BY DEF LinkInv
<1>2. Linked(r)'
  BY <1>1 DEF Linked
<1>3. SessionsStay /\ PagesLinked'
  BY TablesStay, PagesStay DEF LinkInv
<1> QED
  BY <1>2, <1>3, OneLinked

LEMMA HandlerLinks ==
  ASSUME AuthInv, LinkInv, NEW x \in Exchange, HandlerStep(x)
  PROVE  LinkInv'
<1>1. exchange \in [Exchange -> Request] /\ exchange[x] \in Request /\ Linked(exchange[x])
      /\ session \in [Token -> Session]
  BY DEF AuthInv, AuthTypeOK, LinkInv
<1>2. CASE Refuse(x) /\ UNCHANGED <<session, page, cookie>>
  BY <1>2, RefuseLinks
<1>3. CASE CountChallenges(x)
  <2>1. PICK r : r = [exchange[x] EXCEPT !.phase = "counted", !.free = Free(exchange[x].browser)]
    OBVIOUS
  <2>2. /\ r.kind = exchange[x].kind /\ r.kind = "nonce" /\ r.browser = exchange[x].browser
        /\ r.awaited = exchange[x].awaited /\ r.phase = "counted"
        /\ exchange' = [exchange EXCEPT ![x] = r]
    BY <1>1, <1>3, <2>1 DEF CountChallenges, At, Request
  <2>3. UNCHANGED <<session, page, cookie>>
    BY <1>3 DEF CountChallenges, tables, browsers
  <2> QED
    BY <2>2, <2>3, GoesOnLinks
<1>4. CASE CreateChallenge(x) /\ exchange[x].free
  <2>1. PICK n, r : r = [Answer(x, "ok") EXCEPT !.nonce = n] /\ Reply(x, r)
    BY <1>4 DEF CreateChallenge
  <2>2. /\ r.kind = "nonce" /\ r.phase = "ok" /\ r.browser = exchange[x].browser
        /\ r.awaited = TRUE
    BY <1>4, <2>1 DEF Answer, NoRequest, CreateChallenge, At
  <2>3. UNCHANGED <<session, page, cookie>>
    BY <1>4 DEF CreateChallenge, browsers
  <2>4. exchange[x].awaited => Linked(r)'
    BY <1>1, <1>4, <2>2, <2>3 DEF Linked, CreateChallenge, At
  <2> QED
    BY <2>1, <2>3, <2>4, TablesStay, ReplyLinks
<1>5. CASE TakeChallenge(x) /\ Takeable(exchange[x].nonce)
  <2>1. PICK r : r = [exchange[x] EXCEPT !.phase = "taken"]
    OBVIOUS
  <2>2. /\ r.kind = exchange[x].kind /\ r.kind = "verify" /\ r.browser = exchange[x].browser
        /\ r.awaited = exchange[x].awaited /\ r.phase = "taken"
        /\ exchange' = [exchange EXCEPT ![x] = r]
    BY <1>1, <1>5, <2>1 DEF TakeChallenge, At, Request
  <2>3. UNCHANGED <<session, page, cookie>>
    BY <1>5 DEF TakeChallenge, browsers
  <2> QED
    BY <2>2, <2>3, GoesOnLinks
<1>6. CASE VerifyPayload(x) /\ exchange[x].payload.nonce = exchange[x].nonce
  <2>1. PICK r : r = [exchange[x] EXCEPT !.phase = "verified", !.payload = NoPayload,
                                         !.address = exchange[x].payload.address]
    OBVIOUS
  <2>2. /\ r.kind = exchange[x].kind /\ r.kind = "verify" /\ r.browser = exchange[x].browser
        /\ r.awaited = exchange[x].awaited /\ r.phase = "verified"
        /\ exchange' = [exchange EXCEPT ![x] = r]
    BY <1>1, <1>6, <2>1 DEF VerifyPayload, At, Request
  <2>3. UNCHANGED <<session, page, cookie>>
    BY <1>6 DEF VerifyPayload, tables, browsers
  <2> QED
    BY <2>2, <2>3, GoesOnLinks
<1>7. CASE CreateSession(x)
  <2>1. PICK t \in Token :
          /\ session[t].status = "unused"
          /\ session' = [session EXCEPT ![t] =
               [status |-> "live", address |-> exchange[x].address, expires |-> now + SessionTtl,
                nonce |-> exchange[x].nonce, browser |-> exchange[x].browser]]
          /\ Reply(x, [Answer(x, "ok") EXCEPT !.token = t, !.address = exchange[x].address])
    BY <1>7 DEF CreateSession
  <2>2. PICK r : r = [Answer(x, "ok") EXCEPT !.token = t, !.address = exchange[x].address]
    OBVIOUS
  <2>3. /\ r.kind = "verify" /\ r.phase = "ok" /\ r.browser = exchange[x].browser
        /\ r.awaited = TRUE /\ r.token = t /\ r.address = exchange[x].address
    BY <1>7, <2>2 DEF Answer, NoRequest, CreateSession, At
  <2>4. UNCHANGED <<page, cookie>>
    BY <1>7 DEF CreateSession, browsers
  <2>5. /\ Used(t)' /\ session'[t].browser = exchange[x].browser
        /\ session'[t].address = exchange[x].address
    BY <1>1, <2>1 DEF Used
  <2>6. SessionsStay
    BY <1>1, <2>1 DEF SessionsStay, Used
  <2>7. exchange[x].awaited => Linked(r)'
    BY <1>1, <1>7, <2>3, <2>4, <2>5 DEF Linked, CreateSession, At
  <2>8. Reply(x, r)
    BY <2>1, <2>2
  <2> QED
    BY <2>4, <2>6, <2>7, <2>8, ReplyLinks
<1>8. CASE ReadSession(x)
  <2>1. PICK r : /\ Reply(x, r)
                 /\ \/ /\ r = [Answer(x, "ok") EXCEPT !.address = session[exchange[x].token].address]
                       /\ exchange[x].token # None
                    \/ r = Answer(x, "expired")
    BY <1>8 DEF ReadSession
  <2>2. /\ r.kind = "session" /\ r.phase \in {"ok", "expired"}
        /\ r.browser = exchange[x].browser /\ r.awaited = TRUE
        /\ r.phase = "ok" => exchange[x].token # None
                            /\ r.address = session[exchange[x].token].address
    BY <1>8, <2>1 DEF Answer, NoRequest, ReadSession, At
  <2>3. UNCHANGED <<session, page, cookie>> /\ SessionsStay
    BY <1>8, TablesStay DEF ReadSession, tables, browsers
  <2>4. ASSUME exchange[x].awaited, ~ page[r.browser].restored, r.phase = "ok"
        PROVE  Owns(r.browser, r.address)
    <3>1. exchange[x].token = cookie[r.browser] /\ r.browser \in Browser
      BY <1>1, <1>8, <2>2, <2>4 DEF Linked, ReadSession, At
    <3>2. /\ cookie[r.browser] \in Token /\ Used(cookie[r.browser])
          /\ session[cookie[r.browser]].browser = r.browser
      BY <2>2, <2>4, <3>1 DEF AuthInv, Pages, AuthTypeOK, LinkInv, PagesLinked
    <3> QED
      BY <2>2, <2>4, <3>1, <3>2 DEF Owns
  <2>5. exchange[x].awaited => Linked(r)'
    BY <1>1, <2>2, <2>3, <2>4 DEF Linked, Owns, Used
  <2> QED
    BY <2>1, <2>3, <2>5, ReplyLinks
<1>9. CASE DeleteSession(x)
  <2>1. PICK r : r = Answer(x, "ok")
    OBVIOUS
  <2>2. /\ r.kind = "logout" /\ r.phase = "ok" /\ r.browser = exchange[x].browser
        /\ r.awaited = TRUE /\ Reply(x, r)
    BY <1>9, <2>1, AnswerFrom DEF DeleteSession, At
  <2>3. UNCHANGED <<page, cookie>>
    BY <1>9 DEF DeleteSession, browsers
  <2>4. SessionsStay
    BY <1>1, <1>9 DEF SessionsStay, Used, DeleteSession, Session
  <2>5. exchange[x].awaited => Linked(r)'
    BY <1>1, <1>9, <2>2, <2>3 DEF Linked, DeleteSession, At
  <2> QED
    BY <2>2, <2>3, <2>4, <2>5, ReplyLinks
<1> QED
  BY <1>2, <1>3, <1>4, <1>5, <1>6, <1>7, <1>8, <1>9
  DEF HandlerStep, CreateChallenge, TakeChallenge, VerifyPayload, Failed, tables, browsers

\* What an answer shows is the browser's own; while a page is being restored its
\* cookie changes with the answer it is restored from only.
LEMMA DeliverLinks ==
  ASSUME AuthInv, LinkInv, NEW x \in Exchange, Deliver(x)
  PROVE  LinkInv'
<1>1. PICK r : r = exchange[x]
  OBVIOUS
<1>2. /\ exchange' = [exchange EXCEPT ![x] = NoRequest]
      /\ page' = [page EXCEPT ![r.browser] = Answered(@, r)]
      /\ cookie' = [cookie EXCEPT ![r.browser] = CookieAfter(r.browser, r)]
      /\ UNCHANGED session /\ r.phase \in {"ok", "expired", "failed"}
  BY <1>1 DEF Deliver, tables
<1>3. /\ page \in [Browser -> Page] /\ cookie \in [Browser -> Token \cup {None}]
      /\ r \in Request /\ Carried(r) /\ Linked(r) /\ r.awaited /\ r.browser \in Browser
  BY <1>1, <1>2 DEF AuthInv, AuthTypeOK, Requests, LinkInv, Linked
<1>4. PICK b \in Browser : b = r.browser
  BY <1>3
<1>5. PICK p \in Page : p = page[b]
  BY <1>3
<1>6. PICK q : q = Answered(p, r)
  OBVIOUS
<1>7. /\ page'[b] = q /\ cookie'[b] = CookieAfter(b, r)
      /\ \A c \in Browser : c # b => page'[c] = page[c] /\ cookie'[c] = cookie[c]
  BY <1>2, <1>3, <1>4, <1>5, <1>6
<1>8. r.kind \in {"nonce", "verify", "session", "logout"}
  BY <1>2, <1>3 DEF Carried, Request
\* What is known of browser b.
<1>9. /\ cookie[b] # None => session[cookie[b]].browser = b
      /\ p.attempt # "idle" \/ p.shown # None => p.restored
      /\ p.shown # None => Owns(b, p.shown)
  BY <1>5 DEF LinkInv, PagesLinked
<1>10. q.restored
  <2>1. CASE r.kind = "session"
    BY <1>6, <2>1 DEF Answered, Restored, Page
  <2>2. CASE r.kind # "session"
    <3>1. p.restored
      BY <1>3, <1>4, <1>5, <2>2 DEF Linked
    <3> QED
      BY <1>6, <1>8, <2>2, <3>1 DEF Answered, Page
  <2> QED
    BY <2>1, <2>2
<1>11. /\ cookie'[b] # None => session[cookie'[b]].browser = b
       /\ q.shown # None => /\ \E t \in Token : /\ Used(t) /\ session[t].browser = b
                                                /\ session[t].address = q.shown
                            /\ cookie'[b] # None => session[cookie'[b]].address = q.shown
  <2>1. CASE r.kind = "verify" /\ r.phase = "ok"
    <3>1. cookie'[b] = r.token /\ q.shown = r.address
      BY <1>6, <1>7, <2>1 DEF CookieAfter, Answered, Shown, Page
    <3> QED
      BY <1>3, <1>4, <2>1, <3>1 DEF Linked
  <2>2. CASE r.kind = "verify" /\ r.phase # "ok"
    <3>1. cookie'[b] \in {None, cookie[b]} /\ q.shown = None
      BY <1>6, <1>7, <2>2 DEF CookieAfter, Answered, Shown, Page
    <3> QED
      BY <1>9, <3>1
  <2>3. CASE r.kind \in {"nonce", "logout"}
    <3>1. cookie'[b] \in {None, cookie[b]} /\ q.shown \in {None, p.shown}
      BY <1>6, <1>7, <2>3 DEF CookieAfter, Answered, Page
    <3> QED
      BY <1>9, <3>1 DEF Owns
  <2>4. CASE r.kind = "session" /\ p.restored
    <3>1. cookie'[b] \in {None, cookie[b]} /\ q = p
      BY <1>6, <1>7, <2>4 DEF CookieAfter, Answered, Restored
    <3> QED
      BY <1>9, <3>1 DEF Owns
  <2>5. CASE r.kind = "session" /\ ~ p.restored
    <3>1. cookie'[b] \in {None, cookie[b]} /\ q.shown = Shown(r)
      BY <1>6, <1>7, <2>5 DEF CookieAfter, Answered, Restored, Page
    <3>2. r.phase = "ok" => Owns(b, r.address)
      BY <1>3, <1>4, <1>5, <2>5 DEF Linked
    <3> QED
      BY <1>9, <3>1, <3>2 DEF Owns, Shown
  <2> QED
    BY <1>8, <2>1, <2>2, <2>3, <2>4, <2>5
<1>12. PagesLinked'
  <2> SUFFICES ASSUME NEW c \in Browser
               PROVE  /\ cookie'[c] # None => session'[cookie'[c]].browser = c
                      /\ page'[c].attempt # "idle" \/ page'[c].shown # None => page'[c].restored
                      /\ page'[c].shown # None => Owns(c, page[c].shown)'
    BY DEF PagesLinked
  <2>1. CASE c = b
    BY <1>2, <1>7, <1>10, <1>11, <2>1 DEF Owns, Used
  <2>2. CASE c # b
    <3>1. /\ cookie[c] # None => session[cookie[c]].browser = c
          /\ page[c].attempt # "idle" \/ page[c].shown # None => page[c].restored
          /\ page[c].shown # None => Owns(c, page[c].shown)
      BY DEF LinkInv, PagesLinked
    <3> QED
      BY <1>2, <1>7, <2>2, <3>1 DEF Owns, Used
  <2> QED
    BY <2>1, <2>2
<1>13. ASSUME NEW y \in Exchange, exchange[y].awaited
       PROVE  \/ page'[exchange[y].browser].restored
              \/ /\ page'[exchange[y].browser].restored = page[exchange[y].browser].restored
                 /\ cookie'[exchange[y].browser] = cookie[exchange[y].browser]
  <2>1. exchange[y].browser \in Browser
    BY <1>13 DEF LinkInv, Linked
  <2> QED
    BY <1>7, <1>10, <2>1
<1> QED
  BY <1>2, <1>12, <1>13, NothingLinked, TablesStay, OneLinked

\* A page that is reloaded awaits nothing.
LEMMA ReloadLinks ==
  ASSUME AuthInv, LinkInv, NEW b \in Browser, Reload(b)
  PROVE  LinkInv'
<1>1. /\ page \in [Browser -> Page] /\ exchange \in [Exchange -> Request]
      /\ page' = [page EXCEPT ![b] = NewPage] /\ UNCHANGED <<session, cookie>>
      /\ \A y \in Exchange : exchange'[y] = IF exchange[y].browser = b
                                            THEN Unawaited(exchange[y]) ELSE exchange[y]
  BY DEF Reload, tables, AuthInv, AuthTypeOK
<1>2. page'[b] = NewPage /\ \A c \in Browser : c # b => page'[c] = page[c]
  BY <1>1
<1>3. SessionsStay
  BY <1>1, TablesStay
<1>4. PagesLinked'
  <2> SUFFICES ASSUME NEW c \in Browser
               PROVE  /\ cookie'[c] # None => session'[cookie'[c]].browser = c
                      /\ page'[c].attempt # "idle" \/ page'[c].shown # None => page'[c].restored
                      /\ page'[c].shown # None => Owns(c, page[c].shown)'
    BY DEF PagesLinked
  <2>1. /\ cookie[c] # None => session[cookie[c]].browser = c
        /\ page[c].attempt # "idle" \/ page[c].shown # None => page[c].restored
        /\ page[c].shown # None => Owns(c, page[c].shown)
    BY DEF LinkInv, PagesLinked
  <2>2. NewPage.attempt = "idle" /\ NewPage.shown = None
    BY DEF NewPage
  <2> QED
    BY <1>1, <1>2, <2>1, <2>2 DEF Owns, Used
<1>5. ASSUME NEW y \in Exchange
      PROVE  Linked(exchange[y])'
  <2>1. PICK r : r = exchange[y]
    OBVIOUS
  <2>2. r \in Request /\ Linked(r)
    BY <1>1, <2>1 DEF LinkInv
  <2>3. PICK q : q = exchange'[y]
    OBVIOUS
  <2>4. Linked(q)'
    <3>1. CASE r.browser # b
      <4>1. q = r
        BY <1>1, <2>1, <2>3, <3>1
      <4>2. r.awaited => page'[r.browser].restored = page[r.browser].restored
        BY <1>2, <2>2, <3>1 DEF Linked
      <4> QED
        BY <1>1, <1>3, <2>2, <4>1, <4>2, LinkStays
    <3>2. CASE r.browser = b
      <4>1. q = IF r.phase \in {"ok", "expired", "failed"} THEN NoRequest
                ELSE [r EXCEPT !.awaited = FALSE]
        BY <1>1, <2>1, <2>3, <3>2 DEF Unawaited
      <4>2. q = NoRequest \/ (q.awaited = FALSE /\ q.phase = r.phase
                              /\ r.phase \notin {"ok", "expired", "failed"})
        BY <2>2, <4>1 DEF Request
      <4> QED
        BY <4>2, NothingLinked DEF Linked
    <3> QED
      BY <3>1, <3>2
  <2> QED
    BY <2>3, <2>4 DEF Linked, Owns, Used
<1> QED
  BY <1>4, <1>5 DEF LinkInv

LEMMA RejectedLinks ==
  ASSUME AuthInv, LinkInv, NEW b \in Browser, Rejected(b)
  PROVE  LinkInv'
<1>1. /\ page \in [Browser -> Page] /\ exchange \in [Exchange -> Request]
      /\ UNCHANGED <<session, cookie, exchange>>
      /\ page' = [page EXCEPT ![b].attempt = "idle", ![b].nonce = None]
  BY DEF Rejected, tables, AuthInv, AuthTypeOK
<1>2. \A c \in Browser : /\ page'[c].restored = page[c].restored
                         /\ page'[c].shown = page[c].shown
                         /\ page'[c].attempt \in {"idle", page[c].attempt}
  BY <1>1 DEF Page
<1>3. SessionsStay
  BY <1>1, TablesStay
<1>4. PagesLinked'
  <2> SUFFICES ASSUME NEW c \in Browser
               PROVE  /\ cookie'[c] # None => session'[cookie'[c]].browser = c
                      /\ page'[c].attempt # "idle" \/ page'[c].shown # None => page'[c].restored
                      /\ page'[c].shown # None => Owns(c, page[c].shown)'
    BY DEF PagesLinked
  <2>1. /\ cookie[c] # None => session[cookie[c]].browser = c
        /\ page[c].attempt # "idle" \/ page[c].shown # None => page[c].restored
        /\ page[c].shown # None => Owns(c, page[c].shown)
    BY DEF LinkInv, PagesLinked
  <2> QED
    BY <1>1, <1>2, <2>1 DEF Owns, Used
<1>5. ASSUME NEW y \in Exchange
      PROVE  Linked(exchange[y])'
  <2>1. PICK r : r = exchange[y]
    OBVIOUS
  <2>2. r \in Request /\ Linked(r)
    BY <1>1, <2>1 DEF LinkInv
  <2>3. r.awaited => page'[r.browser].restored = page[r.browser].restored
    BY <1>2, <2>2 DEF Linked
  <2>4. Linked(r)'
    BY <1>1, <1>3, <2>2, <2>3, LinkStays
  <2> QED
    BY <1>1, <2>1, <2>4 DEF Linked, Owns, Used
<1> QED
  BY <1>4, <1>5 DEF LinkInv

LEMMA StepLinks ==
  ASSUME AuthInv, LinkInv, [AuthNext]_authVars
  PROVE  LinkInv'
<1>1. CASE AuthTick \/ UNCHANGED authVars
  <2>1. UNCHANGED <<session, page, cookie, exchange>>
    BY <1>1 DEF AuthTick, authVars, tables, browsers
  <2> QED
    BY <2>1 DEF LinkInv, PagesLinked, Linked, Owns, Used
<1> QED
  BY <1>1, PageStepLinks, HandlerLinks, DeliverLinks, ReloadLinks, RejectedLinks DEF AuthNext

\* A page shows the wallet that its own browser has signed in with, and its
\* cookie, if it has one, is a session of that wallet: over reloads, failures and
\* answers that arrive late or out of order.
THEOREM OwnSessionShown == AuthSpec => []PageShowsOwnSession
<1>1. AuthInit => LinkInv
  <2> SUFFICES ASSUME AuthInit PROVE LinkInv
    OBVIOUS
  <2>1. \A x \in Exchange : Linked(exchange[x])
    BY DEF AuthInit, Linked, NoRequest
  <2>2. PagesLinked
    BY DEF AuthInit, PagesLinked, NewPage
  <2> QED
    BY <2>1, <2>2 DEF LinkInv
<1>2. LinkInv => PageShowsOwnSession
  BY DEF LinkInv, PagesLinked, Owns, PageShowsOwnSession
<1> QED
  BY <1>1, <1>2, AuthInitially, AuthStep, StepLinks, PTL DEF AuthSpec
----------------------------------------------------------------------------
(* The list of a history, and the table it is read from. *)

\* Events of a chain, newest first.
ListOf(s, c) ==
  /\ s \in Seq(Key)
  /\ \A i, j \in DOMAIN s : i < j => s[i] > s[j]
  /\ \A i \in DOMAIN s : s[i] \in Emitted[c]

\* An event is in s, or further down than s and there is more to ask for.
Reaches(s, next, events) ==
  \A k \in events :
    \/ \E i \in DOMAIN s : s[i] = k
    \/ next # Absent /\ k < Last(s)

\* A cursor is the last event of what was read.
CursorOf(s, next, c) ==
  next # Absent => s # << >> /\ next.checkpoint = c /\ next.key = Last(s)

TableOK(c, events, held) ==
  /\ c \in Chain \cup {Absent}
  /\ c = Absent => events = {}
  /\ c # Absent => events \subseteq Emitted[c]
  /\ held \subseteq events

ListOK(l, held) ==
  /\ l.of = Absent => l.facts = << >> /\ l.cursor = Absent
  /\ l.of # Absent =>
       /\ l.of \in Chain
       /\ ListOf(l.facts, l.of)
       /\ CursorOf(l.facts, l.cursor, l.of)
       /\ Reaches(l.facts, l.cursor, held)

\* A page is of one chain, and for the list that has asked for it.
PageOK(r, l, held) ==
  /\ r.of = Absent => r.events = << >> /\ r.next = Absent
  /\ r.of # Absent =>
       r.of \in Chain /\ ListOf(r.events, r.of) /\ CursorOf(r.events, r.next, r.of)
  /\ r.cursor = Absent => Reaches(r.events, r.next, held)
  /\ r.cursor # Absent =>
       /\ r.of = l.of
       /\ \A i \in DOMAIN r.events : r.events[i] < r.cursor.key
       /\ Reaches(r.events, r.next, {k \in held : k < r.cursor.key})

RequestOK(r, l, held) ==
  /\ r.phase \in {"none", "sent", "page", "changed"}
  /\ r.phase \in {"sent", "page"} =>
       /\ r.cursor = Absent => l.of = Absent
       /\ r.cursor # Absent => l.of # Absent /\ r.cursor = l.cursor
  /\ r.phase = "page" => PageOK(r, l, held)

HistoryInv ==
  /\ TableOK(checkpoint, stored, steady)
  /\ ListOK(list, steady)
  /\ RequestOK(request, list, steady)

LEMMA EmptyIsOK ==
  ASSUME NEW verdict, NEW held
  PROVE  EmptyList(verdict).of = Absent /\ ListOK(EmptyList(verdict), held)
BY DEF EmptyList, NewList, ListOK

\* Fewer events to reach.
LEMMA ReachesLess ==
  ASSUME NEW s, NEW next, NEW A, NEW B, B \subseteq A, Reaches(s, next, A)
  PROVE  Reaches(s, next, B)
BY DEF Reaches

LEMMA ListLess ==
  ASSUME NEW l, NEW A, NEW B, B \subseteq A, ListOK(l, A)
  PROVE  ListOK(l, B)
BY ReachesLess DEF ListOK

LEMMA RequestLess ==
  ASSUME NEW r, NEW l, NEW A, NEW B, B \subseteq A, RequestOK(r, l, A)
  PROVE  RequestOK(r, l, B)
<1>1. {k \in B : k < r.cursor.key} \subseteq {k \in A : k < r.cursor.key}
  OBVIOUS
<1>2. PageOK(r, l, A) => PageOK(r, l, B)
  BY <1>1, ReachesLess DEF PageOK
<1> QED
  BY <1>2 DEF RequestOK

\* The choice in InOrder exists.
LEMMA InOrderOf ==
  ASSUME NEW n \in Nat
  PROVE  /\ InOrder(1 .. n) \in [1 .. n -> 1 .. n]
         /\ \A i, j \in 1 .. n : i < j => InOrder(1 .. n)[i] < InOrder(1 .. n)[j]
         /\ n > 0 => InOrder(1 .. n)[n] = n
         /\ \A k \in 1 .. n : \E i \in 1 .. n : InOrder(1 .. n)[i] = k
<1> DEFINE Good(f) == /\ \A i, j \in DOMAIN f : i < j => f[i] < f[j]
                      /\ Range(f) = 1 .. n
<1>1. Cardinality(1 .. n) = n
  BY FS_Interval
<1>2. InOrder(1 .. n) = CHOOSE f \in [1 .. n -> 1 .. n] : Good(f)
  BY <1>1 DEF InOrder
<1>3. \E f \in [1 .. n -> 1 .. n] : Good(f)
  <2> DEFINE id == [i \in 1 .. n |-> i]
  <2>1. id \in [1 .. n -> 1 .. n] /\ DOMAIN id = 1 .. n
    OBVIOUS
  <2>2. Range(id) = 1 .. n
    BY DEF Range
  <2>3. Good(id)
    BY <2>1, <2>2
  <2> QED
    BY <2>1, <2>3
<1>4. PICK f \in [1 .. n -> 1 .. n] : f = InOrder(1 .. n) /\ Good(f)
  <2> HIDE DEF Good
  <2> QED
    BY <1>2, <1>3
<1>5. /\ DOMAIN f = 1 .. n
      /\ \A i, j \in 1 .. n : i < j => f[i] < f[j]
      /\ \A i \in 1 .. n : f[i] \in 1 .. n
      /\ \A k \in 1 .. n : \E i \in 1 .. n : f[i] = k
  BY <1>4 DEF Range
<1>6. n > 0 => f[n] = n
  <2>1. SUFFICES ASSUME n > 0 PROVE f[n] = n
    OBVIOUS
  <2>2. n \in 1 .. n
    BY <2>1
  <2>3. PICK i \in 1 .. n : f[i] = n
    BY <1>5, <2>2
  <2>4. f[n] \in 1 .. n /\ (i < n => f[i] < f[n])
    BY <1>5, <2>2
  <2> QED
    BY <2>2, <2>3, <2>4
<1> QED
  BY <1>4, <1>5, <1>6

\* The n events of a page after the list, in their order.
Follows(s, facts, incoming, n) ==
  \E f \in [1 .. n -> 1 .. n] :
    /\ \A i, j \in 1 .. n : i < j => f[i] < f[j]
    /\ n > 0 => f[n] = n
    /\ \A k \in 1 .. n : \E i \in 1 .. n : f[i] = k
    /\ s = facts \o [i \in 1 .. n |-> incoming[f[i]]]

\* All of a page that goes below the list is appended, in order.
LEMMA AppendedBelow ==
  ASSUME NEW facts \in Seq(Key), NEW incoming \in Seq(Key), NEW n \in Nat, n = Len(incoming),
         \A i \in DOMAIN facts, j \in DOMAIN incoming : facts[i] # incoming[j]
  PROVE  Follows(Appended(facts, incoming), facts, incoming, n)
<1>1. DOMAIN incoming = 1 .. n
  OBVIOUS
<1>2. {i \in DOMAIN incoming : incoming[i] \notin Range(facts)} = 1 .. n
  BY <1>1 DEF Range
<1>3. PICK f \in [1 .. n -> 1 .. n] :
        /\ f = InOrder(1 .. n)
        /\ \A i, j \in 1 .. n : i < j => f[i] < f[j]
        /\ n > 0 => f[n] = n
        /\ \A k \in 1 .. n : \E i \in 1 .. n : f[i] = k
  BY InOrderOf
<1>4. DOMAIN f = 1 .. n
  BY <1>3
<1>5. Appended(facts, incoming) = facts \o [i \in 1 .. n |-> incoming[f[i]]]
  <2>1. Appended(facts, incoming)
        = facts \o [i \in DOMAIN InOrder(1 .. n) |-> incoming[InOrder(1 .. n)[i]]]
    BY <1>2, Zenon DEF Appended
  <2> QED
    BY <1>3, <1>4, <2>1, Zenon
<1> QED
  BY <1>3, <1>5 DEF Follows

\* A list and the page below it.
LEMMA ListGrows ==
  ASSUME NEW c \in Chain, NEW facts, NEW events, NEW cursor, NEW next, NEW held,
         ListOf(facts, c), CursorOf(facts, cursor, c), cursor # Absent,
         Reaches(facts, cursor, held),
         ListOf(events, c), CursorOf(events, next, c),
         \A i \in DOMAIN events : events[i] < cursor.key,
         Reaches(events, next, {k \in held : k < cursor.key})
  PROVE  LET s == Appended(facts, events)
         IN  ListOf(s, c) /\ CursorOf(s, next, c) /\ Reaches(s, next, held)
<1> DEFINE m == Len(facts)
           n == Len(events)
           s == Appended(facts, events)
<1>1. /\ facts \in Seq(Key) /\ m \in Nat /\ DOMAIN facts = 1 .. m
      /\ events \in Seq(Key) /\ n \in Nat /\ DOMAIN events = 1 .. n
      /\ Key \subseteq Nat
  BY PagesAssumption DEF ListOf
<1>2. m > 0 /\ facts[m] = cursor.key /\ m \in 1 .. m
  BY <1>1 DEF CursorOf, Last
<1> HIDE DEF m, n
<1>3. /\ \A i \in 1 .. m : facts[i] \in Key /\ facts[i] \in Emitted[c]
      /\ \A i, j \in 1 .. m : i < j => facts[i] > facts[j]
      /\ \A i \in 1 .. n : events[i] \in Key /\ events[i] \in Emitted[c]
      /\ \A i, j \in 1 .. n : i < j => events[i] > events[j]
  BY <1>1 DEF ListOf
<1>4. /\ cursor.key \in Nat
      /\ \A i \in 1 .. m : facts[i] >= cursor.key
      /\ \A i \in 1 .. n : events[i] < cursor.key
  <2>1. \A i \in 1 .. m : i = m \/ i < m
    BY <1>1
  <2>2. cursor.key \in Nat /\ \A i \in 1 .. m : facts[i] \in Nat
    BY <1>1, <1>2, <1>3
  <2>3. ASSUME NEW i \in 1 .. m PROVE facts[i] >= cursor.key
    <3>1. i = m \/ facts[i] > facts[m]
      BY <1>2, <1>3, <2>1
    <3> QED
      BY <1>2, <2>2, <3>1
  <2> QED
    BY <1>1, <2>2, <2>3
<1>5. ASSUME NEW i \in DOMAIN facts, NEW j \in DOMAIN events PROVE facts[i] # events[j]
  <2>1. facts[i] \in Nat /\ events[j] \in Nat
    BY <1>1, <1>3
  <2> QED
    BY <1>1, <1>4, <2>1
<1>6. PICK f \in [1 .. n -> 1 .. n] :
        /\ \A i, j \in 1 .. n : i < j => f[i] < f[j]
        /\ n > 0 => f[n] = n
        /\ \A k \in 1 .. n : \E i \in 1 .. n : f[i] = k
        /\ s = facts \o [i \in 1 .. n |-> events[f[i]]]
  <2>1. n = Len(events)
    BY DEF n
  <2> HIDE DEF s
  <2>2. s = Appended(facts, events)
    BY DEF s
  <2>3. Follows(Appended(facts, events), facts, events, n)
    <3>1. \A i \in DOMAIN facts, j \in DOMAIN events : facts[i] # events[j]
      BY <1>5
    <3>2. facts \in Seq(Key) /\ events \in Seq(Key) /\ n \in Nat
      BY <1>1
    <3> QED
      BY <2>1, <3>1, <3>2, AppendedBelow
  <2> QED
    BY <2>2, <2>3, Zenon DEF Follows
<1> DEFINE g == [i \in 1 .. n |-> events[f[i]]]
<1>7. /\ g \in Seq(Key) /\ Len(g) = n
      /\ \A i \in 1 .. n : g[i] = events[f[i]]
  <2>1. g \in [1 .. n -> Key]
    BY <1>3, <1>6
  <2> QED
    BY <1>1, <2>1
<1> HIDE DEF g, s
<1>8. s = facts \o g
  BY <1>6 DEF g
<1>9. /\ s \in Seq(Key) /\ Len(s) = m + n
      /\ \A i \in 1 .. m + n : s[i] = IF i <= m THEN facts[i] ELSE g[i - m]
  <2>1. m = Len(facts)
    BY DEF m
  <2> QED
    BY <1>1, <1>7, <1>8, <2>1, ConcatProperties
<1>10. /\ \A i \in 1 .. m : s[i] = facts[i] /\ i \in 1 .. m + n
       /\ \A i \in 1 .. n : s[m + i] = events[f[i]] /\ m + i \in 1 .. m + n
       /\ \A i \in 1 .. m + n : i \in 1 .. m \/ \E j \in 1 .. n : i = m + j
       /\ DOMAIN s = 1 .. m + n
  <2>1. ASSUME NEW i \in 1 .. n PROVE s[m + i] = events[f[i]] /\ m + i \in 1 .. m + n
    <3>1. m + i \in 1 .. m + n /\ ~(m + i <= m) /\ (m + i) - m = i
      BY <1>1
    <3> QED
      BY <1>7, <1>9, <3>1
  <2>2. ASSUME NEW i \in 1 .. m + n PROVE i \in 1 .. m \/ \E j \in 1 .. n : i = m + j
    <3>1. CASE i <= m
      BY <1>1, <3>1
    <3>2. CASE i > m
      <4>1. i - m \in 1 .. n /\ i = m + (i - m)
        BY <1>1, <3>2
      <4> QED
        BY <4>1
    <3> QED
      BY <1>1, <3>1, <3>2
  <2>3. \A i \in 1 .. m : s[i] = facts[i] /\ i \in 1 .. m + n
    BY <1>1, <1>9
  <2>4. DOMAIN s = 1 .. m + n
    BY <1>9
  <2> QED
    BY <2>1, <2>2, <2>3, <2>4
<1>11. ListOf(s, c)
  <2>1. ASSUME NEW i \in 1 .. m + n, NEW j \in 1 .. m + n, i < j PROVE s[i] > s[j]
    <3>1. CASE j \in 1 .. m
      BY <1>1, <1>3, <1>10, <2>1, <3>1
    <3>2. CASE i \in 1 .. m /\ j \notin 1 .. m
      <4>1. PICK l \in 1 .. n : j = m + l
        BY <1>10, <3>2
      <4>2. f[l] \in 1 .. n /\ s[j] = events[f[l]] /\ s[i] = facts[i]
        BY <1>6, <1>10, <3>2, <4>1
      <4>3. facts[i] \in Nat /\ events[f[l]] \in Nat
        BY <1>1, <1>3, <3>2, <4>2
      <4> QED
        BY <1>4, <3>2, <4>2, <4>3
    <3>3. CASE i \notin 1 .. m /\ j \notin 1 .. m
      <4>1. PICK h \in 1 .. n : i = m + h
        BY <1>10, <3>3
      <4>2. PICK l \in 1 .. n : j = m + l
        BY <1>10, <3>3
      <4>3. h < l
        BY <1>1, <2>1, <4>1, <4>2
      <4>4. f[h] \in 1 .. n /\ f[l] \in 1 .. n /\ f[h] < f[l]
        BY <1>6, <4>3
      <4> QED
        BY <1>3, <1>10, <4>1, <4>2, <4>4
    <3>4. j \in 1 .. m => i \in 1 .. m
      BY <1>1, <2>1
    <3> QED
      BY <3>1, <3>2, <3>3, <3>4
  <2>2. ASSUME NEW i \in 1 .. m + n PROVE s[i] \in Emitted[c]
    <3>1. CASE i \in 1 .. m
      BY <1>3, <1>10, <3>1
    <3>2. CASE i \notin 1 .. m
      <4>1. PICK j \in 1 .. n : i = m + j
        BY <1>10, <3>2
      <4>2. f[j] \in 1 .. n
        BY <1>6
      <4> QED
        BY <1>3, <1>10, <4>1, <4>2
    <3> QED
      BY <3>1, <3>2
  <2> QED
    BY <1>9, <1>10, <2>1, <2>2 DEF ListOf
<1>12. n > 0 => s # << >> /\ Last(s) = Last(events)
  <2>1. SUFFICES ASSUME n > 0 PROVE s # << >> /\ Last(s) = Last(events)
    OBVIOUS
  <2>2. n \in 1 .. n /\ f[n] = n
    BY <1>1, <1>6, <2>1
  <2>3. s[m + n] = events[n]
    BY <1>10, <2>2
  <2>4. Last(s) = s[m + n]
    BY <1>9 DEF Last
  <2>5. Last(events) = events[n]
    BY DEF Last, n
  <2>6. s # << >>
    BY <1>1, <1>9, <2>1
  <2> QED
    BY <2>3, <2>4, <2>5, <2>6
<1>13. next # Absent => n > 0
  BY <1>1 DEF CursorOf, n
<1>14. CursorOf(s, next, c)
  BY <1>12, <1>13 DEF CursorOf
<1>15. Reaches(s, next, held)
  <2>1. SUFFICES ASSUME NEW k \in held
                 PROVE  \/ \E i \in DOMAIN s : s[i] = k
                        \/ next # Absent /\ k < Last(s)
    BY DEF Reaches
  <2>2. CASE \E i \in DOMAIN facts : facts[i] = k
    BY <1>1, <1>10, <2>2
  <2>3. CASE k < Last(facts)
    <3>1. k < cursor.key
      BY <1>2, <2>3 DEF Last, m
    <3>2. \/ \E i \in DOMAIN events : events[i] = k
          \/ next # Absent /\ k < Last(events)
      BY <3>1 DEF Reaches
    <3>3. CASE \E i \in DOMAIN events : events[i] = k
      <4>1. PICK j \in 1 .. n : events[j] = k
        BY <1>1, <3>3
      <4>2. PICK i \in 1 .. n : f[i] = j
        BY <1>6
      <4> QED
        BY <1>10, <4>1, <4>2
    <3> QED
      BY <1>12, <1>13, <3>2, <3>3
  <2> QED
    BY <2>2, <2>3 DEF Reaches
<1> QED
  BY <1>11, <1>14, <1>15 DEF s

----------------------------------------------------------------------------
(* What every step does to the invariant. *)

LEMMA ServeKeeps ==
  ASSUME HistoryInv, Serve
  PROVE  HistoryInv'
<1> DEFINE cursor == request.cursor
           below  == {k \in stored : cursor = Absent \/ k < cursor.key}
<1>1. /\ request.phase = "sent" /\ UNCHANGED <<checkpoint, stored, list>>
      /\ TableOK(checkpoint, stored, steady) /\ ListOK(list, steady)
      /\ RequestOK(request, list, steady)
      /\ steady' = IF cursor = Absent THEN stored ELSE steady
  BY DEF HistoryInv, Serve
<1>2. /\ cursor = Absent => list.of = Absent
      /\ cursor # Absent => list.of # Absent /\ cursor = list.cursor
  BY <1>1 DEF RequestOK
<1>3. TableOK(checkpoint, stored, steady') /\ ListOK(list, steady')
  BY <1>1, <1>2 DEF TableOK, ListOK
<1>4. CASE ~Current(cursor)
  <2>1. request'.phase = "changed"
    BY <1>4 DEF Serve
  <2> QED
    BY <1>1, <1>3, <2>1 DEF HistoryInv, RequestOK
<1>5. CASE Current(cursor)
  <2>1. PICK got \in UNION {[1 .. n -> below] : n \in 0 .. Limit} :
          /\ IsPage(got, below)
          /\ request' =
               [phase |-> "page", cursor |-> cursor, of |-> checkpoint, events |-> got,
                next |-> IF below = Range(got) THEN Absent
                         ELSE [checkpoint |-> checkpoint, key |-> Last(got)]]
    BY <1>5 DEF Serve
  <2>0. PICK n \in 0 .. Limit : got \in [1 .. n -> below]
    BY <2>1
  <2> HIDE DEF cursor
  <2>2. PICK next : next = IF below = Range(got) THEN Absent
                           ELSE [checkpoint |-> checkpoint, key |-> Last(got)]
    OBVIOUS
  <2>3. /\ request'.phase = "page" /\ request'.cursor = cursor
        /\ request'.of = checkpoint /\ request'.events = got /\ request'.next = next
    BY <2>1, <2>2
  <2>4. /\ below \subseteq stored
        /\ \A k \in below : cursor = Absent \/ k < cursor.key
        /\ n \in Nat
    BY PagesAssumption DEF below
  <2> HIDE DEF below
  <2>5. /\ DOMAIN got = 1 .. n /\ Len(got) = n
        /\ \A i \in 1 .. n : got[i] \in below
    BY <2>0, <2>4
  <2>6. checkpoint # Absent =>
          checkpoint \in Chain /\ stored \subseteq Emitted[checkpoint] /\ stored \subseteq Key
    BY <1>1, PagesAssumption DEF TableOK
  <2>7. ASSUME checkpoint = Absent PROVE got = << >> /\ next = Absent /\ stored = {}
    <3>1. below = {} /\ stored = {}
      BY <1>1, <2>4, <2>7 DEF TableOK
    <3>2. n = 0
      BY <2>4, <2>5, <3>1
    <3>3. Range(got) = {} /\ got = << >>
      BY <2>0, <2>5, <3>2 DEF Range
    <3> QED
      BY <2>2, <3>1, <3>3
  <2>8. ASSUME checkpoint # Absent
        PROVE  ListOf(got, checkpoint) /\ CursorOf(got, next, checkpoint)
    <3>1. got \in Seq(Key)
      <4>1. got \in [1 .. n -> Key]
        BY <2>0, <2>4, <2>6, <2>8
      <4> QED
        BY <2>4, <4>1
    <3>2. \A i \in DOMAIN got : got[i] \in Emitted[checkpoint]
      BY <2>4, <2>5, <2>6, <2>8
    <3>3. ListOf(got, checkpoint)
      BY <2>1, <3>1, <3>2 DEF IsPage, ListOf
    <3>4. ASSUME next # Absent PROVE got # << >>
      <4>1. PICK k \in below : k \notin Range(got)
        BY <2>2, <2>5, <3>4 DEF Range
      <4>2. Len(got) = Limit
        BY <2>1, <4>1 DEF IsPage
      <4> QED
        BY <2>5, <4>2, PagesAssumption
    <3>5. next # Absent => next.checkpoint = checkpoint /\ next.key = Last(got)
      BY <2>2
    <3> QED
      BY <3>3, <3>4, <3>5 DEF CursorOf
  <2>9. Reaches(got, next, below)
    <3>1. SUFFICES ASSUME NEW k \in below, \A i \in DOMAIN got : got[i] # k
                   PROVE  next # Absent /\ k < Last(got)
      BY DEF Reaches
    <3>2. k \notin Range(got)
      BY <3>1 DEF Range
    <3>3. k < Last(got) /\ Len(got) = Limit
      BY <2>1, <3>2 DEF IsPage
    <3>4. next = [checkpoint |-> checkpoint, key |-> Last(got)]
      BY <2>2, <3>2
    <3>5. checkpoint \in Chain /\ Last(got) \in Key
      <4>1. checkpoint # Absent
        BY <2>4, <2>7
      <4>2. n \in 1 .. n /\ Last(got) = got[n]
        BY <2>4, <2>5, <3>3, PagesAssumption DEF Last
      <4> QED
        BY <2>4, <2>5, <2>6, <4>1, <4>2
    <3>6. next # Absent
      BY <3>4, <3>5, PagesAssumption
    <3> QED
      BY <3>3, <3>6
  <2>10. CASE cursor = Absent
    <3>1. below = stored /\ steady' = stored
      BY <1>1, <2>10 DEF below
    <3>2. Reaches(got, next, steady')
      BY <2>9, <3>1
    <3>3. PageOK(request', list, steady')
      <4>1. PICK r : r = request'
        OBVIOUS
      <4>2. /\ r.cursor = cursor /\ r.of = checkpoint /\ r.events = got /\ r.next = next
        BY <2>3, <4>1
      <4>3. r.of = Absent => r.events = << >> /\ r.next = Absent
        BY <2>7, <4>2
      <4>4. r.of # Absent =>
              r.of \in Chain /\ ListOf(r.events, r.of) /\ CursorOf(r.events, r.next, r.of)
        BY <2>6, <2>8, <4>2
      <4>5. PageOK(r, list, steady')
        BY <2>10, <3>2, <4>2, <4>3, <4>4 DEF PageOK
      <4> QED
        BY <4>1, <4>5
    <3> QED
      BY <1>1, <1>2, <1>3, <2>3, <2>10, <3>3 DEF HistoryInv, RequestOK
  <2>11. CASE cursor # Absent
    <3>1. steady' = steady /\ list.of # Absent /\ cursor = list.cursor
      BY <1>1, <1>2, <2>11
    <3>2. list.of = checkpoint
      <4>1. cursor.checkpoint = checkpoint
        BY <1>5, <2>11 DEF Current
      <4> QED
        BY <1>1, <2>11, <3>1, <4>1 DEF ListOK, CursorOf
    <3>3. {k \in steady : k < cursor.key} \subseteq below
      BY <1>1 DEF below, TableOK
    <3>4. Reaches(got, next, {k \in steady : k < cursor.key})
      BY <2>9, <3>3, ReachesLess
    <3>5. \A i \in DOMAIN got : got[i] < cursor.key
      BY <2>4, <2>5, <2>11
    <3>6. PageOK(request', list, steady')
      <4>1. PICK r : r = request'
        OBVIOUS
      <4>2. /\ r.cursor = cursor /\ r.of = checkpoint /\ r.events = got /\ r.next = next
        BY <2>3, <4>1
      <4>3. r.of = Absent => r.events = << >> /\ r.next = Absent
        BY <2>7, <4>2
      <4>4. r.of # Absent =>
              r.of \in Chain /\ ListOf(r.events, r.of) /\ CursorOf(r.events, r.next, r.of)
        BY <2>6, <2>8, <4>2
      <4>5. PageOK(r, list, steady')
        BY <2>11, <3>1, <3>2, <3>4, <3>5, <4>2, <4>3, <4>4 DEF PageOK
      <4> QED
        BY <4>1, <4>5
    <3> QED
      BY <1>1, <1>2, <1>3, <2>3, <2>11, <3>6 DEF HistoryInv, RequestOK
  <2> QED
    BY <2>10, <2>11
<1> QED
  BY <1>4, <1>5

LEMMA ShowPageKeeps ==
  ASSUME HistoryInv, ShowPage
  PROVE  HistoryInv'
<1>1. /\ request.phase = "page" /\ request' = NoRequestYet
      /\ UNCHANGED <<checkpoint, stored, steady>>
      /\ TableOK(checkpoint, stored, steady) /\ ListOK(list, steady)
      /\ PageOK(request, list, steady)
      /\ request.cursor = Absent => list.of = Absent
      /\ request.cursor # Absent => list.of # Absent /\ request.cursor = list.cursor
  BY DEF HistoryInv, RequestOK, ShowPage
<1>2. RequestOK(request', list', steady')
  BY <1>1 DEF RequestOK, NoRequestYet
<1>3. ListOK(list', steady)
  <2>1. CASE request.cursor = Absent
    <3>1. /\ list'.facts = request.events /\ list'.cursor = request.next
          /\ list'.of = request.of
      BY <2>1 DEF ShowPage
    <3> QED
      BY <1>1, <2>1, <3>1 DEF PageOK, ListOK
  <2>2. CASE request.cursor # Absent
    <3>1. /\ list'.facts = Appended(list.facts, request.events)
          /\ list'.cursor = request.next /\ list'.of = list.of
      BY <2>2 DEF ShowPage
    <3>2. /\ list.of \in Chain /\ list.of # Absent /\ request.of = list.of
          /\ list.cursor # Absent /\ request.cursor = list.cursor
          /\ ListOf(list.facts, list.of) /\ CursorOf(list.facts, list.cursor, list.of)
          /\ Reaches(list.facts, list.cursor, steady)
          /\ ListOf(request.events, list.of) /\ CursorOf(request.events, request.next, list.of)
          /\ \A i \in DOMAIN request.events : request.events[i] < list.cursor.key
          /\ Reaches(request.events, request.next, {k \in steady : k < list.cursor.key})
      BY <1>1, <2>2 DEF ListOK, PageOK
    <3>3. /\ ListOf(list'.facts, list.of) /\ CursorOf(list'.facts, request.next, list.of)
          /\ Reaches(list'.facts, request.next, steady)
      BY <3>1, <3>2, ListGrows
    <3> QED
      BY <3>1, <3>2, <3>3 DEF ListOK
  <2> QED
    BY <2>1, <2>2
<1> QED
  BY <1>1, <1>2, <1>3 DEF HistoryInv

LEMMA HistoryInvInit == HistoryInit => HistoryInv
BY DEF HistoryInit, HistoryInv, TableOK, ListOK, RequestOK, NewList, NoRequestYet

LEMMA IndexerKeeps ==
  ASSUME HistoryInv, NEW c \in Chain, NEW events \in SUBSET Emitted[c],
         IndexerMoves(c, events)
  PROVE  HistoryInv'
<1>1. /\ checkpoint' = c /\ stored' = events /\ steady' = steady \cap events
      /\ list' = list /\ request' = request
  BY DEF IndexerMoves
<1>2. TableOK(checkpoint', stored', steady')
  BY <1>1, PagesAssumption DEF TableOK
<1>3. ListOK(list, steady \cap events) /\ RequestOK(request, list, steady \cap events)
  BY ListLess, RequestLess DEF HistoryInv
<1> QED
  BY <1>1, <1>2, <1>3 DEF HistoryInv

\* The steps of the page that start a list, or end one.
LEMMA PageKeeps ==
  ASSUME HistoryInv, LoadFirst \/ LoadMore \/ Unmounted \/ StartAgain \/ RequestFails
  PROVE  HistoryInv'
<1>1. UNCHANGED <<checkpoint, stored, steady>>
  BY DEF LoadFirst, LoadMore, Unmounted, StartAgain, RequestFails
<1>2. TableOK(checkpoint', stored', steady')
  BY <1>1 DEF HistoryInv
<1>3. CASE LoadMore
  <2>1. /\ request' = [phase |-> "sent", cursor |-> list.cursor] /\ list.cursor # Absent
        /\ list' = [list EXCEPT !.status = "loading"]
    BY <1>3 DEF LoadMore, Ask
  <2>2. /\ list.of # Absent /\ list.of \in Chain
        /\ ListOf(list.facts, list.of) /\ CursorOf(list.facts, list.cursor, list.of)
        /\ Reaches(list.facts, list.cursor, steady)
    BY <2>1 DEF HistoryInv, ListOK
  <2>3. list'.of = list.of /\ list'.facts = list.facts /\ list'.cursor = list.cursor
    BY <2>1
  <2>4. ListOK(list', steady')
    BY <1>1, <2>2, <2>3 DEF ListOK
  <2>5. RequestOK(request', list', steady')
    BY <2>1, <2>2, <2>3 DEF RequestOK
  <2> QED
    BY <1>2, <2>4, <2>5 DEF HistoryInv
<1>4. CASE LoadFirst \/ Unmounted \/ StartAgain \/ RequestFails
  <2>1. \E verdict : list' = EmptyList(verdict)
    <3>1. NewList = EmptyList("idle")
      BY DEF NewList, EmptyList
    <3> QED
      BY <1>4, <3>1 DEF LoadFirst, Unmounted, StartAgain, RequestFails
  <2>2. list'.of = Absent /\ ListOK(list', steady')
    BY <2>1, EmptyIsOK
  <2>3. \/ request' = [phase |-> "sent", cursor |-> Absent]
        \/ request' = NoRequestYet
    BY <1>4 DEF LoadFirst, Unmounted, StartAgain, RequestFails, Ask
  <2>4. RequestOK(request', list', steady')
    BY <2>2, <2>3 DEF RequestOK, NoRequestYet
  <2> QED
    BY <1>2, <2>2, <2>4 DEF HistoryInv
<1> QED
  BY <1>3, <1>4

LEMMA HistoryInvStep ==
  ASSUME HistoryInv, [HistoryNext]_historyVars
  PROVE  HistoryInv'
<1>1. CASE \E c \in Chain : \E events \in SUBSET Emitted[c] : IndexerMoves(c, events)
  BY <1>1, IndexerKeeps
<1>2. CASE LoadFirst \/ LoadMore \/ Unmounted \/ StartAgain \/ RequestFails
  BY <1>2, PageKeeps
<1>3. CASE Serve
  BY <1>3, ServeKeeps
<1>4. CASE ShowPage
  BY <1>4, ShowPageKeeps
<1>5. CASE UNCHANGED historyVars
  BY <1>5 DEF historyVars, HistoryInv
<1> QED
  BY <1>1, <1>2, <1>3, <1>4, <1>5 DEF HistoryNext

LEMMA ListFollows == HistoryInv => ListFollowsTable
BY DEF HistoryInv, ListOK, ListOf, Reaches, ListFollowsTable

\* However the indexer moves between the pages of a list: the list is of one
\* chain, newest first, and an event that stays in the table is on it, or below
\* its end while there is a page to ask for.
THEOREM ListKeepsUp == HistorySpec => []ListFollowsTable
BY HistoryInvInit, HistoryInvStep, ListFollows, PTL DEF HistorySpec

----------------------------------------------------------------------------
(* The server's statement that the release is the reviewed one. *)

\* The round that asks for a part which may change.
RoundOf(p) == IF p = "implementation" THEN 2 ELSE 4

\* The answer to p is in.
Asked(x, p) ==
  x.round > RoundOf(p) \/ (x.round = RoundOf(p) /\ p \notin x.left \ x.body)

StoodAt(p, time) == StoodUntil(p) >= time

Fields == {"round", "left", "body", "asked", "sound", "observedAt"}

\* What has been answered well so far stood when the probe began, or later.
ProbeOK(x) ==
  \/ x = NoProbe
  \/ /\ DOMAIN x = Fields
     /\ x.round \in 1 .. 8 /\ x.observedAt \in Nat /\ x.observedAt <= instant
     /\ x.left \subseteq Rounds[x.round] /\ x.body \subseteq x.left
     /\ x.sound => \A p \in Changing : Asked(x, p) => StoodAt(p, x.observedAt)

ResultOK(r) ==
  /\ r.at \in Nat /\ r.at <= instant
  /\ r.observedAt \in Nat /\ r.observedAt <= instant
  /\ r.status = "verified" => \A p \in Changing : StoodAt(p, r.observedAt)

StatusInv ==
  /\ instant \in Nat
  /\ standing \subseteq Changing
  /\ DOMAIN lost = Changing /\ \A p \in Changing : lost[p] \in Nat /\ lost[p] <= instant
  /\ ProbeOK(probe) /\ ResultOK(cached) /\ ResultOK(served.result)
  /\ served.at \in Nat
  /\ served.at = served.result.at \/ served.at - served.result.at < Ttl

LEMMA RoundsOfChanging ==
  /\ Len(Rounds) = 8
  /\ \A p \in Changing, i \in 1 .. 8 : p \in Rounds[i] => i = RoundOf(p)
  /\ \A p \in Changing : RoundOf(p) \in 2 .. 7 /\ p \in Rounds[RoundOf(p)]
<1>1. /\ Len(Rounds) = 8
      /\ Rounds[1] = {"chain"} /\ Rounds[2] = {"implementation", "admin", "proxy"}
      /\ Rounds[3] = {"implementation code", "admin code"}
      /\ Rounds[4] = {"timelock", "owner"} /\ Rounds[5] = {"paused"}
      /\ Rounds[6] = {"capacity"} /\ Rounds[7] = {"job"} /\ Rounds[8] = {"completion"}
  BY DEF Rounds
<1>2. ASSUME NEW p \in Changing, NEW i \in 1 .. 8, p \in Rounds[i] PROVE i = RoundOf(p)
  <2>1. p \in {"implementation", "timelock", "owner"}
    BY StatusAssumption
  <2>2. i \in {1, 2, 3, 4, 5, 6, 7, 8}
    OBVIOUS
  <2> QED
    BY <1>1, <1>2, <2>1, <2>2 DEF RoundOf
<1>3. ASSUME NEW p \in Changing PROVE RoundOf(p) \in 2 .. 7 /\ p \in Rounds[RoundOf(p)]
  <2>1. p \in {"implementation", "timelock", "owner"}
    BY StatusAssumption
  <2>2. CASE p = "implementation"
    <3>1. RoundOf(p) = 2
      BY <2>2 DEF RoundOf
    <3>2. p \in Rounds[2]
      BY <1>1, <2>2
    <3> QED
      BY <3>1, <3>2
  <2>3. CASE p # "implementation"
    <3>1. RoundOf(p) = 4
      BY <2>3 DEF RoundOf
    <3>2. p \in {"timelock", "owner"}
      BY <2>1, <2>3
    <3>3. p \in Rounds[4]
      BY <1>1, <3>2
    <3> QED
      BY <3>1, <3>3
  <2> QED
    BY <2>2, <2>3
<1> QED
  BY <1>1, <1>2, <1>3

LEMMA StatusStart == StatusInit => StatusInv
<1> SUFFICES ASSUME StatusInit PROVE StatusInv
  OBVIOUS
<1>1. ResultOK(NoResult)
  BY DEF StatusInit, ResultOK, NoResult
<1>2. ProbeOK(NoProbe)
  BY DEF ProbeOK
<1>3. /\ NotServed.result = NoResult /\ NotServed.at = NoResult.at /\ NotServed.at \in Nat
  BY DEF NotServed, NoResult
<1> QED
  BY <1>1, <1>2, <1>3 DEF StatusInit, StatusInv

\* What stood at a time counts as standing then for ever.
LEMMA TimesStay ==
  ASSUME StatusInv,
         \/ UNCHANGED <<standing, lost>> /\ instant' \in {instant, instant + 1}
         \/ \E q \in Changing : Changes(q),
         NEW p \in Changing, NEW time \in Nat, time <= instant, StoodAt(p, time)
  PROVE  StoodAt(p, time)'
BY DEF StatusInv, StoodAt, StoodUntil, Changes

LEMMA ResultStays ==
  ASSUME StatusInv,
         \/ UNCHANGED <<standing, lost>> /\ instant' \in {instant, instant + 1}
         \/ \E q \in Changing : Changes(q),
         NEW r, ResultOK(r)
  PROVE  ResultOK(r)'
<1>1. instant' \in Nat /\ instant' >= instant
  BY DEF StatusInv, Changes
<1>2. ASSUME r.status = "verified", NEW p \in Changing PROVE StoodAt(p, r.observedAt)'
  <2>1. StoodAt(p, r.observedAt) /\ r.observedAt \in Nat /\ r.observedAt <= instant
    BY <1>2 DEF ResultOK
  <2> QED
    BY <2>1, TimesStay
<1> QED
  BY <1>1, <1>2 DEF ResultOK, StatusInv

LEMMA ProbeStays ==
  ASSUME StatusInv,
         \/ UNCHANGED <<standing, lost>> /\ instant' \in {instant, instant + 1}
         \/ \E q \in Changing : Changes(q),
         NEW x, ProbeOK(x)
  PROVE  ProbeOK(x)'
<1>1. instant' \in Nat /\ instant' >= instant
  BY DEF StatusInv, Changes
<1>2. CASE x = NoProbe
  BY <1>2 DEF ProbeOK
<1>3. CASE x # NoProbe
  <2>1. ASSUME x.sound, NEW p \in Changing, Asked(x, p) PROVE StoodAt(p, x.observedAt)'
    <3>1. StoodAt(p, x.observedAt) /\ x.observedAt \in Nat /\ x.observedAt <= instant
      BY <1>3, <2>1 DEF ProbeOK
    <3> QED
      BY <3>1, TimesStay
  <2> QED
    BY <1>1, <1>3, <2>1 DEF ProbeOK, StatusInv
<1> QED
  BY <1>2, <1>3

\* What a probe under way says is true of the moment at which it ends.
LEMMA SettledOK ==
  ASSUME StatusInv, probe # NoProbe, NEW verdict, Settle(verdict), UNCHANGED <<instant, releaseVars>>,
         verdict = "verified" =>
           probe.sound /\ \A p \in Changing : Asked(probe, p)
  PROVE  StatusInv'
<1>0. PICK r : r = Result(verdict)
  OBVIOUS
<1>1. /\ cached' = r /\ served' = [result |-> r, at |-> instant] /\ probe' = NoProbe
  BY <1>0 DEF Settle
<1>2. /\ r.status = verdict /\ r.observedAt = probe.observedAt /\ r.at = instant
  BY <1>0 DEF Result
<1>3. ProbeOK(probe) /\ instant \in Nat
  BY DEF StatusInv
<1>4. ResultOK(r)
  BY <1>2, <1>3 DEF ResultOK, ProbeOK
<1>5. ResultOK(r)'
  BY <1>4, ResultStays DEF releaseVars
<1>6. ProbeOK(NoProbe)'
  BY DEF ProbeOK
<1> QED
  BY <1>1, <1>2, <1>3, <1>5, <1>6 DEF StatusInv, releaseVars, ResultOK

LEMMA StatusStep == StatusInv /\ [StatusNext]_statusVars => StatusInv'
<1> SUFFICES ASSUME StatusInv, [StatusNext]_statusVars PROVE StatusInv'
  OBVIOUS
<1>0. /\ ProbeOK(probe) /\ ResultOK(cached) /\ ResultOK(served.result) /\ instant \in Nat
      /\ standing \subseteq Changing
      /\ DOMAIN lost = Changing /\ \A p \in Changing : lost[p] \in Nat /\ lost[p] <= instant
      /\ served.at \in Nat
      /\ served.at = served.result.at \/ served.at - served.result.at < Ttl
  BY DEF StatusInv
<1>1. ASSUME \/ StatusTick \/ (\E p \in Changing : Changes(p)) \/ UNCHANGED statusVars
      PROVE  StatusInv'
  <2>1. \/ UNCHANGED <<standing, lost>> /\ instant' \in {instant, instant + 1}
        \/ \E q \in Changing : Changes(q)
    BY <1>1 DEF StatusTick, releaseVars, statusVars
  <2>2. UNCHANGED <<probe, cached, served>>
    BY <1>1 DEF StatusTick, Changes, statusVars
  <2>3. ProbeOK(probe)' /\ ResultOK(cached)' /\ ResultOK(served.result)'
    <3>1. PICK x, r, q : x = probe /\ r = cached /\ q = served.result
      OBVIOUS
    <3>2. ProbeOK(x)' /\ ResultOK(r)' /\ ResultOK(q)'
      BY <1>0, <2>1, <3>1, ProbeStays, ResultStays
    <3> QED
      BY <2>2, <3>1, <3>2
  <2>4. /\ instant' \in Nat /\ instant' >= instant
        /\ standing' \subseteq Changing /\ DOMAIN lost' = Changing
        /\ \A p \in Changing : lost'[p] \in Nat /\ lost'[p] <= instant'
    BY <1>0, <2>1 DEF Changes
  <2> QED
    BY <1>0, <2>2, <2>3, <2>4 DEF StatusInv
\* A step of callers or of the probe: nothing changes, no time passes.
<1>2. ASSUME UNCHANGED <<instant, releaseVars, cached>>, NEW x, probe' = x, ProbeOK(x),
             \/ UNCHANGED served
             \/ Fresh /\ served' = [result |-> cached, at |-> instant]
      PROVE  StatusInv'
  <2>1. ProbeOK(x)'
    BY <1>2, ProbeStays DEF releaseVars
  <2>2. ResultOK(cached)' /\ ResultOK(served.result)'
    <3>1. PICK r, q : r = cached /\ q = served.result
      OBVIOUS
    <3>2. ResultOK(r)' /\ ResultOK(q)'
      BY <1>0, <1>2, <3>1, ResultStays DEF releaseVars
    <3> QED
      BY <1>2, <3>1, <3>2
  <2>3. /\ served'.at \in Nat
        /\ served'.at = served'.result.at \/ served'.at - served'.result.at < Ttl
    BY <1>0, <1>2 DEF Fresh
  <2> QED
    BY <1>0, <1>2, <2>1, <2>2, <2>3 DEF StatusInv, releaseVars
<1>3. ASSUME NEW c \in Caller, Call(c) PROVE StatusInv'
  <2>1. ProbeOK(Started)
    BY <1>0, RoundsOfChanging DEF ProbeOK, Started, Fields, Asked
  <2>2. probe' \in {probe, Started} /\ UNCHANGED <<instant, releaseVars, cached>>
    BY <1>3 DEF Call
  <2>3. UNCHANGED served \/ (Fresh /\ served' = [result |-> cached, at |-> instant])
    BY <1>3 DEF Call
  <2> QED
    BY <1>0, <1>2, <2>1, <2>2, <2>3
<1>4. ASSUME NEW p \in Part, ResponseBegins(p) PROVE StatusInv'
  <2>1. PICK sound \in Agrees(p) :
          probe' = [probe EXCEPT !.body = @ \cup {p}, !.sound = @ /\ sound]
    BY <1>4 DEF ResponseBegins
  <2> DEFINE x == [probe EXCEPT !.body = @ \cup {p}, !.sound = @ /\ sound]
  <2>2. probe # NoProbe /\ p \in probe.left
    BY <1>4 DEF ResponseBegins, NoProbe
  <2>3. /\ DOMAIN x = Fields /\ x.round = probe.round /\ x.observedAt = probe.observedAt
        /\ x.left = probe.left /\ x.body = probe.body \cup {p}
        /\ x.sound => probe.sound /\ sound
    BY <1>0, <2>2 DEF ProbeOK, Fields
  <2>4. ASSUME p \in Changing, sound PROVE p \in standing
    BY <2>1, <2>4 DEF Agrees
  <2> HIDE DEF x
  <2>5. ASSUME x.sound, NEW q \in Changing, Asked(x, q) PROVE StoodAt(q, x.observedAt)
    <3>1. CASE q = p
      BY <1>0, <2>2, <2>3, <2>4, <2>5, <3>1 DEF StoodAt, StoodUntil, ProbeOK
    <3>2. CASE q # p
      <4>1. Asked(probe, q)
        BY <2>3, <2>5, <3>2 DEF Asked
      <4> QED
        BY <1>0, <2>2, <2>3, <2>5, <4>1 DEF ProbeOK
    <3> QED
      BY <3>1, <3>2
  <2>6. ProbeOK(x)
    BY <1>0, <2>2, <2>3, <2>5 DEF ProbeOK
  <2> QED
    BY <1>2, <1>4, <2>1, <2>6 DEF ResponseBegins, x
<1>5. ASSUME NEW p \in Part, ResponseEnds(p) PROVE StatusInv'
  <2>1. probe # NoProbe /\ p \in probe.body /\ p \in probe.left /\ p \in Rounds[probe.round]
    BY <1>0, <1>5 DEF ResponseEnds, NoProbe, ProbeOK
  <2>2. CASE probe.left # {p}
    <3> DEFINE x == [probe EXCEPT !.left = @ \ {p}, !.body = @ \ {p}]
    <3>1. /\ DOMAIN x = Fields /\ x.round = probe.round /\ x.observedAt = probe.observedAt
          /\ x.left = probe.left \ {p} /\ x.body = probe.body \ {p} /\ x.sound = probe.sound
      BY <1>0, <2>1 DEF ProbeOK, Fields
    <3> HIDE DEF x
    <3>2. \A q \in Changing : Asked(x, q) => Asked(probe, q)
      BY <2>1, <3>1 DEF Asked
    <3>3. ProbeOK(x)
      BY <1>0, <2>1, <3>1, <3>2 DEF ProbeOK
    <3>4. probe' = x /\ UNCHANGED <<instant, releaseVars, cached, served>>
      BY <1>5, <2>2 DEF ResponseEnds, x
    <3> QED
      BY <1>2, <3>3, <3>4
  <2>3. CASE probe.left = {p} /\ probe.round < Len(Rounds)
    <3>1. /\ DOMAIN NextRound = Fields /\ NextRound.round = probe.round + 1
          /\ NextRound.left = Rounds[probe.round + 1] /\ NextRound.body = {}
          /\ NextRound.sound = probe.sound /\ NextRound.observedAt = probe.observedAt
      BY <1>0, <2>1 DEF NextRound, ProbeOK, Fields
    <3>2. \A q \in Changing : Asked(NextRound, q) => Asked(probe, q)
      BY <1>0, <2>1, <2>3, <3>1, RoundsOfChanging DEF Asked, ProbeOK
    <3>3. ProbeOK(NextRound)
      BY <1>0, <2>1, <2>3, <3>1, <3>2, RoundsOfChanging DEF ProbeOK
    <3>4. probe' = NextRound /\ UNCHANGED <<instant, releaseVars, cached, served>>
      BY <1>5, <2>3 DEF ResponseEnds
    <3> QED
      BY <1>2, <3>3, <3>4
  <2>4. CASE probe.left = {p} /\ ~(probe.round < Len(Rounds))
    <3> DEFINE verdict == IF probe.sound THEN "verified" ELSE "mismatched"
    <3>1. Settle(verdict) /\ UNCHANGED <<instant, releaseVars>>
      BY <1>5, <2>4 DEF ResponseEnds
    <3>2. \A q \in Changing : Asked(probe, q)
      BY <1>0, <2>1, <2>4, RoundsOfChanging DEF Asked, ProbeOK
    <3>3. verdict = "verified" => probe.sound
      OBVIOUS
    <3> HIDE DEF verdict
    <3> QED
      BY <2>1, <3>1, <3>2, <3>3, SettledOK
  <2> QED
    BY <2>2, <2>3, <2>4
<1>6. CASE RequestFailed
  <2>1. probe # NoProbe /\ Settle("failed") /\ UNCHANGED <<instant, releaseVars>>
    BY <1>6 DEF RequestFailed
  <2> QED
    BY <2>1, SettledOK
<1> QED
  BY <1>1, <1>3, <1>4, <1>5, <1>6 DEF StatusNext

\* What is served as verified was, part by part, so at the time it is said to
\* have been observed or later, and is younger than CACHE_TTL_MS: whatever
\* governance changes while the eight rounds of a probe are under way.
THEOREM StatusRecent == StatusSpec => []VerifiedIsRecent
<1>1. StatusInv => VerifiedIsRecent
  BY DEF StatusInv, ResultOK, StoodAt, VerifiedIsRecent
<1> QED
  BY <1>1, StatusStart, StatusStep, PTL DEF StatusSpec

----------------------------------------------------------------------------
(* Who may raid whom. *)

\* What is known of the raids, and of a policy that was accepted.
RaidInv ==
  /\ TypeOKRaid
  /\ policy.reciprocalPairRaidLimit \in Nat
  /\ policy.historyWindowMs >= policy.repeatRaidCooldownMs

LEMMA RaidInvInit == RaidInit => RaidInv
BY TriedPoliciesAssumption, FS_EmptySet DEF RaidInit, RaidInv, TypeOKRaid, Accepted

LEMMA RaidInvNext == RaidInv /\ [RaidNext]_raidVars => RaidInv'
<1> SUFFICES ASSUME RaidInv, [RaidNext]_raidVars PROVE RaidInv'
  OBVIOUS
<1> USE DEF RaidInv, TypeOKRaid
<1>1. CASE TimePasses
  BY <1>1 DEF TimePasses
<1>2. ASSUME NEW a \in Player, NEW t \in Player, RaidIsRecorded(a, t)
      PROVE  RaidInv'
  <2> DEFINE e == [id |-> Cardinality(raids) + 1, attackerId |-> a, targetId |-> t,
                   occurredAtMs |-> nowMs]
  <2>1. raids' = raids \cup {e} /\ e.occurredAtMs = nowMs
    BY <1>2 DEF RaidIsRecorded
  <2> HIDE DEF e
  <2>2. IsFiniteSet(raids')
    BY <2>1, FS_AddElement
  <2> QED BY <1>2, <2>1, <2>2 DEF RaidIsRecorded
<1>3. CASE UNCHANGED raidVars
  BY <1>3 DEF raidVars
<1> QED BY <1>1, <1>2, <1>3 DEF RaidNext

\* The policy in force is one that the server accepts, and raids are past, finitely
\* many, and between players: RaidInv.
THEOREM RaidInvariant == RaidSpec => []RaidInv
BY RaidInvInit, RaidInvNext, PTL DEF RaidSpec

\* For any accepted policy: who has raided a village within the cooldown may not raid
\* it, since the window of the history is as long as the cooldown at least.
THEOREM CooldownIsKept == RaidSpec => []CooldownHolds
<1>1. RaidInv => CooldownHolds
  <2> SUFFICES ASSUME RaidInv, NEW e \in raids,
                      e.occurredAtMs > nowMs - policy.repeatRaidCooldownMs
               PROVE  ~ Eligible(e.attackerId, e.targetId)
    BY DEF CooldownHolds
  <2>1. e.occurredAtMs >= nowMs - policy.historyWindowMs
    BY DEF RaidInv, TypeOKRaid
  <2>2. RepeatRaidCooldownApplies(e.attackerId, e.targetId)
    BY <2>1 DEF RepeatRaidCooldownApplies, Directed, InWindow
  <2> QED BY <2>2 DEF Eligible
<1> QED BY <1>1, RaidInvariant, PTL

\* A set of raids that contains another one has as many, at least.
LEMMA MoreRaids ==
  ASSUME NEW all, IsFiniteSet(all), NEW many \in SUBSET all, NEW few \in SUBSET many,
         NEW limit \in Nat, Cardinality(few) >= limit
  PROVE  Cardinality(many) >= limit
<1>1. IsFiniteSet(many)
  BY FS_Subset
<1>2. IsFiniteSet(few) /\ Cardinality(few) <= Cardinality(many)
  BY <1>1, FS_Subset
<1>3. Cardinality(few) \in Nat /\ Cardinality(many) \in Nat
  BY <1>1, <1>2, FS_CardinalityType
<1> QED BY <1>2, <1>3

\* Nothing changes but the raids and the time.
UnchangedWorld == UNCHANGED <<policy, strength, createdAt, available, eligibleTargetCount>>

\* Raids that leave the window leave a pair's.
LEMMA DirectedInWindow ==
  ASSUME NEW a, NEW t
  PROVE  /\ InWindow' \subseteq InWindow => Directed(a, t)' \subseteq Directed(a, t)
         /\ InWindow \subseteq InWindow' => Directed(a, t) \subseteq Directed(a, t)'
         /\ Directed(a, t) \subseteq raids
BY DEF Directed, InWindow

\* Each ground for a refusal ends by itself, and none begins.
LEMMA WaitingHelps ==
  ASSUME RaidInv, UnchangedWorld, UNCHANGED raids, nowMs' \in {nowMs, nowMs + 1},
         NEW a \in Player, NEW t \in Player, Eligible(a, t)
  PROVE  Eligible(a, t)'
<1>1. nowMs \in Nat /\ policy' = policy /\ raids' = raids /\ IsFiniteSet(raids)
      /\ policy.reciprocalPairRaidLimit \in Nat
  BY DEF RaidInv, TypeOKRaid, UnchangedWorld
<1>2. InWindow' \subseteq InWindow
  <2> SUFFICES ASSUME NEW e \in raids, e.occurredAtMs >= nowMs' - policy.historyWindowMs
               PROVE  e.occurredAtMs >= nowMs - policy.historyWindowMs
    BY <1>1 DEF InWindow
  <2> QED BY <1>1 DEF RaidInv, TypeOKRaid
<1>3. \A x, y : Directed(x, y)' \subseteq Directed(x, y) /\ Directed(x, y) \subseteq raids
  BY <1>2, DirectedInWindow
<1>4. ~ Protected(t)'
  <2>1. ~ (nowMs - createdAt[t] < policy.newPlayerProtectionMs)
    BY DEF Eligible, Protected
  <2>2. createdAt[t] \in Nat /\ policy.newPlayerProtectionMs \in Nat
    BY <1>1 DEF RaidInv, TypeOKRaid
  <2>3. ~ (nowMs' - createdAt[t] < policy.newPlayerProtectionMs)
    BY <1>1, <2>1, <2>2
  <2> QED BY <1>1, <2>3 DEF Protected, UnchangedWorld
<1>5. ~ RepeatRaidCooldownApplies(a, t)'
  <2> SUFFICES ASSUME NEW e \in Directed(a, t)',
                      e.occurredAtMs > nowMs' - policy.repeatRaidCooldownMs
               PROVE  FALSE
    BY <1>1 DEF RepeatRaidCooldownApplies
  <2>1. e \in Directed(a, t) /\ e \in raids
    BY <1>3
  <2>2. e.occurredAtMs > nowMs - policy.repeatRaidCooldownMs
    BY <1>1, <2>1 DEF RaidInv, TypeOKRaid
  <2> QED BY <2>1, <2>2 DEF Eligible, RepeatRaidCooldownApplies
<1>6. ~ ReciprocalPatternApplies(a, t)'
  <2> SUFFICES ASSUME ReciprocalPatternApplies(a, t)' PROVE FALSE
    OBVIOUS
  <2> DEFINE before == Directed(a, t) \cup Directed(t, a)
             after == Directed(a, t)' \cup Directed(t, a)'
  <2>1. Cardinality(after) >= policy.reciprocalPairRaidLimit
        /\ Directed(a, t)' # {} /\ Directed(t, a)' # {}
    BY <1>1 DEF ReciprocalPatternApplies
  <2>2. before \in SUBSET raids /\ after \in SUBSET before
    BY <1>3
  <2>3. Cardinality(before) >= policy.reciprocalPairRaidLimit
    <3> HIDE DEF before, after
    <3> QED BY <1>1, <2>1, <2>2, MoreRaids
  <2>4. Directed(a, t) # {} /\ Directed(t, a) # {}
    BY <1>3, <2>1
  <2> QED BY <2>3, <2>4 DEF Eligible, ReciprocalPatternApplies
<1> QED BY <1>1, <1>4, <1>5, <1>6
  DEF Eligible, StrengthPasses, FallbackApplies, UnchangedWorld

\* Each ground for a refusal stays, as raids are added.
LEMMA RaidsDeny ==
  ASSUME RaidInv, RaidInv', UnchangedWorld, raids \subseteq raids', UNCHANGED nowMs,
         NEW a \in Player, NEW t \in Player, Eligible(a, t)'
  PROVE  Eligible(a, t)
<1>1. policy' = policy /\ nowMs' = nowMs /\ IsFiniteSet(raids')
      /\ policy.reciprocalPairRaidLimit \in Nat
  BY DEF RaidInv, TypeOKRaid, UnchangedWorld
<1>2. InWindow \subseteq InWindow' /\ InWindow' \subseteq raids'
  BY <1>1 DEF InWindow
<1>3. \A x, y : Directed(x, y) \subseteq Directed(x, y)' /\ Directed(x, y)' \subseteq raids'
  BY <1>2, DirectedInWindow DEF Directed
<1>4. ~ Protected(t)
  BY <1>1 DEF Eligible, Protected, UnchangedWorld
<1>5. ~ RepeatRaidCooldownApplies(a, t)
  BY <1>1, <1>3 DEF Eligible, RepeatRaidCooldownApplies
<1>6. ~ ReciprocalPatternApplies(a, t)
  <2> SUFFICES ASSUME ReciprocalPatternApplies(a, t) PROVE FALSE
    OBVIOUS
  <2> DEFINE before == Directed(a, t) \cup Directed(t, a)
             after == Directed(a, t)' \cup Directed(t, a)'
  <2>1. Cardinality(before) >= policy.reciprocalPairRaidLimit
        /\ Directed(a, t) # {} /\ Directed(t, a) # {}
    BY DEF ReciprocalPatternApplies
  <2>2. after \in SUBSET raids' /\ before \in SUBSET after
    BY <1>3
  <2>3. Cardinality(after) >= policy.reciprocalPairRaidLimit
    <3> HIDE DEF before, after
    <3> QED BY <1>1, <2>1, <2>2, MoreRaids
  <2>4. Directed(a, t)' # {} /\ Directed(t, a)' # {}
    BY <1>3, <2>1
  <2> QED BY <1>1, <2>3, <2>4 DEF Eligible, ReciprocalPatternApplies
<1> QED BY <1>1, <1>4, <1>5, <1>6
  DEF Eligible, StrengthPasses, FallbackApplies, UnchangedWorld

LEMMA WorldIsGiven == [RaidNext]_raidVars => UnchangedWorld
BY DEF RaidNext, raidVars, TimePasses, RaidIsRecorded, UnchangedWorld

\* For any accepted policy: as time passes, nobody loses a right to raid, although
\* cooldown, protection and window end at three different boundaries.
THEOREM WaitingHelpsOnly == RaidSpec => WaitingOnlyHelps
<1> DEFINE Helps == nowMs < nowMs' /\ UNCHANGED raids =>
                      \A a, t \in Player : Eligible(a, t) => Eligible(a, t)'
<1>1. RaidInv /\ [RaidNext]_raidVars => Helps
  <2> SUFFICES ASSUME RaidInv, [RaidNext]_raidVars, UNCHANGED raids PROVE Helps
    OBVIOUS
  <2>1. nowMs' \in {nowMs, nowMs + 1}
    BY DEF RaidNext, raidVars, TimePasses, RaidIsRecorded
  <2> QED BY <2>1, WorldIsGiven, WaitingHelps
<1>2. RaidInv /\ [RaidNext]_raidVars => [Helps]_raidVars
  BY <1>1
<1>3. [][Helps]_raidVars => WaitingOnlyHelps
  BY PTL DEF WaitingOnlyHelps
<1> HIDE DEF Helps
<1> QED BY <1>2, <1>3, RaidInvariant, PTL DEF RaidSpec

\* For any accepted policy: a raid, of whomever on whomever, never gives a right to
\* raid to anyone.
THEOREM RaidsDenyOnly == RaidSpec => RaidsOnlyDeny
<1> DEFINE Denies == raids # raids' /\ raids \subseteq raids' /\ UNCHANGED nowMs =>
                       \A a, t \in Player : Eligible(a, t)' => Eligible(a, t)
<1>1. RaidInv /\ [RaidNext]_raidVars => Denies
  BY RaidInvNext, WorldIsGiven, RaidsDeny
<1>2. RaidInv /\ [RaidNext]_raidVars => [Denies]_raidVars
  BY <1>1
<1>3. [][Denies]_raidVars => RaidsOnlyDeny
  BY PTL DEF RaidsOnlyDeny
<1> HIDE DEF Denies
<1> QED BY <1>2, <1>3, RaidInvariant, PTL DEF RaidSpec

----------------------------------------------------------------------------
(* The appearance of a village. *)

\* A request on its way, with the answer once it is served.
AppearanceRequest ==
  [id : Nat, tab : Tab \cup {NoValue}, method : {"GET", "PUT"},
   value : Appearance \cup {NoValue, Unavailable}, served : BOOLEAN]

AppearanceTypeOK ==
  /\ savedAppearance \in Appearance \cup {NoValue}
  /\ shown \in [Tab -> Appearance]
  /\ status \in [Tab -> {"", "saved", "unavailable"}]
  /\ pending \in [Tab -> BOOLEAN]
  /\ running \in [Tab -> BOOLEAN]
  /\ requests \subseteq AppearanceRequest
  /\ made \in Nat
  /\ overtaken \subseteq Tab

\* What is made of a request is one.
LEMMA RequestMade ==
  ASSUME NEW n \in Nat, NEW t \in Tab, NEW m \in {"GET", "PUT"},
         NEW v \in Appearance \cup {NoValue}
  PROVE  [id |-> n, tab |-> t, method |-> m, value |-> v, served |-> FALSE]
           \in AppearanceRequest
BY DEF AppearanceRequest

LEMMA RequestLeft ==
  ASSUME NEW r \in AppearanceRequest
  PROVE  LET left == [r EXCEPT !.tab = NoValue]
         IN  /\ left \in AppearanceRequest
             /\ left.tab = NoValue /\ left.method = r.method
             /\ left.value = r.value /\ left.served = r.served
BY DEF AppearanceRequest

LEMMA RequestAnswered ==
  ASSUME NEW r \in AppearanceRequest, NEW v \in Appearance \cup {NoValue, Unavailable}
  PROVE  LET answered == [r EXCEPT !.served = TRUE, !.value = v]
         IN  /\ answered \in AppearanceRequest
             /\ answered.tab = r.tab /\ answered.method = r.method
             /\ answered.value = v /\ answered.served
BY DEF AppearanceRequest

\* The writes a tab waits for.
PutsOf(t) == {r \in requests : r.tab = t /\ r.method = "PUT"}

PutsAreOne ==
  \A t \in Tab :
    IF running[t] /\ pending[t] THEN \E r : PutsOf(t) = {r} ELSE PutsOf(t) = {}

\* What a write is to save, and what its answer says is saved.
PutsAreTrue ==
  /\ \A r \in requests : r.method = "PUT" =>
       /\ r.value \in Appearance \cup {Unavailable}
       /\ ~ r.served => r.value \in Appearance
  /\ \A t \in Tab : \A r \in PutsOf(t) :
       r.served /\ r.value # Unavailable /\ writer = t => savedAppearance = r.value

\* A tab that says "saved" is not waiting for an answer.
SavedIsQuiet == \A t \in Tab : status[t] = "saved" => ~ pending[t]

AppearanceInv ==
  AppearanceTypeOK /\ PutsAreOne /\ PutsAreTrue /\ SavedIsQuiet /\ SavedIsStored

LEMMA AppearanceInvInit == AppearanceInit => AppearanceInv
<1> SUFFICES ASSUME AppearanceInit PROVE AppearanceInv
  OBVIOUS
<1>1. AppearanceTypeOK
  BY AppearanceAssumption DEF AppearanceInit, AppearanceTypeOK
<1>2. \A t \in Tab : PutsOf(t) = {} /\ ~ running[t] /\ status[t] # "saved"
  BY DEF AppearanceInit, PutsOf
<1> QED BY <1>1, <1>2
  DEF AppearanceInit, AppearanceInv, PutsAreOne, PutsAreTrue, SavedIsQuiet, SavedIsStored

\* Requests are added, given up, answered by the server and taken off.
LEMMA PutsAfterSent ==
  ASSUME AppearanceTypeOK, NEW t \in Tab, NEW method \in {"GET", "PUT"},
         NEW value \in Appearance \cup {NoValue}, RequestSent(t, method, value)
  PROVE  \E new \in AppearanceRequest :
           /\ requests' = requests \cup {new} /\ made' \in Nat
           /\ new.method = method /\ new.value = value /\ new.tab = t /\ ~ new.served
           /\ \A u \in Tab : PutsOf(u)' = IF u = t /\ method = "PUT" THEN PutsOf(u) \cup {new}
                                           ELSE PutsOf(u)
<1> DEFINE new == [id |-> made, tab |-> t, method |-> method, value |-> value,
                   served |-> FALSE]
<1>1. new \in AppearanceRequest
  <2>1. made \in Nat
    BY DEF AppearanceTypeOK
  <2> QED BY <2>1, RequestMade
<1>2. requests' = requests \cup {new} /\ made' \in Nat
  <2>1. made' = made + 1 /\ made \in Nat
    BY DEF RequestSent, AppearanceTypeOK
  <2>2. requests' = requests \cup {new}
    BY DEF RequestSent
  <2> QED BY <2>1, <2>2
<1>3. new.method = method /\ new.value = value /\ new.tab = t /\ ~ new.served
  OBVIOUS
<1> HIDE DEF new
<1>4. \A u \in Tab : PutsOf(u)' = IF u = t /\ method = "PUT" THEN PutsOf(u) \cup {new}
                                  ELSE PutsOf(u)
  BY <1>2, <1>3 DEF PutsOf
<1> QED BY <1>1, <1>2, <1>3, <1>4

\* A tab that gives requests up has none of them left; a write goes on without it.
LEMMA PutsAfterGivenUp ==
  ASSUME AppearanceTypeOK, NEW given \in SUBSET requests, requests' = GivenUp(given)
  PROVE  /\ requests' \subseteq AppearanceRequest
         /\ \A u \in Tab : PutsOf(u)' = PutsOf(u) \ given
         /\ \A q \in requests' : q \in requests
                                  \/ \E r \in given : /\ r.method = "PUT" /\ ~ r.served
                                                      /\ q.method = "PUT" /\ ~ q.served
                                                      /\ q.value = r.value
<1> DEFINE Left(r) == [r EXCEPT !.tab = NoValue]
<1>1. ASSUME NEW r \in given
      PROVE  /\ Left(r) \in AppearanceRequest
             /\ Left(r).tab = NoValue /\ Left(r).method = r.method
             /\ Left(r).value = r.value /\ Left(r).served = r.served
  <2>1. r \in AppearanceRequest
    BY DEF AppearanceTypeOK
  <2> QED BY <2>1, RequestLeft
<1>2. requests' = (requests \ given)
                     \cup {Left(r) : r \in {g \in given : g.method = "PUT" /\ ~ g.served}}
  BY DEF GivenUp
<1> HIDE DEF Left
<1>3. ASSUME NEW q \in requests', q \notin requests \ given
      PROVE  \E r \in given : r.method = "PUT" /\ ~ r.served /\ q = Left(r)
  BY <1>2, <1>3
<1>4. requests' \subseteq AppearanceRequest
  BY <1>1, <1>3 DEF AppearanceTypeOK
<1>5. ASSUME NEW u \in Tab PROVE PutsOf(u)' = PutsOf(u) \ given
  <2>1. u # NoValue
    BY AppearanceAssumption
  <2>2. \A q \in requests' : q.tab = u => q \in requests \ given
    BY <1>1, <1>3, <2>1
  <2>3. requests \ given \subseteq requests'
    BY <1>2
  <2> QED BY <2>2, <2>3 DEF PutsOf
<1>6. ASSUME NEW q \in requests', q \notin requests
      PROVE  \E r \in given : /\ r.method = "PUT" /\ ~ r.served
                               /\ q.method = "PUT" /\ ~ q.served /\ q.value = r.value
  BY <1>1, <1>3, <1>6
<1> QED BY <1>4, <1>5, <1>6

\* An answer takes the place of the request, if a tab is still waiting for it.
LEMMA PutsAfterAnswers ==
  ASSUME AppearanceTypeOK, NEW r \in requests,
         NEW value \in Appearance \cup {NoValue, Unavailable}, Answers(r, value)
  PROVE  \E answered \in AppearanceRequest :
           /\ answered.method = r.method /\ answered.value = value /\ answered.tab = r.tab
           /\ answered.served
           /\ requests' = (requests \ {r})
                            \cup (IF r.tab = NoValue THEN {} ELSE {answered})
           /\ \A u \in Tab : PutsOf(u)' = IF r \in PutsOf(u)
                                          THEN (PutsOf(u) \ {r}) \cup {answered}
                                          ELSE PutsOf(u)
<1> DEFINE answered == [r EXCEPT !.served = TRUE, !.value = value]
<1>1. /\ answered \in AppearanceRequest
      /\ answered.method = r.method /\ answered.value = value /\ answered.tab = r.tab
      /\ answered.served
  BY RequestAnswered DEF AppearanceTypeOK
<1>2. requests' = (requests \ {r}) \cup (IF r.tab = NoValue THEN {} ELSE {answered})
  BY DEF Answers
<1> HIDE DEF answered
<1>3. ASSUME NEW u \in Tab
      PROVE  PutsOf(u)' = IF r \in PutsOf(u) THEN (PutsOf(u) \ {r}) \cup {answered}
                          ELSE PutsOf(u)
  <2>1. u # NoValue
    BY AppearanceAssumption
  <2> QED BY <1>1, <1>2, <2>1 DEF PutsOf
<1> QED BY <1>1, <1>2, <1>3

\* Nothing that a tab does by itself, or an answer to a read, touches the writes.
LEMMA PutsAfterRemoved ==
  ASSUME AppearanceTypeOK, NEW r \in requests, requests' = requests \ {r}
  PROVE  /\ requests' \subseteq AppearanceRequest
         /\ \A u \in Tab : PutsOf(u)' = PutsOf(u) \ {r}
BY DEF PutsOf, AppearanceTypeOK

LEMMA RequestHasTab ==
  ASSUME AppearanceTypeOK, NEW r \in requests, r.tab # NoValue
  PROVE  r.tab \in Tab /\ (r.method = "PUT" => r \in PutsOf(r.tab))
BY DEF AppearanceTypeOK, AppearanceRequest, PutsOf

\* Every request was there, is a write that was there and is given up, or is new.
NoAnswers ==
  /\ \A q \in requests' : \/ q \in requests
                          \/ q.method # "PUT"
                          \/ q.method = "PUT" /\ ~ q.served /\ q.value \in Appearance
  /\ \A u \in Tab : \A q \in PutsOf(u)' : q \in PutsOf(u) \/ ~ q.served

LEMMA PutsStayTrue ==
  PutsAreTrue /\ NoAnswers /\ UNCHANGED <<savedAppearance, writer>> => PutsAreTrue'
BY DEF PutsAreTrue, NoAnswers

\* The actions of the tabs first, then those of the server.
LEMMA AppearanceInvNext == AppearanceInv /\ [AppearanceNext]_appearanceVars => AppearanceInv'
<1> SUFFICES ASSUME AppearanceInv, [AppearanceNext]_appearanceVars PROVE AppearanceInv'
  OBVIOUS
<1>0. AppearanceTypeOK /\ PutsAreOne /\ PutsAreTrue /\ SavedIsQuiet /\ SavedIsStored
  BY DEF AppearanceInv
<1>a. Default \in Appearance /\ NoValue \notin Appearance /\ NoValue \notin Tab
  BY AppearanceAssumption
<1>1. ASSUME NEW t \in Tab, StartTab(t) PROVE AppearanceInv'
  <2>1. PICK new \in AppearanceRequest :
          /\ requests' = requests \cup {new} /\ made' \in Nat
          /\ new.method = "GET" /\ new.value = NoValue /\ new.tab = t /\ ~ new.served
          /\ \A u \in Tab : PutsOf(u)' = PutsOf(u)
    <3>1. RequestSent(t, "GET", NoValue)
      BY <1>1 DEF StartTab
    <3> QED BY <1>0, <3>1, PutsAfterSent
  <2>2. ~ running[t] /\ UNCHANGED <<savedAppearance, writer>>
        /\ running' = [running EXCEPT ![t] = TRUE] /\ shown' = [shown EXCEPT ![t] = Default]
        /\ status' = [status EXCEPT ![t] = ""] /\ pending' = [pending EXCEPT ![t] = FALSE]
        /\ overtaken' = overtaken \ {t}
    BY <1>1 DEF StartTab
  <2>3. AppearanceTypeOK'
    BY <1>0, <1>a, <2>1, <2>2 DEF AppearanceTypeOK
  <2>4. PutsAreOne'
    BY <1>0, <2>1, <2>2 DEF AppearanceTypeOK, PutsAreOne
  <2>5. PutsAreTrue'
    <3>1. NoAnswers
      BY <2>1 DEF NoAnswers
    <3> QED BY <1>0, <2>2, <3>1, PutsStayTrue
  <2>6. SavedIsQuiet' /\ SavedIsStored'
    BY <1>0, <2>2 DEF AppearanceTypeOK, SavedIsQuiet, SavedIsStored
  <2> QED BY <2>3, <2>4, <2>5, <2>6 DEF AppearanceInv
<1>2. ASSUME NEW t \in Tab, StopTab(t) PROVE AppearanceInv'
  <2> DEFINE given == {r \in requests : r.tab = t}
  <2>1. /\ requests' = GivenUp(given) /\ UNCHANGED <<savedAppearance, writer, shown, pending, made,
                                                   overtaken>>
        /\ running' = [running EXCEPT ![t] = FALSE] /\ status' = [status EXCEPT ![t] = ""]
    BY <1>2 DEF StopTab
  <2>2. /\ requests' \subseteq AppearanceRequest
        /\ \A u \in Tab : PutsOf(u)' = PutsOf(u) \ given
        /\ \A q \in requests' : q \in requests
                                  \/ \E r \in given : /\ r.method = "PUT" /\ ~ r.served
                                                      /\ q.method = "PUT" /\ ~ q.served
                                                      /\ q.value = r.value
    BY <1>0, <2>1, PutsAfterGivenUp
  <2>3. AppearanceTypeOK'
    BY <1>0, <2>1, <2>2 DEF AppearanceTypeOK
  <2>4. \A u \in Tab : PutsOf(u)' = IF u = t THEN {} ELSE PutsOf(u)
    BY <2>2 DEF PutsOf
  <2>5. PutsAreOne'
    BY <1>0, <2>1, <2>4 DEF AppearanceTypeOK, PutsAreOne
  <2>6. PutsAreTrue'
    <3>1. NoAnswers
      BY <1>0, <2>2 DEF NoAnswers, PutsAreTrue
    <3> QED BY <1>0, <2>1, <3>1, PutsStayTrue
  <2>7. SavedIsQuiet' /\ SavedIsStored'
    BY <1>0, <2>1 DEF AppearanceTypeOK, SavedIsQuiet, SavedIsStored
  <2> QED BY <2>3, <2>5, <2>6, <2>7 DEF AppearanceInv
<1>3. ASSUME NEW t \in Tab, NEW appearance \in Appearance, ChangeAppearance(t, appearance)
      PROVE  AppearanceInv'
  <2>1. /\ UNCHANGED <<savedAppearance, writer, pending, running, requests, made, overtaken>>
        /\ shown' = [shown EXCEPT ![t] = appearance] /\ status' = [status EXCEPT ![t] = ""]
    BY <1>3 DEF ChangeAppearance
  <2>2. \A u : PutsOf(u)' = PutsOf(u)
    BY <2>1 DEF PutsOf
  <2> QED BY <1>0, <2>1, <2>2 DEF AppearanceInv, AppearanceTypeOK, PutsAreOne, PutsAreTrue,
             SavedIsQuiet, SavedIsStored
<1>4. ASSUME NEW t \in Tab, NEW appearance \in Appearance, Applies(t, appearance)
      PROVE  AppearanceInv'
  <2>1. PICK new \in AppearanceRequest :
          /\ requests' = requests \cup {new} /\ made' \in Nat
          /\ new.method = "PUT" /\ new.value = appearance /\ new.tab = t /\ ~ new.served
          /\ \A u \in Tab : PutsOf(u)' = IF u = t THEN PutsOf(u) \cup {new} ELSE PutsOf(u)
    <3>1. RequestSent(t, "PUT", appearance)
      BY <1>4 DEF Applies
    <3> QED BY <1>0, <3>1, PutsAfterSent
  <2>2. running[t] /\ ~ pending[t] /\ UNCHANGED <<savedAppearance, writer, running, overtaken>>
        /\ shown' = [shown EXCEPT ![t] = appearance]
        /\ status' = [status EXCEPT ![t] = ""] /\ pending' = [pending EXCEPT ![t] = TRUE]
    BY <1>4 DEF Applies, MayApply
  <2>3. AppearanceTypeOK'
    BY <1>0, <2>1, <2>2 DEF AppearanceTypeOK
  <2>4. PutsOf(t) = {}
    BY <1>0, <2>2 DEF PutsAreOne
  <2>5. PutsOf(t)' = {new}
    BY <2>1, <2>4
  <2>6. PutsAreOne'
    <3> SUFFICES ASSUME NEW u \in Tab
                 PROVE  IF running'[u] /\ pending'[u] THEN \E r : PutsOf(u)' = {r}
                        ELSE PutsOf(u)' = {}
      BY DEF PutsAreOne
    <3>1. CASE u = t
      BY <1>0, <2>2, <2>5, <3>1 DEF AppearanceTypeOK
    <3>2. CASE u # t
      BY <1>0, <2>1, <2>2, <3>2 DEF AppearanceTypeOK, PutsAreOne
    <3> QED BY <3>1, <3>2
  <2>7. PutsAreTrue'
    <3>1. NoAnswers
      BY <2>1 DEF NoAnswers
    <3> QED BY <1>0, <2>2, <3>1, PutsStayTrue
  <2>8. SavedIsQuiet' /\ SavedIsStored'
    BY <1>0, <2>2 DEF AppearanceTypeOK, SavedIsQuiet, SavedIsStored
  <2> QED BY <2>3, <2>6, <2>7, <2>8 DEF AppearanceInv
<1>5. ASSUME NEW t \in Tab, ResetAppearance(t) PROVE AppearanceInv'
  <2>1. CASE Applies(t, Default)
    BY <1>4, <1>a, <2>1
  <2>2. CASE ~ Applies(t, Default)
    <3>1. /\ running[t] /\ pending[t] /\ shown' = [shown EXCEPT ![t] = Default]
          /\ UNCHANGED <<savedAppearance, writer, status, pending, running, requests, made,
                         overtaken>>
      BY <1>5, <2>2 DEF ResetAppearance
    <3>2. \A u : PutsOf(u)' = PutsOf(u)
      BY <3>1 DEF PutsOf
    <3> QED BY <1>0, <1>a, <3>1, <3>2 DEF AppearanceInv, AppearanceTypeOK, PutsAreOne, PutsAreTrue,
               SavedIsQuiet, SavedIsStored
  <2> QED BY <2>1, <2>2
<1>6. ASSUME NEW t \in Tab, ApplyAppearance(t) PROVE AppearanceInv'
  BY <1>0, <1>4, <1>6 DEF ApplyAppearance, AppearanceTypeOK
<1>7. ASSUME NEW r \in requests, ReadAnswered(r) PROVE AppearanceInv'
  <2>1. /\ r.method = "GET" /\ r.tab \in Tab /\ requests' = requests \ {r}
        /\ UNCHANGED <<savedAppearance, writer, status, pending, running, made>>
        /\ shown' = [shown EXCEPT ![r.tab] = Resolved(r.value)]
        /\ overtaken' \subseteq overtaken \cup {r.tab} /\ overtaken \subseteq overtaken'
        /\ status[r.tab] = "saved" => r.tab \in overtaken'
    BY <1>0, <1>7, RequestHasTab DEF ReadAnswered
  <2>2. Resolved(r.value) \in Appearance
    BY <1>a DEF Resolved
  <2>3. requests' \subseteq AppearanceRequest /\ \A u \in Tab : PutsOf(u)' = PutsOf(u)
    BY <1>0, <2>1, PutsAfterRemoved DEF PutsOf
  <2>4. AppearanceTypeOK'
    BY <1>0, <2>1, <2>2, <2>3 DEF AppearanceTypeOK
  <2>5. PutsAreOne' /\ SavedIsQuiet'
    BY <1>0, <2>1, <2>3 DEF PutsAreOne, SavedIsQuiet
  <2>6. PutsAreTrue'
    <3>1. NoAnswers
      BY <2>1, <2>3 DEF NoAnswers
    <3> QED BY <1>0, <2>1, <3>1, PutsStayTrue
  <2>7. SavedIsStored'
    BY <1>0, <2>1 DEF AppearanceTypeOK, SavedIsStored
  <2> QED BY <2>4, <2>5, <2>6, <2>7 DEF AppearanceInv
<1>8. ASSUME NEW r \in requests, ApplyAnswered(r) PROVE AppearanceInv'
  <2> DEFINE t == r.tab
  <2>1. /\ r.method = "PUT" /\ r.served /\ t \in Tab /\ r \in PutsOf(t)
        /\ requests' = requests \ {r}
    BY <1>0, <1>8, RequestHasTab DEF ApplyAnswered
  <2>2. /\ UNCHANGED <<savedAppearance, writer, running, made, overtaken>>
        /\ shown' = [shown EXCEPT ![t] = Resolved(r.value)]
        /\ status' = [status EXCEPT ![t] = IF r.value = Unavailable THEN "unavailable"
                                           ELSE "saved"]
        /\ pending' = [pending EXCEPT ![t] = FALSE]
    BY <1>8 DEF ApplyAnswered
  <2>3. Resolved(r.value) \in Appearance /\ (r.value # Unavailable => Resolved(r.value) = r.value)
    BY <1>0, <1>a, <2>1 DEF Resolved, PutsAreTrue
  <2>4. requests' \subseteq AppearanceRequest /\ \A u \in Tab : PutsOf(u)' = PutsOf(u) \ {r}
    BY <1>0, <2>1, PutsAfterRemoved
  <2> HIDE DEF t
  <2>5. AppearanceTypeOK'
    BY <1>0, <2>1, <2>2, <2>3, <2>4 DEF AppearanceTypeOK
  <2>6. PutsOf(t)' = {} /\ \A u \in Tab : u # t => PutsOf(u)' = PutsOf(u)
    <3>1. \E q : PutsOf(t) = {q}
      BY <1>0, <2>1 DEF PutsAreOne
    <3>2. PutsOf(t)' = {}
      BY <2>1, <2>4, <3>1
    <3>3. \A u \in Tab : u # t => r \notin PutsOf(u)
      BY <2>1 DEF PutsOf
    <3> QED BY <2>4, <3>2, <3>3
  <2>7. PutsAreOne'
    BY <1>0, <2>1, <2>2, <2>6 DEF AppearanceTypeOK, PutsAreOne
  <2>8. PutsAreTrue'
    <3>1. NoAnswers
      BY <2>1, <2>4 DEF NoAnswers
    <3> QED BY <1>0, <2>2, <3>1, PutsStayTrue
  <2>9. SavedIsQuiet'
    BY <1>0, <2>1, <2>2 DEF AppearanceTypeOK, SavedIsQuiet
  <2>10. SavedIsStored'
    <3> SUFFICES ASSUME NEW u \in Tab, status'[u] = "saved", writer' = u, u \notin overtaken'
                 PROVE  savedAppearance' = shown'[u]
      BY DEF SavedIsStored
    <3>1. CASE u = t
      <4>1. r.value # Unavailable
        BY <1>0, <2>1, <2>2, <3>1 DEF AppearanceTypeOK
      <4>2. savedAppearance = r.value
        BY <1>0, <2>1, <2>2, <3>1, <4>1 DEF PutsAreTrue
      <4> QED BY <1>0, <2>1, <2>2, <2>3, <3>1, <4>1, <4>2 DEF AppearanceTypeOK
    <3>2. CASE u # t
      BY <1>0, <2>1, <2>2, <3>2 DEF AppearanceTypeOK, SavedIsStored
    <3> QED BY <3>1, <3>2
  <2> QED BY <2>5, <2>7, <2>8, <2>9, <2>10 DEF AppearanceInv
<1>9. ASSUME NEW r \in requests, RequestLost(r) PROVE AppearanceInv'
  <2> DEFINE t == r.tab
  <2>1. /\ t \in Tab /\ requests' = GivenUp({r}) /\ (r.method = "PUT" => r \in PutsOf(t))
        /\ UNCHANGED <<savedAppearance, writer, running, made>>
        /\ shown' = [shown EXCEPT ![t] = Default]
    BY <1>0, <1>9, RequestHasTab DEF RequestLost
  <2>2. /\ requests' \subseteq AppearanceRequest
        /\ \A u \in Tab : PutsOf(u)' = PutsOf(u) \ {r}
        /\ \A q \in requests' : q \in requests
                                  \/ \E s \in {r} : /\ s.method = "PUT" /\ ~ s.served
                                                    /\ q.method = "PUT" /\ ~ q.served
                                                    /\ q.value = s.value
    <3>1. {r} \in SUBSET requests
      OBVIOUS
    <3> DEFINE given == {r}
    <3> HIDE DEF given
    <3>2. given \in SUBSET requests /\ requests' = GivenUp(given)
      BY <2>1, <3>1 DEF given
    <3>3. /\ requests' \subseteq AppearanceRequest
          /\ \A u \in Tab : PutsOf(u)' = PutsOf(u) \ given
          /\ \A q \in requests' : q \in requests
                                    \/ \E s \in given : /\ s.method = "PUT" /\ ~ s.served
                                                        /\ q.method = "PUT" /\ ~ q.served
                                                        /\ q.value = s.value
      BY <1>0, <3>2, PutsAfterGivenUp
    <3> QED BY <3>3 DEF given
  <2>3. PutsAreTrue'
    <3>1. NoAnswers
      BY <1>0, <2>2 DEF NoAnswers, PutsAreTrue
    <3> QED BY <1>0, <2>1, <3>1, PutsStayTrue
  <2>4. CASE r.method = "PUT"
    <3>1. /\ status' = [status EXCEPT ![t] = "unavailable"]
          /\ pending' = [pending EXCEPT ![t] = FALSE] /\ overtaken' = overtaken
      BY <1>9, <2>4 DEF RequestLost
    <3>2. r \in PutsOf(t) /\ \A u \in Tab : u # t => r \notin PutsOf(u)
      BY <2>1, <2>4 DEF PutsOf
    <3> HIDE DEF t
    <3>3. \E q : PutsOf(t) = {q}
      BY <1>0, <2>1, <3>2 DEF PutsAreOne
    <3>4. PutsOf(t)' = {} /\ \A u \in Tab : u # t => PutsOf(u)' = PutsOf(u)
      BY <2>1, <2>2, <3>2, <3>3
    <3>5. AppearanceTypeOK'
      BY <1>0, <1>a, <2>1, <2>2, <3>1 DEF AppearanceTypeOK
    <3>6. PutsAreOne'
      BY <1>0, <2>1, <3>1, <3>4 DEF AppearanceTypeOK, PutsAreOne
    <3>7. SavedIsQuiet' /\ SavedIsStored'
      BY <1>0, <2>1, <3>1 DEF AppearanceTypeOK, SavedIsQuiet, SavedIsStored
    <3> QED BY <2>3, <3>5, <3>6, <3>7 DEF AppearanceInv
  <2>5. CASE r.method # "PUT"
    <3>1. /\ UNCHANGED <<status, pending>>
          /\ overtaken' \subseteq overtaken \cup {t} /\ overtaken \subseteq overtaken'
          /\ status[t] = "saved" => t \in overtaken'
      BY <1>9, <2>5 DEF RequestLost
    <3> HIDE DEF t
    <3>2. \A u \in Tab : PutsOf(u)' = PutsOf(u)
      BY <2>2, <2>5 DEF PutsOf
    <3>3. AppearanceTypeOK'
      BY <1>0, <1>a, <2>1, <2>2, <3>1 DEF AppearanceTypeOK
    <3>4. PutsAreOne' /\ SavedIsQuiet'
      BY <1>0, <2>1, <3>1, <3>2 DEF PutsAreOne, SavedIsQuiet
    <3>5. SavedIsStored'
      BY <1>0, <2>1, <3>1 DEF AppearanceTypeOK, SavedIsStored
    <3> QED BY <2>3, <3>3, <3>4, <3>5 DEF AppearanceInv
  <2> QED BY <2>4, <2>5
\* What the server answers to a read, or refuses.
<1>10. ASSUME NEW r \in requests, NEW value \in Appearance \cup {NoValue, Unavailable},
              ~ r.served, Answers(r, value),
              r.method = "GET" \/ value = Unavailable,
              UNCHANGED <<savedAppearance, writer, shown, status, pending, running, made,
                          overtaken>>
       PROVE  AppearanceInv'
  <2>1. PICK answered \in AppearanceRequest :
           /\ answered.method = r.method /\ answered.value = value /\ answered.tab = r.tab
           /\ answered.served
           /\ requests' = (requests \ {r})
                            \cup (IF r.tab = NoValue THEN {} ELSE {answered})
           /\ \A u \in Tab : PutsOf(u)' = IF r \in PutsOf(u)
                                          THEN (PutsOf(u) \ {r}) \cup {answered}
                                          ELSE PutsOf(u)
    BY <1>0, <1>10, PutsAfterAnswers
  <2>2. requests' \subseteq AppearanceRequest
    BY <1>0, <2>1 DEF AppearanceTypeOK
  <2>3. AppearanceTypeOK'
    BY <1>0, <1>10, <2>2 DEF AppearanceTypeOK
  <2>4. PutsAreOne'
    BY <1>0, <1>10, <2>1 DEF PutsAreOne
  <2>5. PutsAreTrue'
    <3>1. \A q \in requests' : q \in requests \/ q = answered
      BY <2>1
    <3>2. answered.method = "PUT" => answered.value = Unavailable
      BY <1>10, <2>1
    <3>3. \A u \in Tab : \A q \in PutsOf(u)' : q \in PutsOf(u) \/ q = answered
      BY <2>1
    <3>4. ASSUME NEW u \in Tab, NEW q \in PutsOf(u)',
                 q.served, q.value # Unavailable, writer' = u
          PROVE  savedAppearance' = q.value
      <4>1. q.method = "PUT"
        BY DEF PutsOf
      <4> QED BY <1>0, <1>10, <3>2, <3>3, <3>4, <4>1 DEF PutsAreTrue
    <3>5. ASSUME NEW q \in requests', q.method = "PUT"
          PROVE  /\ q.value \in Appearance \cup {Unavailable}
                 /\ ~ q.served => q.value \in Appearance
      BY <1>0, <2>1, <3>1, <3>2, <3>5 DEF PutsAreTrue
    <3> QED BY <3>4, <3>5 DEF PutsAreTrue, PutsOf
  <2>6. SavedIsQuiet' /\ SavedIsStored'
    BY <1>0, <1>10 DEF SavedIsQuiet, SavedIsStored
  <2> QED BY <2>3, <2>4, <2>5, <2>6 DEF AppearanceInv
<1>11. ASSUME NEW r \in requests, Reads(r) PROVE AppearanceInv'
  <2>1. (IF savedAppearance = NoValue THEN Default ELSE savedAppearance) \in Appearance
    BY <1>0, <1>a DEF AppearanceTypeOK
  <2> QED BY <1>10, <1>11, <2>1 DEF Reads
<1>12. ASSUME NEW r \in requests, Refuses(r) PROVE AppearanceInv'
  BY <1>10, <1>12 DEF Refuses
<1>13. ASSUME NEW r \in requests, Writes(r) PROVE AppearanceInv'
  <2>1. /\ r.method = "PUT" /\ ~ r.served
        /\ savedAppearance' = r.value /\ writer' = r.tab
        /\ UNCHANGED <<shown, status, pending, running, made, overtaken>>
    BY <1>13 DEF Writes, Saved
  <2>2. r.value \in Appearance
    BY <1>0, <2>1 DEF PutsAreTrue
  <2>3. PICK value \in {r.value, Unavailable} : Answers(r, value)
    BY <1>13 DEF Writes
  <2>4. PICK answered \in AppearanceRequest :
           /\ answered.method = r.method /\ answered.value = value /\ answered.tab = r.tab
           /\ answered.served
           /\ requests' = (requests \ {r})
                            \cup (IF r.tab = NoValue THEN {} ELSE {answered})
           /\ \A u \in Tab : PutsOf(u)' = IF r \in PutsOf(u)
                                          THEN (PutsOf(u) \ {r}) \cup {answered}
                                          ELSE PutsOf(u)
    BY <1>0, <2>2, <2>3, PutsAfterAnswers
  <2>5. AppearanceTypeOK'
    BY <1>0, <2>1, <2>2, <2>4 DEF AppearanceTypeOK
  <2>6. PutsAreOne'
    BY <1>0, <2>1, <2>4 DEF PutsAreOne
  <2>7. \A u \in Tab : u = r.tab => PutsOf(u) = {r} /\ PutsOf(u)' = {answered}
    <3> SUFFICES ASSUME NEW u \in Tab, u = r.tab
                 PROVE  PutsOf(u) = {r} /\ PutsOf(u)' = {answered}
      OBVIOUS
    <3>1. r \in PutsOf(u)
      BY <2>1 DEF PutsOf
    <3>2. PutsOf(u) = {r}
      BY <1>0, <3>1 DEF PutsAreOne
    <3> QED BY <2>4, <3>2
  <2>8. PutsAreTrue'
    <3>1. ASSUME NEW q \in requests', q.method = "PUT"
          PROVE  /\ q.value \in Appearance \cup {Unavailable}
                 /\ ~ q.served => q.value \in Appearance
      <4>1. q \in requests \/ q = answered
        BY <2>4
      <4>2. answered.served /\ answered.value \in Appearance \cup {Unavailable}
        BY <2>2, <2>3, <2>4
      <4> QED BY <1>0, <3>1, <4>1, <4>2 DEF PutsAreTrue
    <3>2. ASSUME NEW u \in Tab, NEW q \in PutsOf(u)',
                 q.served, q.value # Unavailable, writer' = u
          PROVE  savedAppearance' = q.value
      <4>1. u = r.tab
        BY <2>1, <3>2
      <4>2. q = answered
        BY <2>7, <4>1
      <4> QED BY <2>1, <2>3, <2>4, <3>2, <4>2
    <3> QED BY <3>1, <3>2 DEF PutsAreTrue, PutsOf
  <2>9. SavedIsQuiet'
    BY <1>0, <2>1 DEF SavedIsQuiet
  <2>10. SavedIsStored'
    <3> SUFFICES ASSUME NEW u \in Tab, status'[u] = "saved", writer' = u
                 PROVE  FALSE
      BY DEF SavedIsStored
    <3>1. PutsOf(u) = {r}
      BY <2>1, <2>7
    <3>2. ~ pending[u]
      BY <1>0, <2>1 DEF SavedIsQuiet
    <3> QED BY <1>0, <3>1, <3>2 DEF PutsAreOne
  <2> QED BY <2>5, <2>6, <2>8, <2>9, <2>10 DEF AppearanceInv
<1>14. CASE UNCHANGED appearanceVars
  BY <1>0, <1>14 DEF appearanceVars, AppearanceInv, AppearanceTypeOK, PutsAreOne, PutsAreTrue,
     SavedIsQuiet, SavedIsStored, PutsOf
<1> QED
  BY <1>1, <1>2, <1>3, <1>5, <1>6, <1>7, <1>8, <1>9, <1>11, <1>12, <1>13, <1>14
  DEF AppearanceNext

\* Types; a tab waits for at most one write; what an answer says is saved was saved by
\* the tab that wrote last; and a tab that says so waits for none: AppearanceInv.
THEOREM AppearanceInvariant == AppearanceSpec => []AppearanceInv
BY AppearanceInvInit, AppearanceInvNext, PTL DEF AppearanceSpec

\* For any number of tabs and answers lost: as long as no other tab has written, and no
\* write given up has been served, a tab that says "saved" shows what is stored.
THEOREM SavedStaysStored == AppearanceSpec => []SavedIsStored
<1>1. AppearanceInv => SavedIsStored
  BY DEF AppearanceInv
<1> QED BY <1>1, AppearanceInvariant, PTL

\* A tab has one write under way while it is applying and none otherwise.
THEOREM AppliesOneByOne == AppearanceSpec => []OneApplyAtATime
<1>1. AppearanceInv => OneApplyAtATime
  <2> SUFFICES ASSUME PutsAreOne, NEW t \in Tab
               PROVE  Cardinality(PutsOf(t)) = IF running[t] /\ pending[t] THEN 1 ELSE 0
    BY DEF AppearanceInv, OneApplyAtATime, PutsOf
  <2>1. CASE running[t] /\ pending[t]
    <3>1. PICK r : PutsOf(t) = {r}
      BY <2>1 DEF PutsAreOne
    <3> QED BY <2>1, <3>1, FS_Singleton
  <2>2. CASE ~ (running[t] /\ pending[t])
    <3>1. PutsOf(t) = {}
      BY <2>2 DEF PutsAreOne
    <3> QED BY <2>2, <3>1, FS_EmptySet
  <2> QED BY <2>1, <2>2
<1> QED BY <1>1, AppearanceInvariant, PTL

\* What a village's tabs show as saved is stored, written one at a time.
THEOREM AppliedIsHeld == AppearanceSpec => []AppliedHolds
BY SavedStaysStored, AppliesOneByOne, PTL DEF AppliedHolds

\* The raid eligibility policy over time and raids.
THEOREM PolicyIsHeld == RaidSpec => PolicyHolds
BY CooldownIsKept, WaitingHelpsOnly, RaidsDenyOnly, PTL DEF PolicyHolds
================================================================================
