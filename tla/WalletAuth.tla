------------------------------ MODULE WalletAuth ------------------------------
(***************************************************************************)
(* Signing in with a wallet: the login page of a browser (WalletAccess,    *)
(* lib/direct-wallet-game-flow.js), the four routes of api/wallet-auth,    *)
(* and the two tables behind them (lib/auth-challenge.js,                  *)
(* lib/wallet-auth-verify-core.js, lib/wallet-auth-session.js).  A handler *)
(* runs to its next query or call; every query is a transaction of its     *)
(* own.  Handlers of any number of replicas run at the same time, die at   *)
(* any point, and their answers get lost.                                  *)
(***************************************************************************)
EXTENDS Naturals, FiniteSets

CONSTANTS
  Browser,        \* browsers, each with a page, a cookie and a source address
  Address,        \* wallets
  None,           \* no browser, wallet, challenge or session
  Exchange,       \* bound: HTTP requests at a time
  MaxNonces,      \* bound: challenges that are issued
  MaxTokens,      \* bound: sessions that are created
  Cap,            \* MAX_OUTSTANDING_WALLET_AUTH_CHALLENGES
  SourceCap,      \* MAX_OUTSTANDING_WALLET_AUTH_CHALLENGES_PER_SOURCE
  ChallengeTtl,   \* CHALLENGE_TTL_MS
  SessionTtl,     \* WALLET_AUTH_SESSION_TTL_SECONDS
  EndOfTime       \* bound: the last moment

Nonce == 1 .. MaxNonces
Token == 1 .. MaxTokens

ASSUME AuthAssumption ==
  /\ None \notin Browser \cup Address \cup Nonce \cup Token
  /\ IsFiniteSet(Exchange)
  /\ MaxNonces \in Nat /\ MaxTokens \in Nat
  /\ Cap \in Nat \ {0} /\ SourceCap \in Nat \ {0}
  /\ ChallengeTtl \in Nat /\ SessionTtl \in Nat
  /\ EndOfTime \in Nat

VARIABLES
  now,
  challenge,   \* wallet_auth_challenges
  session,     \* wallet_auth_sessions, and which request created each
  signed,      \* what wallets have signed: [nonce, address]
  page,        \* the login page of each browser
  cookie,      \* the session cookie of each browser
  exchange     \* requests and their handlers

tables   == <<challenge, session>>
browsers == <<page, cookie>>
authVars == <<now, tables, signed, browsers, exchange>>

Payload == [nonce : Nonce, address : Address]
NoPayload == [nonce |-> None, address |-> None]

Challenge ==
  [status : {"unused", "open", "consumed"}, source : Browser \cup {None}, expires : Nat]

\* nonce and browser record the request a session was created for.
Session ==
  [status : {"unused", "live", "deleted"}, address : Address \cup {None},
   expires : Nat, nonce : Nonce \cup {None}, browser : Browser \cup {None}]

Page ==
  [restored : BOOLEAN, attempt : {"idle", "nonce", "signing", "verify"},
   nonce : Nonce \cup {None}, shown : Address \cup {None}]

\* What a request carries (nonce, payload, the cookie in token), what its handler
\* knows (free: the capacity it has counted), and its answer: ok, with a
\* nonce, address or token to keep, or expired, which clears the cookie.
Request ==
  [kind : {"none", "nonce", "verify", "session", "logout"},
   phase : {"none", "received", "counted", "taken", "verified", "ok", "expired", "failed"},
   browser : Browser \cup {None}, awaited : BOOLEAN, free : BOOLEAN,
   nonce : Nonce \cup {None}, payload : Payload \cup {NoPayload},
   token : Token \cup {None}, address : Address \cup {None}]

NoRequest ==
  [kind |-> "none", phase |-> "none", browser |-> None, awaited |-> FALSE,
   free |-> FALSE, nonce |-> None, payload |-> NoPayload, token |-> None,
   address |-> None]

NewPage == [restored |-> FALSE, attempt |-> "idle", nonce |-> None, shown |-> None]

AuthTypeOK ==
  /\ now \in Nat
  /\ challenge \in [Nonce -> Challenge]
  /\ session \in [Token -> Session]
  /\ signed \subseteq Payload
  /\ page \in [Browser -> Page]
  /\ cookie \in [Browser -> Token \cup {None}]
  /\ exchange \in [Exchange -> Request]

AuthInit ==
  /\ now = 0
  /\ challenge = [n \in Nonce |-> [status |-> "unused", source |-> None, expires |-> 0]]
  /\ session = [t \in Token |-> [status |-> "unused", address |-> None, expires |-> 0,
                                 nonce |-> None, browser |-> None]]
  /\ signed = {}
  /\ page = [b \in Browser |-> NewPage]
  /\ cookie = [b \in Browser |-> None]
  /\ exchange = [x \in Exchange |-> NoRequest]

----------------------------------------------------------------------------
(* The page. *)

\* The awaited requests of a browser.
Awaited(b, kind) == {x \in Exchange : exchange[x].browser = b
                                     /\ exchange[x].awaited /\ exchange[x].kind = kind}

Sent(b, kind) == [NoRequest EXCEPT !.kind = kind, !.phase = "received", !.browser = b,
                                   !.awaited = TRUE]

SentCookie(b, kind) == [Sent(b, kind) EXCEPT !.token = cookie[b]]

At(x, kind, phase) == exchange[x].kind = kind /\ exchange[x].phase = phase

Send(x, request) ==
  /\ exchange[x] = NoRequest
  /\ exchange' = [exchange EXCEPT ![x] = request]

\* The request for the session: on mount, and by any later read for which the
\* server needs one (the history routes answer an invalid session likewise).
AskSession(x, b) ==
  /\ Awaited(b, "session") = {}
  /\ ~ page[b].restored \/ page[b].shown # None
  /\ Send(x, SentCookie(b, "session"))
  /\ UNCHANGED <<now, tables, signed, browsers>>

\* handleWalletAccess, shown when no session could be restored.
Login(x, b) ==
  /\ page[b].restored /\ page[b].shown = None /\ page[b].attempt = "idle"
  /\ Send(x, Sent(b, "nonce"))
  /\ page' = [page EXCEPT ![b].attempt = "nonce"]
  /\ UNCHANGED <<now, tables, signed, cookie>>

\* The wallet signs the challenge and the page posts the result.  A wallet may
\* also answer with what it has signed before.
Sign(x, b, payload) ==
  /\ page[b].attempt = "signing"
  /\ payload.nonce = page[b].nonce \/ payload \in signed
  /\ signed' = signed \cup {payload}
  /\ Send(x, [Sent(b, "verify") EXCEPT !.nonce = page[b].nonce, !.payload = payload])
  /\ page' = [page EXCEPT ![b].attempt = "verify", ![b].nonce = None]
  /\ UNCHANGED <<now, tables, cookie>>

\* A verification that arrives twice, at two replicas say: a connection that
\* is cut is retried, or the page's request is sent by hand.
Repeated(x, y) ==
  /\ At(y, "verify", "received") \/ At(y, "verify", "taken")
  /\ Send(x, [exchange[y] EXCEPT !.phase = "received", !.awaited = FALSE])
  /\ UNCHANGED <<now, tables, signed, browsers>>

\* The wallet is not there, the user rejects, or the answer is none of MiniKit's.
Rejected(b) ==
  /\ page[b].attempt = "signing"
  /\ page' = [page EXCEPT ![b].attempt = "idle", ![b].nonce = None]
  /\ UNCHANGED <<now, tables, signed, cookie, exchange>>

Logout(x, b) ==
  /\ page[b].shown # None
  /\ Awaited(b, "logout") = {}
  /\ Send(x, SentCookie(b, "logout"))
  /\ UNCHANGED <<now, tables, signed, browsers>>

\* A reload: nobody awaits the requests any more, but their handlers go on.
Unawaited(r) == IF r.phase \in {"ok", "expired", "failed"} THEN NoRequest
                ELSE [r EXCEPT !.awaited = FALSE]

Reload(b) ==
  /\ page[b] # NewPage
  /\ page' = [page EXCEPT ![b] = NewPage]
  /\ exchange' = [x \in Exchange |->
       IF exchange[x].browser = b THEN Unawaited(exchange[x]) ELSE exchange[x]]
  /\ UNCHANGED <<now, tables, signed, cookie>>

Shown(r) == IF r.phase = "ok" THEN r.address ELSE None

\* Faulty variant: any answer about the session is shown, however late.
FaultyRestored(p, r) == [p EXCEPT !.restored = TRUE, !.shown = Shown(r)]

\* Only the request made on mount decides what the page shows.
Restored(p, r) ==
  IF p.restored THEN p ELSE [p EXCEPT !.restored = TRUE, !.shown = Shown(r)]

\* What an answer makes of the page.  A logout that fails leaves it as it is.
Answered(p, r) ==
  LET ok == r.phase = "ok"
  IN  IF r.kind = "session" THEN Restored(p, r)
      ELSE IF r.kind = "nonce"
           THEN [p EXCEPT !.attempt = IF ok THEN "signing" ELSE "idle", !.nonce = r.nonce]
      ELSE IF r.kind = "verify" THEN [p EXCEPT !.attempt = "idle", !.shown = Shown(r)]
      ELSE IF r.kind = "logout" /\ ok THEN [p EXCEPT !.shown = None]
      ELSE p

\* Set-Cookie of an answer.
CookieAfter(b, r) ==
  IF r.kind = "verify" /\ r.phase = "ok" THEN r.token
  ELSE IF (r.kind = "logout" /\ r.phase = "ok") \/ r.phase = "expired" THEN None
  ELSE cookie[b]

\* An answer that is awaited: its cookie is stored and the page goes on.
Deliver(x) ==
  LET r == exchange[x]
  IN  /\ r.phase \in {"ok", "expired", "failed"}
      /\ exchange' = [exchange EXCEPT ![x] = NoRequest]
      /\ page' = [page EXCEPT ![r.browser] = Answered(@, r)]
      /\ cookie' = [cookie EXCEPT ![r.browser] = CookieAfter(r.browser, r)]
      /\ UNCHANGED <<now, tables, signed>>

----------------------------------------------------------------------------
(* The handlers. *)

Reply(x, answer) ==
  exchange' = [exchange EXCEPT ![x] = IF @.awaited THEN answer ELSE NoRequest]

Answer(x, phase) == [NoRequest EXCEPT !.kind = exchange[x].kind, !.phase = phase,
                                      !.browser = exchange[x].browser, !.awaited = TRUE]

Refuse(x) == Reply(x, Answer(x, "failed"))

\* The rate limit, an unready configuration, a failing query, a handler that
\* dies or an answer that is lost: what was committed stays.
Failed(x) ==
  /\ exchange[x].phase \notin {"none", "failed"}
  /\ Refuse(x)
  /\ UNCHANGED <<now, tables, signed, browsers>>

Outstanding == {n \in Nonce : challenge[n].status = "open" /\ challenge[n].expires > now}
OutstandingOf(b) == {n \in Outstanding : challenge[n].source = b}

\* Faulty variant: without the limits.
FaultyFree(b) == TRUE

Free(b) == Cardinality(Outstanding) < Cap /\ Cardinality(OutstandingOf(b)) < SourceCap

\* createWalletAuthChallenge is one statement: it counts in the snapshot taken
\* when it begins ...
CountChallenges(x) ==
  /\ At(x, "nonce", "received")
  /\ exchange' = [exchange EXCEPT ![x].phase = "counted",
                                  ![x].free = Free(exchange[x].browser)]
  /\ UNCHANGED <<now, tables, signed, browsers>>

\* ... waits for the lock, and inserts by what it has counted.
CreateChallenge(x) ==
  /\ At(x, "nonce", "counted")
  /\ IF exchange[x].free
     THEN \E n \in Nonce :
            /\ challenge[n].status = "unused"
            /\ \A m \in Nonce : m < n => challenge[m].status # "unused"
            /\ challenge' = [challenge EXCEPT ![n] =
                 [status |-> "open", source |-> exchange[x].browser,
                  expires |-> now + ChallengeTtl]]
            /\ Reply(x, [Answer(x, "ok") EXCEPT !.nonce = n])
     ELSE /\ Refuse(x)
          /\ UNCHANGED challenge
  /\ UNCHANGED <<now, session, signed, browsers>>

\* Faulty variant: a challenge stays good until it expires.
FaultyTakeable(n) == challenge[n].status # "unused" /\ challenge[n].expires > now

Takeable(n) == challenge[n].status = "open" /\ challenge[n].expires > now

\* takeWalletAuthChallenge: one UPDATE, before the signature is looked at.
TakeChallenge(x) ==
  LET n == exchange[x].nonce
  IN  /\ At(x, "verify", "received")
      /\ IF Takeable(n)
         THEN /\ challenge' = [challenge EXCEPT ![n].status = "consumed"]
              /\ exchange' = [exchange EXCEPT ![x].phase = "taken"]
         ELSE /\ Refuse(x)
              /\ UNCHANGED challenge
      /\ UNCHANGED <<now, session, signed, browsers>>

\* verifyWalletAuthPayload: the signature has to be for the nonce of the request.
VerifyPayload(x) ==
  LET r == exchange[x]
  IN  /\ At(x, "verify", "taken")
      /\ IF r.payload.nonce = r.nonce
         THEN exchange' = [exchange EXCEPT ![x] =
                [r EXCEPT !.phase = "verified", !.payload = NoPayload,
                          !.address = r.payload.address]]
         ELSE Refuse(x)
      /\ UNCHANGED <<now, tables, signed, browsers>>

\* createWalletAuthSession
CreateSession(x) ==
  LET r == exchange[x]
  IN  /\ At(x, "verify", "verified")
      /\ \E t \in Token :
           /\ session[t].status = "unused"
           /\ \A u \in Token : u < t => session[u].status # "unused"
           /\ session' = [session EXCEPT ![t] =
                [status |-> "live", address |-> r.address, expires |-> now + SessionTtl,
                 nonce |-> r.nonce, browser |-> r.browser]]
           /\ Reply(x, [Answer(x, "ok") EXCEPT !.token = t, !.address = r.address])
      /\ UNCHANGED <<now, challenge, signed, browsers>>

\* readWalletAuthSession
ReadSession(x) ==
  LET r == exchange[x]
  IN  /\ At(x, "session", "received")
      /\ Reply(x, IF r.token # None /\ session[r.token].status = "live"
                                   /\ session[r.token].expires > now
                  THEN [Answer(x, "ok") EXCEPT !.address = session[r.token].address]
                  ELSE Answer(x, "expired"))
      /\ UNCHANGED <<now, tables, signed, browsers>>

\* invalidateWalletAuthSession
DeleteSession(x) ==
  LET t == exchange[x].token
  IN  /\ At(x, "logout", "received")
      /\ session' = IF t = None THEN session ELSE [session EXCEPT ![t].status = "deleted"]
      /\ Reply(x, Answer(x, "ok"))
      /\ UNCHANGED <<now, challenge, signed, browsers>>

AuthTick ==
  /\ now < EndOfTime
  /\ now' = now + 1
  /\ UNCHANGED <<tables, signed, browsers, exchange>>

----------------------------------------------------------------------------
PageStep(x) ==
  \/ \E b \in Browser :
       \/ AskSession(x, b) \/ Login(x, b) \/ Logout(x, b)
       \/ \E payload \in Payload : Sign(x, b, payload)
  \/ \E y \in Exchange : Repeated(x, y)

HandlerStep(x) ==
  \/ CountChallenges(x) \/ CreateChallenge(x)
  \/ TakeChallenge(x) \/ VerifyPayload(x) \/ CreateSession(x)
  \/ ReadSession(x) \/ DeleteSession(x) \/ Failed(x)

AuthNext ==
  \/ \E x \in Exchange : PageStep(x) \/ HandlerStep(x) \/ Deliver(x)
  \/ \E b \in Browser : Rejected(b) \/ Reload(b)
  \/ AuthTick

AuthSpec == AuthInit /\ [][AuthNext]_authVars

----------------------------------------------------------------------------
\* A challenge yields at most one session, and only for the wallet that signed
\* it, over all replicas and whatever of a login fails or is repeated ("to make
\* it single-use across every application replica", wallet-auth-verify-core.js).
OneSessionPerSignature ==
  \A t \in Token : session[t].status # "unused" =>
    /\ [nonce |-> session[t].nonce, address |-> session[t].address] \in signed
    /\ \A u \in Token \ {t} :
         session[u].status # "unused" => session[u].nonce # session[t].nonce

\* The limits count in a snapshot that precedes the lock.  Requests that count
\* at the same time can exceed them, but only by one for each of the others.
OutstandingBounded ==
  /\ Cardinality(Outstanding) < Cap + Cardinality(Exchange)
  /\ \A b \in Browser : Cardinality(OutstandingOf(b)) < SourceCap + Cardinality(Exchange)

\* A page shows the wallet of a session that was created for its own browser,
\* and what the server will answer to its cookie is about that wallet too.
PageShowsOwnSession ==
  \A b \in Browser : page[b].shown # None =>
    /\ \E t \in Token : session[t].browser = b /\ session[t].address = page[b].shown
    /\ cookie[b] # None => session[cookie[b]].address = page[b].shown
=============================================================================
