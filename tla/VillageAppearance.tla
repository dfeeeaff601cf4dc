--------------------------- MODULE VillageAppearance ---------------------------
(***************************************************************************)
(* The look of a village (src/server/village-appearance*.js, and in        *)
(* src/app.js what starts, applies and resets it): a row of the database,  *)
(* and tabs of its wallet that read it once when they start and write it   *)
(* when the player applies a choice.  Requests cross each other and are    *)
(* lost, and a request whose tab has given up may still be served.         *)
(***************************************************************************)
EXTENDS Integers, FiniteSets

CONSTANTS
  Tab,
  Appearance, Default,     \* VILLAGE_APPEARANCES and DEFAULT_VILLAGE_APPEARANCE
  NoValue,
  MaxRequests              \* bound of the requests that are made

ASSUME AppearanceAssumption ==
  Default \in Appearance /\ NoValue \notin Appearance /\ NoValue \notin Tab

VARIABLES
  savedAppearance,      \* the row of the wallet, NoValue before there is one
  writer,      \* the tab that waited for the request that wrote it, or NoValue
  shown, status, pending,   \* of each tab: villageAppearance, appearanceStatus, ...
  running,
  requests,    \* on their way to the server and back
  made,        \* how many were made
  overtaken    \* tabs whose startup read was answered after a choice was applied

appearanceVars == <<savedAppearance, writer, shown, status, pending, running, requests, made,
                    overtaken>>

Unavailable == "failed"

\* resolveVillageAppearance
Resolved(value) == IF value \in Appearance THEN value ELSE Default

RequestSent(t, method, value) ==
  /\ made < MaxRequests
  /\ made' = made + 1
  /\ requests' = requests \cup {[id |-> made, tab |-> t, method |-> method, value |-> value,
                                 served |-> FALSE]}

AppearanceInit ==
  /\ savedAppearance = NoValue
  /\ writer = NoValue
  /\ shown = [t \in Tab |-> Default]
  /\ status = [t \in Tab |-> ""]
  /\ pending = [t \in Tab |-> FALSE]
  /\ running = [t \in Tab |-> FALSE]
  /\ requests = {}
  /\ made = 0
  /\ overtaken = {}

----------------------------------------------------------------------------
(* The tab. *)

\* startCivilizationApp, with a new runtime, reads the appearance.
StartTab(t) ==
  /\ ~ running[t]
  /\ RequestSent(t, "GET", NoValue)
  /\ running' = [running EXCEPT ![t] = TRUE]
  /\ shown' = [shown EXCEPT ![t] = Default]
  /\ status' = [status EXCEPT ![t] = ""]
  /\ pending' = [pending EXCEPT ![t] = FALSE]
  /\ overtaken' = overtaken \ {t}
  /\ UNCHANGED <<savedAppearance, writer>>

\* What is left of requests that nobody waits for: writes that are still to be served.
GivenUp(given) ==
  (requests \ given)
    \cup {[r EXCEPT !.tab = NoValue] : r \in {g \in given : g.method = "PUT" /\ ~ g.served}}

\* stopCivilizationApp: what is answered later is for a runtime that is not shown.
StopTab(t) ==
  /\ running[t]
  /\ running' = [running EXCEPT ![t] = FALSE]
  /\ status' = [status EXCEPT ![t] = ""]
  /\ requests' = GivenUp({r \in requests : r.tab = t})
  /\ UNCHANGED <<savedAppearance, writer, shown, pending, made, overtaken>>

\* changeAppearance
ChangeAppearance(t, appearance) ==
  /\ running[t]
  /\ shown' = [shown EXCEPT ![t] = appearance]
  /\ status' = [status EXCEPT ![t] = ""]
  /\ UNCHANGED <<savedAppearance, writer, pending, running, requests, made, overtaken>>

\* Faulty variant: an apply does not wait for the one before it.
FaultyMayApply(t) == running[t]

MayApply(t) == running[t] /\ ~ pending[t]

Applies(t, appearance) ==
  /\ MayApply(t)
  /\ pending' = [pending EXCEPT ![t] = TRUE]
  /\ status' = [status EXCEPT ![t] = ""]
  /\ shown' = [shown EXCEPT ![t] = appearance]
  /\ RequestSent(t, "PUT", appearance)
  /\ UNCHANGED <<savedAppearance, writer, running, overtaken>>

\* applyAppearance
ApplyAppearance(t) == Applies(t, shown[t])

\* resetAppearance shows the default even if it cannot be applied now.
ResetAppearance(t) ==
  \/ Applies(t, Default)
  \/ /\ running[t] /\ pending[t]
     /\ shown' = [shown EXCEPT ![t] = Default]
     /\ UNCHANGED <<savedAppearance, writer, status, pending, running, requests, made, overtaken>>

\* The answer of the startup read; one that failed is the default.
ReadAnswered(r) ==
  /\ r.method = "GET" /\ r.served /\ r.tab # NoValue
  /\ shown' = [shown EXCEPT ![r.tab] = Resolved(r.value)]
  /\ overtaken' = IF pending[r.tab] \/ status[r.tab] # "" THEN overtaken \cup {r.tab}
                  ELSE overtaken
  /\ requests' = requests \ {r}
  /\ UNCHANGED <<savedAppearance, writer, status, pending, running, made>>

\* The answer of an apply shows what was saved, or the default.
ApplyAnswered(r) ==
  /\ r.method = "PUT" /\ r.served /\ r.tab # NoValue
  /\ shown' = [shown EXCEPT ![r.tab] = Resolved(r.value)]
  /\ status' = [status EXCEPT ![r.tab] = IF r.value = Unavailable THEN "unavailable" ELSE "saved"]
  /\ pending' = [pending EXCEPT ![r.tab] = FALSE]
  /\ requests' = requests \ {r}
  /\ UNCHANGED <<savedAppearance, writer, running, made, overtaken>>

\* A request that fails in the browser, and may yet be served.
RequestLost(r) ==
  /\ r.tab # NoValue
  /\ requests' = GivenUp({r})
  /\ shown' = [shown EXCEPT ![r.tab] = Default]
  /\ IF r.method = "PUT"
     THEN /\ status' = [status EXCEPT ![r.tab] = "unavailable"]
          /\ pending' = [pending EXCEPT ![r.tab] = FALSE]
          /\ UNCHANGED overtaken
     ELSE /\ overtaken' = IF pending[r.tab] \/ status[r.tab] # "" THEN overtaken \cup {r.tab}
                          ELSE overtaken
          /\ UNCHANGED <<status, pending>>
  /\ UNCHANGED <<savedAppearance, writer, running, made>>

----------------------------------------------------------------------------
(* The server. *)

Answers(r, value) ==
  requests' =
    (requests \ {r})
      \cup (IF r.tab = NoValue THEN {} ELSE {[r EXCEPT !.served = TRUE, !.value = value]})

\* GET: readVillageAppearance
Reads(r) ==
  /\ r.method = "GET" /\ ~ r.served
  /\ Answers(r, IF savedAppearance = NoValue THEN Default ELSE savedAppearance)
  /\ UNCHANGED <<savedAppearance, writer, shown, status, pending, running, made, overtaken>>

\* Faulty variant: a row that is there is kept.
FaultySaved(r) == IF savedAppearance = NoValue THEN r.value ELSE savedAppearance

Saved(r) == r.value

\* PUT: saveVillageAppearance; the answer to a write can still be a failure.
Writes(r) ==
  /\ r.method = "PUT" /\ ~ r.served
  /\ savedAppearance' = Saved(r)
  /\ writer' = r.tab
  /\ Answers(r, r.value) \/ Answers(r, Unavailable)
  /\ UNCHANGED <<shown, status, pending, running, made, overtaken>>

\* No configuration, session or database: nothing is written.
Refuses(r) ==
  /\ ~ r.served
  /\ Answers(r, Unavailable)
  /\ UNCHANGED <<savedAppearance, writer, shown, status, pending, running, made, overtaken>>

AppearanceNext ==
  \/ \E t \in Tab :
       \/ StartTab(t) \/ StopTab(t) \/ ApplyAppearance(t) \/ ResetAppearance(t)
       \/ \E appearance \in Appearance : ChangeAppearance(t, appearance)
  \/ \E r \in requests :
       ReadAnswered(r) \/ ApplyAnswered(r) \/ RequestLost(r)
         \/ Reads(r) \/ Writes(r) \/ Refuses(r)

AppearanceSpec == AppearanceInit /\ [][AppearanceNext]_appearanceVars

----------------------------------------------------------------------------
(* Properties. *)

\* A tab that says its choice is saved shows what the database holds, in whatever
\* order its requests were served and answered, unless another tab or a request
\* that was given up has written since.  (The answer of the startup read, when it
\* comes after a choice was applied, replaces what is shown: those tabs are apart.)
SavedIsStored ==
  \A t \in Tab :
    status[t] = "saved" /\ writer = t /\ t \notin overtaken => savedAppearance = shown[t]

\* A tab waits for one answer at a time, so that the last choice it applied is the
\* last it has written.
OneApplyAtATime ==
  \A t \in Tab :
    Cardinality({r \in requests : r.tab = t /\ r.method = "PUT"})
      = IF running[t] /\ pending[t] THEN 1 ELSE 0

\* What a tab shows as saved is what is stored, and it writes one choice at a time.
AppliedHolds == SavedIsStored /\ OneApplyAtATime
=============================================================================
