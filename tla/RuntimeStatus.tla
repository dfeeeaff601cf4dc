---------------------------- MODULE RuntimeStatus ----------------------------
(***************************************************************************)
(* The server's statement that the deployed release is the reviewed one    *)
(* (server/contract-runtime-status.js): a probe of the proxy in eight      *)
(* rounds of requests (scripts/verify-worldchain-proxy.mjs), shared by the *)
(* callers that wait for it, and its result kept for CACHE_TTL_MS.  Each   *)
(* request reads the latest state, so that one probe sees the chain at     *)
(* many moments.  One process with one complete production configuration.  *)
(***************************************************************************)
EXTENDS Naturals, Sequences

CONSTANTS
  Caller,       \* callers of contractRuntimeStatus at a time
  Changing,     \* parts of the release that governance changes in the model
  MaxChanges,   \* bound: how often
  Ttl,          \* CACHE_TTL_MS
  Timeout,      \* RPC_FETCH_TIMEOUT_MS
  Horizon       \* bound: the last moment

\* What verifyWorldChainProxy asks for, one round after the other.
Rounds ==
  << {"chain"}, {"implementation", "admin", "proxy"},
     {"implementation code", "admin code"}, {"timelock", "owner"},
     {"paused"}, {"capacity"}, {"job"}, {"completion"} >>

Part == UNION {Rounds[i] : i \in 1 .. Len(Rounds)}

\* constructionCapacity, constructionJob and completeUpgrade are answered by
\* whatever implementation the proxy then has.
Capability == {"capacity", "job", "completion"}

ASSUME StatusAssumption ==
  /\ Changing \subseteq {"implementation", "timelock", "owner"}
  /\ MaxChanges \in Nat /\ Horizon \in Nat
  /\ Ttl \in Nat \ {0} /\ Timeout \in Nat

VARIABLES
  instant,
  standing,   \* parts that are as reviewed
  lost,       \* since when the others are not
  changes,
  waiting,    \* callers that wait for the probe
  probe,      \* the probe under way: inFlight
  cached,
  served      \* the last status that was returned, and when

releaseVars == <<standing, lost, changes>>
statusVars  == <<instant, releaseVars, waiting, probe, cached, served>>

NoProbe == [round |-> 0, left |-> {}, body |-> {}, asked |-> 0, sound |-> TRUE, observedAt |-> 0]
NoResult == [status |-> "none", observedAt |-> 0, at |-> 0]
NotServed == [result |-> NoResult, at |-> 0]

StatusInit ==
  /\ instant = 0
  /\ standing \in SUBSET Changing
  /\ lost = [p \in Changing |-> 0]
  /\ changes = 0
  /\ waiting = {} /\ probe = NoProbe
  /\ cached = NoResult /\ served = NotServed

\* Governance upgrades the proxy or hands over its administration, to the
\* reviewed release or away from it.
Changes(p) ==
  /\ changes < MaxChanges /\ changes' = changes + 1
  /\ IF p \in standing
     THEN standing' = standing \ {p} /\ lost' = [lost EXCEPT ![p] = instant]
     ELSE standing' = standing \cup {p} /\ UNCHANGED lost
  /\ UNCHANGED <<instant, waiting, probe, cached, served>>

----------------------------------------------------------------------------
(* contractRuntimeStatus *)

Fresh == cached.status # "none" /\ instant - cached.at < Ttl

Started ==
  [round |-> 1, left |-> Rounds[1], body |-> {}, asked |-> instant,
   sound |-> TRUE, observedAt |-> instant]

\* From the cache, together with others, or with a probe of one's own.
Call(c) ==
  /\ c \notin waiting
  /\ IF Fresh
     THEN served' = [result |-> cached, at |-> instant] /\ UNCHANGED <<waiting, probe>>
     ELSE /\ waiting' = waiting \cup {c}
          /\ probe' = IF probe = NoProbe THEN Started ELSE probe
          /\ UNCHANGED served
  /\ UNCHANGED <<instant, releaseVars, cached>>

\* Faulty variant: the time stamp is taken when the probe is over.
FaultyResult(status) == [status |-> status, observedAt |-> instant, at |-> instant]

Result(status) == [status |-> status, observedAt |-> probe.observedAt, at |-> instant]

\* The result goes to the cache and to all that wait.
Settle(status) ==
  /\ cached' = Result(status)
  /\ served' = [result |-> Result(status), at |-> instant]
  /\ probe' = NoProbe
  /\ waiting' = {}

\* Whether the answer to p, given now, may be as reviewed, or not.  The codes
\* belong to addresses that were read before; paused is not looked at.
Agrees(p) ==
  IF p \in Changing THEN {p \in standing}
  ELSE IF p \in Capability /\ "implementation" \notin standing THEN BOOLEAN
  ELSE {TRUE}

\* The node answers; its response begins, which stops the timer of the request.
ResponseBegins(p) ==
  /\ p \in probe.left \ probe.body
  /\ \E sound \in Agrees(p) :
       probe' = [probe EXCEPT !.body = @ \cup {p}, !.sound = @ /\ sound]
  /\ UNCHANGED <<instant, releaseVars, waiting, cached, served>>

NextRound ==
  [probe EXCEPT !.round = @ + 1, !.left = Rounds[probe.round + 1], !.body = {},
                !.asked = instant]

\* The body of the response is there.
ResponseEnds(p) ==
  /\ p \in probe.body
  /\ IF probe.left # {p}
     THEN /\ probe' = [probe EXCEPT !.left = @ \ {p}, !.body = @ \ {p}]
          /\ UNCHANGED <<waiting, cached, served>>
     ELSE IF probe.round < Len(Rounds)
     THEN probe' = NextRound /\ UNCHANGED <<waiting, cached, served>>
     ELSE Settle(IF probe.sound THEN "verified" ELSE "mismatched")
  /\ UNCHANGED <<instant, releaseVars>>

\* A request is refused, aborted by its timer, or answered by something else.
RequestFailed ==
  /\ probe # NoProbe
  /\ Settle("failed")
  /\ UNCHANGED <<instant, releaseVars>>

\* No timer is late.
StatusTick ==
  /\ instant < Horizon
  /\ probe.left # probe.body => instant < probe.asked + Timeout
  /\ instant' = instant + 1
  /\ UNCHANGED <<releaseVars, waiting, probe, cached, served>>

----------------------------------------------------------------------------
StatusNext ==
  \/ StatusTick \/ RequestFailed
  \/ \E p \in Changing : Changes(p)
  \/ \E c \in Caller : Call(c)
  \/ \E p \in Part : ResponseBegins(p) \/ ResponseEnds(p)

StatusSpec == StatusInit /\ [][StatusNext]_statusVars

----------------------------------------------------------------------------
StoodUntil(p) == IF p \in standing THEN instant ELSE lost[p]

\* Who reads "verified" with a time stamp may rely on it that every part of
\* the release was as reviewed at that time or later, whatever changed during
\* the probe and whoever shared it; and nobody gets a status, good or bad,
\* that was settled Ttl ago.
VerifiedIsRecent ==
  /\ served.result.status = "verified" =>
       \A p \in Changing : StoodUntil(p) >= served.result.observedAt
  /\ served.at = served.result.at \/ served.at - served.result.at < Ttl

\* "Every HTTP RPC request has a 10-second AbortController deadline and fails
\* closed on timeout" (contracts/STATUS.md).
DeadlineKept == probe.left # {} => instant - probe.asked <= Timeout
=============================================================================
