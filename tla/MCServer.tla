------------------------------- MODULE MCServer -------------------------------
(***************************************************************************)
(* What the server's routes and policies do for a page, in stages that     *)
(* share no state and are explored each on its own.  Login: two browsers   *)
(* and two wallets, two requests at a time, two challenges; a third        *)
(* challenge, with which the limits are exceeded, while only one of the    *)
(* browsers is open and one signature made.  History: two chains that part *)
(* after two of the events, pages of two events.  Status: two callers,     *)
(* while the proxy's implementation changes twice; a result is kept for    *)
(* two units of time, as long as two requests may take to be answered.     *)
(* Raids: two players, and policies with a window that is longer than the  *)
(* cooldown, as long, and too short.  Appearance: two tabs of one wallet,  *)
(* four requests, one look besides the default.                            *)
(***************************************************************************)
EXTENDS WalletAuth, HistoryPages, RuntimeStatus, RaidEligibility, VillageAppearance, TLC

VARIABLE stage

MCEmitted == [c \in Chain |-> IF c = "main" THEN {1, 2, 3, 5, 6} ELSE {1, 2, 4}]

asideVars == <<historyVars, statusVars, raidVars, appearanceVars>>
serverVars == <<stage, authVars, asideVars>>

MCPolicies ==
  {[newPlayerProtectionMs |-> 1, repeatRaidCooldownMs |-> cooldown,
    historyWindowMs |-> window, reciprocalPairRaidLimit |-> limit,
    minimumAttackerStrength |-> 1, maximumAttackerToTargetRatioBps |-> 20000,
    maximumEligibleTargetCount |-> 1, relaxStrengthEligibility |-> relaxed] :
     cooldown \in {0, 2}, window \in {0, 2, 3}, limit \in {0, 2, 3}, relaxed \in BOOLEAN}

\* A stage that is not explored stands at one of its initial states.
Init ==
  /\ stage \in {"login", "history", "status", "raids", "appearance"}
  /\ RaidInit
  /\ stage # "raids" =>
       /\ policy = CHOOSE p \in TriedPolicies : Accepted(p)
       /\ strength = [p \in Player |-> 1]
       /\ available = [p \in Player |-> FALSE]
       /\ eligibleTargetCount = 1
  /\ StatusInit
  /\ stage # "status" => standing = {}
  /\ AuthInit /\ HistoryInit /\ AppearanceInit

Next ==
  /\ UNCHANGED stage
  /\ \/ stage = "login" /\ AuthNext /\ UNCHANGED asideVars
     \/ /\ stage = "history" /\ HistoryNext
        /\ UNCHANGED <<authVars, statusVars, raidVars, appearanceVars>>
     \/ /\ stage = "status" /\ StatusNext
        /\ UNCHANGED <<authVars, historyVars, raidVars, appearanceVars>>
     \/ /\ stage = "raids" /\ RaidNext
        /\ UNCHANGED <<authVars, historyVars, statusVars, appearanceVars>>
     \/ /\ stage = "appearance" /\ AppearanceNext
        /\ UNCHANGED <<authVars, historyVars, statusVars, raidVars>>

Spec == Init /\ [][Next]_serverVars

Closed(b) ==
  /\ page[b] = NewPage /\ cookie[b] = None
  /\ \A x \in Exchange : exchange[x].browser # b
  /\ \A n \in Nonce : challenge[n].source # b

LessForThird ==
  challenge[MaxNonces].status # "unused" =>
    /\ Cardinality(signed) <= 1
    /\ \E b \in Browser : Closed(b)

\* Browsers, callers, players and tabs are alike, each in their stage; they are the
\* same model values, so that one permutation serves them all.
Alike == Permutations(Browser) \cup Permutations(Address) \cup Permutations(Exchange)
=============================================================================
