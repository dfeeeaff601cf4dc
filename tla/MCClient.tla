------------------------------ MODULE MCClient ------------------------------
(***************************************************************************)
(* A page registers the village first and runs the app after it: two       *)
(* registrations and three of their pages; two upgrades and a market       *)
(* order, two user operations, and a page that is opened twice.  Besides,  *)
(* two tabs notify of constructions in two slots, over a few blocks, some  *)
(* of which are taken back.  These stages share no state but the village,  *)
(* so each is explored on its own.                                         *)
(***************************************************************************)
EXTENDS WorldClient, VillageRegistration, CompletionNotices, TLC

VARIABLE stage

pageVars == <<stage, clientVars, regVars, noticeVars>>

Init ==
  /\ ClientInit /\ RegInit /\ NoticeInit
  /\ stage \in {"registration", "game", "notices"}
  /\ stage # "registration" => village

Next ==
  /\ UNCHANGED stage
  /\ \/ /\ stage = "registration" /\ (RegNext \/ RegReopen)
        /\ UNCHANGED <<clientVars, noticeVars>>
     \/ stage = "game" /\ ClientNext /\ UNCHANGED <<regVars, noticeVars>>
     \/ stage = "notices" /\ NoticeNext /\ UNCHANGED <<clientVars, regVars>>

Spec == Init /\ [][Next]_pageVars

Alike == Permutations(Buildings) \cup Permutations(Tab)
=============================================================================
