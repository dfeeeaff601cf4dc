----------------------------- MODULE MCStandalone -----------------------------
(***************************************************************************)
(* Programs that run beside the game, each from data of its own, and are   *)
(* explored each on its own.  The chain indexer: a block is the sequence   *)
(* of labels on the way to it, "t" when it holds the only transaction with *)
(* an event, "e" when it is empty; two labels give every block two         *)
(* children, and the same transaction can be in blocks of different forks  *)
(* and heights.  The simulator of durations, at the horizons it takes by   *)
(* default, at none at all and at one in between at which the steady       *)
(* curves have left off.  The demo in two tabs, whose storage one kind of  *)
(* visitor finds empty, another with a village from an earlier version     *)
(* that has a barracks and a few soldiers.                                 *)
(***************************************************************************)
EXTENDS ChainIndexer, DurationPolicy, DemoGame, SequencesExt

CONSTANT MaxHead    \* bound: the length of the chain

\* The forks of the run are such that nothing is lost.
ASSUME ForksAssumption == ReorgsWithinOverlap

VARIABLE stage

asideVars == <<durationVars, demoVars>>
standaloneVars == <<stage, indexerVars, asideVars>>

\* A stage that is not explored stands at one of its initial states.
Init ==
  /\ stage \in {"indexer", "duration", "demo"}
  /\ DurationInit
  /\ stage # "duration" => buildingClass = "civic" /\ horizonSeconds = 0
  /\ DemoInit
  /\ stage # "demo" => saved = Empty
  /\ IndexerInit

Next ==
  /\ UNCHANGED stage
  /\ \/ stage = "indexer" /\ IndexerNext /\ UNCHANGED asideVars
     \/ stage = "duration" /\ DurationNext /\ UNCHANGED <<indexerVars, demoVars>>
     \/ stage = "demo" /\ DemoNext /\ UNCHANGED <<indexerVars, durationVars>>

Spec == Init /\ [][Next]_standaloneVars /\ (stage = "indexer" => Fairness)

----------------------------------------------------------------------------
OnceOnly(s) == Cardinality({i \in DOMAIN s : s[i] = "t"}) <= 1

MCBlock == {s \in UNION {[1 .. n -> {"t", "e"}] : n \in 1 .. MaxHead} : OnceOnly(s)}
MCNoBlock == << >>
MCHeight == [b \in MCBlock |-> Len(b)]
MCParent == [b \in MCBlock |-> Front(b)]
MCEmitted == [b \in MCBlock |-> IF Last(b) = "t" THEN {"t"} ELSE {}]
MCChains == {[h \in 1 .. Len(b) |-> SubSeq(b, 1, h)] : b \in MCBlock}

----------------------------------------------------------------------------
MCHorizonDays == {0, 1, 3, 7, 30}

----------------------------------------------------------------------------
MCSaves ==
  {[resources |-> Hundredths(Amounts(60, 840, 60, 10)),
    unclaimed |-> Hundredths(Amounts(30, 5, 0, 0)),
    buildings |-> [townhall |-> 3, timber |-> 3, claypit |-> 3, quarry |-> 3,
                   warehouse |-> 2, workshop |-> 1, goldmine |-> 0, barracks |-> 1],
    troops    |-> [spear |-> 6, archer |-> 0, rider |-> 0],
    loot      |-> Field,
    gatherAvailableAt |-> 0,
    march     |-> NoMarch,
    last      |-> 0]}

MCArmies == {[spear |-> n, archer |-> 0, rider |-> 0] : n \in {5, 7}}
MCDelays == {60, -30}

MCSwaps == {[from |-> "wood", to |-> "clay", amount |-> 33],
            [from |-> "stone", to |-> "wood", amount |-> 25]}
=============================================================================
