----------------------------- MODULE HistoryPages -----------------------------
(***************************************************************************)
(* A player's build or raid history: a list in the page that grows by      *)
(* pages (BuildPanel.tsx, RaidPanel.tsx), read one by one from the tables  *)
(* of the chain indexer (server/chain-indexer-build-history.js and         *)
(* -raid-history.js) while the indexer goes on writing them.  A page is    *)
(* read in one snapshot, and its cursor holds for one checkpoint only.     *)
(***************************************************************************)
EXTENDS Integers, SequencesExt

CONSTANTS
  Chain,      \* chains by their last block: what a checkpoint identifies
  Absent,     \* no checkpoint, no cursor
  Key,        \* positions of events: block, transaction, log, newer is higher
  Emitted,    \* the positions of each chain that hold an event of the player
  Limit       \* events of a page

ASSUME PagesAssumption ==
  /\ Absent \notin Chain
  /\ \A c \in Chain, k \in Key : Absent # [checkpoint |-> c, key |-> k]
  /\ Key \subseteq Nat
  /\ Emitted \in [Chain -> SUBSET Key]
  /\ Limit \in Nat \ {0}

VARIABLES
  checkpoint,   \* chain_indexer_checkpoints
  stored,       \* positions with a row in chain_indexer_raw_events
  list,         \* the list of the page, and the checkpoint of its first page
  request,      \* the request under way, its answer
  steady        \* events stored ever since the first page of the list was read

historyVars == <<checkpoint, stored, list, request, steady>>

NewList == [facts |-> << >>, cursor |-> Absent, status |-> "idle", of |-> Absent]
EmptyList(status) == [NewList EXCEPT !.status = status]

NoRequestYet == [phase |-> "none", cursor |-> Absent]

HistoryInit ==
  /\ checkpoint = Absent
  /\ stored = {}
  /\ list = NewList
  /\ request = NoRequestYet
  /\ steady = {}

\* The indexer: the table holds events of the checkpoint's chain.  While the
\* checkpoint stands a batch may add some that an earlier one has missed.
IndexerMoves(c, events) ==
  /\ events \subseteq Emitted[c]
  /\ c = checkpoint => stored \subseteq events
  /\ checkpoint' = c
  /\ stored' = events
  /\ steady' = steady \cap events
  /\ UNCHANGED <<list, request>>

----------------------------------------------------------------------------
(* The page. *)

Ask(cursor) == request' = [phase |-> "sent", cursor |-> cursor]

\* The first page: when the panel opens, by a retry, and after a new login.
LoadFirst ==
  /\ request.phase = "none"
  /\ list' = EmptyList("loading")
  /\ Ask(Absent)
  /\ UNCHANGED <<checkpoint, stored, steady>>

LoadMore ==
  /\ request.phase = "none"
  /\ list.cursor # Absent
  /\ list' = [list EXCEPT !.status = "loading"]
  /\ Ask(list.cursor)
  /\ UNCHANGED <<checkpoint, stored, steady>>

\* The panel is gone; the answer to its request goes nowhere.
Unmounted ==
  /\ list # NewList
  /\ list' = NewList
  /\ request' = NoRequestYet
  /\ UNCHANGED <<checkpoint, stored, steady>>

----------------------------------------------------------------------------
(* The server. *)

\* Faulty variant: a cursor is good for any checkpoint.
FaultyCurrent(cursor) == TRUE

Current(cursor) == cursor = Absent \/ cursor.checkpoint = checkpoint

\* ORDER BY ... DESC LIMIT: the newest events, newest first.
IsPage(page, events) ==
  /\ \A i, j \in DOMAIN page : i < j => page[i] > page[j]
  /\ \A k \in events \ Range(page) : Len(page) = Limit /\ k < Last(page)

\* readPersonalBuildHistory and readPersonalRaidHistory: events below the
\* cursor; one more than the page tells whether there are others.
Serve ==
  LET cursor == request.cursor
      below  == {k \in stored : cursor = Absent \/ k < cursor.key}
  IN  /\ request.phase = "sent"
      /\ IF Current(cursor)
         THEN \E page \in UNION {[1 .. n -> below] : n \in 0 .. Limit} :
                /\ IsPage(page, below)
                /\ request' =
                     [phase |-> "page", cursor |-> cursor, of |-> checkpoint, events |-> page,
                      next |-> IF below = Range(page) THEN Absent
                               ELSE [checkpoint |-> checkpoint, key |-> Last(page)]]
         ELSE request' = [phase |-> "changed", cursor |-> cursor]
      /\ steady' = IF cursor = Absent THEN stored ELSE steady
      /\ UNCHANGED <<checkpoint, stored, list>>

----------------------------------------------------------------------------
(* The page again. *)

\* The numbers in S, each once.
InOrder(S) ==
  CHOOSE f \in [1 .. Cardinality(S) -> S] :
    /\ \A i, j \in DOMAIN f : i < j => f[i] < f[j]
    /\ Range(f) = S

\* appendStoredBuildFacts and appendStoredRaidReports: what the list has not.
Appended(facts, incoming) ==
  LET new == InOrder({i \in DOMAIN incoming : incoming[i] \notin Range(facts)})
  IN  facts \o [i \in DOMAIN new |-> incoming[new[i]]]

ShowPage ==
  LET more  == request.cursor # Absent
      facts == IF more THEN Appended(list.facts, request.events) ELSE request.events
  IN  /\ request.phase = "page"
      /\ list' = [facts |-> facts, cursor |-> request.next,
                  status |-> IF facts = << >> THEN "empty" ELSE "ready",
                  of |-> IF more THEN list.of ELSE request.of]
      /\ request' = NoRequestYet
      /\ UNCHANGED <<checkpoint, stored, steady>>

\* 409 for a cursor: the list starts again.
StartAgain ==
  /\ request.phase = "changed"
  /\ list' = EmptyList("loading")
  /\ Ask(Absent)
  /\ UNCHANGED <<checkpoint, stored, steady>>

\* Any other answer, 401 included, or none: nothing of the list is kept.
RequestFails ==
  /\ request.phase # "none"
  /\ list' = EmptyList("error")
  /\ request' = NoRequestYet
  /\ UNCHANGED <<checkpoint, stored, steady>>

HistoryNext ==
  \/ \E c \in Chain : \E events \in SUBSET Emitted[c] : IndexerMoves(c, events)
  \/ LoadFirst \/ LoadMore \/ Unmounted
  \/ Serve
  \/ ShowPage \/ StartAgain \/ RequestFails

HistorySpec == HistoryInit /\ [][HistoryNext]_historyVars

----------------------------------------------------------------------------
\* However the indexer moves between the pages: the list is newest first, it is
\* of one chain, and an event that was in the table all the while is on it, or
\* is further down and there is a page to ask for.
ListFollowsTable ==
  list.of # Absent =>
    /\ \A i, j \in DOMAIN list.facts : i < j => list.facts[i] > list.facts[j]
    /\ \A i \in DOMAIN list.facts : list.facts[i] \in Emitted[list.of]
    /\ \A k \in steady :
         \/ \E i \in DOMAIN list.facts : list.facts[i] = k
         \/ list.cursor # Absent /\ k < Last(list.facts)
=============================================================================
