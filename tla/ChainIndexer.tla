---------------------------- MODULE ChainIndexer ----------------------------
(***************************************************************************)
(* The finalized replay of contract events into PostgreSQL:                *)
(* scripts/run-chain-indexer.mjs, server/chain-indexer-reader.js, -core.js *)
(* and -store.js.  A runner is one invocation of the script at a time; it  *)
(* reads the stored checkpoint, the head, and then batch by batch headers  *)
(* and logs over RPC, while the chain behind the RPC endpoint grows and    *)
(* reorganises and other runners do the same.  A batch is stored in one    *)
(* transaction under an advisory lock, which is one step here; everything  *)
(* read before it may be stale by then.                                    *)
(*                                                                         *)
(* A block stands for its hash: Parent is the parent hash.  An event row   *)
(* is a transaction, its primary key, with the block it was seen in.       *)
(***************************************************************************)
EXTENDS Integers, Sequences, FiniteSets

CONSTANTS
  Block,          \* block hashes
  NoBlock,        \* no block: the checkpoint before the first batch
  Height,         \* the height of each block
  Parent,         \* the parent of each block
  Transaction,    \* transactions that emit an event of the contract
  Emitted,        \* the transactions of each block
  Chains,         \* the chains that the RPC endpoint may present
  Runner,         \* processes that run the script
  StartBlock, Confirmations, RollbackDepth, MaxBlockRange,  \* configuration
  Lag,            \* how far behind the chain a reported head may be
  MaxReorg,       \* environment: blocks that a reorganisation may replace
  FinalHeight,    \* environment: blocks up to this height are never replaced
  MaxReorgs       \* bound: number of reorganisations

\* What normalizeReplayConfig admits.  It also admits start block 0, the genesis
\* block, which holds no contract: height 0 stands for no checkpoint here.
ASSUME ConfigAssumption ==
  /\ StartBlock \in Nat \ {0}
  /\ Confirmations \in Nat
  /\ RollbackDepth \in Nat
  /\ MaxBlockRange \in Nat
  /\ RollbackDepth + 1 < MaxBlockRange

ASSUME BlockAssumption ==
  /\ NoBlock \notin Block
  /\ Height \in [Block -> Nat \ {0}]
  /\ Parent \in [Block -> Block \cup {NoBlock}]
  /\ \A b \in Block : Parent[b] # NoBlock => Height[b] = Height[Parent[b]] + 1
  /\ Emitted \in [Block -> SUBSET Transaction]

\* A chain holds one block per height, each the child of the one before.
ASSUME ChainsAssumption ==
  \A c \in Chains :
    /\ c \in Seq(Block)
    /\ \A h \in DOMAIN c : Height[c[h]] = h
    /\ \A h \in DOMAIN c : h > 1 => Parent[c[h]] = c[h - 1]

\* A transaction is in one block of a chain.
ASSUME TransactionAssumption ==
  \A c \in Chains : \A g, h \in DOMAIN c : Emitted[c[g]] \cap Emitted[c[h]] # {} => g = h

ASSUME EnvironmentAssumption ==
  /\ Lag \in Nat
  /\ MaxReorg \in Nat
  /\ FinalHeight \in Nat
  /\ MaxReorgs \in Nat

Log == [tx : Transaction, block : Block]

VARIABLES
  chain,          \* the canonical chain, the block of height h at chain[h]
  reorgs,         \* reorganisations so far
  checkpoint,     \* chain_indexer_checkpoints
  rows,           \* chain_indexer_canonical_blocks
  events,         \* chain_indexer_raw_events
  runner          \* the local variables of each run

tables      == <<checkpoint, rows, events>>
indexerVars == <<chain, reorgs, tables, runner>>

Lower(x, y)  == IF x < y THEN x ELSE y
Higher(x, y) == IF x > y THEN x ELSE y

Idle ==
  [pc |-> "idle", known |-> 0, tip |-> 0, from |-> 0, headers |-> {}, logs |-> {}]

IndexerInit ==
  /\ chain \in {c \in Chains : Len(c) = Higher(FinalHeight, 1)}
  /\ reorgs = 0
  /\ checkpoint = NoBlock
  /\ rows = {}
  /\ events = {}
  /\ runner = [r \in Runner |-> Idle]

----------------------------------------------------------------------------
(* The chain. *)

SameUpTo(c, h) == \A i \in 1 .. h : c[i] = chain[i]

\* The chain grows by a block, or replaces up to MaxReorg blocks and becomes
\* no shorter.
ChainMoves(c) ==
  /\ Len(c) \in Len(chain) .. Len(chain) + 1
  /\ c # chain
  /\ SameUpTo(c, Higher(Len(chain) - MaxReorg, FinalHeight))
  /\ chain' = c
  /\ reorgs' = IF SameUpTo(c, Len(chain)) THEN reorgs ELSE reorgs + 1
  /\ UNCHANGED <<tables, runner>>

----------------------------------------------------------------------------
(* What one run reads. *)

CheckpointHeight == IF checkpoint = NoBlock THEN 0 ELSE Height[checkpoint]

\* Faulty variants: the overlap is a block longer than configured; there is no
\* overlap.
FaultyNextFrom(h) ==
  IF h = 0 THEN StartBlock ELSE Higher(h - RollbackDepth - 1, StartBlock)
FaultyNoOverlap(h) == IF h = 0 THEN StartBlock ELSE h + 1

\* A batch starts RollbackDepth blocks before the checkpoint, 0 for none.
NextFrom(h) ==
  IF h = 0 THEN StartBlock ELSE Higher(h - RollbackDepth, StartBlock)

BatchEnd(from, tip) == Lower(from + MaxBlockRange - 1, tip)

HeadersOf(c, from, to) == {c[h] : h \in from .. to}

LogsOf(c, from, to) ==
  {e \in Log :
     \E h \in from .. Lower(to, Len(c)) : e.block = c[h] /\ e.tx \in Emitted[c[h]]}

\* loadCheckpoint, outside of any transaction.
LoadCheckpoint(r) ==
  /\ runner[r].pc = "idle"
  /\ runner' = [runner EXCEPT ![r].pc = "head", ![r].known = CheckpointHeight]
  /\ UNCHANGED <<chain, reorgs, tables>>

\* eth_blockNumber less the confirmations.  Nothing final yet ends the run, and
\* so does a checkpoint above the tip.
ReadHead(r) ==
  \E head \in Higher(Len(chain) - Lag, 0) .. Len(chain) :
    LET tip == head - Confirmations IN
    /\ runner[r].pc = "head"
    /\ runner' =
         [runner EXCEPT ![r] =
            IF \/ tip < StartBlock
               \/ runner[r].known > tip
               \/ NextFrom(runner[r].known) > tip
            THEN Idle
            ELSE [Idle EXCEPT !.pc = "headers", !.tip = tip,
                              !.from = NextFrom(runner[r].known)]]
    /\ UNCHANGED <<chain, reorgs, tables>>

\* The headers of a batch.  They are requested one by one and checked to be
\* linked, so that they are those of the chain at the time the last was read.
ReadHeaders(r) ==
  LET from == runner[r].from
      to   == BatchEnd(from, runner[r].tip)
  IN
  /\ runner[r].pc = "headers"
  /\ to <= Len(chain)
  /\ runner' = [runner EXCEPT ![r].pc = "logs", ![r].headers = HeadersOf(chain, from, to)]
  /\ UNCHANGED <<chain, reorgs, tables>>

\* Faulty variant: the logs are taken as they come.
FaultyReadLogs(r) ==
  /\ runner[r].pc = "logs"
  /\ runner' = [runner EXCEPT ![r].pc = "store",
        ![r].logs = LogsOf(chain, runner[r].from, BatchEnd(runner[r].from, runner[r].tip))]
  /\ UNCHANGED <<chain, reorgs, tables>>

\* The logs of the same heights, a request later.  A log of a block that is not
\* among the headers fails the run.
ReadLogs(r) ==
  LET from == runner[r].from
      logs == LogsOf(chain, from, BatchEnd(from, runner[r].tip))
  IN
  /\ runner[r].pc = "logs"
  /\ runner' =
       [runner EXCEPT ![r] =
          IF \A e \in logs : e.block \in runner[r].headers
          THEN [runner[r] EXCEPT !.pc = "store", !.logs = logs]
          ELSE Idle]
  /\ UNCHANGED <<chain, reorgs, tables>>

----------------------------------------------------------------------------
(* storeFinalizedEvents: one transaction. *)

\* The rows that planReorgRollback is given.
Window == {b \in rows : Height[b] \in CheckpointHeight - RollbackDepth .. CheckpointHeight}

Ancestors(headers) ==
  {b \in Window : b \in headers \/ \E o \in headers : Parent[o] = b}

\* Rows are deleted from above the highest common ancestor.
Survives(headers, b) == \E a \in Ancestors(headers) : Height[b] <= Height[a]

\* ON CONFLICT DO NOTHING on (chain_id, contract_address, block_number).
NewRows(headers) ==
  LET kept == {b \in rows : Survives(headers, b)} IN
  kept \cup {b \in headers : /\ ~ Survives(headers, b)
                             /\ \A k \in kept : Height[k] # Height[b]}

\* Faulty variant: the events of the blocks rolled back stay.
FaultyNewEvents(headers, logs) ==
  events \cup {e \in logs : \A k \in events : k.tx # e.tx}

\* ON CONFLICT DO NOTHING on (..., transaction_hash, log_index).  Unlike blocks,
\* logs are inserted for the whole batch, below the ancestor too.
NewEvents(headers, logs) ==
  LET kept == {e \in events : Survives(headers, e.block)} IN
  kept \cup {e \in logs : \A k \in kept : k.tx # e.tx}

Tip(headers) == CHOOSE b \in headers : \A o \in headers : Height[o] <= Height[b]

Spanned(headers) == {Height[b] : b \in headers}

\* The read-back of the transaction: assertSameBlocks and assertSameLogs.
Verified(headers, logs) ==
  LET span == Spanned(headers) IN
  /\ {b \in NewRows(headers) : Height[b] \in span} = headers
  /\ {e \in NewEvents(headers, logs) : Height[e.block] \in span} = logs

\* Faulty variant: an older batch may overwrite a newer one.
FaultyNotStale(headers) == TRUE

NotStale(headers) == Height[Tip(headers)] >= CheckpointHeight

\* Anything else makes the transaction roll back and the run fail.
Accepted(headers, logs) ==
  /\ NotStale(headers)
  /\ checkpoint # NoBlock => checkpoint \in Window /\ Ancestors(headers) # {}
  /\ Verified(headers, logs)

\* The batch is committed and the run goes on with the next or is finished.
Store(r) ==
  LET headers == runner[r].headers
      logs    == runner[r].logs
      to      == Height[Tip(headers)]
  IN
  /\ runner[r].pc = "store"
  /\ Accepted(headers, logs)
  /\ checkpoint' = Tip(headers)
  /\ rows' = NewRows(headers)
  /\ events' = NewEvents(headers, logs)
  /\ runner' =
       [runner EXCEPT ![r] =
          IF to = runner[r].tip \/ NextFrom(to) > to
          THEN Idle
          ELSE [Idle EXCEPT !.pc = "headers", !.tip = runner[r].tip, !.from = NextFrom(to)]]
  /\ UNCHANGED <<chain, reorgs>>

\* The run fails at a request, in the transaction, or because it is killed;
\* before a commit the tables are untouched, after it they stay as stored.
Fail(r) ==
  /\ runner[r].pc # "idle"
  /\ runner' = [runner EXCEPT ![r] = Idle]
  /\ UNCHANGED <<chain, reorgs, tables>>

----------------------------------------------------------------------------
RunStep(r) == ReadHead(r) \/ ReadHeaders(r) \/ ReadLogs(r) \/ Store(r)

IndexerNext ==
  \/ \E c \in Chains : ChainMoves(c) /\ reorgs' <= MaxReorgs
  \/ \E r \in Runner : LoadCheckpoint(r) \/ RunStep(r) \/ Fail(r)

IndexerSpec == IndexerInit /\ [][IndexerNext]_indexerVars

\* A run that is started is executed: its process takes the next step or exits.
\* Nobody has to start one, and nothing is assumed of the chain.
Fairness == \A r \in Runner : WF_indexerVars(Fail(r) \/ RunStep(r))

FairSpec == IndexerSpec /\ Fairness

----------------------------------------------------------------------------
IndexerTypeOK ==
  /\ chain \in Chains
  /\ reorgs \in Nat
  /\ checkpoint \in Block \cup {NoBlock}
  /\ rows \subseteq Block
  /\ events \subseteq Log
  /\ runner \in [Runner -> [pc      : {"idle", "head", "headers", "logs", "store"},
                            known   : Nat,
                            tip     : Nat,
                            from    : Nat,
                            headers : SUBSET Block,
                            logs    : SUBSET Log]]

\* The block table is one hash chain from the start block to the checkpoint,
\* whatever forks the batches came from, and every event belongs to it.
RowsFormChain ==
  /\ checkpoint = NoBlock => rows = {}
  /\ checkpoint # NoBlock =>
       /\ checkpoint \in rows
       /\ {Height[b] : b \in rows} = StartBlock .. Height[checkpoint]
       /\ \A b \in rows : Height[b] > StartBlock => Parent[b] \in rows
       /\ \A a, b \in rows : Height[a] = Height[b] => a = b
  /\ \A e \in events : e.block \in rows

\* The checkpoint never moves back, blocks further below it than the rollback
\* depth are never replaced, and events leave the table only with their block.
HistoryStable ==
  [][/\ checkpoint' # checkpoint /\ checkpoint # NoBlock =>
          Height[checkpoint'] >= Height[checkpoint]
     /\ \A b \in rows : Height[b] <= CheckpointHeight - RollbackDepth => b \in rows'
     /\ \A e \in events : e.block \in rows' => e \in events'
    ]_indexerVars

\* Whatever forks the batches of all runners came from, the table is one hash chain,
\* and what it once said below the rollback depth stays.
TableHolds == []RowsFormChain /\ HistoryStable

\* Reorganisations stay within confirmations and rollback depth, and spare the
\* start block, whose parent is not in the table.
ReorgsWithinOverlap ==
  /\ MaxReorg <= Confirmations + RollbackDepth
  /\ FinalHeight >= StartBlock

\* As long as this is so, no state of the tables blocks the indexer: the first
\* batch of a run that reads the chain as it is now would be accepted.
AlwaysReplayable ==
  LET tip  == Len(chain) - Confirmations
      from == NextFrom(CheckpointHeight)
      to   == BatchEnd(from, tip)
  IN  tip >= StartBlock /\ tip >= CheckpointHeight =>
        Accepted(HeadersOf(chain, from, to), LogsOf(chain, from, to))

\* Every run ends, in failure or at the tip it found when it started: each of
\* its batches reaches further than the one before.
RunsEnd == \A r \in Runner : runner[r].pc # "idle" ~> runner[r].pc = "idle"

\* Headers and logs come from different moments, so a stored block may lack
\* events when the chain was on another fork in between and came back.  With
\* reorganisations as above the overlap repairs it: a block that no later batch
\* reads again has all its events in the table ("malformed, incomplete [...]
\* input fails closed", docs/CHAIN_INDEXER_FINALIZED_REPLAY.md).
SettledBlocksComplete ==
  \A b \in rows : Height[b] < CheckpointHeight - RollbackDepth =>
    \A t \in Emitted[b] : [tx |-> t, block |-> b] \in events
=============================================================================
