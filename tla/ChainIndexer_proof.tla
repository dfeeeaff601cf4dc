------------------------- MODULE ChainIndexer_proof -------------------------
(***************************************************************************)
(* The block table is one hash chain and its history is stable, for any    *)
(* number of runners, any configuration that normalizeReplayConfig admits, *)
(* and reorganisations of any depth (IndexerInv).                          *)
(*                                                                         *)
(* That invariant adds to RowsFormChain what a run knows between its       *)
(* steps: the headers it holds are a segment of some chain, its logs       *)
(* belong to them, and a batch that starts above the start block was       *)
(* preceded by a checkpoint.  The stored chain and the segment may be on   *)
(* different forks; that Store joins them is the heart of the proof.       *)
(*                                                                         *)
(* While reorganisations stay within confirmations and rollback depth, the *)
(* indexer is never blocked and no event is lost (SettledInv).  A height   *)
(* is settled once the chain is MaxReorg longer; whatever a batch leaves   *)
(* behind, below the block at which the next one starts, was settled when  *)
(* its headers were read, so that its logs are of the same blocks.         *)
(***************************************************************************)
EXTENDS ChainIndexer, WellFoundedInduction, TLAPS

\* Headers as a batch of heights from .. to that are linked to each other.
Segment(headers, from, to) ==
  /\ headers \subseteq Block
  /\ {Height[b] : b \in headers} = from .. to
  /\ \A b \in headers : Height[b] > from => Parent[b] \in headers
  /\ \A a, b \in headers : Height[a] = Height[b] => a = b

BatchOK(run) ==
  /\ run.pc = "head" /\ run.known > 0 => checkpoint # NoBlock
  /\ run.pc \in {"headers", "logs", "store"} =>
       /\ run.from >= StartBlock
       /\ run.from <= run.tip
       /\ run.from > StartBlock => checkpoint # NoBlock
  /\ run.pc \in {"logs", "store"} =>
       Segment(run.headers, run.from, BatchEnd(run.from, run.tip))
  /\ run.pc = "store" => \A e \in run.logs : e.block \in run.headers

RunsOK == \A r \in Runner : BatchOK(runner[r])

IndexerInv == IndexerTypeOK /\ RowsFormChain /\ RunsOK

----------------------------------------------------------------------------
\* A batch is not empty and starts no later than it ends.
LEMMA BatchEndFacts ==
  ASSUME NEW from \in Nat, NEW tip \in Nat, from <= tip
  PROVE  /\ BatchEnd(from, tip) \in Nat
         /\ from <= BatchEnd(from, tip)
         /\ BatchEnd(from, tip) <= tip
BY ConfigAssumption DEF BatchEnd, Lower

\* The next batch starts at the start block or after it, and above it only
\* when there is a checkpoint.
LEMMA NextFromFacts ==
  ASSUME NEW h \in Nat
  PROVE  /\ NextFrom(h) \in Nat
         /\ NextFrom(h) >= StartBlock
         /\ NextFrom(h) > StartBlock => h > 0
BY ConfigAssumption DEF NextFrom, Higher

\* What is read off a chain is a segment.
LEMMA HeadersSegment ==
  ASSUME NEW c \in Chains, NEW from \in Nat \ {0}, NEW to \in Nat, from <= to, to <= Len(c)
  PROVE  Segment(HeadersOf(c, from, to), from, to)
<1>1. c \in Seq(Block) /\ DOMAIN c = 1 .. Len(c) /\ Len(c) \in Nat
  BY ChainsAssumption
<1>2. \A h \in from .. to : h \in DOMAIN c /\ c[h] \in Block /\ Height[c[h]] = h
  BY <1>1, ChainsAssumption
<1>3. \A h \in from .. to : h > from => Parent[c[h]] = c[h - 1] /\ h - 1 \in from .. to
  BY <1>2, ChainsAssumption
<1>4. {Height[b] : b \in HeadersOf(c, from, to)} = from .. to
  BY <1>2 DEF HeadersOf
<1>5. \A b \in HeadersOf(c, from, to) : Height[b] > from => Parent[b] \in HeadersOf(c, from, to)
  BY <1>2, <1>3 DEF HeadersOf
<1> QED
  BY <1>2, <1>4, <1>5 DEF HeadersOf, Segment

\* A segment has one block of its last height.
LEMMA SegmentTip ==
  ASSUME NEW headers, NEW from \in Nat, NEW to \in Nat, from <= to,
         Segment(headers, from, to)
  PROVE  Tip(headers) \in headers /\ Height[Tip(headers)] = to
<1>1. PICK b \in headers : Height[b] = to
  BY DEF Segment
<1>2. \A o \in headers : Height[o] \in from .. to
  BY DEF Segment
<1>3. \A o \in headers : Height[o] <= Height[b]
  BY <1>1, <1>2
<1>4. Tip(headers) \in headers /\ \A o \in headers : Height[o] <= Height[Tip(headers)]
  BY <1>1, <1>3 DEF Tip
<1> QED
  BY <1>1, <1>2, <1>4

----------------------------------------------------------------------------
(* Store joins the batch to the table. *)

\* The table after Store is one chain up to the tip of the batch.
LEMMA StoreFormsChain ==
  ASSUME IndexerTypeOK, RowsFormChain,
         NEW headers, NEW logs \in SUBSET Log, NEW from \in Nat, NEW to \in Nat,
         from >= StartBlock, from <= to,
         from > StartBlock => checkpoint # NoBlock,
         Segment(headers, from, to),
         \A e \in logs : e.block \in headers,
         Accepted(headers, logs),
         checkpoint' = Tip(headers),
         rows' = NewRows(headers),
         events' = NewEvents(headers, logs)
  PROVE  RowsFormChain'
<1> DEFINE kept == {b \in rows : Survives(headers, b)}
<1>1. Tip(headers) \in headers /\ Height[Tip(headers)] = to
  BY SegmentTip
<1>2. headers \subseteq Block /\ \A b \in headers : Height[b] \in from .. to
  BY DEF Segment
<1>3. Spanned(headers) = from .. to
  BY DEF Segment, Spanned
<1>4. /\ kept \subseteq rows'
      /\ rows' \subseteq kept \cup headers
      /\ {b \in rows' : Height[b] \in from .. to} = headers
  BY <1>3 DEF NewRows, Accepted, Verified
<1>5. headers \subseteq rows'
  BY <1>4
<1>6. rows' \subseteq Block /\ \A b \in rows' : Height[b] \in Nat
  BY <1>2, <1>4, BlockAssumption DEF IndexerTypeOK
<1>7. \A b \in rows : Height[b] \in Nat /\ Height[b] \in StartBlock .. CheckpointHeight
  BY BlockAssumption DEF RowsFormChain, IndexerTypeOK, CheckpointHeight
<1>8. CheckpointHeight \in Nat /\ CheckpointHeight <= to
  BY <1>1, BlockAssumption DEF CheckpointHeight, IndexerTypeOK, Accepted, NotStale
<1>9. \A a, b \in rows : a \in kept /\ Height[b] <= Height[a] => b \in kept
  <2> SUFFICES ASSUME NEW a \in kept, NEW b \in rows, Height[b] <= Height[a]
               PROVE  Survives(headers, b)
    OBVIOUS
  <2>1. PICK o \in Ancestors(headers) : Height[a] <= Height[o]
    BY DEF Survives
  <2>2. o \in rows
    BY DEF Ancestors, Window
  <2> QED
    BY <1>7, <2>1, <2>2 DEF Survives
<1>10. \A a \in Ancestors(headers) : a \in kept
  BY <1>7 DEF Ancestors, Window, Survives
<1>11. checkpoint # NoBlock =>
         \E a \in kept : /\ Height[a] >= from - 1
                         /\ a \in headers \/ \E o \in headers : Parent[o] = a
  <2> SUFFICES ASSUME checkpoint # NoBlock
               PROVE  \E a \in kept : /\ Height[a] >= from - 1
                                      /\ a \in headers \/ \E o \in headers : Parent[o] = a
    OBVIOUS
  <2>1. PICK a \in Ancestors(headers) : TRUE
    BY DEF Accepted
  <2>2. a \in kept /\ a \in Block /\ a # NoBlock
    BY <2>1, <1>10, BlockAssumption DEF IndexerTypeOK
  <2>3. CASE a \in headers
    BY <2>2, <2>3, <1>2
  <2>4. CASE a \notin headers
    <3>1. PICK o \in headers : Parent[o] = a
      BY <2>1, <2>4 DEF Ancestors
    <3>2. Height[o] = Height[a] + 1
      BY <3>1, <2>2, <1>2, BlockAssumption
    <3> QED
      BY <3>1, <3>2, <2>2, <1>2, <1>7
  <2> QED
    BY <2>3, <2>4
<1>12. {Height[b] : b \in rows'} = StartBlock .. to
  <2>1. \A b \in rows' : Height[b] \in StartBlock .. to
    BY <1>2, <1>4, <1>7, <1>8, ConfigAssumption
  <2>2. \A n \in StartBlock .. to : \E b \in rows' : Height[b] = n
    <3> SUFFICES ASSUME NEW n \in StartBlock .. to PROVE \E b \in rows' : Height[b] = n
      OBVIOUS
    <3>1. CASE n >= from
      BY <3>1, <1>5 DEF Segment
    <3>2. CASE n < from
      <4>1. checkpoint # NoBlock
        BY <3>2, ConfigAssumption
      <4>2. PICK a \in kept : Height[a] >= from - 1
        BY <4>1, <1>11
      <4>3. n \in StartBlock .. Height[checkpoint]
        <5>1. Height[a] \in Nat /\ Height[a] <= CheckpointHeight
          BY <1>7
        <5>2. CheckpointHeight = Height[checkpoint] /\ CheckpointHeight \in Nat
          BY <4>1, <1>8 DEF CheckpointHeight
        <5> QED
          BY <5>1, <5>2, <4>2, <3>2, ConfigAssumption
      <4>4. PICK b \in rows : Height[b] = n
        BY <4>1, <4>3 DEF RowsFormChain
      <4>5. b \in kept
        BY <4>2, <4>4, <3>2, <1>9, <1>7, ConfigAssumption
      <4> QED
        BY <4>4, <4>5, <1>4
    <3> QED
      BY <3>1, <3>2, ConfigAssumption
  <2> QED
    BY <2>1, <2>2
<1>13. \A b \in rows' : Height[b] > StartBlock => Parent[b] \in rows'
  <2> SUFFICES ASSUME NEW b \in rows', Height[b] > StartBlock
               PROVE  Parent[b] \in rows'
    OBVIOUS
  <2>1. CASE b \in kept
    <3>1. Parent[b] \in rows
      BY <2>1, BlockAssumption DEF RowsFormChain
    <3>2. Height[Parent[b]] <= Height[b]
      BY <3>1, <1>6, BlockAssumption DEF IndexerTypeOK
    <3> QED
      BY <2>1, <3>1, <3>2, <1>9, <1>4
  <2>2. CASE b \in headers /\ Height[b] > from
    BY <2>2, <1>5 DEF Segment
  <2>3. CASE b \in headers /\ Height[b] = from /\ b \notin kept
    <3>1. checkpoint # NoBlock
      BY <2>3
    <3>2. PICK a \in kept : /\ Height[a] >= from - 1
                            /\ a \in headers \/ \E o \in headers : Parent[o] = a
      BY <3>1, <1>11
    <3>3. Height[a] < from
      <4>1. ~ Survives(headers, b)
        BY <2>3 DEF NewRows
      <4>2. PICK h \in Ancestors(headers) : Height[a] <= Height[h]
        BY <3>2 DEF Survives
      <4>3. Height[a] \in Nat /\ Height[h] \in Nat
        BY <3>2, <4>2, <1>7 DEF Ancestors, Window
      <4> QED
        BY <4>1, <4>2, <4>3, <2>3, <1>6 DEF Survives
    <3>4. a \notin headers
      BY <3>3, <1>2
    <3>5. PICK o \in headers : Parent[o] = a
      BY <3>2, <3>4
    <3>6. Height[o] = Height[a] + 1
      BY <3>5, <1>2, BlockAssumption DEF IndexerTypeOK
    <3>7. Height[o] = from
      BY <3>6, <3>3, <1>2, <1>7
    <3>8. o = b
      BY <3>7, <2>3 DEF Segment
    <3> QED
      BY <3>5, <3>8, <1>4
  <2> QED
    BY <2>1, <2>2, <2>3, <1>2, <1>4
<1>14. \A a, b \in rows' : Height[a] = Height[b] => a = b
  <2>1. \A b \in rows' : Height[b] \in from .. to \/ b \in rows
    BY <1>2, <1>4
  <2>2. \A a, b \in headers : Height[a] = Height[b] => a = b
    BY DEF Segment
  <2>3. \A a, b \in rows : Height[a] = Height[b] => a = b
    BY DEF RowsFormChain
  <2> QED
    BY <2>1, <2>2, <2>3, <1>4
<1>15. \A e \in events' : e.block \in rows'
  BY <1>4, <1>5 DEF NewEvents, RowsFormChain
<1>16. checkpoint' # NoBlock /\ checkpoint' \in rows' /\ Height[checkpoint'] = to
  BY <1>1, <1>2, <1>5, BlockAssumption
<1> QED
  BY <1>12, <1>13, <1>14, <1>15, <1>16 DEF RowsFormChain

\* The checkpoint does not move back, deep rows stay, and events stay with
\* their rows.
LEMMA StoreKeepsHistory ==
  ASSUME IndexerTypeOK, RowsFormChain,
         NEW headers, NEW logs \in SUBSET Log, NEW from \in Nat, NEW to \in Nat,
         from <= to,
         Segment(headers, from, to),
         Accepted(headers, logs),
         checkpoint' = Tip(headers),
         rows' = NewRows(headers),
         events' = NewEvents(headers, logs)
  PROVE  /\ checkpoint # NoBlock => Height[checkpoint'] >= Height[checkpoint]
         /\ \A b \in rows : Height[b] <= CheckpointHeight - RollbackDepth => b \in rows'
         /\ \A e \in events : e.block \in rows' => e \in events'
<1>1. checkpoint # NoBlock => Height[checkpoint'] >= Height[checkpoint]
  BY DEF Accepted, NotStale, CheckpointHeight
<1>2. \A b \in rows : Height[b] \in Nat /\ Height[b] <= CheckpointHeight
  BY BlockAssumption DEF RowsFormChain, IndexerTypeOK, CheckpointHeight
<1>3. CheckpointHeight \in Nat
  BY BlockAssumption DEF CheckpointHeight, IndexerTypeOK
<1>4. \A a \in Ancestors(headers) :
        a \in rows /\ Height[a] >= CheckpointHeight - RollbackDepth
  BY <1>2, <1>3, ConfigAssumption DEF Ancestors, Window
<1>5. rows # {} => \E a \in Ancestors(headers) : TRUE
  BY DEF RowsFormChain, Accepted
<1>6. \A b \in rows : Height[b] <= CheckpointHeight - RollbackDepth => Survives(headers, b)
  BY <1>2, <1>3, <1>4, <1>5, ConfigAssumption DEF Survives
<1>7. \A b \in rows : b \in headers => Survives(headers, b)
  <2> SUFFICES ASSUME NEW b \in rows, b \in headers PROVE Survives(headers, b)
    OBVIOUS
  <2>1. CASE b \in Window
    BY <2>1, <1>2 DEF Ancestors, Survives
  <2>2. CASE b \notin Window
    BY <2>2, <1>2, <1>3, <1>6, ConfigAssumption DEF Window
  <2> QED
    BY <2>1, <2>2
<1>8. \A b \in rows : Survives(headers, b) => b \in rows'
  BY DEF NewRows
<1>9. \A e \in events : e.block \in rows' => e \in events'
  <2> SUFFICES ASSUME NEW e \in events, e.block \in rows'
               PROVE  Survives(headers, e.block)
    BY DEF NewEvents
  <2>1. e.block \in rows
    BY DEF RowsFormChain
  <2> QED
    BY <2>1, <1>7 DEF NewRows
<1> QED
  BY <1>1, <1>6, <1>8, <1>9

----------------------------------------------------------------------------
(* The steps. *)

Run == [pc      : {"idle", "head", "headers", "logs", "store"},
        known   : Nat,
        tip     : Nat,
        from    : Nat,
        headers : SUBSET Block,
        logs    : SUBSET Log]

\* A run that is not between two requests has nothing to answer for.
LEMMA IdleOK == Idle \in Run /\ BatchOK(Idle)
BY DEF BatchOK, Idle, Run

\* A step of one run that leaves the tables alone has to account for that run
\* only.
LEMMA LocalStep ==
  ASSUME IndexerInv, NEW r \in Runner, NEW run \in Run, BatchOK(run),
         runner' = [runner EXCEPT ![r] = run],
         UNCHANGED <<chain, reorgs, tables>>
  PROVE  IndexerInv'
<1>1. runner \in [Runner -> Run]
  BY DEF IndexerInv, IndexerTypeOK, Run
<1>2. runner' \in [Runner -> Run]
  BY <1>1
<1>3. IndexerTypeOK'
  BY <1>2 DEF IndexerInv, IndexerTypeOK, Run, tables
<1>4. RowsFormChain'
  BY DEF IndexerInv, RowsFormChain, tables
<1>5. \A q \in Runner : runner'[q] = IF q = r THEN run ELSE runner[q]
  BY <1>1
<1>6. checkpoint' = checkpoint
  BY DEF tables
<1>7. \A q \in Runner : BatchOK(runner[q])
  BY DEF IndexerInv, RunsOK
<1>8. RunsOK'
  <2> SUFFICES ASSUME NEW q \in Runner PROVE BatchOK(runner[q])'
    BY DEF RunsOK
  <2>1. CASE q = r
    <3>1. runner'[q] = run
      BY <1>5, <2>1
    <3> QED
      BY <3>1, <1>6 DEF BatchOK
  <2>2. CASE q # r
    <3>1. runner'[q] = runner[q]
      BY <1>5, <2>2
    <3> QED
      BY <3>1, <1>6, <1>7 DEF BatchOK
  <2> QED
    BY <2>1, <2>2
<1> QED
  BY <1>3, <1>4, <1>8 DEF IndexerInv

\* What LoadCheckpoint, ReadHead and the two reads leave in the run is typed and
\* accounted for.
LEMMA ReadSteps ==
  ASSUME IndexerInv, NEW r \in Runner,
         \/ LoadCheckpoint(r) \/ ReadHead(r) \/ ReadHeaders(r) \/ ReadLogs(r) \/ Fail(r)
  PROVE  IndexerInv'
<1> DEFINE old == runner[r]
<1>1. old \in Run /\ BatchOK(old) /\ chain \in Chains
  BY DEF IndexerInv, IndexerTypeOK, RunsOK, Run
<1>2. CheckpointHeight \in Nat /\ (CheckpointHeight > 0 => checkpoint # NoBlock)
  BY BlockAssumption DEF CheckpointHeight, IndexerInv, IndexerTypeOK
<1>3. CASE LoadCheckpoint(r)
  <2> DEFINE run == [old EXCEPT !.pc = "head", !.known = CheckpointHeight]
  <2>1. run \in Run /\ BatchOK(run)
    BY <1>1, <1>2 DEF Run, BatchOK
  <2>2. runner' = [runner EXCEPT ![r] = run]
    BY <1>3 DEF LoadCheckpoint
  <2> HIDE DEF run
  <2> QED
    BY <2>1, <2>2, <1>3, LocalStep DEF LoadCheckpoint
<1>4. CASE ReadHead(r)
  <2>1. PICK head \in Higher(Len(chain) - Lag, 0) .. Len(chain) :
          LET tip == head - Confirmations IN
          /\ old.pc = "head"
          /\ runner' =
               [runner EXCEPT ![r] =
                  IF \/ tip < StartBlock
                     \/ old.known > tip
                     \/ NextFrom(old.known) > tip
                  THEN Idle
                  ELSE [Idle EXCEPT !.pc = "headers", !.tip = tip,
                                    !.from = NextFrom(old.known)]]
    BY <1>4 DEF ReadHead
  <2> DEFINE tip == head - Confirmations
             from == NextFrom(old.known)
             run == [Idle EXCEPT !.pc = "headers", !.tip = tip, !.from = from]
  <2>2. CASE tip < StartBlock \/ old.known > tip \/ from > tip
    <3>1. runner' = [runner EXCEPT ![r] = Idle]
      BY <2>1, <2>2
    <3> QED
      BY <3>1, <1>4, IdleOK, LocalStep DEF ReadHead
  <2>3. CASE ~ (tip < StartBlock \/ old.known > tip \/ from > tip)
    <3>1. tip \in Int
      BY ConfigAssumption, EnvironmentAssumption, ChainsAssumption, <1>1 DEF Higher
    <3>2. old.known \in Nat
      BY <1>1 DEF Run
    <3>3. from \in Nat /\ from >= StartBlock /\ (from > StartBlock => old.known > 0)
      BY <3>2, NextFromFacts
    <3>4. from <= tip /\ tip \in Nat
      BY <3>1, <3>3, <2>3
    <3>5. from > StartBlock => checkpoint # NoBlock
      BY <3>3, <2>1, <1>1 DEF BatchOK
    <3> HIDE DEF tip, from
    <3>6. run \in Run /\ BatchOK(run)
      BY <3>3, <3>4, <3>5 DEF Run, BatchOK, Idle
    <3>7. runner' = [runner EXCEPT ![r] = run]
      BY <2>1, <2>3 DEF tip, from
    <3> HIDE DEF run
    <3> QED
      BY <3>6, <3>7, <1>4, LocalStep DEF ReadHead
  <2> QED
    BY <2>2, <2>3
<1>5. CASE ReadHeaders(r)
  <2> DEFINE from == old.from
             to == BatchEnd(from, old.tip)
             headers == HeadersOf(chain, from, to)
             run == [old EXCEPT !.pc = "logs", !.headers = headers]
  <2>1. old.pc = "headers" /\ to <= Len(chain) /\ runner' = [runner EXCEPT ![r] = run]
    BY <1>5 DEF ReadHeaders
  <2>2. from \in Nat \ {0} /\ old.tip \in Nat /\ from <= old.tip
    BY <2>1, <1>1, ConfigAssumption DEF Run, BatchOK
  <2>3. to \in Nat /\ from <= to
    BY <2>2, BatchEndFacts
  <2>4. Segment(headers, from, to)
    BY <2>1, <2>2, <2>3, <1>1, HeadersSegment
  <2> HIDE DEF headers
  <2>5. headers \subseteq Block
    BY <2>4 DEF Segment
  <2>6. run \in Run /\ BatchOK(run)
    BY <2>1, <2>4, <2>5, <1>1 DEF Run, BatchOK
  <2> HIDE DEF run
  <2> QED
    BY <2>1, <2>6, <1>5, LocalStep DEF ReadHeaders
<1>6. CASE ReadLogs(r)
  <2> DEFINE logs == LogsOf(chain, old.from, BatchEnd(old.from, old.tip))
             run == [old EXCEPT !.pc = "store", !.logs = logs]
  <2>1. old.pc = "logs" /\ logs \subseteq Log
    BY <1>6 DEF ReadLogs, LogsOf
  <2>2. runner' =
          [runner EXCEPT ![r] = IF \A e \in logs : e.block \in old.headers THEN run ELSE Idle]
    BY <1>6 DEF ReadLogs
  <2> HIDE DEF logs
  <2>3. CASE \A e \in logs : e.block \in old.headers
    <3>1. run \in Run /\ BatchOK(run)
      BY <2>1, <2>3, <1>1 DEF Run, BatchOK
    <3>2. runner' = [runner EXCEPT ![r] = run]
      BY <2>2, <2>3
    <3> HIDE DEF run
    <3> QED
      BY <3>1, <3>2, <1>6, LocalStep DEF ReadLogs
  <2>4. CASE ~ \A e \in logs : e.block \in old.headers
    <3>1. runner' = [runner EXCEPT ![r] = Idle]
      BY <2>2, <2>4
    <3> QED
      BY <3>1, <1>6, IdleOK, LocalStep DEF ReadLogs
  <2> QED
    BY <2>3, <2>4
<1>7. CASE Fail(r)
  BY <1>7, IdleOK, LocalStep DEF Fail
<1> QED
  BY <1>3, <1>4, <1>5, <1>6, <1>7

\* Store keeps the invariant and the history.
LEMMA StoreStep ==
  ASSUME IndexerInv, NEW r \in Runner, Store(r)
  PROVE  /\ IndexerInv'
         /\ checkpoint # NoBlock => Height[checkpoint'] >= Height[checkpoint]
         /\ \A b \in rows : Height[b] <= CheckpointHeight - RollbackDepth => b \in rows'
         /\ \A e \in events : e.block \in rows' => e \in events'
<1> DEFINE old     == runner[r]
           headers == old.headers
           logs    == old.logs
           from    == old.from
           tip     == old.tip
           to      == BatchEnd(from, tip)
           next    == [Idle EXCEPT !.pc = "headers", !.tip = tip, !.from = NextFrom(to)]
<1>1. /\ old \in Run /\ BatchOK(old) /\ IndexerTypeOK /\ RowsFormChain
      /\ runner \in [Runner -> Run]
  BY DEF IndexerInv, IndexerTypeOK, RunsOK, Run
<1>2. /\ old.pc = "store"
      /\ Accepted(headers, logs)
      /\ checkpoint' = Tip(headers)
      /\ rows' = NewRows(headers)
      /\ events' = NewEvents(headers, logs)
      /\ UNCHANGED <<chain, reorgs>>
  BY DEF Store
<1>3. /\ from \in Nat /\ tip \in Nat /\ from >= StartBlock /\ from <= tip
      /\ from > StartBlock => checkpoint # NoBlock
      /\ Segment(headers, from, to)
      /\ \A e \in logs : e.block \in headers
      /\ logs \in SUBSET Log
  BY <1>1, <1>2 DEF BatchOK, Run
<1>4. to \in Nat /\ from <= to /\ to <= tip
  BY <1>3, BatchEndFacts
<1>5. Tip(headers) \in headers /\ Height[Tip(headers)] = to
  BY <1>3, <1>4, SegmentTip
<1>6. runner' = [runner EXCEPT ![r] = IF to = tip \/ NextFrom(to) > to THEN Idle ELSE next]
  BY <1>5 DEF Store
<1>7. headers \subseteq Block
  BY <1>3 DEF Segment
<1> HIDE DEF headers, logs, from, tip, to
<1>8. RowsFormChain'
  BY <1>1, <1>2, <1>3, <1>4, StoreFormsChain
<1>9. checkpoint' \in Block /\ checkpoint' # NoBlock
  BY <1>2, <1>5, <1>7, BlockAssumption
<1>10. /\ next \in Run
       /\ next.pc = "headers" /\ next.from = NextFrom(to) /\ next.tip = tip
       /\ NextFrom(to) >= StartBlock
  <2>1. NextFrom(to) \in Nat /\ NextFrom(to) >= StartBlock
    BY <1>4, NextFromFacts
  <2> QED
    BY <2>1, <1>3 DEF Run, Idle
<1>11. IndexerTypeOK'
  <2>1. rows' \subseteq Block
    BY <1>1, <1>2, <1>7 DEF IndexerTypeOK, NewRows
  <2>2. events' \subseteq Log
    BY <1>1, <1>2, <1>3 DEF IndexerTypeOK, NewEvents
  <2>3. runner' \in [Runner -> Run]
    BY <1>1, <1>6, <1>10, IdleOK
  <2> QED
    BY <1>1, <1>2, <1>9, <2>1, <2>2, <2>3 DEF IndexerTypeOK, Run
<1>12. RunsOK'
  <2> SUFFICES ASSUME NEW q \in Runner PROVE BatchOK(runner[q])'
    BY DEF RunsOK
  <2>1. CASE q # r
    <3>1. runner'[q] = runner[q] /\ BatchOK(runner[q])
      BY <1>1, <1>6, <2>1 DEF IndexerInv, RunsOK
    <3> QED
      BY <3>1, <1>9 DEF BatchOK
  <2>2. CASE q = r /\ (to = tip \/ NextFrom(to) > to)
    <3>1. runner'[q] = Idle
      BY <1>1, <1>6, <2>2
    <3> QED
      BY <3>1 DEF BatchOK, Idle
  <2>3. CASE q = r /\ ~ (to = tip \/ NextFrom(to) > to)
    <3>1. runner'[q] = next
      BY <1>1, <1>6, <2>3
    <3>2. NextFrom(to) <= tip
      BY <2>3, <1>3, <1>4, NextFromFacts
    <3> HIDE DEF next
    <3> QED
      BY <3>1, <3>2, <1>9, <1>10 DEF BatchOK
  <2> QED
    BY <2>1, <2>2, <2>3
<1>13. IndexerInv'
  BY <1>8, <1>11, <1>12 DEF IndexerInv
<1> QED
  BY <1>13, <1>1, <1>2, <1>3, <1>4, StoreKeepsHistory

----------------------------------------------------------------------------
\* The initial state has empty tables and idle runners.
LEMMA InitInv == IndexerInit => IndexerInv
<1> SUFFICES ASSUME IndexerInit PROVE IndexerInv
  OBVIOUS
<1>1. IndexerTypeOK
  BY IdleOK DEF IndexerInit, IndexerTypeOK, Run
<1>2. RowsFormChain
  BY DEF IndexerInit, RowsFormChain
<1>3. RunsOK
  BY IdleOK DEF IndexerInit, RunsOK
<1> QED
  BY <1>1, <1>2, <1>3 DEF IndexerInv

\* A step that leaves tables and runners alone keeps the invariant.
LEMMA OtherSteps ==
  ASSUME IndexerInv, chain' \in Chains, reorgs' \in Nat, UNCHANGED <<tables, runner>>
  PROVE  IndexerInv'
<1>1. IndexerTypeOK'
  BY DEF IndexerInv, IndexerTypeOK, tables
<1>2. RowsFormChain'
  BY DEF IndexerInv, RowsFormChain, tables
<1>3. RunsOK'
  <2> SUFFICES ASSUME NEW q \in Runner PROVE BatchOK(runner[q])'
    BY DEF RunsOK
  <2> QED
    BY DEF IndexerInv, RunsOK, BatchOK, tables
<1> QED
  BY <1>1, <1>2, <1>3 DEF IndexerInv

\* Every step keeps the invariant.
LEMMA NextInv == IndexerInv /\ [IndexerNext]_indexerVars => IndexerInv'
<1> SUFFICES ASSUME IndexerInv, [IndexerNext]_indexerVars PROVE IndexerInv'
  OBVIOUS
<1>1. chain \in Chains /\ reorgs \in Nat
  BY DEF IndexerInv, IndexerTypeOK
<1>2. CASE UNCHANGED indexerVars
  BY <1>1, <1>2, OtherSteps DEF indexerVars
<1>3. ASSUME NEW c \in Chains, ChainMoves(c) PROVE IndexerInv'
  <2>1. chain' \in Chains /\ reorgs' \in Nat /\ UNCHANGED <<tables, runner>>
    BY <1>1, <1>3 DEF ChainMoves
  <2> QED
    BY <2>1, OtherSteps
<1>4. ASSUME NEW r \in Runner, LoadCheckpoint(r) \/ RunStep(r) \/ Fail(r)
      PROVE  IndexerInv'
  <2>1. CASE Store(r)
    BY <2>1, StoreStep
  <2>2. CASE ~ Store(r)
    BY <2>2, <1>4, ReadSteps DEF RunStep
  <2> QED
    BY <2>1, <2>2
<1> QED
  BY <1>2, <1>3, <1>4 DEF IndexerNext

\* The inductive invariant holds in every state, for any number of runners,
\* any admitted configuration and reorganisations of any depth.
THEOREM IndexerInvariance == IndexerSpec => []IndexerInv
BY InitInv, NextInv, PTL DEF IndexerSpec

\* The block table is one hash chain up to the checkpoint, and every event row
\* belongs to one of its blocks.
THEOREM TableIsChain == IndexerSpec => []RowsFormChain
<1>1. IndexerInv => RowsFormChain
  BY DEF IndexerInv
<1> QED
  BY <1>1, IndexerInvariance, PTL

\* What one step may do to the tables.
LEMMA StepKeepsHistory ==
  ASSUME IndexerInv, IndexerNext
  PROVE  /\ checkpoint' # checkpoint /\ checkpoint # NoBlock =>
              Height[checkpoint'] >= Height[checkpoint]
         /\ \A b \in rows : Height[b] <= CheckpointHeight - RollbackDepth => b \in rows'
         /\ \A e \in events : e.block \in rows' => e \in events'
<1>1. CASE UNCHANGED tables
  BY <1>1 DEF tables
<1>2. ASSUME NEW r \in Runner, Store(r)
      PROVE  /\ checkpoint # NoBlock => Height[checkpoint'] >= Height[checkpoint]
             /\ \A b \in rows : Height[b] <= CheckpointHeight - RollbackDepth => b \in rows'
             /\ \A e \in events : e.block \in rows' => e \in events'
  BY <1>2, StoreStep
<1>3. UNCHANGED tables \/ \E r \in Runner : Store(r)
  BY DEF IndexerNext, ChainMoves, LoadCheckpoint, RunStep, ReadHead, ReadHeaders, ReadLogs, Fail
<1> QED
  BY <1>1, <1>2, <1>3

\* The checkpoint never moves back, blocks below the rollback depth are never
\* replaced, and events leave the table only together with their block.
THEOREM HistoryKept == IndexerSpec => HistoryStable
<1>1. IndexerInv /\ [IndexerNext]_indexerVars =>
        [/\ checkpoint' # checkpoint /\ checkpoint # NoBlock =>
              Height[checkpoint'] >= Height[checkpoint]
         /\ \A b \in rows : Height[b] <= CheckpointHeight - RollbackDepth => b \in rows'
         /\ \A e \in events : e.block \in rows' => e \in events'
        ]_indexerVars
  BY StepKeepsHistory
<1> QED
  BY <1>1, IndexerInvariance, PTL DEF IndexerSpec, HistoryStable

----------------------------------------------------------------------------
(* What reorganisations cannot reach any more. *)

\* What a run has read of the heights that its batch leaves behind.
RunSettled(run, c, height) ==
  /\ run.pc = "head" => run.known <= height
  /\ run.pc \in {"headers", "logs", "store"} =>
       /\ run.tip + Confirmations <= Len(c)
       /\ run.from > StartBlock =>
            run.from + RollbackDepth <= height /\ run.from + RollbackDepth <= run.tip
  /\ run.pc \in {"logs", "store"} =>
       \A h \in run.from .. NextFrom(BatchEnd(run.from, run.tip)) : c[h] \in run.headers
  /\ run.pc = "store" =>
       /\ \A e \in run.logs : e.tx \in Emitted[e.block]
       /\ \A h \in run.from .. BatchEnd(run.from, run.tip) - RollbackDepth :
            \A t \in Emitted[c[h]] : [tx |-> t, block |-> c[h]] \in run.logs

\* The block at which the next batch starts is that of the chain, and what lies
\* no higher has all its events.
TableSettled(c, height, table, logs) ==
  /\ height > 0 => height + Confirmations <= Len(c) /\ c[NextFrom(height)] \in table
  /\ \A e \in logs : e.tx \in Emitted[e.block]
  /\ \A b \in table : Height[b] <= height - RollbackDepth =>
       \A t \in Emitted[b] : [tx |-> t, block |-> b] \in logs

SettledInv ==
  /\ FinalHeight <= Len(chain)
  /\ TableSettled(chain, CheckpointHeight, rows, events)
  /\ \A r \in Runner : RunSettled(runner[r], chain, CheckpointHeight)

\* What holds of the top of an interval, and of the number below wherever it
\* holds, holds of all of it.
LEMMA DownTo ==
  ASSUME NEW low \in Nat, NEW top \in Nat, NEW good,
         top \in good,
         \A h \in low .. top : h \in good /\ h > low => h - 1 \in good
  PROVE  \A h \in low .. top : h \in good
<1> DEFINE Bad == {k \in Nat : k <= top - low /\ top - k \notin good}
<1>1. Bad = {}
  <2> SUFFICES ASSUME Bad # {} PROVE FALSE
    OBVIOUS
  <2>1. PICK k \in Bad : \A j \in Bad : ~ (<<j, k>> \in OpToRel(<, Nat))
    BY NatLessThanWellFounded, WFMin, Bad \subseteq Nat
  <2>2. k \in Nat /\ k # 0 /\ k <= top - low /\ top - k \notin good
    <3>1. k \in Nat /\ k <= top - low /\ top - k \notin good
      OBVIOUS
    <3>2. k = 0 => top - k = top
      OBVIOUS
    <3> QED
      BY <3>1, <3>2
  <2>3. k - 1 \in Nat /\ k - 1 < k
    BY <2>2
  <2>4. k - 1 \notin Bad
    <3>1. <<k - 1, k>> \in OpToRel(<, Nat)
      BY <2>2, <2>3 DEF OpToRel
    <3> QED
      BY <2>1, <2>3, <3>1
  <2>5. top - (k - 1) \in good
    <3>1. k - 1 <= top - low
      BY <2>2, <2>3
    <3> QED
      BY <2>3, <2>4, <3>1
  <2>6. /\ top - (k - 1) \in low .. top /\ top - (k - 1) > low
        /\ (top - (k - 1)) - 1 = top - k
    BY <2>2
  <2>7. (top - (k - 1)) - 1 \in good
    BY <2>5, <2>6
  <2> QED
    BY <2>2, <2>6, <2>7
<1> QED
  <2> SUFFICES ASSUME NEW h \in low .. top PROVE h \in good
    OBVIOUS
  <2>1. top - h \in Nat /\ top - h <= top - low /\ top - (top - h) = h
    OBVIOUS
  <2>2. top - h \notin Bad
    BY <1>1
  <2> QED
    BY <2>1, <2>2

LEMMA ChainFacts ==
  ASSUME NEW c \in Chains
  PROVE  /\ Len(c) \in Nat /\ DOMAIN c = 1 .. Len(c)
         /\ \A h \in 1 .. Len(c) : c[h] \in Block /\ Height[c[h]] = h
         /\ \A h \in 1 .. Len(c) : h > 1 => Parent[c[h]] = c[h - 1]
<1>1. c \in Seq(Block)
  BY ChainsAssumption
<1>2. Len(c) \in Nat /\ DOMAIN c = 1 .. Len(c) /\ \A h \in 1 .. Len(c) : c[h] \in Block
  BY <1>1
<1> QED
  BY <1>2, ChainsAssumption

LEMMA NextFromIs ==
  ASSUME NEW h \in Nat
  PROVE  /\ NextFrom(h) \in Nat /\ NextFrom(h) >= StartBlock /\ NextFrom(h) >= h - RollbackDepth
         /\ NextFrom(h) = StartBlock \/ NextFrom(h) = h - RollbackDepth
BY ConfigAssumption DEF NextFrom, Higher

\* A batch reaches beyond the block at which the next one starts.
LEMMA BatchReaches ==
  ASSUME NEW from \in Nat, NEW tip \in Nat, from >= StartBlock, from <= tip,
         from > StartBlock => from + RollbackDepth <= tip
  PROVE  /\ from <= NextFrom(BatchEnd(from, tip))
         /\ from > StartBlock => from + RollbackDepth <= BatchEnd(from, tip)
         /\ NextFrom(BatchEnd(from, tip)) <= BatchEnd(from, tip)
<1>1. BatchEnd(from, tip) \in Nat /\ from <= BatchEnd(from, tip)
  BY BatchEndFacts
<1>2. from > StartBlock => from + RollbackDepth <= BatchEnd(from, tip)
  BY ConfigAssumption DEF BatchEnd, Lower
<1>3. /\ NextFrom(BatchEnd(from, tip)) >= StartBlock
      /\ NextFrom(BatchEnd(from, tip)) >= BatchEnd(from, tip) - RollbackDepth
      /\ \/ NextFrom(BatchEnd(from, tip)) = StartBlock
         \/ NextFrom(BatchEnd(from, tip)) = BatchEnd(from, tip) - RollbackDepth
      /\ NextFrom(BatchEnd(from, tip)) \in Nat
  BY <1>1, NextFromIs
<1> QED
  BY <1>1, <1>2, <1>3, ConfigAssumption

\* Heights that a chain of this length keeps.
Kept(length) == Higher(length - MaxReorg, FinalHeight)

LEMMA NextIsKept ==
  ASSUME ReorgsWithinOverlap, NEW length \in Nat, FinalHeight <= length,
         NEW to \in Nat, to >= StartBlock, to + Confirmations <= length
  PROVE  /\ NextFrom(to) <= Kept(length) /\ Kept(length) <= length
         /\ NextFrom(to) \in 1 .. length
BY ConfigAssumption, EnvironmentAssumption DEF ReorgsWithinOverlap, NextFrom, Kept, Higher

\* What is typed and accounted for in a run with a batch.
LEMMA BatchFacts ==
  ASSUME NEW run \in Run, BatchOK(run), run.pc \in {"headers", "logs", "store"}
  PROVE  /\ run.from \in Nat /\ run.tip \in Nat /\ run.from >= StartBlock
         /\ BatchEnd(run.from, run.tip) \in Nat
         /\ run.from <= BatchEnd(run.from, run.tip)
         /\ BatchEnd(run.from, run.tip) <= run.tip
<1>1. run.from \in Nat /\ run.tip \in Nat /\ run.from >= StartBlock /\ run.from <= run.tip
  BY DEF BatchOK, Run
<1> QED
  BY <1>1, BatchEndFacts

\* The heights that a batch leaves behind are out of reach.
LEMMA BatchIsKept ==
  ASSUME ReorgsWithinOverlap, NEW length \in Nat, FinalHeight <= length,
         NEW run \in Run, BatchOK(run), run.pc \in {"headers", "logs", "store"},
         run.tip + Confirmations <= length
  PROVE  LET to == BatchEnd(run.from, run.tip)
         IN  /\ to - RollbackDepth <= NextFrom(to)
             /\ NextFrom(to) \in Nat /\ NextFrom(to) <= Kept(length)
<1> DEFINE to == BatchEnd(run.from, run.tip)
<1>1. to \in Nat /\ to >= StartBlock /\ to <= run.tip /\ run.tip \in Nat
  BY BatchFacts, ConfigAssumption
<1> HIDE DEF to
<1>2. to + Confirmations <= length
  BY <1>1, ConfigAssumption
<1>3. NextFrom(to) <= Kept(length)
  BY <1>1, <1>2, NextIsKept
<1>4. NextFrom(to) \in Nat /\ NextFrom(to) >= to - RollbackDepth
  BY <1>1, NextFromIs
<1> QED
  BY <1>3, <1>4, <1>1, ConfigAssumption DEF to

\* A run is not affected by reorganisations.
LEMMA RunKeeps ==
  ASSUME ReorgsWithinOverlap, NEW c \in Chains, NEW d \in Chains,
         FinalHeight <= Len(c), Len(c) <= Len(d),
         \A i \in 1 .. Kept(Len(c)) : d[i] = c[i],
         NEW height, NEW run \in Run, BatchOK(run), RunSettled(run, c, height)
  PROVE  RunSettled(run, d, height)
<1>1. Len(c) \in Nat /\ Len(d) \in Nat
  BY ChainFacts
<1>2. CASE run.pc \notin {"headers", "logs", "store"}
  BY <1>2 DEF RunSettled
<1>3. CASE run.pc \in {"headers", "logs", "store"}
  <2> DEFINE to == BatchEnd(run.from, run.tip)
  <2>1. /\ run.tip + Confirmations <= Len(c) /\ run.tip \in Nat
        /\ run.from > StartBlock =>
             run.from + RollbackDepth <= height /\ run.from + RollbackDepth <= run.tip
        /\ run.from \in Nat /\ run.from >= StartBlock
        /\ to \in Nat
    BY <1>3, BatchFacts DEF RunSettled
  <2>2. /\ to - RollbackDepth <= NextFrom(to)
        /\ NextFrom(to) \in Nat /\ NextFrom(to) <= Kept(Len(c))
    BY <1>1, <1>3, <2>1, BatchIsKept
  <2>3. Kept(Len(c)) \in Int
    BY <1>1, EnvironmentAssumption DEF Kept, Higher
  <2>4. \A h \in run.from .. NextFrom(to) : d[h] = c[h]
    BY <2>1, <2>2, <2>3, ConfigAssumption
  <2>5. \A h \in run.from .. to - RollbackDepth : d[h] = c[h]
    <3>1. \A h \in run.from .. to - RollbackDepth : h \in run.from .. NextFrom(to)
      BY <2>1, <2>2, ConfigAssumption
    <3> QED
      BY <2>4, <3>1
  <2>6. run.tip + Confirmations <= Len(d)
    BY <1>1, <2>1, ConfigAssumption
  <2> HIDE DEF to
  <2>7. /\ run.pc \in {"logs", "store"} => \A h \in run.from .. NextFrom(to) : c[h] \in run.headers
        /\ run.pc = "store" =>
             /\ \A e \in run.logs : e.tx \in Emitted[e.block]
             /\ \A h \in run.from .. to - RollbackDepth :
                  \A t \in Emitted[c[h]] : [tx |-> t, block |-> c[h]] \in run.logs
    BY DEF to, RunSettled
  <2>8. /\ run.pc \in {"logs", "store"} => \A h \in run.from .. NextFrom(to) : d[h] \in run.headers
        /\ run.pc = "store" =>
             \A h \in run.from .. to - RollbackDepth :
               \A t \in Emitted[d[h]] : [tx |-> t, block |-> d[h]] \in run.logs
    BY <2>4, <2>5, <2>7
  <2> QED
    BY <1>3, <2>1, <2>6, <2>7, <2>8 DEF RunSettled, to
<1> QED
  BY <1>2, <1>3

\* A run is not affected by batches of others.
LEMMA RunGrows ==
  ASSUME NEW run \in Run, NEW c, NEW height \in Nat, NEW higher \in Nat, height <= higher,
         RunSettled(run, c, height)
  PROVE  RunSettled(run, c, higher)
<1>1. run.known \in Nat /\ run.from \in Nat
  BY DEF Run
<1>2. run.known <= height => run.known <= higher
  BY <1>1
<1>3. run.from + RollbackDepth <= height => run.from + RollbackDepth <= higher
  BY <1>1, ConfigAssumption
<1> QED
  BY <1>2, <1>3 DEF RunSettled

LEMMA HeightFacts ==
  ASSUME IndexerInv
  PROVE  /\ CheckpointHeight \in Nat
         /\ CheckpointHeight > 0 <=> checkpoint # NoBlock
         /\ checkpoint # NoBlock => CheckpointHeight >= StartBlock /\ checkpoint \in rows
         /\ \A b \in rows : b \in Block /\ Height[b] \in StartBlock .. CheckpointHeight
<1>1. IndexerTypeOK /\ RowsFormChain
  BY DEF IndexerInv
<1>2. checkpoint # NoBlock => checkpoint \in Block /\ Height[checkpoint] \in Nat \ {0}
  BY <1>1, BlockAssumption DEF IndexerTypeOK
<1>3. CheckpointHeight = IF checkpoint = NoBlock THEN 0 ELSE Height[checkpoint]
  BY DEF CheckpointHeight
<1>4. /\ checkpoint = NoBlock => rows = {}
      /\ checkpoint # NoBlock =>
           checkpoint \in rows /\ \A b \in rows : Height[b] \in StartBlock .. Height[checkpoint]
      /\ rows \subseteq Block
  BY <1>1 DEF RowsFormChain, IndexerTypeOK
<1> QED
  BY <1>2, <1>3, <1>4, ConfigAssumption

\* Reorganisations leave what is settled alone.
LEMMA MovesSettled ==
  ASSUME ReorgsWithinOverlap, IndexerInv, SettledInv, NEW c \in Chains, ChainMoves(c)
  PROVE  SettledInv'
<1>1. /\ chain \in Chains /\ chain' = c /\ UNCHANGED <<checkpoint, rows, events, runner>>
      /\ Len(c) \in Len(chain) .. Len(chain) + 1
      /\ \A i \in 1 .. Kept(Len(chain)) : c[i] = chain[i]
  BY DEF ChainMoves, SameUpTo, Kept, tables, IndexerInv, IndexerTypeOK
<1>2. Len(chain) \in Nat /\ Len(c) \in Nat /\ Len(chain) <= Len(c)
  BY <1>1, ChainFacts
<1>3. FinalHeight <= Len(chain) /\ TableSettled(chain, CheckpointHeight, rows, events)
  BY DEF SettledInv
<1>4. CheckpointHeight' = CheckpointHeight
  BY <1>1 DEF CheckpointHeight
<1>5. TableSettled(c, CheckpointHeight, rows, events)
  <2>1. CheckpointHeight \in Nat /\ (CheckpointHeight > 0 => CheckpointHeight >= StartBlock)
    BY HeightFacts
  <2>2. CheckpointHeight > 0 =>
          CheckpointHeight + Confirmations <= Len(chain) /\ chain[NextFrom(CheckpointHeight)] \in rows
    BY <1>3 DEF TableSettled
  <2>3. CheckpointHeight > 0 =>
          NextFrom(CheckpointHeight) <= Kept(Len(chain)) /\ NextFrom(CheckpointHeight) \in 1 .. Len(chain)
    BY <1>2, <1>3, <2>1, <2>2, NextIsKept
  <2>4. Kept(Len(chain)) \in Int
    BY <1>2, EnvironmentAssumption DEF Kept, Higher
  <2>5. CheckpointHeight > 0 => c[NextFrom(CheckpointHeight)] \in rows
    BY <1>1, <1>2, <2>2, <2>3, <2>4
  <2>6. CheckpointHeight > 0 => CheckpointHeight + Confirmations <= Len(c)
    BY <1>2, <2>1, <2>2, ConfigAssumption
  <2> QED
    BY <1>3, <2>5, <2>6 DEF TableSettled
<1>6. ASSUME NEW r \in Runner PROVE RunSettled(runner[r], c, CheckpointHeight)
  <2>1. runner[r] \in Run /\ BatchOK(runner[r]) /\ RunSettled(runner[r], chain, CheckpointHeight)
    BY DEF IndexerInv, IndexerTypeOK, RunsOK, Run, SettledInv
  <2> QED
    BY <1>1, <1>2, <1>3, <2>1, RunKeeps
<1>7. FinalHeight <= Len(c)
  BY <1>2, <1>3, EnvironmentAssumption
<1> QED
  BY <1>1, <1>4, <1>5, <1>6, <1>7 DEF SettledInv

LEMMA IdleSettled == ASSUME NEW c, NEW height PROVE RunSettled(Idle, c, height)
BY DEF RunSettled, Idle

LEMMA LocalSettled ==
  ASSUME IndexerInv, SettledInv, NEW r \in Runner, NEW run,
         RunSettled(run, chain, CheckpointHeight),
         runner' = [runner EXCEPT ![r] = run],
         UNCHANGED <<chain, reorgs, tables>>
  PROVE  SettledInv'
<1>1. /\ chain' = chain /\ rows' = rows /\ events' = events /\ checkpoint' = checkpoint
      /\ CheckpointHeight' = CheckpointHeight
  BY DEF tables, CheckpointHeight
<1>2. DOMAIN runner = Runner
  BY DEF IndexerInv, IndexerTypeOK
<1>3. ASSUME NEW q \in Runner PROVE RunSettled(runner'[q], chain, CheckpointHeight)
  <2>1. runner'[q] = IF q = r THEN run ELSE runner[q]
    BY <1>2
  <2> QED
    BY <2>1 DEF SettledInv
<1> QED
  BY <1>1, <1>3 DEF SettledInv

\* What a run reads of a chain is so for the heights it leaves behind.
LEMMA ReadsSettled ==
  ASSUME IndexerInv, SettledInv, NEW r \in Runner,
         \/ LoadCheckpoint(r) \/ ReadHead(r) \/ ReadHeaders(r) \/ ReadLogs(r) \/ Fail(r)
  PROVE  SettledInv'
<1> DEFINE old == runner[r]
<1>1. /\ old \in Run /\ BatchOK(old) /\ chain \in Chains
      /\ RunSettled(old, chain, CheckpointHeight)
  BY DEF IndexerInv, IndexerTypeOK, RunsOK, Run, SettledInv
<1>2. Len(chain) \in Nat /\ CheckpointHeight \in Nat
  BY <1>1, ChainFacts, HeightFacts
<1>3. CASE LoadCheckpoint(r)
  <2> DEFINE run == [old EXCEPT !.pc = "head", !.known = CheckpointHeight]
  <2>1. run.pc = "head" /\ run.known = CheckpointHeight
    BY <1>1 DEF Run
  <2>2. RunSettled(run, chain, CheckpointHeight)
    BY <1>2, <2>1 DEF RunSettled
  <2>3. runner' = [runner EXCEPT ![r] = run] /\ UNCHANGED <<chain, reorgs, tables>>
    BY <1>3 DEF LoadCheckpoint
  <2> HIDE DEF run
  <2> QED
    BY <2>2, <2>3, LocalSettled
<1>4. CASE ReadHead(r)
  <2>1. PICK head \in Higher(Len(chain) - Lag, 0) .. Len(chain) :
          LET tip == head - Confirmations IN
          /\ old.pc = "head"
          /\ runner' =
               [runner EXCEPT ![r] =
                  IF \/ tip < StartBlock
                     \/ old.known > tip
                     \/ NextFrom(old.known) > tip
                  THEN Idle
                  ELSE [Idle EXCEPT !.pc = "headers", !.tip = tip,
                                    !.from = NextFrom(old.known)]]
          /\ UNCHANGED <<chain, reorgs, tables>>
    BY <1>4 DEF ReadHead
  <2> DEFINE tip == head - Confirmations
             from == NextFrom(old.known)
             run == [Idle EXCEPT !.pc = "headers", !.tip = tip, !.from = from]
  <2>2. CASE tip < StartBlock \/ old.known > tip \/ from > tip
    <3>1. runner' = [runner EXCEPT ![r] = Idle]
      BY <2>1, <2>2
    <3> QED
      BY <2>1, <3>1, IdleSettled, LocalSettled
  <2>3. CASE ~ (tip < StartBlock \/ old.known > tip \/ from > tip)
    <3>1. tip \in Int /\ tip + Confirmations <= Len(chain)
      BY <1>2, ConfigAssumption, EnvironmentAssumption DEF Higher
    <3>2. old.known \in Nat /\ old.known <= CheckpointHeight /\ old.known <= tip
      BY <1>1, <2>1, <2>3, <3>1 DEF Run, RunSettled
    <3>3. /\ from \in Nat
          /\ from = StartBlock \/ from = old.known - RollbackDepth
      BY <3>2, NextFromIs
    <3> HIDE DEF tip, from
    <3>4. from > StartBlock =>
            from + RollbackDepth <= CheckpointHeight /\ from + RollbackDepth <= tip
      BY <1>2, <3>1, <3>2, <3>3, ConfigAssumption
    <3>5. run.pc = "headers" /\ run.tip = tip /\ run.from = from
      BY DEF Idle
    <3>6. RunSettled(run, chain, CheckpointHeight)
      BY <3>1, <3>4, <3>5 DEF RunSettled
    <3>7. runner' = [runner EXCEPT ![r] = run]
      BY <2>1, <2>3 DEF tip, from
    <3> HIDE DEF run
    <3> QED
      BY <2>1, <3>6, <3>7, LocalSettled
  <2> QED
    BY <2>2, <2>3
<1>5. ASSUME old.pc \in {"headers", "logs"}
      PROVE  /\ old.from \in Nat \ {0} /\ BatchEnd(old.from, old.tip) \in Nat
             /\ BatchEnd(old.from, old.tip) <= Len(chain)
             /\ old.from <= NextFrom(BatchEnd(old.from, old.tip))
             /\ NextFrom(BatchEnd(old.from, old.tip)) <= BatchEnd(old.from, old.tip)
             /\ NextFrom(BatchEnd(old.from, old.tip)) \in Nat
  <2>1. /\ old.from \in Nat /\ old.tip \in Nat /\ old.from >= StartBlock
        /\ BatchEnd(old.from, old.tip) \in Nat /\ old.from <= old.tip
        /\ BatchEnd(old.from, old.tip) <= old.tip
    BY <1>1, <1>5, BatchFacts
  <2>2. /\ old.tip + Confirmations <= Len(chain)
        /\ old.from > StartBlock => old.from + RollbackDepth <= old.tip
    BY <1>1, <1>5 DEF RunSettled
  <2>3. /\ old.from <= NextFrom(BatchEnd(old.from, old.tip))
        /\ NextFrom(BatchEnd(old.from, old.tip)) <= BatchEnd(old.from, old.tip)
    BY <2>1, <2>2, BatchReaches
  <2>4. NextFrom(BatchEnd(old.from, old.tip)) \in Nat
    BY <2>1, NextFromIs
  <2> QED
    BY <1>2, <2>1, <2>2, <2>3, <2>4, ConfigAssumption
<1>6. CASE ReadHeaders(r)
  <2> DEFINE from == old.from
             to == BatchEnd(from, old.tip)
             headers == HeadersOf(chain, from, to)
             run == [old EXCEPT !.pc = "logs", !.headers = headers]
  <2>1. /\ old.pc = "headers" /\ runner' = [runner EXCEPT ![r] = run]
        /\ UNCHANGED <<chain, reorgs, tables>>
    BY <1>6 DEF ReadHeaders
  <2>2. /\ from \in Nat /\ to \in Nat /\ NextFrom(to) \in Nat /\ NextFrom(to) <= to
    BY <1>5, <2>1
  <2>3. \A h \in from .. NextFrom(to) : chain[h] \in headers
    BY <2>2 DEF HeadersOf
  <2> HIDE DEF headers
  <2>4. /\ run.pc = "logs" /\ run.from = old.from /\ run.tip = old.tip
        /\ run.headers = headers
    BY <1>1 DEF Run
  <2>5. RunSettled(run, chain, CheckpointHeight)
    BY <1>1, <2>1, <2>3, <2>4 DEF RunSettled
  <2> HIDE DEF run
  <2> QED
    BY <2>1, <2>5, LocalSettled
<1>7. CASE ReadLogs(r)
  <2> DEFINE from == old.from
             to == BatchEnd(from, old.tip)
             logs == LogsOf(chain, from, to)
             run == [old EXCEPT !.pc = "store", !.logs = logs]
  <2>1. /\ old.pc = "logs" /\ UNCHANGED <<chain, reorgs, tables>>
        /\ runner' =
             [runner EXCEPT ![r] = IF \A e \in logs : e.block \in old.headers THEN run ELSE Idle]
    BY <1>7 DEF ReadLogs
  <2>2. \A e \in logs : e.tx \in Emitted[e.block]
    BY DEF LogsOf
  <2>3. ASSUME NEW h \in from .. to - RollbackDepth, NEW t \in Emitted[chain[h]]
        PROVE  [tx |-> t, block |-> chain[h]] \in logs
    <3>1. /\ from \in Nat \ {0} /\ to \in Nat /\ to <= Len(chain)
      BY <1>5, <2>1
    <3>2. h \in 1 .. Len(chain) /\ h \in from .. Lower(to, Len(chain))
      BY <1>2, <3>1, ConfigAssumption DEF Lower
    <3>3. chain[h] \in Block /\ t \in Transaction
      BY <1>1, <3>2, ChainFacts, BlockAssumption
    <3> QED
      BY <3>2, <3>3 DEF LogsOf, Log
  <2> HIDE DEF logs
  <2>4. CASE \A e \in logs : e.block \in old.headers
    <3>1. /\ run.pc = "store" /\ run.from = old.from /\ run.tip = old.tip
          /\ run.headers = old.headers /\ run.logs = logs
      BY <1>1 DEF Run
    <3>2. RunSettled(run, chain, CheckpointHeight)
      BY <1>1, <2>1, <2>2, <2>3, <3>1 DEF RunSettled
    <3>3. runner' = [runner EXCEPT ![r] = run]
      BY <2>1, <2>4
    <3> HIDE DEF run
    <3> QED
      BY <2>1, <3>2, <3>3, LocalSettled
  <2>5. CASE ~ \A e \in logs : e.block \in old.headers
    <3>1. runner' = [runner EXCEPT ![r] = Idle]
      BY <2>1, <2>5
    <3> QED
      BY <2>1, <3>1, IdleSettled, LocalSettled
  <2> QED
    BY <2>4, <2>5
<1>8. CASE Fail(r)
  BY <1>8, IdleSettled, LocalSettled DEF Fail
<1> QED
  BY <1>3, <1>4, <1>6, <1>7, <1>8

\* A batch brings the events of all that it leaves behind.
LEMMA StoreSettled ==
  ASSUME IndexerInv, SettledInv, NEW r \in Runner, Store(r)
  PROVE  SettledInv'
<1> DEFINE old     == runner[r]
           headers == old.headers
           logs    == old.logs
           from    == old.from
           tip     == old.tip
           to      == BatchEnd(from, tip)
           next    == [Idle EXCEPT !.pc = "headers", !.tip = tip, !.from = NextFrom(to)]
<1>1. /\ old \in Run /\ BatchOK(old) /\ IndexerTypeOK /\ RowsFormChain
      /\ runner \in [Runner -> Run] /\ chain \in Chains
      /\ RunSettled(old, chain, CheckpointHeight)
      /\ TableSettled(chain, CheckpointHeight, rows, events)
  BY DEF IndexerInv, IndexerTypeOK, RunsOK, Run, SettledInv
<1>2. /\ old.pc = "store"
      /\ Accepted(headers, logs)
      /\ checkpoint' = Tip(headers)
      /\ rows' = NewRows(headers)
      /\ events' = NewEvents(headers, logs)
      /\ UNCHANGED <<chain, reorgs>>
  BY DEF Store
<1>3. /\ from \in Nat /\ tip \in Nat /\ from >= StartBlock /\ from <= tip
      /\ Segment(headers, from, to)
  BY <1>1, <1>2 DEF BatchOK, Run
<1>4. to \in Nat /\ from <= to /\ to <= tip
  BY <1>3, BatchEndFacts
<1>5. Tip(headers) \in headers /\ Height[Tip(headers)] = to
  BY <1>3, <1>4, SegmentTip
<1>6. runner' = [runner EXCEPT ![r] = IF to = tip \/ NextFrom(to) > to THEN Idle ELSE next]
  BY <1>5 DEF Store
<1>7. /\ tip + Confirmations <= Len(chain)
      /\ from > StartBlock =>
           from + RollbackDepth <= CheckpointHeight /\ from + RollbackDepth <= tip
      /\ \A h \in from .. NextFrom(to) : chain[h] \in headers
      /\ \A e \in logs : e.tx \in Emitted[e.block]
      /\ \A h \in from .. to - RollbackDepth :
           \A t \in Emitted[chain[h]] : [tx |-> t, block |-> chain[h]] \in logs
  BY <1>1, <1>2 DEF RunSettled
<1>8. from <= NextFrom(to) /\ NextFrom(to) <= to /\ NextFrom(to) \in Nat
  <2>1. NextFrom(to) \in Nat
    BY <1>4, NextFromIs
  <2> QED
    BY <1>3, <1>7, <2>1, BatchReaches
<1>9. Len(chain) \in Nat /\ CheckpointHeight \in Nat
  BY <1>1, ChainFacts, HeightFacts
<1>10. CheckpointHeight <= to
  <2>1. Height[Tip(headers)] >= CheckpointHeight
    BY <1>2 DEF Accepted, NotStale
  <2> QED
    BY <1>4, <1>5, <1>9, <2>1
<1> HIDE DEF headers, logs, from, tip, to
<1>11. CheckpointHeight' = to
  <2>1. Tip(headers) # NoBlock
    BY <1>3, <1>5, BlockAssumption DEF Segment
  <2> QED
    BY <1>2, <1>5, <2>1 DEF CheckpointHeight
<1>12. /\ {b \in rows' : Height[b] \in from .. to} = headers
       /\ {e \in events' : Height[e.block] \in from .. to} = logs
       /\ \A b \in headers : Height[b] \in from .. to
       /\ \A a, b \in headers : Height[a] = Height[b] => a = b
  <2>1. Spanned(headers) = from .. to
    BY <1>3 DEF Segment, Spanned
  <2>2. \A b \in headers : Height[b] \in from .. to
    BY <1>3 DEF Segment
  <2> QED
    BY <1>2, <1>3, <2>1, <2>2 DEF Accepted, Verified, Segment
<1>13. TableSettled(chain, to, rows', events')
  <2>1. to + Confirmations <= Len(chain)
    BY <1>3, <1>4, <1>7, <1>9, ConfigAssumption
  <2>2. chain[NextFrom(to)] \in rows'
    <3>1. NextFrom(to) \in from .. NextFrom(to)
      BY <1>3, <1>8
    <3> QED
      BY <1>7, <1>12, <3>1
  <2>3. \A e \in events' : e.tx \in Emitted[e.block]
    BY <1>1, <1>2, <1>7 DEF TableSettled, NewEvents
  <2>4. ASSUME NEW b \in rows', Height[b] <= to - RollbackDepth, NEW t \in Emitted[b]
        PROVE  [tx |-> t, block |-> b] \in events'
    <3>1. CASE b \in headers
      <4>1. Height[b] \in from .. to - RollbackDepth
        BY <1>3, <1>4, <1>12, <2>4, <3>1, ConfigAssumption
      <4>2. Height[b] \in from .. NextFrom(to) /\ Height[b] \in 1 .. Len(chain)
        <5>1. NextFrom(to) >= to - RollbackDepth
          BY <1>4, NextFromIs
        <5> QED
          BY <1>3, <1>4, <1>8, <1>9, <2>1, <4>1, <5>1, ConfigAssumption
      <4>3. chain[Height[b]] \in headers /\ Height[chain[Height[b]]] = Height[b]
        BY <1>1, <1>7, <4>2, ChainFacts
      <4>4. b = chain[Height[b]]
        BY <1>12, <3>1, <4>3
      <4>5. [tx |-> t, block |-> b] \in logs
        BY <1>7, <2>4, <4>1, <4>4
      <4> QED
        BY <1>12, <4>5
    <3>2. CASE b \notin headers
      <4>1. b \in rows /\ Survives(headers, b)
        BY <1>2, <3>2 DEF NewRows
      <4>2. Height[b] \in StartBlock .. CheckpointHeight
        BY <4>1, HeightFacts
      <4>3. Height[b] < from
        BY <1>3, <1>4, <1>9, <1>10, <1>12, <3>2, <4>2, ConfigAssumption
      <4>4. Height[b] <= CheckpointHeight - RollbackDepth
        BY <1>3, <1>7, <1>9, <4>2, <4>3, ConfigAssumption
      <4>5. [tx |-> t, block |-> b] \in events
        BY <1>1, <2>4, <4>1, <4>4 DEF TableSettled
      <4> QED
        BY <1>2, <4>1, <4>5 DEF NewEvents
    <3> QED
      BY <3>1, <3>2
  <2> QED
    BY <2>1, <2>2, <2>3, <2>4 DEF TableSettled
<1>14. ASSUME NEW q \in Runner PROVE RunSettled(runner'[q], chain, to)
  <2>1. CASE q # r
    <3>1. /\ runner'[q] = runner[q] /\ runner[q] \in Run
          /\ RunSettled(runner[q], chain, CheckpointHeight)
      BY <1>1, <1>6, <2>1 DEF SettledInv
    <3> QED
      BY <1>4, <1>9, <1>10, <3>1, RunGrows
  <2>2. CASE q = r /\ (to = tip \/ NextFrom(to) > to)
    <3>1. runner'[q] = Idle
      BY <1>1, <1>6, <2>2
    <3> QED
      BY <3>1, IdleSettled
  <2>3. CASE q = r /\ ~ (to = tip \/ NextFrom(to) > to)
    <3>1. runner'[q] = next
      BY <1>1, <1>6, <2>3
    <3>2. next.pc = "headers" /\ next.tip = tip /\ next.from = NextFrom(to)
      BY DEF Idle
    <3>3. NextFrom(to) > StartBlock =>
            NextFrom(to) + RollbackDepth <= to /\ NextFrom(to) + RollbackDepth <= tip
      <4>1. NextFrom(to) = StartBlock \/ NextFrom(to) = to - RollbackDepth
        BY <1>4, NextFromIs
      <4> QED
        BY <1>3, <1>4, <1>8, <4>1, ConfigAssumption
    <3> HIDE DEF next
    <3> QED
      BY <1>7, <3>1, <3>2, <3>3 DEF RunSettled
  <2> QED
    BY <2>1, <2>2, <2>3
<1> QED
  BY <1>2, <1>11, <1>13, <1>14 DEF SettledInv

----------------------------------------------------------------------------
(* The batch that would be read now. *)

\* The rows up to one that is on a chain are those of the chain.
LEMMA RowsOfChain ==
  ASSUME IndexerInv, NEW c \in Chains, NEW h \in 1 .. Len(c), c[h] \in rows
  PROVE  /\ \A g \in StartBlock .. h : c[g] \in rows
         /\ \A b \in rows : Height[b] <= h => Height[b] \in 1 .. h /\ b = c[Height[b]]
<1> DEFINE good == {g \in 1 .. Len(c) : c[g] \in rows}
<1>1. /\ \A b \in rows : Height[b] > StartBlock => Parent[b] \in rows
      /\ \A a, b \in rows : Height[a] = Height[b] => a = b
      /\ \A b \in rows : b \in Block /\ Height[b] \in StartBlock .. CheckpointHeight
      /\ Len(c) \in Nat /\ StartBlock \in Nat \ {0} /\ CheckpointHeight \in Nat
  BY ChainFacts, HeightFacts, ConfigAssumption DEF IndexerInv, RowsFormChain
<1>2. ASSUME NEW g \in StartBlock .. h, g \in good, g > StartBlock PROVE g - 1 \in good
  <2>1. g \in 1 .. Len(c) /\ c[g] \in rows /\ g > 1
    BY <1>1, <1>2
  <2>2. Height[c[g]] = g /\ Parent[c[g]] = c[g - 1]
    BY <2>1, ChainFacts
  <2>3. c[g - 1] \in rows
    BY <1>1, <1>2, <2>1, <2>2
  <2> QED
    BY <2>1, <2>3, <1>1
<1>3. \A g \in StartBlock .. h : g \in good
  <2>1. h \in good
    OBVIOUS
  <2>2. \A g \in StartBlock .. h : g \in good /\ g > StartBlock => g - 1 \in good
    BY <1>2
  <2>3. h \in Nat
    BY <1>1
  <2> HIDE DEF good
  <2> QED
    BY <1>1, <2>1, <2>2, <2>3, DownTo
<1>4. ASSUME NEW b \in rows, Height[b] <= h PROVE Height[b] \in 1 .. h /\ b = c[Height[b]]
  <2>1. Height[b] \in StartBlock .. h /\ Height[b] \in 1 .. h /\ Height[b] \in 1 .. Len(c)
    BY <1>1, <1>4
  <2>2. c[Height[b]] \in rows /\ Height[c[Height[b]]] = Height[b]
    BY <1>3, <2>1, ChainFacts
  <2> QED
    BY <1>1, <2>1, <2>2
<1> QED
  BY <1>3, <1>4

\* Where the table meets a batch of a chain, it meets the chain.
LEMMA AncestorsOfChain ==
  ASSUME IndexerInv, NEW c \in Chains, NEW from \in Nat \ {0}, NEW to \in Nat,
         to <= Len(c), NEW a \in Ancestors(HeadersOf(c, from, to))
  PROVE  Height[a] \in 1 .. Len(c) /\ c[Height[a]] \in rows
<1>1. a \in rows /\ a \in Block /\ Height[a] \in Nat
  BY BlockAssumption DEF Ancestors, Window, IndexerInv, IndexerTypeOK
<1>2. Len(c) \in Nat
  BY ChainFacts
<1>3. CASE a \in HeadersOf(c, from, to)
  <2>1. PICK h \in from .. to : a = c[h]
    BY <1>3 DEF HeadersOf
  <2>2. h \in 1 .. Len(c) /\ Height[a] = h
    BY <1>2, <2>1, ChainFacts
  <2> QED
    BY <1>1, <2>1, <2>2
<1>4. CASE \E o \in HeadersOf(c, from, to) : Parent[o] = a
  <2>1. PICK h \in from .. to : Parent[c[h]] = a
    BY <1>4 DEF HeadersOf
  <2>2. h \in 1 .. Len(c) /\ c[h] \in Block /\ Height[c[h]] = h
    BY <1>2, <2>1, ChainFacts
  <2>3. h = Height[a] + 1
    BY <1>1, <2>1, <2>2, BlockAssumption
  <2>4. Height[a] \in Nat \ {0}
    BY <1>1, BlockAssumption
  <2>5. h > 1 /\ h - 1 = Height[a]
    BY <2>3, <2>4
  <2>6. a = c[Height[a]]
    BY <2>1, <2>2, <2>5, ChainFacts
  <2> QED
    BY <1>1, <1>2, <2>2, <2>4, <2>5, <2>6
<1> QED
  BY <1>3, <1>4 DEF Ancestors

\* A batch of a chain is stored as it is, and so are its logs.
LEMMA BatchVerified ==
  ASSUME IndexerInv, \A e \in events : e.tx \in Emitted[e.block],
         NEW c \in Chains, NEW from \in Nat \ {0}, NEW to \in Nat,
         from >= StartBlock, from <= to, to <= Len(c)
  PROVE  Verified(HeadersOf(c, from, to), LogsOf(c, from, to))
<1> DEFINE headers == HeadersOf(c, from, to)
           logs == LogsOf(c, from, to)
<1>1. /\ Len(c) \in Nat
      /\ \A h \in from .. to :
           h \in 1 .. Len(c) /\ c[h] \in headers /\ c[h] \in Block /\ Height[c[h]] = h
      /\ \A b \in headers : \E h \in from .. to : b = c[h]
  BY ChainFacts DEF HeadersOf
<1>2. Spanned(headers) = from .. to
  BY <1>1 DEF Spanned
<1>3. Lower(to, Len(c)) = to
  BY <1>1 DEF Lower
<1>4. /\ \A e \in logs : \E h \in from .. to : e.block = c[h] /\ e.tx \in Emitted[c[h]]
      /\ \A e \in Log : (\E h \in from .. to : e.block = c[h] /\ e.tx \in Emitted[c[h]]) => e \in logs
      /\ logs \subseteq Log
  BY <1>3 DEF LogsOf
<1>5. \A a \in Ancestors(headers) : Height[a] \in 1 .. Len(c) /\ c[Height[a]] \in rows
  BY AncestorsOfChain
<1> HIDE DEF headers, logs
<1>6. ASSUME NEW b \in rows, Survives(headers, b)
      PROVE  Height[b] \in 1 .. Len(c) /\ b = c[Height[b]]
  <2>1. PICK a \in Ancestors(headers) : Height[b] <= Height[a]
    BY <1>6 DEF Survives
  <2>2. Height[a] \in 1 .. Len(c) /\ c[Height[a]] \in rows
    BY <1>5, <2>1
  <2>3. Height[b] \in 1 .. Height[a] /\ b = c[Height[b]]
    BY <2>1, <2>2, RowsOfChain
  <2> QED
    BY <1>1, <2>2, <2>3
<1>7. {b \in NewRows(headers) : Height[b] \in from .. to} = headers
  <2>1. ASSUME NEW b \in NewRows(headers), Height[b] \in from .. to PROVE b \in headers
    <3>1. CASE b \in rows /\ Survives(headers, b)
      BY <1>1, <1>6, <2>1, <3>1
    <3> QED
      BY <3>1 DEF NewRows
  <2>2. ASSUME NEW b \in headers PROVE b \in NewRows(headers) /\ Height[b] \in from .. to
    <3>1. PICK h \in from .. to : b = c[h] /\ Height[b] = h
      BY <1>1
    <3>2. CASE Survives(headers, b)
      <4>1. PICK a \in Ancestors(headers) : Height[b] <= Height[a]
        BY <3>2 DEF Survives
      <4>2. Height[a] \in 1 .. Len(c) /\ c[Height[a]] \in rows
        BY <1>5, <4>1
      <4>3. h \in StartBlock .. Height[a]
        BY <3>1, <4>1, <4>2, ConfigAssumption
      <4>4. c[h] \in rows
        BY <4>2, <4>3, RowsOfChain
      <4> QED
        BY <3>1, <3>2, <4>4 DEF NewRows
    <3>3. CASE ~ Survives(headers, b)
      <4>1. \A k \in rows : Survives(headers, k) => Height[k] # Height[b]
        BY <3>3 DEF Survives
      <4> QED
        BY <3>1, <3>3, <4>1 DEF NewRows
    <3> QED
      BY <3>2, <3>3
  <2> QED
    BY <2>1, <2>2
<1>8. events \subseteq Log /\ \A e \in events : e.block \in rows
  BY DEF IndexerInv, IndexerTypeOK, RowsFormChain
<1>9. {e \in NewEvents(headers, logs) : Height[e.block] \in from .. to} = logs
  <2>1. ASSUME NEW e \in NewEvents(headers, logs), Height[e.block] \in from .. to
        PROVE  e \in logs
    <3>1. CASE e \in events /\ Survives(headers, e.block)
      <4>1. e.block = c[Height[e.block]] /\ e.tx \in Emitted[e.block] /\ e \in Log
        BY <1>6, <1>8, <3>1
      <4> QED
        BY <1>4, <2>1, <4>1
    <3> QED
      BY <3>1 DEF NewEvents
  <2>2. ASSUME NEW e \in logs
        PROVE  e \in NewEvents(headers, logs) /\ Height[e.block] \in from .. to
    <3>1. PICK h \in from .. to : e.block = c[h] /\ e.tx \in Emitted[c[h]]
      BY <1>4
    <3>2. h \in 1 .. Len(c) /\ Height[e.block] = h
      BY <1>1, <3>1
    <3>3. ASSUME NEW k \in events, Survives(headers, k.block), k.tx = e.tx PROVE k = e
      <4>1. PICK g \in 1 .. Len(c) : k.block = c[g]
        BY <1>6, <1>8, <3>3
      <4>2. k.tx \in Emitted[c[g]]
        BY <4>1
      <4>3. Emitted[c[g]] \cap Emitted[c[h]] # {}
        BY <3>1, <3>3, <4>2
      <4>4. g \in DOMAIN c /\ h \in DOMAIN c
        BY <3>2, ChainFacts
      <4>5. g = h
        BY <4>3, <4>4, TransactionAssumption
      <4>6. k.block = e.block /\ k \in Log /\ e \in Log
        BY <1>4, <1>8, <3>1, <4>1, <4>5
      <4> QED
        BY <3>3, <4>6 DEF Log
    <3>4. e \in NewEvents(headers, logs)
      BY <3>3 DEF NewEvents
    <3> QED
      BY <3>1, <3>2, <3>4
  <2> QED
    BY <2>1, <2>2
<1> QED
  BY <1>2, <1>7, <1>9 DEF Verified, headers, logs

LEMMA ReplayAccepted ==
  ASSUME ReorgsWithinOverlap, IndexerInv, SettledInv
  PROVE  AlwaysReplayable
<1> DEFINE height == CheckpointHeight
           tip    == Len(chain) - Confirmations
           from   == NextFrom(height)
           to     == BatchEnd(from, tip)
           headers == HeadersOf(chain, from, to)
           logs   == LogsOf(chain, from, to)
<1> SUFFICES ASSUME tip >= StartBlock, tip >= height PROVE Accepted(headers, logs)
  BY DEF AlwaysReplayable
<1>1. /\ chain \in Chains /\ Len(chain) \in Nat /\ height \in Nat
      /\ TableSettled(chain, height, rows, events) /\ FinalHeight <= Len(chain)
  BY ChainFacts, HeightFacts DEF IndexerInv, IndexerTypeOK, SettledInv
<1>2. /\ from \in Nat /\ from >= StartBlock /\ from >= height - RollbackDepth
      /\ from = StartBlock \/ from = height - RollbackDepth
  BY <1>1, NextFromIs
<1>3. tip \in Nat /\ from <= tip /\ tip <= Len(chain)
  BY <1>1, <1>2, ConfigAssumption
<1>4. to \in Nat /\ from <= to /\ to <= tip
  BY <1>2, <1>3, BatchEndFacts
<1>5. to >= height
  BY <1>1, <1>2, <1>3, ConfigAssumption DEF BatchEnd, Lower
<1>6. Segment(headers, from, to)
  BY <1>1, <1>2, <1>3, <1>4, HeadersSegment, ConfigAssumption
<1>7. Height[Tip(headers)] = to
  BY <1>2, <1>4, <1>6, SegmentTip
<1>8. Verified(headers, logs)
  <2>1. /\ from \in Nat \ {0} /\ to <= Len(chain)
        /\ \A e \in events : e.tx \in Emitted[e.block]
    BY <1>1, <1>2, <1>3, <1>4, ConfigAssumption DEF TableSettled
  <2> QED
    BY <1>1, <1>2, <1>4, <2>1, BatchVerified
<1>9. ASSUME checkpoint # NoBlock PROVE checkpoint \in Window /\ Ancestors(headers) # {}
  <2>1. height >= StartBlock /\ checkpoint \in rows /\ height = Height[checkpoint]
    BY <1>9, HeightFacts DEF CheckpointHeight
  <2>2. chain[from] \in rows
    BY <1>1, <2>1, ConfigAssumption DEF TableSettled
  <2>3. from \in 1 .. Len(chain) /\ chain[from] \in headers
    BY <1>1, <1>2, <1>3, <1>4, ConfigAssumption DEF HeadersOf
  <2>4. Height[chain[from]] = from
    BY <1>1, <2>3, ChainFacts
  <2>5. from \in height - RollbackDepth .. height
    BY <1>1, <1>2, <2>1, ConfigAssumption
  <2>6. chain[from] \in Window
    BY <2>2, <2>4, <2>5 DEF Window
  <2>7. height \in height - RollbackDepth .. height
    BY <1>1, ConfigAssumption
  <2>8. checkpoint \in Window
    BY <2>1, <2>7 DEF Window
  <2>9. chain[from] \in Ancestors(headers)
    BY <2>3, <2>6 DEF Ancestors
  <2> QED
    BY <2>8, <2>9
<1>10. NotStale(headers)
  BY <1>5, <1>7 DEF NotStale
<1> HIDE DEF headers, logs
<1> QED
  BY <1>8, <1>9, <1>10 DEF Accepted

----------------------------------------------------------------------------
LEMMA InitSettled == IndexerInit => SettledInv
<1> SUFFICES ASSUME IndexerInit PROVE SettledInv
  OBVIOUS
<1>1. /\ Len(chain) = Higher(FinalHeight, 1) /\ checkpoint = NoBlock
      /\ rows = {} /\ events = {} /\ runner = [r \in Runner |-> Idle]
  BY DEF IndexerInit
<1>2. FinalHeight <= Len(chain)
  BY <1>1, EnvironmentAssumption DEF Higher
<1>3. CheckpointHeight = 0
  BY <1>1 DEF CheckpointHeight
<1>4. TableSettled(chain, CheckpointHeight, rows, events)
  BY <1>1, <1>3 DEF TableSettled
<1>5. \A r \in Runner : RunSettled(runner[r], chain, CheckpointHeight)
  BY <1>1, IdleSettled
<1> QED
  BY <1>2, <1>4, <1>5 DEF SettledInv

LEMMA NextSettled ==
  ASSUME ReorgsWithinOverlap, IndexerInv, SettledInv, [IndexerNext]_indexerVars
  PROVE  SettledInv'
<1>1. CASE UNCHANGED indexerVars
  <2>1. /\ chain' = chain /\ rows' = rows /\ events' = events /\ runner' = runner
        /\ checkpoint' = checkpoint /\ CheckpointHeight' = CheckpointHeight
    BY <1>1 DEF indexerVars, tables, CheckpointHeight
  <2> QED
    BY <2>1 DEF SettledInv
<1>2. ASSUME NEW c \in Chains, ChainMoves(c) PROVE SettledInv'
  BY <1>2, MovesSettled
<1>3. ASSUME NEW r \in Runner, LoadCheckpoint(r) \/ RunStep(r) \/ Fail(r) PROVE SettledInv'
  <2>1. CASE Store(r)
    BY <2>1, StoreSettled
  <2>2. CASE ~ Store(r)
    BY <2>2, <1>3, ReadsSettled DEF RunStep
  <2> QED
    BY <2>1, <2>2
<1> QED
  BY <1>1, <1>2, <1>3 DEF IndexerNext

THEOREM SettledInvariance == ReorgsWithinOverlap => (IndexerSpec => [](IndexerInv /\ SettledInv))
<1> SUFFICES ASSUME ReorgsWithinOverlap PROVE IndexerSpec => [](IndexerInv /\ SettledInv)
  OBVIOUS
<1>1. IndexerInv /\ SettledInv /\ [IndexerNext]_indexerVars => (IndexerInv /\ SettledInv)'
  BY NextInv, NextSettled
<1> QED
  BY <1>1, InitInv, InitSettled, PTL DEF IndexerSpec

\* As long as reorganisations stay within confirmations and rollback depth and
\* spare the start block, no state of the tables blocks the indexer, whatever
\* forks the batches of any number of runners have come from.
THEOREM NeverBlocked == ReorgsWithinOverlap => (IndexerSpec => []AlwaysReplayable)
<1> SUFFICES ASSUME ReorgsWithinOverlap PROVE IndexerSpec => []AlwaysReplayable
  OBVIOUS
<1>1. IndexerInv /\ SettledInv => AlwaysReplayable
  BY ReplayAccepted
<1> QED
  BY <1>1, SettledInvariance, PTL

\* Then a block that no later batch reads again has all its events in the table,
\* though headers and logs of a batch may be of different forks.
THEOREM NoEventLost == ReorgsWithinOverlap => (IndexerSpec => []SettledBlocksComplete)
<1> SUFFICES ASSUME ReorgsWithinOverlap PROVE IndexerSpec => []SettledBlocksComplete
  OBVIOUS
<1>1. IndexerInv /\ SettledInv => SettledBlocksComplete
  <2> SUFFICES ASSUME IndexerInv, SettledInv, NEW b \in rows,
                      Height[b] < CheckpointHeight - RollbackDepth
               PROVE  \A t \in Emitted[b] : [tx |-> t, block |-> b] \in events
    BY DEF SettledBlocksComplete
  <2>1. Height[b] <= CheckpointHeight - RollbackDepth
    BY HeightFacts, ConfigAssumption
  <2> QED
    BY <2>1 DEF SettledInv, TableSettled
<1> QED
  BY <1>1, SettledInvariance, PTL

\* With reorganisations of any depth, the table is one chain and keeps its history.
THEOREM TableIsHeld == IndexerSpec => TableHolds
BY TableIsChain, HistoryKept, PTL DEF TableHolds
=============================================================================
