--------------------------- MODULE CompatibilityGate ---------------------------
(***************************************************************************)
(* The offline gate for a proposed proxy implementation                    *)
(* (scripts/verify-proxy-v2-compatibility.mjs): what a checkout holds, how *)
(* people edit it between runs, and the two ways to run the gate, which    *)
(* either compares the ABI snapshots of the checkout with its source or    *)
(* writes them, one file and the other, and may be stopped in between.     *)
(*                                                                         *)
(* A source is what the compiler says of it: the entries of its ABI with   *)
(* their types, the members of its V1 structs, how each storage namespace  *)
(* is bound, the size of its code.  Hashes are the contents they are of.   *)
(***************************************************************************)
EXTENDS Integers

CONSTANTS
  Historical,      \* the V1 source of the pinned commit
  TriedSources,    \* what people make of the candidate and of the fixture
  V1Signatures,    \* V1_FUNCTIONS, V1_EVENTS and V1_ERRORS
  Namespace,       \* STORAGE_NAMESPACE_BINDINGS
  BoundFields, BoundSlot,   \* the schema and the slot each one is bound to
  V1Namespace,     \* the one whose slot is in the snapshot
  TriedBudgets, RuntimeLimit

ASSUME SizesAssumption ==
  /\ RuntimeLimit \in Nat /\ TriedBudgets \subseteq Nat
  /\ \A source \in TriedSources : source.size \in Nat

VARIABLES
  candidate, fixture, storage, provenance,   \* files of the checkout ...
  v1Snapshot, v2Snapshot, budget,
  gitObjects,      \* ... and whether it has the objects of the pinned commit
  toWrite,         \* the snapshots a run has still to write
  lastRun          \* how the last run ended, if nothing was edited since

gateVars == <<candidate, fixture, storage, provenance, v1Snapshot, v2Snapshot, budget,
              gitObjects, toWrite, lastRun>>
checkoutVars == <<candidate, fixture, storage, provenance, budget, gitObjects>>

\* The storage snapshot of the pinned commit.
HistoricalStorage == [structs |-> Historical.structs, slot |-> BoundSlot[V1Namespace]]

GoodProvenance == [source |-> Historical, storage |-> HistoricalStorage]

----------------------------------------------------------------------------
(* The checks. *)

\* assertHistoricalV1GitBinding
BoundToGit ==
  /\ gitObjects
  /\ fixture = Historical
  /\ storage = HistoricalStorage

\* assertHistoricalV1Provenance
ProvenanceHolds ==
  /\ provenance = GoodProvenance
  /\ fixture = Historical
  /\ storage = HistoricalStorage
  /\ candidate # fixture

\* The entries of the published facade; what else there is does not matter.
V1Abi(source) == {entry \in source.abi : entry.signature \in V1Signatures}

\* Faulty variant: an entry that is gone is not missed.
FaultyKeepsV1Abi == V1Abi(candidate) \subseteq V1Abi(fixture)

KeepsV1Abi == V1Abi(candidate) = V1Abi(fixture)

\* assertV1StorageCompatibility: main passes it the historical source.
V1StorageCompatible(source) == source.structs = storage.structs

\* assertStorageNamespaceBindings, in its loop over the namespaces: the schema
\* (only the snapshot has that of V1), the annotation, the slot, and an accessor,
\* the only function to return that storage, which assigns the slot.
BindingHolds(source, n) ==
  LET b == source.bindings[n]
  IN  /\ n # V1Namespace => b.fields = BoundFields[n]
      /\ b.annotated
      /\ b.slot = IF n = V1Namespace THEN storage.slot ELSE BoundSlot[n]
      /\ b.accessors = {"canonical"}

\* ... and in its visit of the whole contract: nothing else in assembly names the
\* constant, binds such a pointer, repeats the slot or loads and stores by itself.
NothingElseBinds(source, n) == ~ source.bindings[n].bypassed

\* Faulty variant: it is the historical source whose bindings are looked at.
FaultyStorageNamespaceBindings(source) ==
  \A n \in Namespace : BindingHolds(fixture, n) /\ NothingElseBinds(fixture, n)

\* main passes it the candidate.
StorageNamespaceBindings(source) ==
  \A n \in Namespace : BindingHolds(source, n) /\ NothingElseBinds(source, n)

\* Faulty variant: the budget may be beyond what the chain allows.
FaultyWithinBudget == candidate.size <= budget

WithinBudget == budget <= RuntimeLimit /\ candidate.size <= budget

\* snapshot
SnapshotOf(kind, source, abi) == [kind |-> kind, source |-> source, abi |-> abi]
V1Expected == SnapshotOf("v1", fixture, V1Abi(fixture))
V2Expected == SnapshotOf("v2", candidate, candidate.abi)

SnapshotsAgree == v1Snapshot = V1Expected /\ v2Snapshot = V2Expected

\* What both ways to run the gate check.
ChecksPass ==
  /\ BoundToGit
  /\ KeepsV1Abi
  /\ ProvenanceHolds
  /\ storage.slot = BoundSlot[V1Namespace]
  /\ V1StorageCompatible(fixture)
  /\ StorageNamespaceBindings(candidate)
  /\ WithinBudget

----------------------------------------------------------------------------
(* Runs of the gate and edits between them. *)

NoSnapshot == [kind |-> "none"]

GateInit ==
  /\ candidate \in TriedSources
  /\ fixture = Historical
  /\ storage = HistoricalStorage
  /\ provenance = GoodProvenance
  /\ v1Snapshot = NoSnapshot
  /\ v2Snapshot = NoSnapshot
  /\ budget \in TriedBudgets
  /\ gitObjects \in BOOLEAN
  /\ toWrite = {}
  /\ lastRun = "none"

\* main, without an argument
Verify ==
  /\ toWrite = {}
  /\ lastRun' = IF ChecksPass /\ SnapshotsAgree THEN "verified" ELSE "failed"
  /\ UNCHANGED <<checkoutVars, v1Snapshot, v2Snapshot, toWrite>>

\* Faulty variant: the snapshots are written before the source is checked.
FaultyStartWriting ==
  /\ toWrite = {}
  /\ toWrite' = {"v1", "v2"}
  /\ lastRun' = "none"
  /\ UNCHANGED <<checkoutVars, v1Snapshot, v2Snapshot>>

\* main, with --write-snapshots: everything is checked before anything is written ...
StartWriting ==
  /\ toWrite = {}
  /\ IF ChecksPass THEN toWrite' = {"v1", "v2"} /\ lastRun' = "none"
                   ELSE toWrite' = {} /\ lastRun' = "failed"
  /\ UNCHANGED <<checkoutVars, v1Snapshot, v2Snapshot>>

\* ... in either order ...
WriteSnapshot(which) ==
  /\ which \in toWrite
  /\ v1Snapshot' = IF which = "v1" THEN V1Expected ELSE v1Snapshot
  /\ v2Snapshot' = IF which = "v2" THEN V2Expected ELSE v2Snapshot
  /\ toWrite' = toWrite \ {which}
  /\ lastRun' = IF toWrite = {which} THEN "written" ELSE lastRun
  /\ UNCHANGED checkoutVars

\* ... and the run may be stopped.
GateStopped ==
  /\ toWrite # {}
  /\ toWrite' = {}
  /\ lastRun' = "failed"
  /\ UNCHANGED <<checkoutVars, v1Snapshot, v2Snapshot>>

Edited(unchanged) ==
  /\ toWrite = {}
  /\ lastRun' = "none"
  /\ UNCHANGED <<v1Snapshot, v2Snapshot, toWrite>>
  /\ unchanged

EditCandidate(source) ==
  /\ candidate' = source
  /\ Edited(UNCHANGED <<fixture, storage, provenance, budget, gitObjects>>)

EditFixture(source) ==
  /\ fixture' = source
  /\ Edited(UNCHANGED <<candidate, storage, provenance, budget, gitObjects>>)

\* Whoever edits the structs may want to bring the snapshot along, and the hashes.
EditStorage(source) ==
  /\ storage' = [storage EXCEPT !.structs = source.structs]
  /\ provenance' = [source |-> fixture, storage |-> storage']
  /\ Edited(UNCHANGED <<candidate, fixture, budget, gitObjects>>)

EditBudget(bytes) ==
  /\ budget' = bytes
  /\ Edited(UNCHANGED <<candidate, fixture, storage, provenance, gitObjects>>)

GateNext ==
  \/ Verify \/ StartWriting \/ GateStopped
  \/ \E which \in {"v1", "v2"} : WriteSnapshot(which)
  \/ \E source \in TriedSources :
       EditCandidate(source) \/ EditFixture(source) \/ EditStorage(source)
  \/ \E bytes \in TriedBudgets : EditBudget(bytes)

GateSpec == GateInit /\ [][GateNext]_gateVars

----------------------------------------------------------------------------
(* Properties. *)

Passed == lastRun \in {"verified", "written"}

\* Whatever was edited, in whatever order, and with the snapshots or the budget
\* edited along: a candidate that passes has every entry of the facade that V1
\* published, as it was, and fits on the chain, and both snapshots describe it.
PassedKeepsFacade ==
  Passed =>
    /\ V1Abi(Historical) \subseteq candidate.abi
    /\ candidate.size <= RuntimeLimit
    /\ v1Snapshot.abi = V1Abi(candidate)
    /\ v2Snapshot.source = candidate

\* What the checks are for, said of a source by itself and without the files it is
\* compared with: the published facade as it was, in a contract that is not the
\* historical one under another name, fits on the chain, and reaches each of its
\* namespaces at the slot that is bound to it, through its accessor and not past it.
\* (The members of the V1 structs are not in this: the gate compares those of the
\* historical source, and says nothing of the candidate's.)
Vouchable(source) ==
  /\ V1Abi(source) = V1Abi(Historical)
  /\ source # Historical
  /\ source.size <= RuntimeLimit
  /\ \A n \in Namespace :
       /\ source.bindings[n].annotated /\ ~ source.bindings[n].bypassed
       /\ source.bindings[n].slot = BoundSlot[n]
       /\ source.bindings[n].accessors = {"canonical"}
       /\ n # V1Namespace => source.bindings[n].fields = BoundFields[n]

\* Whatever stopped a run, and whatever was edited before it or since, one file
\* written or both: the snapshot of V1 that is in the checkout is the historical one,
\* and that of V2 is the whole ABI of a source with all of the above.
SnapshotsOfCheckedSources ==
  /\ v1Snapshot # NoSnapshot => v1Snapshot = SnapshotOf("v1", Historical, V1Abi(Historical))
  /\ v2Snapshot # NoSnapshot =>
       LET source == v2Snapshot.source IN
       Vouchable(source) /\ v2Snapshot = SnapshotOf("v2", source, source.abi)

\* What the gate vouches for: of the candidate when it passes, and of every snapshot
\* that it has written, also in a run that was stopped.
GateHolds == PassedKeepsFacade /\ SnapshotsOfCheckedSources
=============================================================================
