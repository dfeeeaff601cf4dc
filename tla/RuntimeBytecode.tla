---------------------------- MODULE RuntimeBytecode ----------------------------
(***************************************************************************)
(* How scripts/worldchain-proxy-runner.mjs knows the code a contract must  *)
(* have: the compiler leaves gaps where immutables go and lists them by    *)
(* the id of a declaration in its syntax trees; the script resolves the    *)
(* ids to names, checks the list, fills the gaps with the values of the    *)
(* plan and compares what is deployed byte for byte with the result.       *)
(*                                                                         *)
(* A byte is a small number.  That metadata has the shape of a list at all *)
(* is taken for granted here; the script refuses other shapes.             *)
(***************************************************************************)
EXTENDS Integers, Sequences, FiniteSets
LOCAL INSTANCE TLC
LOCAL INSTANCE SequencesExt

CONSTANTS
  Compiled,           \* deployedBytecode.object
  TriedReferences,    \* immutableReferences: id -> sequence of [start, length]
  TriedTrees,         \* syntax trees: sets of [source, id, immutable, name]
  TriedValues,        \* expectedImmutables: name -> bytes
  TriedCodes,         \* what can be found at the address
  AdminWord           \* the width of the proxy's only immutable (32)

VARIABLES
  references, declarations, expectedImmutables,
  names,          \* immutableReferenceNames: id -> name
  expectedCode,   \* materializeRuntimeBytecode
  found,          \* the code at the address
  verdict

bytecodeVars ==
  <<references, declarations, expectedImmutables, names, expectedCode, found, verdict>>

BytecodeInit ==
  /\ references \in TriedReferences
  /\ declarations \in TriedTrees
  /\ expectedImmutables \in TriedValues
  /\ names = << >> /\ expectedCode = << >> /\ found = << >>
  /\ verdict = "compiled"

----------------------------------------------------------------------------
(* Names. *)

DeclaredAs(id) == {d \in declarations : d.id = id}

\* resolveImmutableReferenceNames: exactly one declaration in all sources has
\* the id, and it is a named immutable.
ResolveNames ==
  /\ verdict = "compiled"
  /\ IF \A id \in DOMAIN references :
          \E d \in declarations : DeclaredAs(id) = {d} /\ d.immutable /\ d.name # ""
     THEN /\ names' = [id \in DOMAIN references |->
                         (CHOOSE d \in declarations : d.id = id).name]
          /\ verdict' = "named"
     ELSE verdict' = "refused" /\ UNCHANGED names
  /\ UNCHANGED <<references, declarations, expectedImmutables, expectedCode, found>>

----------------------------------------------------------------------------
(* Ranges. *)

End(r) == r.start + r.length

Fits(r) == r.start >= 0 /\ r.length >= 1 /\ End(r) <= Len(Compiled)

GroupFits(group) ==
  /\ Len(group) > 0
  /\ \A i \in DOMAIN group : Fits(group[i]) /\ group[i].length = group[1].length

\* Every range of every group, in the order of the ids.
AllRanges ==
  FoldLeft(LAMBDA seq, id : seq \o references[id], << >>,
           SetToSortSeq(DOMAIN references, <))

\* Faulty variant: the ranges are compared in the order they are listed.
FaultySorted(seq) == seq

\* The ranges by their start.
Sorted(seq) == SortSeq(seq, LAMBDA r, s : r.start < s.start)

Overlapping(seq) == \E i \in 2 .. Len(seq) : End(seq[i - 1]) > seq[i].start

\* immutableRuntimeGroups
GroupsWellFormed ==
  /\ \A id \in DOMAIN references : GroupFits(references[id])
  /\ ~ Overlapping(Sorted(AllRanges))

----------------------------------------------------------------------------
(* The code. *)

Fill(code, r, value) ==
  [i \in DOMAIN code |-> IF i \in r.start + 1 .. End(r) THEN value[i - r.start] ELSE code[i]]

FillGroup(code, id) ==
  FoldLeft(LAMBDA c, r : Fill(c, r, expectedImmutables[names[id]]), code, references[id])

NamesMatch ==
  /\ \A i \in DOMAIN names, j \in DOMAIN names : names[i] = names[j] => i = j
  /\ {names[id] : id \in DOMAIN names} = DOMAIN expectedImmutables

\* materializeRuntimeBytecode
Materialize ==
  /\ verdict = "named"
  /\ IF /\ GroupsWellFormed
        /\ NamesMatch
        /\ \A id \in DOMAIN references :
             Len(expectedImmutables[names[id]]) = references[id][1].length
     THEN /\ expectedCode' =
               FoldLeft(FillGroup, Compiled, SetToSortSeq(DOMAIN references, <))
          /\ verdict' = "expected"
     ELSE verdict' = "refused" /\ UNCHANGED expectedCode
  /\ UNCHANGED <<references, declarations, expectedImmutables, names, found>>

\* assertExactRuntimeBytecode
Compare(code) ==
  /\ verdict = "expected"
  /\ found' = code
  /\ verdict' = IF code = expectedCode THEN "accepted" ELSE "mismatch"
  /\ UNCHANGED <<references, declarations, expectedImmutables, names, expectedCode>>

\* assertProxyAdminImmutableReferences, of code that is that of the proxy.
AdminPinned(code) ==
  /\ Len(code) = Len(Compiled)
  /\ GroupsWellFormed
  /\ \E id \in DOMAIN references :
       /\ DOMAIN references = {id} /\ names[id] = "_admin"
       /\ \A i \in DOMAIN references[id] :
            LET r == references[id][i]
            IN  /\ r.length = AdminWord
                /\ SubSeq(code, r.start + 1, End(r)) = expectedImmutables["_admin"]

BytecodeNext ==
  \/ ResolveNames \/ Materialize
  \/ \E code \in TriedCodes : Compare(code)

BytecodeSpec == BytecodeInit /\ [][BytecodeNext]_bytecodeVars

----------------------------------------------------------------------------
\* The occurrences of immutables that cover the i-th byte.
Covering(i) ==
  {o \in {<<id, k>> : id \in DOMAIN references, k \in 1 .. Len(Compiled)} :
     /\ o[2] \in DOMAIN references[o[1]]
     /\ LET r == references[o[1]][o[2]] IN i \in r.start + 1 .. End(r)}

\* What the constructor of the reviewed source leaves behind: the compiled
\* bytes, and every immutable's value wherever it occurs.
IsBuilt(code) ==
  /\ Len(code) = Len(Compiled)
  /\ \A i \in DOMAIN code :
       IF Covering(i) = {} THEN code[i] = Compiled[i]
       ELSE \A o \in Covering(i) :
              \E d \in declarations :
                /\ d.id = o[1]
                /\ code[i] = expectedImmutables[d.name][i - references[o[1]][o[2]].start]

\* Metadata that does not say which bytes hold which value.
Ambiguous ==
  \/ \E id \in DOMAIN references :
       \/ references[id] = << >>
       \/ {d.name : d \in DeclaredAs(id)} \cap DOMAIN expectedImmutables = {}
       \/ Cardinality(DeclaredAs(id)) > 1
       \/ \E d \in DeclaredAs(id) : ~ d.immutable
       \/ \E i \in DOMAIN references[id], d \in DeclaredAs(id) :
            \/ ~ Fits(references[id][i])
            \/ references[id][i].length # Len(expectedImmutables[d.name])
  \/ \E i \in DOMAIN Compiled : Cardinality(Covering(i)) > 1
  \/ \E d \in declarations, e \in declarations :
       /\ {d.id, e.id} \subseteq DOMAIN references
       /\ d.id # e.id /\ d.name = e.name
  \/ \E name \in DOMAIN expectedImmutables :
       ~ \E d \in declarations : d.id \in DOMAIN references /\ d.name = name

\* Code is accepted exactly when the reviewed source deploys to it with the
\* planned immutables: no byte is masked and none is compared with the wrong
\* value.  Only metadata that leaves it open is refused.  And where the only
\* immutable is the proxy's admin, the later check of the admin agrees.
AcceptedCodeIsBuilt ==
  /\ verdict = "accepted" => IsBuilt(found)
  /\ verdict = "mismatch" => ~ IsBuilt(found)
  /\ verdict = "refused"  => Ambiguous
  /\ verdict = "accepted" /\ DOMAIN expectedImmutables = {"_admin"}
       /\ Len(expectedImmutables["_admin"]) = AdminWord => AdminPinned(found)
=============================================================================
