------------------------------- MODULE BomRef -------------------------------
(***************************************************************************)
(* Package assembly, bomref.go: the assignment of short CycloneDX          *)
(* references to the keys of nodes and components.  A reference is a       *)
(* truncated hash of the key; a key whose hash is taken is hashed again    *)
(* with the next salt.  newBOMRefAssignerWithKeys assigns every key before *)
(* Assemble asks for the first, in the order of sort.Strings, because the  *)
(* keys come out of a map in any order.                                    *)
(*                                                                         *)
(* A key is a number, its place in the order of the strings.               *)
(***************************************************************************)
EXTENDS Naturals

CONSTANTS Key,      \* the keys a tree and its scans can give rise to
          Ref,      \* the references
          Salt,     \* the salts tried, a bound for the endless loop of assign
          Factory,  \* makeBOMRefWithSalt: the hashes there can be
          NoRef,    \* no entry in byKey
          NoKey     \* no entry in byRef

ASSUME BomRefAssumption ==
  /\ Key \subseteq Nat
  /\ Salt \subseteq Nat
  /\ Factory \subseteq [Key -> [Salt -> Ref]]
  /\ NoRef \notin Ref
  /\ NoKey \notin Key

VARIABLES
  wanted,   \* collectBOMRefKeys: the keys of this run
  makeRef,  \* the hashes of this run
  byKey,
  byRef

refVars == <<wanted, makeRef, byKey, byRef>>

RefInit ==
  /\ wanted \in SUBSET Key
  /\ makeRef \in Factory
  /\ byKey = [k \in Key |-> NoRef]
  /\ byRef = [r \in Ref |-> NoKey]

Taken(k, s) == byRef[makeRef[k][s]] \notin {NoKey, k}

\* Mutant of Assign: the first reference is taken whether it is free or not.
AssignUnchecked(k) ==
  \E s \in Salt :
    /\ \A t \in Salt : s <= t
    /\ byKey' = [byKey EXCEPT ![k] = makeRef[k][s]]
    /\ byRef' = [byRef EXCEPT ![makeRef[k][s]] = k]

(***************************************************************************)
(* assign, for a key without a reference: the least salt whose reference   *)
(* is free.                                                                *)
(***************************************************************************)
Assign(k) ==
  \E s \in Salt :
    /\ ~Taken(k, s)
    /\ \A t \in Salt : t < s => Taken(k, t)
    /\ byKey' = [byKey EXCEPT ![k] = makeRef[k][s]]
    /\ byRef' = [byRef EXCEPT ![makeRef[k][s]] = k]

Unassigned == {k \in wanted : byKey[k] = NoRef}

\* Mutant of Preallocate: the keys come in the order of the map.
PreallocateUnsorted ==
  /\ \E k \in Unassigned : Assign(k)
  /\ UNCHANGED <<wanted, makeRef>>

(***************************************************************************)
(* One turn of the loop of newBOMRefAssignerWithKeys.                      *)
(***************************************************************************)
Preallocate ==
  /\ \E k \in Unassigned : (\A j \in Unassigned : k <= j) /\ Assign(k)
  /\ UNCHANGED <<wanted, makeRef>>

RefSpec == RefInit /\ [][Preallocate]_refVars

-----------------------------------------------------------------------------
(***************************************************************************)
(* Every variable holds a value of its type.                               *)
(***************************************************************************)
RefTypeOK ==
  /\ wanted \subseteq Key
  /\ makeRef \in [Key -> [Salt -> Ref]]
  /\ byKey \in [Key -> Ref \cup {NoRef}]
  /\ byRef \in [Ref -> Key \cup {NoKey}]

(***************************************************************************)
(* The assignment is a bijection: no reference stands for two keys,        *)
(* whichever hashes collide with each other, salted or not.                *)
(***************************************************************************)
RefsDistinct ==
  \A j, k \in Key : byKey[j] = byKey[k] /\ byKey[j] # NoRef => j = k

(***************************************************************************)
(* The assignment is the same in every run: a key has the first of its     *)
(* references that no smaller key has.  That depends on the keys and the   *)
(* hashes alone, and not on the order in which a map gave the keys out.    *)
(***************************************************************************)
RefsDetermined ==
  \A k \in wanted : byKey[k] # NoRef =>
    \E s \in Salt :
      /\ byKey[k] = makeRef[k][s]
      /\ \A t \in Salt : t < s =>
           \E j \in wanted : j < k /\ byKey[j] = makeRef[k][t]
      /\ \A j \in wanted : j < k => byKey[j] # makeRef[k][s]
=============================================================================
