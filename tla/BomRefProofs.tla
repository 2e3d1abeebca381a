---------------------------- MODULE BomRefProofs ----------------------------
(***************************************************************************)
(* The two promises of bomRefAssigner, for every set of keys and every     *)
(* hash function: the assignment is a bijection, and it depends on the     *)
(* keys and the hashes alone.  The strengthening says that byKey and byRef *)
(* are inverse to each other, and that the assigned keys are the smallest. *)
(***************************************************************************)
EXTENDS BomRef, TLAPS

InverseMaps ==
  /\ \A r \in Ref : byRef[r] # NoKey => byRef[r] \in wanted /\ byKey[byRef[r]] = r
  /\ \A k \in Key : byKey[k] # NoRef => k \in wanted /\ byRef[byKey[k]] = k

SmallestFirst ==
  \A j, k \in wanted : byKey[k] # NoRef /\ j < k => byKey[j] # NoRef

RefInv == RefTypeOK /\ InverseMaps /\ SmallestFirst /\ RefsDetermined

(***************************************************************************)
(* What a turn of the loop does: it gives the smallest key k without a     *)
(* reference one that was free, r, the first such one of its references.   *)
(***************************************************************************)
LEMMA Turn ==
  ASSUME RefTypeOK, Preallocate
  PROVE  \E k \in Unassigned, s \in Salt :
           /\ \A j \in Unassigned : k <= j
           /\ ~Taken(k, s)
           /\ \A t \in Salt : t < s => Taken(k, t)
           /\ byKey' = [byKey EXCEPT ![k] = makeRef[k][s]]
           /\ byRef' = [byRef EXCEPT ![makeRef[k][s]] = k]
           /\ wanted' = wanted
           /\ makeRef' = makeRef
BY DEF Preallocate, Assign

(***************************************************************************)
(* Before the first reference is assigned.                                 *)
(***************************************************************************)
LEMMA InitInvariant == RefInit => RefInv
<1> SUFFICES ASSUME RefInit PROVE RefInv
  OBVIOUS
<1>1. RefTypeOK
  BY BomRefAssumption DEF RefInit, RefTypeOK
<1>2. InverseMaps
  BY DEF RefInit, InverseMaps
<1>3. SmallestFirst
  BY BomRefAssumption DEF RefInit, SmallestFirst
<1>4. RefsDetermined
  BY BomRefAssumption DEF RefInit, RefsDetermined
<1>5. QED
  BY <1>1, <1>2, <1>3, <1>4 DEF RefInv

(***************************************************************************)
(* One turn of the loop over the sorted keys.                              *)
(***************************************************************************)
LEMMA TurnInvariant == RefInv /\ Preallocate => RefInv'
<1> SUFFICES ASSUME RefInv, Preallocate PROVE RefInv'
  OBVIOUS
<1> USE BomRefAssumption
<1>1. PICK k \in Unassigned, s \in Salt :
        /\ \A j \in Unassigned : k <= j
        /\ ~Taken(k, s)
        /\ \A t \in Salt : t < s => Taken(k, t)
        /\ byKey' = [byKey EXCEPT ![k] = makeRef[k][s]]
        /\ byRef' = [byRef EXCEPT ![makeRef[k][s]] = k]
        /\ wanted' = wanted
        /\ makeRef' = makeRef
  BY Turn DEF RefInv
<1> DEFINE r == makeRef[k][s]
<1>2. k \in wanted /\ k \in Key /\ byKey[k] = NoRef /\ r \in Ref
  BY <1>1 DEF Unassigned, RefInv, RefTypeOK
<1>3. byRef[r] = NoKey
  BY <1>1, <1>2 DEF Taken, RefInv, RefTypeOK, InverseMaps
<1>4. \A j \in Key : byKey'[j] = IF j = k THEN r ELSE byKey[j]
  BY <1>1, <1>2 DEF RefInv, RefTypeOK
<1>5. \A q \in Ref : byRef'[q] = IF q = r THEN k ELSE byRef[q]
  BY <1>1, <1>2 DEF RefInv, RefTypeOK
<1>6. RefTypeOK'
  BY <1>1, <1>2 DEF RefInv, RefTypeOK
<1>7. InverseMaps'
  <2>1. ASSUME NEW q \in Ref, byRef'[q] # NoKey
        PROVE  byRef'[q] \in wanted' /\ byKey'[byRef'[q]] = q
    <3>1. CASE q = r
      BY <1>1, <1>2, <1>4, <1>5, <3>1
    <3>2. CASE q # r
      <4>1. byRef'[q] = byRef[q] /\ byRef[q] \in wanted /\ byKey[byRef[q]] = q
        BY <1>5, <2>1, <3>2 DEF RefInv, InverseMaps
      <4>2. byRef[q] # k
        BY <1>2, <4>1
      <4>3. QED
        BY <1>1, <1>4, <4>1, <4>2 DEF RefInv, RefTypeOK
    <3>3. QED
      BY <3>1, <3>2
  <2>2. ASSUME NEW j \in Key, byKey'[j] # NoRef
        PROVE  j \in wanted' /\ byRef'[byKey'[j]] = j
    <3>1. CASE j = k
      BY <1>1, <1>2, <1>4, <1>5, <3>1
    <3>2. CASE j # k
      <4>1. byKey'[j] = byKey[j] /\ j \in wanted /\ byRef[byKey[j]] = j /\ byKey[j] \in Ref
        BY <1>4, <2>2, <3>2 DEF RefInv, InverseMaps, RefTypeOK
      <4>2. byKey[j] # r
        BY <1>3, <4>1
      <4>3. QED
        BY <1>1, <1>5, <4>1, <4>2
    <3>3. QED
      BY <3>1, <3>2
  <2>3. QED
    BY <2>1, <2>2 DEF InverseMaps
<1>8. SmallestFirst'
  <2> SUFFICES ASSUME NEW i \in wanted, NEW j \in wanted, byKey'[j] # NoRef, i < j
               PROVE  byKey'[i] # NoRef
    BY <1>1 DEF SmallestFirst
  <2>1. i \in Key /\ j \in Key
    BY DEF RefInv, RefTypeOK
  <2>2. CASE i = k
    BY <1>2, <1>4, <2>1, <2>2
  <2>3. CASE i # k /\ j = k
    BY <1>1, <1>2, <1>4, <2>1, <2>3 DEF Unassigned
  <2>4. CASE i # k /\ j # k
    BY <1>4, <2>1, <2>4 DEF RefInv, SmallestFirst
  <2>5. QED
    BY <2>2, <2>3, <2>4
<1>9. RefsDetermined'
  <2> SUFFICES ASSUME NEW l \in wanted, byKey'[l] # NoRef
               PROVE  \E u \in Salt :
                        /\ byKey'[l] = makeRef[l][u]
                        /\ \A t \in Salt : t < u =>
                             \E j \in wanted : j < l /\ byKey'[j] = makeRef[l][t]
                        /\ \A j \in wanted : j < l => byKey'[j] # makeRef[l][u]
    BY <1>1 DEF RefsDetermined
  <2>1. l \in Key /\ wanted \subseteq Key
    BY DEF RefInv, RefTypeOK
  <2>2. CASE l = k
    <3>1. byKey'[l] = makeRef[l][s]
      BY <1>4, <2>1, <2>2
    <3>2. ASSUME NEW t \in Salt, t < s
          PROVE  \E j \in wanted : j < l /\ byKey'[j] = makeRef[l][t]
      <4> DEFINE j == byRef[makeRef[k][t]]
      <4>1. makeRef[k][t] \in Ref /\ j # NoKey /\ j # k
        BY <1>1, <1>2, <3>2 DEF Taken, RefInv, RefTypeOK
      <4>2. j \in wanted /\ byKey[j] = makeRef[k][t]
        BY <4>1 DEF RefInv, InverseMaps
      <4>3. j < k
        <5>1. byKey[j] # NoRef /\ j \in Nat /\ k \in Nat
          BY <1>2, <2>1, <4>1, <4>2
        <5>2. ~(k < j)
          BY <1>2, <4>2, <5>1 DEF RefInv, SmallestFirst
        <5>3. QED
          BY <4>1, <5>1, <5>2
      <4>4. byKey'[j] = makeRef[k][t]
        BY <1>4, <2>1, <4>1, <4>2
      <4>5. QED
        BY <2>2, <4>2, <4>3, <4>4
    <3>3. ASSUME NEW j \in wanted, j < l
          PROVE  byKey'[j] # makeRef[l][s]
      <4>1. j # k /\ byKey'[j] = byKey[j]
        BY <1>4, <2>1, <2>2, <3>3
      <4>2. byKey[j] # r
        BY <1>2, <1>3, <2>1, <4>1 DEF RefInv, InverseMaps
      <4>3. QED
        BY <2>2, <4>1, <4>2
    <3>4. QED
      BY <3>1, <3>2, <3>3
  <2>3. CASE l # k
    <3>1. byKey'[l] = byKey[l]
      BY <1>4, <2>1, <2>3
    <3>2. PICK u \in Salt :
            /\ byKey[l] = makeRef[l][u]
            /\ \A t \in Salt : t < u =>
                 \E j \in wanted : j < l /\ byKey[j] = makeRef[l][t]
            /\ \A j \in wanted : j < l => byKey[j] # makeRef[l][u]
      BY <3>1 DEF RefInv, RefsDetermined
    <3>3. \A j \in wanted : j < l => j # k
      BY <1>2, <3>1 DEF RefInv, SmallestFirst
    <3>4. \A j \in wanted : j < l => byKey'[j] = byKey[j]
      BY <1>4, <2>1, <3>3
    <3>5. QED
      BY <3>1, <3>2, <3>4
  <2>4. QED
    BY <2>2, <2>3
<1>10. QED
  BY <1>6, <1>7, <1>8, <1>9 DEF RefInv

(***************************************************************************)
(* RefInv depends on the variables of the assigner alone.                  *)
(***************************************************************************)
LEMMA StutterInvariant == RefInv /\ UNCHANGED refVars => RefInv'
BY DEF RefInv, RefTypeOK, InverseMaps, SmallestFirst, RefsDetermined, refVars

(***************************************************************************)
(* A map with an inverse does not give two keys one reference.             *)
(***************************************************************************)
LEMMA InverseIsInjective == RefTypeOK /\ InverseMaps => RefsDistinct
BY DEF RefTypeOK, InverseMaps, RefsDistinct

(***************************************************************************)
(* RefInv holds in every reachable state of the assigner.                  *)
(***************************************************************************)
LEMMA Invariance == RefSpec => []RefInv
<1>1. RefInv /\ [Preallocate]_refVars => RefInv'
  BY TurnInvariant, StutterInvariant
<1>2. QED
  BY InitInvariant, <1>1, PTL DEF RefSpec

(***************************************************************************)
(* Every reachable state of the assigner is well typed.                    *)
(***************************************************************************)
THEOREM RefTypeCorrect == RefSpec => []RefTypeOK
<1>1. RefInv => RefTypeOK
  BY DEF RefInv
<1>2. QED
  BY Invariance, <1>1, PTL

(***************************************************************************)
(* No two keys ever get the same reference, however the hashes collide.    *)
(***************************************************************************)
THEOREM AssignmentInjective == RefSpec => []RefsDistinct
<1>1. RefInv => RefsDistinct
  BY InverseIsInjective DEF RefInv
<1>2. QED
  BY Invariance, <1>1, PTL

(***************************************************************************)
(* The reference of a key is determined by the smaller keys and the        *)
(* hashes: the order of the map leaves no trace.                           *)
(***************************************************************************)
THEOREM AssignmentDetermined == RefSpec => []RefsDetermined
<1>1. RefInv => RefsDetermined
  BY DEF RefInv
<1>2. QED
  BY Invariance, <1>1, PTL
=============================================================================
