-------------------------- MODULE EnrichmentProofs --------------------------
(***************************************************************************)
(* For any BOM, any hashes and any output of Grype: a result that is       *)
(* completed is exact, and the reports neither lose a finding nor          *)
(* contradict each other, in whichever order they come to the references.  *)
(***************************************************************************)
EXTENDS Enrichment, BomRefProofs, FiniteSetTheorems, WellFoundedInduction

(***************************************************************************)
(* Components are only looked up when each of them has a reference.        *)
(***************************************************************************)
Assigned ==
  /\ RefInv
  /\ Listed \subseteq wanted
  /\ pc # "assign" => Unassigned = {}

-----------------------------------------------------------------------------
(***************************************************************************)
(* The lookups depend on the BOM alone.                                    *)
(***************************************************************************)
LEMMA LookupsFixed ==
  ASSUME UNCHANGED <<byKey, comp>>
  PROVE  /\ Listed' = Listed
         /\ BOMRefs' = BOMRefs
         /\ \A r : /\ KeyOf(r)' = KeyOf(r)
                   /\ Package(r)' = Package(r)
                   /\ Indexed(r)' <=> Indexed(r)
                   /\ Issues(r)' = Issues(r)
         /\ \A k : IsAssessable(k)' <=> IsAssessable(k)
<1>1. byKey' = byKey /\ comp' = comp
  OBVIOUS
<1>2. Listed' = Listed
  BY <1>1 DEF Listed
<1>3. BOMRefs' = BOMRefs
  BY <1>1, <1>2 DEF BOMRefs
<1>4. \A r : KeyOf(r)' = KeyOf(r)
  BY <1>1, <1>2 DEF KeyOf
<1>5. \A r : Package(r)' = Package(r)
  BY <1>1, <1>3, <1>4 DEF Package
<1>6. \A r : Indexed(r)' <=> Indexed(r)
  BY <1>1, <1>3, <1>4 DEF Indexed
<1>7. \A r : Issues(r)' = Issues(r)
  BY <1>3 DEF Issues
<1>8. \A k : IsAssessable(k)' <=> IsAssessable(k)
  BY <1>1 DEF IsAssessable
<1> QED
  BY <1>2, <1>3, <1>4, <1>5, <1>6, <1>7, <1>8

(***************************************************************************)
(* The lookups begin when each listed component has a reference.           *)
(***************************************************************************)
LEMMA RefsAssigned == Spec => []Assigned
<1>1. Init => Assigned
  BY InitInvariant DEF Init, Assigned
<1>2. ASSUME Assigned, [Next]_vars PROVE Assigned'
  <2> USE <1>2
  <2>1. CASE AssignRef
    <3>1. Preallocate /\ UNCHANGED <<pc, comp>> /\ pc = "assign" /\ wanted' = wanted
      BY <2>1 DEF AssignRef, Preallocate
    <3>2. RefInv'
      BY <3>1, TurnInvariant DEF Assigned
    <3>3. Listed' = Listed
      BY <3>1 DEF Listed
    <3> QED
      BY <3>1, <3>2, <3>3 DEF Assigned
  <2>2. CASE UNCHANGED <<wanted, makeRef, byKey, byRef, comp>> /\ (pc' = "assign" => pc = "assign")
              /\ (pc = "assign" /\ pc' # "assign" => Unassigned = {})
    <3>1. Listed' = Listed
      BY <2>2 DEF Listed
    <3>2. Unassigned' = Unassigned
      BY <2>2 DEF Unassigned
    <3>3. RefTypeOK' /\ InverseMaps'
      BY <2>2 DEF Assigned, RefInv, RefTypeOK, InverseMaps
    <3>4. SmallestFirst'
      BY <2>2 DEF Assigned, RefInv, SmallestFirst
    <3>5. RefsDetermined'
      BY <2>2 DEF Assigned, RefInv, RefsDetermined
    <3> QED
      BY <2>2, <3>1, <3>2, <3>3, <3>4, <3>5 DEF Assigned, RefInv
  <2> QED
    BY <2>1, <2>2 DEF Next, refVars, vars, Assembled, NotRequested, Unavailable, Matched,
      ReadMatch, Correlated, RenderRef, Rendered, Terminated
<1> QED
  BY <1>1, <1>2, PTL DEF Spec

(***************************************************************************)
(* Every listed component has a reference of its own, by which it is found.*)
(***************************************************************************)
LEMMA KeysFound ==
  ASSUME Assigned, pc # "assign"
  PROVE  /\ BOMRefs \subseteq Ref
         /\ \A k \in Listed : byKey[k] \in BOMRefs /\ KeyOf(byKey[k]) = k
         /\ \A r \in BOMRefs : KeyOf(r) \in Listed /\ byKey[KeyOf(r)] = r
<1>1. \A k \in Listed : k \in Key /\ byKey[k] \in Ref
  BY BomRefAssumption DEF Assigned, Unassigned, RefInv, RefTypeOK, Listed
<1>2. BOMRefs \subseteq Ref /\ \A k \in Listed : byKey[k] \in BOMRefs
  BY <1>1 DEF BOMRefs
<1>3. \A r \in BOMRefs : KeyOf(r) \in Listed /\ byKey[KeyOf(r)] = r
  BY DEF BOMRefs, KeyOf
<1>4. ASSUME NEW j \in Listed, NEW k \in Listed, byKey[j] = byKey[k] PROVE j = k
  <2>1. byRef[byKey[j]] = j /\ byRef[byKey[k]] = k
    BY <1>1, BomRefAssumption DEF Assigned, RefInv, InverseMaps
  <2> QED
    BY <2>1, <1>4
<1> QED
  BY <1>2, <1>3, <1>4

-----------------------------------------------------------------------------
(***************************************************************************)
(* sort.Slice: what it leaves is in order, and holds each match as often   *)
(* as before.                                                              *)
(***************************************************************************)
LEMMA SortedIsOrdered ==
  ASSUME NEW s \in Seq(Match), NEW t \in Sorted(s)
  PROVE  /\ t \in Seq(Match)
         /\ DOMAIN t = DOMAIN s
         /\ \A i, j \in DOMAIN t : i < j => ~Before(t[j], t[i])
         /\ \A m : Cardinality({i \in DOMAIN t : t[i] = m}) =
                     Cardinality({i \in DOMAIN s : s[i] = m})
<1> DEFINE D == DOMAIN s
<1>1. PICK p \in [D -> D] :
        /\ \A i \in D : \E j \in D : p[j] = i
        /\ \A i, j \in D : i < j => ~Before(s[p[j]], s[p[i]])
        /\ t = [i \in D |-> s[p[i]]]
  BY DEF Sorted
<1>2. DOMAIN t = D /\ \A i \in D : t[i] = s[p[i]]
  BY <1>1
<1>3. Len(s) \in Nat /\ D = 1..Len(s) /\ \A i \in D : s[i] \in Match
  OBVIOUS
<1>4. t \in Seq(Match)
  BY <1>1, <1>3
<1>5. \A i, j \in DOMAIN t : i < j => ~Before(t[j], t[i])
  BY <1>1, <1>2
<1>6. IsFiniteSet(D)
  BY <1>3, FS_Interval
<1>7. p \in Injection(D, D)
  <2>1. p \in Surjection(D, D)
    BY <1>1 DEF Surjection
  <2> QED
    BY <2>1, <1>6, FS_SurjSameCardinalityImpliesInj
<1>8. ASSUME NEW m
      PROVE  Cardinality({i \in DOMAIN t : t[i] = m}) =
               Cardinality({i \in DOMAIN s : s[i] = m})
  <2> DEFINE A == {i \in D : t[i] = m}
             B == {i \in D : s[i] = m}
             g == [i \in A |-> p[i]]
  <2>1. g \in [A -> B]
    BY <1>2
  <2>2. \A i, j \in A : g[i] = g[j] => i = j
    BY <1>7 DEF Injection, IsInjective
  <2>3. \A k \in B : \E i \in A : g[i] = k
    BY <1>1, <1>2
  <2>4. g \in Bijection(A, B)
    <3> HIDE DEF A, B, g
    <3> QED
      BY <2>1, <2>2, <2>3 DEF Bijection, Injection, IsInjective, Surjection
  <2>5. IsFiniteSet(A)
    BY <1>6, FS_Subset
  <2>6. Cardinality(B) = Cardinality(A)
    <3> HIDE DEF A, B, g
    <3> QED
      BY <2>4, <2>5, FS_Bijection DEF ExistsBijection
  <2> QED
    BY <2>6, <1>2
<1> QED
  BY <1>2, <1>4, <1>5, <1>8

(***************************************************************************)
(* Every reachable state of the enrichment is well typed.                  *)
(***************************************************************************)
THEOREM EnrichmentTyped == Spec => []TypeOK
<1>1. Init => TypeOK
  <2> SUFFICES ASSUME Init PROVE TypeOK
    OBVIOUS
  <2>1. RefTypeOK
    BY InitInvariant DEF Init, RefInv
  <2>2. <<>> \in Seq(ReadMatches) /\ <<>> \in Seq(Match)
    OBVIOUS
  <2>3. read \in Seq(ReadMatches) /\ matches \in [Ref -> Seq(Match)]
    BY <2>2 DEF Init
  <2> QED
    BY <2>1, <2>3 DEF Init, TypeOK
<1>2. ASSUME TypeOK, RefTypeOK', [Next]_vars PROVE TypeOK'
  <2> USE <1>2
  <2>1. CASE AssignRef
    BY <2>1 DEF AssignRef, TypeOK, resultVars, reportVars
  <2>2. CASE Assembled \/ NotRequested \/ Matched \/ Rendered \/ UNCHANGED vars
    BY <2>2 DEF Assembled, NotRequested, Matched, Rendered, TypeOK, vars, resultVars,
      reportVars
  <2>3. ASSUME NEW code, Unavailable(code) PROVE TypeOK'
    BY <2>3 DEF Unavailable, TypeOK, resultVars, reportVars
  <2>4. ASSUME NEW ref \in Ref \cup {NoRef}, NEW id \in Vulnerability,
               NEW severity \in Severity, ReadMatch(ref, id, severity)
        PROVE  TypeOK'
    <3> USE <2>4 DEF ReadMatch
    <3>1. UNCHANGED <<pc, comp, state, coverage, pending>>
      BY DEF reportVars
    <3> DEFINE new == [ref |-> ref, id |-> id, severity |-> severity]
               match == [id |-> id, severity |-> severity]
    <3>2. read' \in Seq(ReadMatches)
      <4>1. new \in ReadMatches /\ read' = Append(read, new)
        BY DEF ReadMatches
      <4>2. \A s \in Seq(ReadMatches) : Append(s, new) \in Seq(ReadMatches)
        <5> HIDE DEF new
        <5> QED
          BY <4>1
      <4> QED
        BY <4>1, <4>2 DEF TypeOK
    <3>3. match \in Match
      BY DEF Match
    <3>4. matches' \in [Ref -> Seq(Match)]
      <4>1. matches' = [r \in Ref |-> IF r = ref THEN Append(matches[r], match)
                                     ELSE matches[r]]
        OBVIOUS
      <4>2. \A s \in Seq(Match) : Append(s, match) \in Seq(Match)
        <5> HIDE DEF match
        <5> QED
          BY <3>3
      <4> HIDE DEF match
      <4> QED
        BY <4>1, <4>2 DEF TypeOK
    <3> QED
      BY <3>1, <3>2, <3>4 DEF TypeOK
  <2>5. CASE Correlated
    <3> USE <2>5 DEF Correlated
    <3>1. UNCHANGED <<comp, read>> /\ pc' \in {"assign", "run", "match", "render", "done"}
      OBVIOUS
    <3>2. state' \in {"", "not-requested", "unavailable", "completed", "completed-with-errors"}
      OBVIOUS
    <3>3. matches' \in [Ref -> Seq(Match)]
      BY SortedIsOrdered DEF TypeOK
    <3>4. coverage' \in [Ref -> {"absent", "found", "none", "not-assessable"}]
      BY DEF Coverage
    <3> QED
      BY <3>1, <3>2, <3>3, <3>4 DEF TypeOK
  <2>6. ASSUME NEW ref \in Ref, RenderRef(ref) PROVE TypeOK'
    BY <2>6 DEF RenderRef, TypeOK, resultVars
  <2> QED
    BY <2>1, <2>2, <2>3, <2>4, <2>5, <2>6 DEF Next, Terminated
<1>3. Assigned => RefTypeOK
  BY DEF Assigned, RefInv
<1> QED
  BY <1>1, <1>2, <1>3, RefsAssigned, PTL DEF Spec

-----------------------------------------------------------------------------
(***************************************************************************)
(* Each match that was read with a reference is kept below it, as often as *)
(* it was read.                                                            *)
(***************************************************************************)
Places(s, v) == {i \in DOMAIN s : s[i] = v}

Reading(ref, m) == [ref |-> ref, id |-> m.id, severity |-> m.severity]

MatchesRead ==
  \A r \in Ref, m \in Match :
    Cardinality(Places(matches[r], m)) = Cardinality(Places(read, Reading(r, m)))

(***************************************************************************)
(* What each phase has left untouched, and what it has noticed.            *)
(***************************************************************************)
Phases ==
  /\ pc \in {"assign", "run"} =>
       /\ read = <<>> /\ errors = {}
       /\ \A r \in Ref : matches[r] = <<>> /\ coverage[r] = "absent"
  /\ pc \notin {"render", "done"} =>
       state = "" /\ pending = {} /\ rows = {} /\ rules = <<>>
  /\ \A i \in DOMAIN read : Issues(read[i].ref) \subseteq errors

(***************************************************************************)
(* The state of the result, the coverage and the matches fit together.     *)
(***************************************************************************)
Judged ==
  pc \in {"render", "done"} =>
    \/ /\ state = "not-requested" /\ read = <<>>
       /\ \A r \in Ref : matches[r] = <<>> /\ coverage[r] = "absent"
    \/ /\ state = "unavailable" /\ read = <<>> /\ errors # {}
       /\ \A r \in Ref : /\ matches[r] = <<>>
                         /\ coverage[r] = IF r \in BOMRefs THEN "not-assessable" ELSE "absent"
    \/ /\ state \in {"completed", "completed-with-errors"}
       /\ state = "completed" <=> errors = {}
       /\ \A r \in Ref : coverage[r] = Coverage(r)

InOrder ==
  pc \in {"render", "done"} =>
    \A r \in Ref : \A i, j \in DOMAIN matches[r] : i < j => ~Before(matches[r][j], matches[r][i])

(***************************************************************************)
(* The tables hold what the loops have come to, each key once.             *)
(***************************************************************************)
Found == {r \in Ref : matches[r] # <<>>}

RowKeys(table) == {RowKey(row) : row \in table}

Rendering ==
  pc \in {"render", "done"} =>
    /\ pending \subseteq Found
    /\ pc = "done" => pending = {}
    /\ RowKeys(rows) = UNION {RowKeys(RowsOf(r)) : r \in Found \ pending}
    /\ \A a, b \in rows : RowKey(a) = RowKey(b) => a = b
    /\ DOMAIN rules = UNION {DOMAIN RulesOf(r) : r \in Found \ pending}

(***************************************************************************)
(* Appending a value adds one place for it and none for any other.         *)
(***************************************************************************)
LEMMA PlacesAppended ==
  ASSUME NEW S, NEW s \in Seq(S), NEW x \in S, NEW v
  PROVE  /\ IsFiniteSet(Places(s, v))
         /\ Cardinality(Places(Append(s, x), v)) =
              IF x = v THEN Cardinality(Places(s, v)) + 1 ELSE Cardinality(Places(s, v))
<1> DEFINE n == Len(s)
           t == Append(s, x)
<1>1. n \in Nat /\ DOMAIN s = 1..n /\ DOMAIN t = 1..(n + 1)
  OBVIOUS
<1>2. t[n + 1] = x /\ \A i \in 1..n : t[i] = s[i]
  OBVIOUS
<1>3. IsFiniteSet(Places(s, v))
  <2>1. IsFiniteSet(1..n) /\ Places(s, v) \in SUBSET (1..n)
    BY <1>1, FS_Interval DEF Places
  <2> QED
    BY <2>1, FS_Subset
<1>4. n + 1 \notin Places(s, v)
  BY <1>1 DEF Places
<1>5. CASE x = v
  <2>1. Places(t, v) = Places(s, v) \cup {n + 1}
    BY <1>1, <1>2, <1>5 DEF Places
  <2> QED
    BY <2>1, <1>3, <1>4, <1>5, FS_AddElement
<1>6. CASE x # v
  <2>1. Places(t, v) = Places(s, v)
    BY <1>1, <1>2, <1>6 DEF Places
  <2> QED
    BY <2>1, <1>3, <1>6
<1> QED
  BY <1>3, <1>5, <1>6

(***************************************************************************)
(* So a match is among those of a reference if Grype printed it with it.   *)
(***************************************************************************)
LEMMA MatchWasRead ==
  ASSUME TypeOK, MatchesRead, NEW r \in Ref, NEW m \in Match
  PROVE  (\E i \in DOMAIN matches[r] : matches[r][i] = m) <=>
           (\E i \in DOMAIN read : read[i] = Reading(r, m))
<1>1. \A S : \A s \in Seq(S) : \A v : IsFiniteSet(Places(s, v))
  <2> SUFFICES ASSUME NEW S, NEW s \in Seq(S), NEW v PROVE IsFiniteSet(Places(s, v))
    OBVIOUS
  <2>1. IsFiniteSet(1..Len(s)) /\ Places(s, v) \in SUBSET (1..Len(s))
    BY FS_Interval DEF Places
  <2> QED
    BY <2>1, FS_Subset
<1>2. IsFiniteSet(Places(matches[r], m)) /\ IsFiniteSet(Places(read, Reading(r, m)))
  BY <1>1 DEF TypeOK
<1>3. Places(matches[r], m) = {} <=> Places(read, Reading(r, m)) = {}
  BY <1>2, FS_EmptySet DEF MatchesRead
<1> QED
  BY <1>3 DEF Places

(***************************************************************************)
(* MatchesRead holds in every reachable state: reading appends to both     *)
(* sides, and sorting only moves places.                                   *)
(***************************************************************************)
LEMMA EveryMatchRead == Spec => []MatchesRead
<1>1. Init => MatchesRead
  <2>1. \A v : Places(<<>>, v) = {}
    BY DEF Places
  <2> QED
    BY <2>1 DEF Init, MatchesRead
<1>2. ASSUME TypeOK, MatchesRead, [Next]_vars PROVE MatchesRead'
  <2> USE <1>2
  <2>1. CASE UNCHANGED <<matches, read>>
    BY <2>1 DEF MatchesRead, Places
  <2>2. ASSUME NEW ref \in Ref \cup {NoRef}, NEW id \in Vulnerability,
               NEW severity \in Severity, ReadMatch(ref, id, severity)
        PROVE  MatchesRead'
    <3> DEFINE new == [ref |-> ref, id |-> id, severity |-> severity]
               match == [id |-> id, severity |-> severity]
    <3> SUFFICES ASSUME NEW r \in Ref, NEW m \in Match
                 PROVE  Cardinality(Places(matches'[r], m)) =
                          Cardinality(Places(read', Reading(r, m)))
      BY DEF MatchesRead, Places
    <3>1. /\ read' = Append(read, new)
          /\ matches'[r] = IF r = ref THEN Append(matches[r], match) ELSE matches[r]
      BY <2>2 DEF ReadMatch
    <3>2. /\ new \in ReadMatches /\ read \in Seq(ReadMatches)
          /\ match \in Match /\ matches[r] \in Seq(Match)
      BY DEF ReadMatches, Match, TypeOK
    <3>3. new = Reading(r, m) <=> r = ref /\ match = m
      BY DEF Reading, Match
    <3>4. Cardinality(Places(matches[r], m)) = Cardinality(Places(read, Reading(r, m)))
      BY DEF MatchesRead
    <3> HIDE DEF new, match
    <3>5. Cardinality(Places(read', Reading(r, m))) =
            IF new = Reading(r, m) THEN Cardinality(Places(read, Reading(r, m))) + 1
            ELSE Cardinality(Places(read, Reading(r, m)))
      BY <3>1, <3>2, PlacesAppended
    <3>6. Cardinality(Places(Append(matches[r], match), m)) =
            IF match = m THEN Cardinality(Places(matches[r], m)) + 1
            ELSE Cardinality(Places(matches[r], m))
      BY <3>2, PlacesAppended
    <3> QED
      BY <3>1, <3>3, <3>4, <3>5, <3>6
  <2>3. CASE Correlated
    <3>1. read' = read /\ \A r \in Ref : matches'[r] \in Sorted(matches[r])
      BY <2>3 DEF Correlated
    <3>2. ASSUME NEW r \in Ref, NEW m
          PROVE  Cardinality(Places(matches'[r], m)) = Cardinality(Places(matches[r], m))
      <4>1. matches[r] \in Seq(Match) /\ matches'[r] \in Sorted(matches[r])
        BY <3>1 DEF TypeOK
      <4>2. \A v : Cardinality({i \in DOMAIN matches'[r] : matches'[r][i] = v}) =
                     Cardinality({i \in DOMAIN matches[r] : matches[r][i] = v})
        BY <4>1, SortedIsOrdered
      <4> QED
        BY <4>2 DEF Places
    <3> QED
      BY <3>1, <3>2 DEF MatchesRead, Places
  <2> QED
    BY <2>1, <2>2, <2>3 DEF Next, vars, resultVars, AssignRef, Assembled, NotRequested,
      Unavailable, Matched, RenderRef, Rendered, Terminated
<1> QED
  BY <1>1, <1>2, EnrichmentTyped, PTL DEF Spec

(***************************************************************************)
(* What is read and what is correlated are sequences of matches.           *)
(***************************************************************************)
LEMMA MatchesTyped ==
  ASSUME TypeOK
  PROVE  /\ DOMAIN read \subseteq Nat
         /\ \A i \in DOMAIN read : read[i] \in ReadMatches
         /\ \A r \in Ref : /\ Len(matches[r]) \in Nat
                          /\ DOMAIN matches[r] = 1..Len(matches[r])
                          /\ \A i \in DOMAIN matches[r] : matches[r][i] \in Match
                          /\ matches[r] # <<>> <=> Len(matches[r]) # 0
<1>1. \A S : \A s \in Seq(S) : /\ Len(s) \in Nat /\ DOMAIN s = 1..Len(s)
                             /\ \A i \in DOMAIN s : s[i] \in S
                             /\ s # <<>> <=> Len(s) # 0
  OBVIOUS
<1>2. read \in Seq(ReadMatches) /\ \A r \in Ref : matches[r] \in Seq(Match)
  BY DEF TypeOK
<1>3. DOMAIN read \subseteq Nat /\ \A i \in DOMAIN read : read[i] \in ReadMatches
  <2>1. Len(read) \in Nat /\ DOMAIN read = 1..Len(read)
    BY <1>2
  <2> QED
    BY <1>1, <1>2, <2>1
<1> QED
  BY <1>1, <1>2, <1>3

(***************************************************************************)
(* After the references are assigned nothing changes the lookups.          *)
(***************************************************************************)
LEMMA LookupsStay ==
  ASSUME [Next]_vars, ~AssignRef
  PROVE  UNCHANGED <<byKey, comp>>
BY DEF Next, vars, refVars, Assembled, NotRequested, Unavailable, Matched, ReadMatch,
  Correlated, RenderRef, Rendered, Terminated

(***************************************************************************)
(* Phases holds in every reachable state.                                  *)
(***************************************************************************)
LEMMA PhasesKept == Spec => []Phases
<1>1. Init => Phases
  <2>1. DOMAIN <<>> = {}
    OBVIOUS
  <2> QED
    BY <2>1 DEF Init, Phases
<1>2. ASSUME TypeOK, Phases, [Next]_vars PROVE Phases'
  <2> USE <1>2
  <2>1. CASE AssignRef
    <3>1. UNCHANGED <<pc, read, state, matches, coverage, errors, pending, rows, rules>>
      BY <2>1 DEF AssignRef, resultVars, reportVars
    <3>2. read = <<>>
      BY <2>1 DEF AssignRef, Phases
    <3>3. DOMAIN <<>> = {}
      OBVIOUS
    <3> QED
      BY <3>1, <3>2, <3>3 DEF Phases
  <2>2. CASE ~AssignRef
    <3>1. \A r : Issues(r)' = Issues(r)
      BY <2>2, LookupsStay, LookupsFixed
    <3>2. ASSUME Assembled \/ NotRequested \/ Matched \/ Correlated \/ Rendered \/ UNCHANGED vars
          PROVE  Phases'
      <4>1. UNCHANGED <<read, errors>>
        BY <3>2 DEF Assembled, NotRequested, Matched, Correlated, Rendered, vars, resultVars
      <4>2. \A i \in DOMAIN read' : (Issues(read[i].ref) \subseteq errors)'
        BY <3>1, <4>1 DEF Phases
      <4>3. pc' \in {"assign", "run"} =>
              /\ pc \in {"assign", "run"} /\ UNCHANGED <<matches, coverage>>
        BY <3>2 DEF Assembled, NotRequested, Matched, Correlated, Rendered, vars, resultVars
      <4>4. pc' \notin {"render", "done"} =>
              /\ pc \notin {"render", "done"} /\ UNCHANGED <<state, pending, rows, rules>>
        BY <3>2 DEF Assembled, NotRequested, Matched, Correlated, Rendered, vars, resultVars,
          reportVars
      <4> QED
        BY <4>1, <4>2, <4>3, <4>4 DEF Phases
    <3>3. ASSUME NEW code, Unavailable(code) PROVE Phases'
      <4>1. pc' = "render" /\ read' = read /\ read = <<>>
        BY <3>3 DEF Unavailable, Phases
      <4>2. DOMAIN <<>> = {}
        OBVIOUS
      <4> QED
        BY <4>1, <4>2 DEF Phases
    <3>4. ASSUME NEW ref \in Ref \cup {NoRef}, NEW id \in Vulnerability,
                 NEW severity \in Severity, ReadMatch(ref, id, severity)
          PROVE  Phases'
      <4> DEFINE new == [ref |-> ref, id |-> id, severity |-> severity]
      <4>1. /\ pc' = "match" /\ pc = "match" /\ read' = Append(read, new)
            /\ errors' = errors \cup Issues(ref)
            /\ UNCHANGED <<state, pending, rows, rules>>
        BY <3>4 DEF ReadMatch, reportVars
      <4>2. ASSUME NEW i \in DOMAIN read' PROVE Issues(read'[i].ref) \subseteq errors'
        <5>1. new.ref = ref /\ read \in Seq(ReadMatches)
          BY DEF TypeOK
        <5>2. (i \in DOMAIN read /\ read'[i] = read[i]) \/ read'[i] = new
          <6> HIDE DEF new
          <6> QED
            BY <4>1, <5>1
        <5> QED
          BY <4>1, <5>1, <5>2 DEF Phases
      <4>3. \A i \in DOMAIN read' : (Issues(read[i].ref) \subseteq errors)'
        BY <3>1, <4>2
      <4> QED
        BY <4>1, <4>3 DEF Phases
    <3>5. ASSUME NEW ref \in Ref, RenderRef(ref) PROVE Phases'
      <4>1. /\ pc' = "render" /\ UNCHANGED <<read, errors>>
        BY <3>5 DEF RenderRef, resultVars
      <4>2. \A i \in DOMAIN read' : (Issues(read[i].ref) \subseteq errors)'
        BY <3>1, <4>1 DEF Phases
      <4> QED
        BY <4>1, <4>2 DEF Phases
    <3> QED
      BY <2>2, <3>2, <3>3, <3>4, <3>5 DEF Next, Terminated
  <2> QED
    BY <2>1, <2>2
<1> QED
  BY <1>1, <1>2, EnrichmentTyped, PTL DEF Spec

(***************************************************************************)
(* The matches stay in the order in which Run has left them.               *)
(***************************************************************************)
LEMMA OrderKept == Spec => []InOrder
<1>1. Init => InOrder
  BY DEF Init, InOrder
<1>2. ASSUME TypeOK, Phases, InOrder, [Next]_vars PROVE InOrder'
  <2> USE <1>2
  <2>1. CASE pc' \in {"render", "done"} => pc \in {"run", "render", "done"} /\ matches' = matches
    <3>1. pc = "run" => \A r \in Ref : DOMAIN matches[r] = {}
      <4>1. DOMAIN <<>> = {}
        OBVIOUS
      <4> QED
        BY <4>1 DEF Phases
    <3> QED
      BY <2>1, <3>1 DEF InOrder, Before
  <2>2. CASE Correlated
    <3>1. \A r \in Ref : matches'[r] \in Sorted(matches[r]) /\ matches[r] \in Seq(Match)
      BY <2>2 DEF Correlated, TypeOK
    <3>2. \A r \in Ref : \A i, j \in DOMAIN matches'[r] :
            i < j => ~Before(matches'[r][j], matches'[r][i])
      BY <3>1, SortedIsOrdered
    <3> QED
      BY <3>2 DEF InOrder, Before
  <2> QED
    BY <2>1, <2>2 DEF Next, vars, resultVars, AssignRef, Assembled, NotRequested,
      Unavailable, Matched, ReadMatch, RenderRef, Rendered, Terminated
<1> QED
  BY <1>1, <1>2, EnrichmentTyped, PhasesKept, PTL DEF Spec

(***************************************************************************)
(* The state decides what coverage and matches can be.                     *)
(***************************************************************************)
LEMMA JudgedRight == Spec => []Judged
<1>1. Init => Judged
  BY DEF Init, Judged
<1>2. ASSUME TypeOK, Phases, Judged, [Next]_vars PROVE Judged'
  <2> USE <1>2
  <2>1. CASE AssignRef
    BY <2>1 DEF AssignRef, Judged
  <2>2. CASE ~AssignRef
    <3>1. UNCHANGED <<byKey, comp>>
      BY <2>2, LookupsStay
    <3>2. BOMRefs' = BOMRefs /\ \A r : KeyOf(r)' = KeyOf(r) /\ \A k : IsAssessable(k)' <=> IsAssessable(k)
      BY <3>1, LookupsFixed
    <3>3. ASSUME \A r \in Ref : matches'[r] = <<>> <=> matches[r] = <<>>
          PROVE  \A r \in Ref : Coverage(r)' = Coverage(r)
      BY <3>2, <3>3 DEF Coverage
    <3>4. CASE Assembled \/ Matched
      BY <3>4 DEF Assembled, Matched, Judged
    <3>5. CASE NotRequested
      <4>1. /\ state' = "not-requested" /\ UNCHANGED <<read, matches, coverage>>
            /\ read = <<>> /\ \A r \in Ref : matches[r] = <<>> /\ coverage[r] = "absent"
        BY <3>5 DEF NotRequested, Phases
      <4> QED
        BY <4>1 DEF Judged
    <3>6. ASSUME NEW code, Unavailable(code) PROVE Judged'
      <4>1. /\ state' = "unavailable" /\ UNCHANGED <<read, matches>>
            /\ read = <<>> /\ (\A r \in Ref : matches[r] = <<>>) /\ errors' # {}
        BY <3>6 DEF Unavailable, Phases
      <4>2. \A r \in Ref : coverage'[r] = IF r \in BOMRefs THEN "not-assessable" ELSE "absent"
        BY <3>6 DEF Unavailable
      <4> QED
        BY <3>2, <4>1, <4>2 DEF Judged
    <3>7. ASSUME NEW ref, NEW id, NEW severity, ReadMatch(ref, id, severity) PROVE Judged'
      BY <3>7 DEF ReadMatch, Judged
    <3>8. CASE Correlated
      <4>1. \A r \in Ref : matches'[r] \in Sorted(matches[r]) /\ matches[r] \in Seq(Match)
        BY <3>8 DEF Correlated, TypeOK
      <4>2. ASSUME NEW r \in Ref PROVE matches'[r] = <<>> <=> matches[r] = <<>>
        <5>1. DOMAIN matches'[r] = DOMAIN matches[r] /\ matches'[r] \in Seq(Match)
          BY <4>1, SortedIsOrdered
        <5> QED
          BY <4>1, <5>1
      <4>3. \A r \in Ref : coverage'[r] = Coverage(r)'
        BY <3>3, <3>8, <4>2 DEF Correlated
      <4>4. /\ state' \in {"completed", "completed-with-errors"}
            /\ state' = "completed" <=> errors' = {}
        BY <3>8 DEF Correlated
      <4> QED
        BY <4>3, <4>4 DEF Judged
    <3>9. CASE Rendered \/ (\E ref \in Ref : RenderRef(ref)) \/ UNCHANGED vars
      <4>1. /\ UNCHANGED <<read, state, matches, coverage, errors>>
            /\ pc' \in {"render", "done"} => pc \in {"render", "done"}
        BY <3>9 DEF Rendered, RenderRef, vars, resultVars
      <4>2. \A r \in Ref : Coverage(r)' = Coverage(r)
        BY <3>3, <4>1
      <4> QED
        BY <3>2, <4>1, <4>2 DEF Judged
    <3> QED
      BY <2>2, <3>4, <3>5, <3>6, <3>7, <3>8, <3>9 DEF Next, Terminated
  <2> QED
    BY <2>1, <2>2
<1> QED
  BY <1>1, <1>2, EnrichmentTyped, PhasesKept, PTL DEF Spec

(***************************************************************************)
(* A set of places has a first one.                                        *)
(***************************************************************************)
LEMMA LeastPlace ==
  ASSUME NEW T, T \subseteq Nat, T # {}
  PROVE  \E m \in T : \A k \in T : m <= k
<1> DEFINE U == {1..m : m \in T}
           S == Nat
<1>0. U # {}
  OBVIOUS
<1>1. U \subseteq FiniteSubsetsOf(S)
  BY FS_Interval DEF FiniteSubsetsOf
<1>2. PICK x \in U : \A y \in U : ~ (<<y, x>> \in StrictSubsetOrdering(S))
  <2> HIDE DEF U, S
  <2> QED
    BY <1>0, <1>1, FS_StrictSubsetOrderingWellFounded, WFMin
<1>3. PICK m \in T : x = 1..m
  BY <1>2
<1>4. ASSUME NEW k \in T, k < m PROVE FALSE
  <2>1. 1..k \in U /\ <<1..k, 1..m>> \in StrictSubsetOrdering(S)
    BY <1>4 DEF StrictSubsetOrdering
  <2> QED
    BY <2>1, <1>2, <1>3
<1> QED
  BY <1>4

(***************************************************************************)
(* Of the rows of a reference each key keeps one, the first.               *)
(***************************************************************************)
LEMMA FirstRowsHaveAllKeys ==
  ASSUME TypeOK, NEW r \in Ref
  PROVE  /\ \A row \in RowsOf(r) : \E first \in FirstRows(r) : RowKey(first) = RowKey(row)
         /\ \A a, b \in FirstRows(r) : RowKey(a) = RowKey(b) => a = b
<1> DEFINE Row(i) == [ref |-> r, at |-> i, package |-> Package(r), id |-> matches[r][i].id,
                      severity |-> matches[r][i].severity]
<1>1. DOMAIN matches[r] \subseteq Nat
  BY MatchesTyped
<1>2. RowsOf(r) = {Row(i) : i \in DOMAIN matches[r]} /\ \A i : Row(i).at = i
  BY DEF RowsOf
<1> HIDE DEF Row
<1>3. ASSUME NEW row \in RowsOf(r)
      PROVE  \E first \in FirstRows(r) : RowKey(first) = RowKey(row)
  <2> DEFINE T == {i \in DOMAIN matches[r] : RowKey(Row(i)) = RowKey(row)}
  <2>1. T \subseteq Nat /\ T # {}
    BY <1>1, <1>2
  <2>2. PICK m \in T : \A k \in T : m <= k
    <3> HIDE DEF T
    <3> QED
      BY <2>1, LeastPlace
  <2>3. ASSUME NEW earlier \in RowsOf(r), earlier.at < m
        PROVE  RowKey(earlier) # RowKey(row)
    <3>1. PICK k \in DOMAIN matches[r] : earlier = Row(k)
      BY <1>2
    <3>2. k < m /\ k \in Nat /\ m \in Nat
      BY <1>1, <1>2, <2>1, <2>3, <3>1
    <3>3. k \notin T
      BY <2>2, <3>2
    <3> QED
      BY <3>1, <3>3
  <2>4. Row(m) \in RowsOf(r) /\ Row(m).at = m /\ RowKey(Row(m)) = RowKey(row)
    BY <1>2, <2>2
  <2>5. Row(m) \in FirstRows(r)
    BY <2>3, <2>4 DEF FirstRows
  <2> QED
    BY <2>4, <2>5
<1>4. ASSUME NEW a \in FirstRows(r), NEW b \in FirstRows(r), RowKey(a) = RowKey(b)
      PROVE  a = b
  <2>1. a \in RowsOf(r) /\ b \in RowsOf(r) /\ ~(a.at < b.at) /\ ~(b.at < a.at)
    BY <1>4 DEF FirstRows
  <2>2. PICK i \in DOMAIN matches[r] : a = Row(i)
    BY <1>2, <2>1
  <2>3. PICK j \in DOMAIN matches[r] : b = Row(j)
    BY <1>2, <2>1
  <2>4. i = j
    BY <1>1, <1>2, <2>1, <2>2, <2>3
  <2> QED
    BY <2>2, <2>3, <2>4
<1> QED
  BY <1>3, <1>4

(***************************************************************************)
(* A row is only left out when there is one with its key.                  *)
(***************************************************************************)
LEMMA TablesKept == Spec => []Rendering
<1>1. Init => Rendering
  BY DEF Init, Rendering
<1>2. ASSUME TypeOK, Phases, Phases', Rendering, [Next]_vars PROVE Rendering'
  <2> USE <1>2
  <2>1. CASE pc' \notin {"render", "done"}
    BY <2>1 DEF Rendering
  <2>2. CASE pc' \in {"render", "done"}
    <3>1. UNCHANGED <<byKey, comp>>
      <4>1. ~AssignRef
        BY <2>2 DEF AssignRef
      <4> QED
        BY <4>1, LookupsStay
    <3>2. \A r : Package(r)' = Package(r)
      BY <3>1, LookupsFixed
    <3>3. ASSUME UNCHANGED matches
          PROVE  /\ Found' = Found
                 /\ \A r \in Ref : RowsOf(r)' = RowsOf(r)
                 /\ \A r \in Ref : RulesOf(r)' = RulesOf(r)
                 /\ \A table : RowKeys(table)' = RowKeys(table)
      <4>1. Found' = Found
        BY <3>3 DEF Found
      <4>2. \A r \in Ref : RowsOf(r)' = RowsOf(r)
        BY <3>2, <3>3 DEF RowsOf
      <4>3. \A r \in Ref : RulesOf(r)' = RulesOf(r)
        BY <3>3 DEF RulesOf
      <4> QED
        BY <4>1, <4>2, <4>3 DEF RowKeys, RowKey
    <3>4. CASE NotRequested \/ \E code : Unavailable(code)
      <4>1. /\ \A r \in Ref : matches'[r] = <<>>
            /\ rows' = {} /\ rules' = <<>> /\ pending' = {} /\ pc' = "render"
        BY <3>4 DEF NotRequested, Unavailable, Phases, reportVars
      <4>2. Found' = {}
        BY <4>1 DEF Found
      <4>3. DOMAIN rules' = {}
        BY <4>1
      <4> QED
        BY <4>1, <4>2, <4>3 DEF Rendering, RowKeys
    <3>5. CASE Correlated
      <4>1. /\ rows' = {} /\ rules' = <<>> /\ pc' = "render"
            /\ pending' = Found
        BY <3>5 DEF Correlated, Phases, Found
      <4>2. Found' = Found
        <5>1. ASSUME NEW r \in Ref PROVE matches'[r] = <<>> <=> matches[r] = <<>>
          <6>1. matches'[r] \in Sorted(matches[r]) /\ matches[r] \in Seq(Match)
            BY <3>5 DEF Correlated, TypeOK
          <6>2. DOMAIN matches'[r] = DOMAIN matches[r] /\ matches'[r] \in Seq(Match)
            BY <6>1, SortedIsOrdered
          <6> QED
            BY <6>1, <6>2
        <5> QED
          BY <5>1 DEF Found
      <4>3. DOMAIN rules' = {}
        BY <4>1
      <4> QED
        BY <4>1, <4>2, <4>3 DEF Rendering, RowKeys
    <3>6. ASSUME NEW ref \in Ref, RenderRef(ref) PROVE Rendering'
      <4>1. /\ pc = "render" /\ pc' = "render" /\ ref \in pending
            /\ pending' = pending \ {ref} /\ UNCHANGED matches
            /\ rows' = rows \cup {row \in FirstRows(ref) : \A old \in rows : RowKey(old) # RowKey(row)}
            /\ rules' = FirstMet(rules, RulesOf(ref))
        BY <3>6 DEF RenderRef, resultVars
      <4>2. /\ pending \subseteq Found
            /\ RowKeys(rows) = UNION {RowKeys(RowsOf(r)) : r \in Found \ pending}
            /\ DOMAIN rules = UNION {DOMAIN RulesOf(r) : r \in Found \ pending}
        BY <4>1 DEF Rendering
      <4>3. Found \ pending' = (Found \ pending) \cup {ref}
        BY <4>1, <4>2
      <4>4. RowKeys(rows') = RowKeys(rows) \cup RowKeys(RowsOf(ref))
        <5>1. FirstRows(ref) \subseteq RowsOf(ref)
          BY DEF FirstRows
        <5>2. RowKeys(rows') = RowKeys(rows) \cup RowKeys(FirstRows(ref))
          BY <4>1 DEF RowKeys
        <5>3. RowKeys(FirstRows(ref)) = RowKeys(RowsOf(ref))
          BY <5>1, FirstRowsHaveAllKeys DEF RowKeys
        <5> QED
          BY <5>2, <5>3
      <4>5. DOMAIN rules' = DOMAIN rules \cup DOMAIN RulesOf(ref)
        BY <4>1 DEF FirstMet
      <4>6. RowKeys(rows') = UNION {RowKeys(RowsOf(r)) : r \in Found \ pending'}
        BY <4>2, <4>3, <4>4
      <4>7. DOMAIN rules' = UNION {DOMAIN RulesOf(r) : r \in Found \ pending'}
        BY <4>2, <4>3, <4>5
      <4>8. Found \subseteq Ref
        BY DEF Found
      <4>10. \A a, b \in rows' : RowKey(a) = RowKey(b) => a = b
        <5>1. \A a, b \in FirstRows(ref) : RowKey(a) = RowKey(b) => a = b
          BY FirstRowsHaveAllKeys
        <5>2. \A a, b \in rows : RowKey(a) = RowKey(b) => a = b
          BY <4>1 DEF Rendering
        <5> QED
          BY <4>1, <5>1, <5>2
      <4>11. (\A a, b \in rows : RowKey(a) = RowKey(b) => a = b)'
        BY <4>10 DEF RowKey
      <4>9. /\ RowKeys(rows)' = UNION {RowKeys(RowsOf(r))' : r \in Found' \ pending'}
            /\ DOMAIN rules' = UNION {DOMAIN RulesOf(r)' : r \in Found' \ pending'}
        BY <3>3, <4>1, <4>6, <4>7, <4>8 DEF RowKeys, RowKey
      <4> QED
        BY <3>3, <4>1, <4>2, <4>9, <4>11 DEF Rendering
    <3>7. CASE Rendered \/ UNCHANGED vars
      <4>1. /\ pc \in {"render", "done"} /\ UNCHANGED <<matches, pending, rows, rules>>
            /\ pc' = "done" => pending = {} \/ pc = "done"
        BY <3>7, <2>2 DEF Rendered, vars, resultVars, reportVars
      <4>2. Found \subseteq Ref
        BY DEF Found
      <4>3. /\ RowKeys(rows)' = UNION {RowKeys(RowsOf(r))' : r \in Found' \ pending'}
            /\ DOMAIN rules' = UNION {DOMAIN RulesOf(r)' : r \in Found' \ pending'}
        BY <3>3, <4>1, <4>2 DEF Rendering, RowKeys, RowKey
      <4>4. (\A a, b \in rows : RowKey(a) = RowKey(b) => a = b)'
        BY <4>1 DEF Rendering, RowKey
      <4> QED
        BY <3>3, <4>1, <4>3, <4>4 DEF Rendering
    <3> QED
      BY <2>2, <3>4, <3>5, <3>6, <3>7 DEF Next, AssignRef, Assembled, Matched, ReadMatch, Terminated
  <2> QED
    BY <2>1, <2>2
<1> QED
  BY <1>1, <1>2, EnrichmentTyped, PhasesKept, PTL DEF Spec

-----------------------------------------------------------------------------
(***************************************************************************)
(* The image of a finite set is finite and not larger.                     *)
(***************************************************************************)
LEMMA ImageFinite ==
  ASSUME NEW S, IsFiniteSet(S), NEW f, DOMAIN f = S, f = [x \in S |-> f[x]]
  PROVE  /\ IsFiniteSet({f[x] : x \in S})
         /\ Cardinality({f[x] : x \in S}) <= Cardinality(S)
<1> DEFINE T == {f[x] : x \in S}
<1>1. f \in Surjection(S, T)
  BY DEF Surjection
<1> QED
  BY <1>1, FS_Surjection

(***************************************************************************)
(* The matches of a reference are those that were read with it.            *)
(***************************************************************************)
LEMMA MatchesAreFindings ==
  ASSUME TypeOK, MatchesRead, NEW r \in Ref
  PROVE  /\ {matches[r][i] : i \in DOMAIN matches[r]} =
              {[id |-> read[i].id, severity |-> read[i].severity] :
                 i \in {i \in DOMAIN read : read[i].ref = r}}
         /\ matches[r] # <<>> <=> \E i \in DOMAIN read : read[i].ref = r
<1>1. ASSUME NEW i \in DOMAIN matches[r]
      PROVE  \E j \in DOMAIN read : read[j].ref = r
               /\ matches[r][i] = [id |-> read[j].id, severity |-> read[j].severity]
  <2>1. PICK m \in Match : m = matches[r][i]
    BY MatchesTyped
  <2>2. PICK j \in DOMAIN read : read[j] = Reading(r, m)
    BY <2>1, MatchWasRead
  <2> QED
    BY <2>1, <2>2 DEF Reading, Match
<1>2. ASSUME NEW j \in DOMAIN read, read[j].ref = r
      PROVE  \E i \in DOMAIN matches[r] :
               matches[r][i] = [id |-> read[j].id, severity |-> read[j].severity]
  <2> DEFINE m == [id |-> read[j].id, severity |-> read[j].severity]
  <2>1. read[j] \in ReadMatches
    BY MatchesTyped
  <2>2. m \in Match /\ read[j] = Reading(r, m)
    BY <2>1, <1>2 DEF Match, ReadMatches, Reading
  <2> HIDE DEF m
  <2> QED
    BY <2>2, MatchWasRead DEF m
<1> DEFINE A == {matches[r][i] : i \in DOMAIN matches[r]}
           B == {[id |-> read[i].id, severity |-> read[i].severity] :
                   i \in {i \in DOMAIN read : read[i].ref = r}}
<1>3. A \subseteq B
  <2> SUFFICES ASSUME NEW i \in DOMAIN matches[r] PROVE matches[r][i] \in B
    OBVIOUS
  <2> QED
    BY <1>1
<1>4. B \subseteq A
  <2> SUFFICES ASSUME NEW j \in DOMAIN read, read[j].ref = r
               PROVE  [id |-> read[j].id, severity |-> read[j].severity] \in A
    OBVIOUS
  <2> QED
    BY <1>2
<1>5. matches[r] # <<>> <=> DOMAIN matches[r] # {}
  <2> HIDE DEF A, B
  <2>1. Len(matches[r]) \in Nat /\ DOMAIN matches[r] = 1..Len(matches[r])
    BY MatchesTyped
  <2>2. matches[r] # <<>> <=> Len(matches[r]) # 0
    BY MatchesTyped
  <2>3. Len(matches[r]) # 0 => 1 \in DOMAIN matches[r]
    BY <2>1
  <2>4. Len(matches[r]) = 0 => \A i : i \notin DOMAIN matches[r]
    BY <2>1
  <2> QED
    BY <2>2, <2>3, <2>4
<1>6. A = B
  BY <1>3, <1>4
<1>7. matches[r] # <<>> <=> \E i \in DOMAIN read : read[i].ref = r
  BY <1>1, <1>2, <1>5
<1> QED
  BY <1>6, <1>7

-----------------------------------------------------------------------------
(***************************************************************************)
(* The references of the BOM are distinct, and determined by the keys and  *)
(* the hashes.                                                             *)
(***************************************************************************)
THEOREM ReferencesDetermined == Spec => [](RefsDistinct /\ RefsDetermined)
<1>1. Assigned => RefsDistinct /\ RefsDetermined
  BY InverseIsInjective DEF Assigned, RefInv
<1> QED
  BY <1>1, RefsAssigned, PTL

(***************************************************************************)
(* No match of a completed result was lost, and each component counts as   *)
(* what it is.                                                             *)
(***************************************************************************)
THEOREM CompletedResultExact == Spec => []CompletedIsExact
<1>1. ASSUME TypeOK, Assigned, MatchesRead, Phases, Judged PROVE CompletedIsExact
  <2> USE <1>1
  <2> SUFFICES ASSUME state = "completed", BOMRefs # {}
               PROVE  /\ \A i \in DOMAIN read : \E k \in Listed : read[i].ref = byKey[k]
                      /\ \A k \in Listed :
                           CASE \E i \in DOMAIN read : read[i].ref = byKey[k] ->
                                  coverage[byKey[k]] = "found"
                             [] OTHER -> coverage[byKey[k]] =
                                           IF IsAssessable(k) THEN "none" ELSE "not-assessable"
    BY DEF CompletedIsExact
  <2>1. /\ pc \in {"render", "done"} /\ errors = {}
        /\ \A r \in Ref : coverage[r] = Coverage(r)
    BY DEF Phases, Judged
  <2>2. ASSUME NEW i \in DOMAIN read PROVE \E k \in Listed : read[i].ref = byKey[k]
    <3>1. Issues(read[i].ref) = {}
      BY <2>1 DEF Phases
    <3>2. read[i].ref \in BOMRefs
      BY <3>1 DEF Issues
    <3> QED
      BY <3>2 DEF BOMRefs
  <2>3. ASSUME NEW k \in Listed
        PROVE  /\ (\E i \in DOMAIN read : read[i].ref = byKey[k]) =>
                     coverage[byKey[k]] = "found"
               /\ ~ (\E i \in DOMAIN read : read[i].ref = byKey[k]) =>
                     coverage[byKey[k]] = IF IsAssessable(k) THEN "none" ELSE "not-assessable"
    <3>1. /\ byKey[k] \in BOMRefs /\ byKey[k] \in Ref /\ KeyOf(byKey[k]) = k
      BY <2>1, KeysFound
    <3>2. matches[byKey[k]] # <<>> <=> \E i \in DOMAIN read : read[i].ref = byKey[k]
      BY <3>1, MatchesAreFindings
    <3> QED
      BY <2>1, <3>1, <3>2 DEF Coverage
  <2> QED
    BY <2>2, <2>3
<1> QED
  BY <1>1, EnrichmentTyped, RefsAssigned, EveryMatchRead, PhasesKept, JudgedRight, PTL

(***************************************************************************)
(* The first match with an identifier is the one a rule or a row shows.    *)
(***************************************************************************)
LEMMA RuleOfFirst ==
  ASSUME TypeOK, NEW r \in Ref, NEW id \in DOMAIN RulesOf(r)
  PROVE  \E f \in DOMAIN matches[r] :
           /\ matches[r][f].id = id
           /\ \A j \in DOMAIN matches[r] : matches[r][j].id = id => f <= j
           /\ RulesOf(r)[id] = matches[r][f].severity
<1> DEFINE T == {i \in DOMAIN matches[r] : matches[r][i].id = id}
           First(i) == /\ matches[r][i].id = id
                       /\ \A j \in 1..(i - 1) : matches[r][j].id # id
<1>1. Len(matches[r]) \in Nat /\ DOMAIN matches[r] = 1..Len(matches[r])
  BY MatchesTyped
<1>2. T \subseteq Nat /\ T # {}
  BY <1>1 DEF RulesOf
<1>3. PICK g \in T : \A k \in T : g <= k
  <2> HIDE DEF T
  <2> QED
    BY <1>2, LeastPlace
<1>4. First(g)
  <2> SUFFICES ASSUME NEW j \in 1..(g - 1) PROVE matches[r][j].id # id
    OBVIOUS
  <2>1. j \in DOMAIN matches[r] /\ ~(g <= j)
    BY <1>1, <1>3
  <2> QED
    BY <2>1, <1>3
<1>5. \E i \in DOMAIN matches[r] : First(i)
  BY <1>3, <1>4
<1> DEFINE f == CHOOSE i \in DOMAIN matches[r] : First(i)
<1>6. f \in DOMAIN matches[r] /\ First(f)
  <2> HIDE DEF First
  <2> QED
    BY <1>5
<1>7. RulesOf(r)[id] = matches[r][f].severity
  BY DEF RulesOf
<1>8. ASSUME NEW j \in DOMAIN matches[r], matches[r][j].id = id PROVE f <= j
  <2>1. f \in 1..Len(matches[r]) /\ j \in 1..Len(matches[r]) /\ j \notin 1..(f - 1)
    BY <1>1, <1>6, <1>8
  <2> HIDE DEF f
  <2> QED
    BY <2>1, <1>1
<1> QED
  BY <1>6, <1>7, <1>8

(***************************************************************************)
(* Of the severities of one vulnerability HTML shows the worst.            *)
(***************************************************************************)
THEOREM HtmlNeverPlaysDown == Spec => []HtmlShowsWorst
<1>1. ASSUME TypeOK, MatchesRead, InOrder PROVE HtmlShowsWorst
  <2> USE <1>1
  <2> SUFFICES ASSUME pc = "done", NEW row \in HTMLRows, NEW i \in DOMAIN read,
                      read[i].ref = row.ref, read[i].id = row.id
               PROVE  severityRank(row.severity) <= severityRank(read[i].severity)
    BY DEF HtmlShowsWorst
  <2>1. PICK r \in Ref : \E id \in DOMAIN RulesOf(r) :
          row = [ref |-> r, id |-> id, severity |-> RulesOf(r)[id]]
    BY DEF HTMLRows
  <2>a. PICK id \in DOMAIN RulesOf(r) :
          row = [ref |-> r, id |-> id, severity |-> RulesOf(r)[id]]
    BY <2>1
  <2>2. PICK f \in DOMAIN matches[r] :
          /\ matches[r][f].id = id
          /\ \A j \in DOMAIN matches[r] : matches[r][j].id = id => f <= j
          /\ RulesOf(r)[id] = matches[r][f].severity
    BY RuleOfFirst
  <2>3. PICK j \in DOMAIN matches[r] :
          matches[r][j] = [id |-> read[i].id, severity |-> read[i].severity]
    BY <2>a, MatchesAreFindings
  <2>4. matches[r][j].id = id /\ f <= j
    BY <2>a, <2>2, <2>3
  <2>5. f \in Nat /\ j \in Nat
    BY MatchesTyped
  <2>6. f = j \/ ~Before(matches[r][j], matches[r][f])
    BY <2>4, <2>5 DEF InOrder
  <2>7. \A s : severityRank(s) \in 0..5
    BY DEF severityRank, Ranks
  <2>8. severityRank(matches[r][f].severity) <= severityRank(matches[r][j].severity)
    <3>1. CASE f = j
      BY <3>1, <2>7
    <3>2. CASE ~Before(matches[r][j], matches[r][f])
      <4>1. /\ severityRank(matches[r][f].severity) \in Nat
            /\ severityRank(matches[r][j].severity) \in Nat
        BY <2>7
      <4> QED
        BY <3>2, <4>1 DEF Before
    <3> QED
      BY <2>6, <3>1, <3>2
  <2> QED
    BY <2>a, <2>2, <2>3, <2>8
<1> QED
  BY <1>1, EnrichmentTyped, EveryMatchRead, OrderKept, PTL

-----------------------------------------------------------------------------
(***************************************************************************)
(* Lines that all occurrences of a package share are those of each.        *)
(***************************************************************************)
LEMMA BlockIsOwn ==
  ASSUME Assigned, pc # "assign", NEW ref \in BOMRefs, Indexed(ref)
  PROVE  Block(ref) = Lines(ref)
<1> DEFINE S == Shared(GroupOf(ref))
<1>1. ref \in GroupOf(ref)
  BY DEF GroupOf
<1>2. Lines(ref) \in S
  BY <1>1 DEF Shared
<1>3. IsFiniteSet(S)
  <2> DEFINE f == [k \in Key |-> byKey[k]]
  <2>1. IsFiniteSet({f[k] : k \in Key})
    BY ImageFinite, EnrichmentAssumption
  <2>2. GroupOf(ref) \subseteq {f[k] : k \in Key}
    <3> SUFFICES ASSUME NEW r \in BOMRefs PROVE r \in {f[k] : k \in Key}
      BY DEF GroupOf
    <3>1. PICK k \in Listed : r = byKey[k]
      BY DEF BOMRefs
    <3> QED
      BY <3>1 DEF Listed
  <2>3. IsFiniteSet(GroupOf(ref))
    BY <2>1, <2>2, FS_Subset
  <2> DEFINE G == GroupOf(ref)
             g == [r \in G |-> Lines(r)]
  <2>4. IsFiniteSet({g[r] : r \in G})
    <3> HIDE DEF G
    <3>1. IsFiniteSet(G)
      BY <2>3 DEF G
    <3>2. DOMAIN g = G /\ g = [r \in G |-> g[r]]
      OBVIOUS
    <3> HIDE DEF g
    <3> QED
      BY <3>1, <3>2, ImageFinite
  <2>5. S = {g[r] : r \in G}
    BY DEF Shared
  <2> QED
    BY <2>4, <2>5
<1>4. CASE Cardinality(S) = 1
  <2>1. PICK x : S = {x}
    BY <1>3, <1>4, FS_Singleton
  <2>2. (CHOOSE lines \in S : TRUE) = Lines(ref)
    <3>1. \E lines \in S : TRUE
      BY <1>2
    <3>2. (CHOOSE lines \in S : TRUE) \in S
      BY <3>1
    <3> QED
      BY <1>2, <2>1, <3>2
  <2> QED
    BY <1>4, <2>2 DEF Block
<1>5. CASE Cardinality(S) # 1
  BY <1>5 DEF Block
<1> QED
  BY <1>4, <1>5

(***************************************************************************)
(* What the index says is true of each occurrence of a package and agrees  *)
(* with the coverage of its component.                                     *)
(***************************************************************************)
THEOREM ReportsAgree == Spec => []VerdictsAgree
<1>1. ASSUME TypeOK, Assigned, Judged PROVE VerdictsAgree
  <2> USE <1>1
  <2> SUFFICES ASSUME pc = "done"
               PROVE  /\ \A ref \in BOMRefs : Indexed(ref) =>
                           /\ Block(ref).matches = matches[ref]
                           /\ Block(ref).verdict = "found" <=> coverage[ref] = "found"
                           /\ Block(ref).verdict = "none" =>
                                coverage[ref] = "none" /\ errors = {}
                           /\ Block(ref).verdict = "nothing" <=> coverage[ref] = "absent"
                      /\ HTMLState = "unavailable" <=> ~ExecutionSuccessful
                      /\ (\E r \in Ref : matches[r] # <<>>) \/ (\E r \in Ref : coverage[r] = "none")
                           => HTMLState = "assessed"
    BY DEF VerdictsAgree
  <2>1. ASSUME NEW ref \in BOMRefs, Indexed(ref)
        PROVE  /\ Block(ref).matches = matches[ref]
               /\ Block(ref).verdict = "found" <=> coverage[ref] = "found"
               /\ Block(ref).verdict = "none" => coverage[ref] = "none" /\ errors = {}
               /\ Block(ref).verdict = "nothing" <=> coverage[ref] = "absent"
    <3>1. /\ Block(ref).matches = matches[ref]
          /\ Block(ref).verdict = Verdict(ref)
      BY <2>1, BlockIsOwn DEF Lines
    <3>2. ref \in Ref
      BY KeysFound
    <3>3. /\ Verdict(ref) = "found" <=> coverage[ref] = "found"
          /\ Verdict(ref) = "none" => coverage[ref] = "none" /\ errors = {}
          /\ Verdict(ref) = "nothing" <=> coverage[ref] = "absent"
      <4>1. CASE /\ state = "not-requested"
                 /\ matches[ref] = <<>> /\ coverage[ref] = "absent"
        BY <4>1 DEF Verdict
      <4>2. CASE /\ state = "unavailable"
                 /\ matches[ref] = <<>> /\ coverage[ref] = "not-assessable"
        BY <4>2 DEF Verdict
      <4>3. CASE /\ state \in {"completed", "completed-with-errors"}
                 /\ state = "completed" <=> errors = {}
                 /\ coverage[ref] = Coverage(ref)
        BY <4>3 DEF Verdict, Coverage
      <4> QED
        BY <3>2, <4>1, <4>2, <4>3 DEF Judged
    <3> QED
      BY <3>1, <3>3
  <2>2. HTMLState = "unavailable" <=> ~ExecutionSuccessful
    BY DEF HTMLState, ExecutionSuccessful
  <2>3. ASSUME NEW r \in Ref, matches[r] # <<>> \/ coverage[r] = "none"
        PROVE  HTMLState = "assessed"
    <3>1. state \notin {"not-requested", "unavailable"}
      BY <2>3 DEF Judged
    <3> QED
      BY <3>1 DEF HTMLState
  <2> QED
    BY <2>1, <2>2, <2>3
<1> QED
  BY <1>1, EnrichmentTyped, RefsAssigned, JudgedRight, PTL

(***************************************************************************)
(* What is read with a reference, as the tables and the counts hold it.    *)
(***************************************************************************)
Findings == {i \in DOMAIN read : read[i].ref # NoRef}

(***************************************************************************)
(* When the loops are through, each table holds exactly the findings that  *)
(* were read with a reference.                                             *)
(***************************************************************************)
LEMMA FindingsInTables ==
  ASSUME TypeOK, MatchesRead, Rendering, pc = "done"
  PROVE  /\ {<<row.package, row.id, row.severity>> : row \in rows} =
              {<<Package(read[i].ref), read[i].id, read[i].severity>> : i \in Findings}
         /\ {<<row.ref, row.id>> : row \in HTMLRows} =
              {<<read[i].ref, read[i].id>> : i \in Findings}
         /\ DOMAIN rules = {read[i].id : i \in Findings}
         /\ UNION {{matches[r][i].id : i \in DOMAIN matches[r]} : r \in Found} =
              {read[i].id : i \in Findings}
         /\ Found = {read[i].ref : i \in Findings}
<1> DEFINE m(i) == [id |-> read[i].id, severity |-> read[i].severity]
<1>1. \A i \in Findings : i \in DOMAIN read /\ read[i].ref \in Ref
  BY MatchesTyped DEF Findings, ReadMatches
<1>2. ASSUME NEW i \in Findings
      PROVE  /\ read[i].ref \in Found
             /\ \E j \in DOMAIN matches[read[i].ref] : matches[read[i].ref][j] = m(i)
  <2>1. PICK r \in Ref : r = read[i].ref
    BY <1>1
  <2>2. /\ {matches[r][j] : j \in DOMAIN matches[r]} =
             {[id |-> read[j].id, severity |-> read[j].severity] :
                j \in {j \in DOMAIN read : read[j].ref = r}}
        /\ matches[r] # <<>> <=> \E j \in DOMAIN read : read[j].ref = r
    BY MatchesAreFindings
  <2>3. m(i) \in {matches[r][j] : j \in DOMAIN matches[r]}
    BY <1>1, <2>1, <2>2
  <2>4. r \in Found
    BY <1>1, <2>1, <2>2 DEF Found
  <2> QED
    BY <2>1, <2>3, <2>4
<1>3. ASSUME NEW r \in Ref, NEW j \in DOMAIN matches[r]
      PROVE  \E i \in Findings : read[i].ref = r /\ matches[r][j] = m(i)
  <2>1. matches[r][j] \in {[id |-> read[i].id, severity |-> read[i].severity] :
                             i \in {i \in DOMAIN read : read[i].ref = r}}
    BY MatchesAreFindings
  <2>2. PICK i \in DOMAIN read : read[i].ref = r /\ matches[r][j] = m(i)
    BY <2>1
  <2>3. i \in Findings
    BY <2>2, BomRefAssumption DEF Findings
  <2> QED
    BY <2>2, <2>3
<1>4. ASSUME NEW r \in Found PROVE r \in Ref /\ \E j : j \in DOMAIN matches[r]
  <2>1. /\ Len(matches[r]) \in Nat /\ DOMAIN matches[r] = 1..Len(matches[r])
        /\ Len(matches[r]) # 0 /\ r \in Ref
    BY MatchesTyped DEF Found
  <2>2. 1 \in DOMAIN matches[r]
    BY <2>1
  <2> QED
    BY <2>1, <2>2
<1>5. ASSUME NEW r \in Ref, NEW j \in DOMAIN matches[r] PROVE r \in Found
  <2>1. /\ Len(matches[r]) \in Nat /\ DOMAIN matches[r] = 1..Len(matches[r])
        /\ matches[r] # <<>> <=> Len(matches[r]) # 0
    BY MatchesTyped
  <2> QED
    BY <2>1 DEF Found
<1>6. /\ RowKeys(rows) = UNION {RowKeys(RowsOf(r)) : r \in Found}
      /\ DOMAIN rules = UNION {DOMAIN RulesOf(r) : r \in Found}
  <2>1. Found \ pending = Found
    BY DEF Rendering
  <2> QED
    BY <2>1 DEF Rendering
<1>7. ASSUME NEW r \in Ref
      PROVE  /\ RowKeys(RowsOf(r)) = {<<Package(r), matches[r][j].id, matches[r][j].severity>> :
                                        j \in DOMAIN matches[r]}
             /\ DOMAIN RulesOf(r) = {matches[r][j].id : j \in DOMAIN matches[r]}
  <2> DEFINE K == {<<Package(r), matches[r][j].id, matches[r][j].severity>> :
                     j \in DOMAIN matches[r]}
  <2>1. ASSUME NEW row \in RowsOf(r) PROVE RowKey(row) \in K
    <3>1. PICK j \in DOMAIN matches[r] :
            /\ row.package = Package(r) /\ row.id = matches[r][j].id
            /\ row.severity = matches[r][j].severity
      BY DEF RowsOf
    <3> QED
      BY <3>1 DEF RowKey
  <2>2. ASSUME NEW j \in DOMAIN matches[r]
        PROVE  <<Package(r), matches[r][j].id, matches[r][j].severity>> \in RowKeys(RowsOf(r))
    <3> DEFINE row == [ref |-> r, at |-> j, package |-> Package(r), id |-> matches[r][j].id,
                       severity |-> matches[r][j].severity]
    <3>1. row \in RowsOf(r)
      BY DEF RowsOf
    <3>2. RowKey(row) = <<Package(r), matches[r][j].id, matches[r][j].severity>>
      BY DEF RowKey
    <3> HIDE DEF row
    <3> QED
      BY <3>1, <3>2 DEF RowKeys
  <2>3. RowKeys(RowsOf(r)) \subseteq K
    BY <2>1 DEF RowKeys
  <2>4. K \subseteq RowKeys(RowsOf(r))
    BY <2>2
  <2>5. DOMAIN RulesOf(r) = {matches[r][j].id : j \in DOMAIN matches[r]}
    BY DEF RulesOf
  <2> QED
    BY <2>3, <2>4, <2>5
<1>8. \A i : m(i).id = read[i].id /\ m(i).severity = read[i].severity
  OBVIOUS
<1> HIDE DEF m
<1>9. {<<row.package, row.id, row.severity>> : row \in rows} =
        {<<Package(read[i].ref), read[i].id, read[i].severity>> : i \in Findings}
  <2> DEFINE A == RowKeys(rows)
             B == {<<Package(read[i].ref), read[i].id, read[i].severity>> : i \in Findings}
  <2>1. ASSUME NEW x \in A PROVE x \in B
    <3>1. PICK r \in Found : x \in RowKeys(RowsOf(r))
      BY <1>6
    <3>2. PICK j \in DOMAIN matches[r] :
            x = <<Package(r), matches[r][j].id, matches[r][j].severity>>
      <4>1. RowKeys(RowsOf(r)) = {<<Package(r), matches[r][k].id, matches[r][k].severity>> :
                                    k \in DOMAIN matches[r]}
        BY <1>4, <1>7
      <4> QED
        BY <3>1, <4>1
    <3>3. PICK i \in Findings : read[i].ref = r /\ matches[r][j] = m(i)
      BY <1>3, <1>4
    <3> QED
      BY <1>8, <3>2, <3>3
  <2>2. ASSUME NEW i \in Findings
        PROVE  <<Package(read[i].ref), read[i].id, read[i].severity>> \in A
    <3>1. PICK r \in Found : r = read[i].ref
      BY <1>2
    <3>2. PICK j \in DOMAIN matches[r] : matches[r][j] = m(i)
      BY <1>2, <3>1
    <3>3. <<Package(r), matches[r][j].id, matches[r][j].severity>> \in RowKeys(RowsOf(r))
      <4>1. RowKeys(RowsOf(r)) = {<<Package(r), matches[r][k].id, matches[r][k].severity>> :
                                    k \in DOMAIN matches[r]}
        BY <1>4, <1>7
      <4> QED
        BY <4>1
    <3> QED
      BY <1>6, <1>8, <3>1, <3>2, <3>3
  <2>3. A = {<<row.package, row.id, row.severity>> : row \in rows}
    BY DEF RowKeys, RowKey
  <2> QED
    BY <2>1, <2>2, <2>3
<1>10. {<<row.ref, row.id>> : row \in HTMLRows} = {<<read[i].ref, read[i].id>> : i \in Findings}
  <2> DEFINE A == {<<row.ref, row.id>> : row \in HTMLRows}
             B == {<<read[i].ref, read[i].id>> : i \in Findings}
  <2>1. ASSUME NEW row \in HTMLRows PROVE <<row.ref, row.id>> \in B
    <3>1. PICK r \in Ref : \E id \in DOMAIN RulesOf(r) : row.ref = r /\ row.id = id
      BY DEF HTMLRows
    <3>2. PICK j \in DOMAIN matches[r] : row.id = matches[r][j].id
      BY <1>7, <3>1
    <3>3. PICK i \in Findings : read[i].ref = r /\ matches[r][j] = m(i)
      BY <1>3
    <3> QED
      BY <1>8, <3>1, <3>2, <3>3
  <2>2. ASSUME NEW i \in Findings PROVE <<read[i].ref, read[i].id>> \in A
    <3>1. PICK r \in Ref : r = read[i].ref
      BY <1>1
    <3>2. PICK j \in DOMAIN matches[r] : matches[r][j] = m(i)
      BY <1>2, <3>1
    <3>3. read[i].id \in DOMAIN RulesOf(r)
      <4>1. DOMAIN RulesOf(r) = {matches[r][k].id : k \in DOMAIN matches[r]}
        BY <1>7
      <4>2. matches[r][j].id = read[i].id
        BY <1>8, <3>2
      <4> QED
        BY <4>1, <4>2
    <3> DEFINE new == [ref |-> r, id |-> read[i].id, severity |-> RulesOf(r)[read[i].id]]
    <3>a. new \in {[ref |-> r, id |-> id, severity |-> RulesOf(r)[id]] : id \in DOMAIN RulesOf(r)}
      BY <3>3
    <3>b. new.ref = r /\ new.id = read[i].id
      OBVIOUS
    <3> HIDE DEF new
    <3>c. new \in HTMLRows
      BY <3>a DEF HTMLRows
    <3>4. PICK row \in HTMLRows : row.ref = r /\ row.id = read[i].id
      BY <3>b, <3>c
    <3> QED
      BY <3>1, <3>4
  <2> QED
    BY <2>1, <2>2
<1>11. UNION {{matches[r][i].id : i \in DOMAIN matches[r]} : r \in Found} =
         {read[i].id : i \in Findings}
  <2> DEFINE A == UNION {{matches[r][i].id : i \in DOMAIN matches[r]} : r \in Found}
             B == {read[i].id : i \in Findings}
  <2>1. ASSUME NEW x \in A PROVE x \in B
    <3>1. PICK r \in Found : \E j \in DOMAIN matches[r] : x = matches[r][j].id
      OBVIOUS
    <3>2. PICK j \in DOMAIN matches[r] : x = matches[r][j].id
      BY <3>1
    <3>3. PICK i \in Findings : read[i].ref = r /\ matches[r][j] = m(i)
      BY <1>3, <1>4
    <3> QED
      BY <1>8, <3>2, <3>3
  <2>2. ASSUME NEW i \in Findings PROVE read[i].id \in A
    <3>1. PICK r \in Found : r = read[i].ref
      BY <1>2
    <3>2. PICK j \in DOMAIN matches[r] : matches[r][j] = m(i)
      BY <1>2, <3>1
    <3>3. matches[r][j].id = read[i].id
      BY <1>8, <3>2
    <3> QED
      BY <3>3
  <2> QED
    BY <2>1, <2>2
<1>12. DOMAIN rules = {read[i].id : i \in Findings}
  <2>1. \A r \in Found : DOMAIN RulesOf(r) = {matches[r][j].id : j \in DOMAIN matches[r]}
    BY <1>4, <1>7
  <2>2. DOMAIN rules = UNION {{matches[r][i].id : i \in DOMAIN matches[r]} : r \in Found}
    <3> DEFINE Ids(r) == {matches[r][i].id : i \in DOMAIN matches[r]}
    <3>1. \A r \in Found : DOMAIN RulesOf(r) = Ids(r)
      BY <2>1
    <3> HIDE DEF Ids
    <3>2. DOMAIN rules = UNION {Ids(r) : r \in Found}
      BY <1>6, <3>1
    <3> QED
      BY <3>2 DEF Ids
  <2> QED
    BY <1>11, <2>2
<1>13. Found = {read[i].ref : i \in Findings}
  <2>1. ASSUME NEW r \in Found PROVE r \in {read[i].ref : i \in Findings}
    <3>1. PICK j : j \in DOMAIN matches[r]
      BY <1>4
    <3>2. PICK i \in Findings : read[i].ref = r /\ matches[r][j] = m(i)
      BY <1>3, <1>4, <3>1
    <3> QED
      BY <3>2
  <2> QED
    BY <1>2, <2>1
<1> QED
  BY <1>9, <1>10, <1>11, <1>12, <1>13

(***************************************************************************)
(* The loop over all the matches counts each that was read with a          *)
(* reference.                                                              *)
(***************************************************************************)
AllPlaces == UNION {{r} \X DOMAIN matches[r] : r \in Ref}

Counted ==
  /\ IsFiniteSet(Findings) /\ IsFiniteSet(AllPlaces)
  /\ Cardinality(AllPlaces) = Cardinality(Findings)

LEMMA AllCounted == Spec => []Counted
<1>1. Init => Counted
  <2> SUFFICES ASSUME Init PROVE Counted
    OBVIOUS
  <2>1. DOMAIN <<>> = {}
    OBVIOUS
  <2>2. Findings = {} /\ AllPlaces = {}
    BY <2>1 DEF Init, Findings, AllPlaces
  <2> QED
    BY <2>2, FS_EmptySet DEF Counted
<1>2. ASSUME TypeOK, Counted, [Next]_vars PROVE Counted'
  <2> USE <1>2
  <2>1. CASE UNCHANGED <<matches, read>>
    BY <2>1 DEF Counted, Findings, AllPlaces
  <2>2. ASSUME NEW ref \in Ref \cup {NoRef}, NEW id \in Vulnerability,
               NEW severity \in Severity, ReadMatch(ref, id, severity)
        PROVE  Counted'
    <3> DEFINE new == [ref |-> ref, id |-> id, severity |-> severity]
               match == [id |-> id, severity |-> severity]
               n == Len(read)
    <3>1. /\ read' = Append(read, new)
          /\ matches' = [r \in Ref |-> IF r = ref THEN Append(matches[r], match)
                                       ELSE matches[r]]
      BY <2>2 DEF ReadMatch
    <3>2. /\ n \in Nat /\ DOMAIN read = 1..n /\ DOMAIN read' = 1..(n + 1)
          /\ read'[n + 1] = new /\ \A i \in 1..n : read'[i] = read[i]
      <4>1. read \in Seq(ReadMatches)
        BY DEF TypeOK
      <4> HIDE DEF new
      <4> QED
        BY <3>1, <4>1
    <3>3. read'[n + 1] = new /\ \A i \in 1..n : read'[i] = read[i]
      BY <3>2
    <3>4. new.ref = ref
      OBVIOUS
    <3> HIDE DEF new
    <3>5. CASE ref = NoRef
      <4>1. Findings' = Findings
        BY <3>2, <3>3, <3>4, <3>5 DEF Findings
      <4>2. \A r \in Ref : matches'[r] = matches[r]
        BY <3>1, <3>5, BomRefAssumption
      <4>3. AllPlaces' = AllPlaces
        BY <4>2 DEF AllPlaces
      <4> QED
        BY <4>1, <4>3 DEF Counted
    <3>6. CASE ref # NoRef
      <4> DEFINE k == Len(matches[ref])
      <4>1. ref \in Ref
        BY <3>6
      <4>2. k \in Nat /\ DOMAIN matches[ref] = 1..k
        BY <4>1, MatchesTyped
      <4>3. DOMAIN matches'[ref] = 1..(k + 1)
        <5>1. matches[ref] \in Seq(Match) /\ matches'[ref] = Append(matches[ref], match)
          BY <3>1, <4>1 DEF TypeOK
        <5> HIDE DEF match
        <5> QED
          BY <4>2, <5>1
      <4>4. \A r \in Ref : r # ref => matches'[r] = matches[r]
        BY <3>1
      <4> HIDE DEF k, match
      <4>5. Findings' = Findings \cup {n + 1} /\ n + 1 \notin Findings
        BY <3>2, <3>3, <3>4, <3>6 DEF Findings
      <4>6. AllPlaces' = AllPlaces \cup {<<ref, k + 1>>}
        <5>1. ASSUME NEW p \in AllPlaces' PROVE p \in AllPlaces \cup {<<ref, k + 1>>}
          <6>1. PICK r \in Ref : p \in {r} \X DOMAIN matches'[r]
            BY DEF AllPlaces
          <6>2. CASE r = ref
            <7>1. p \in {ref} \X (1..k) \/ p = <<ref, k + 1>>
              BY <4>2, <4>3, <6>1, <6>2
            <7> QED
              BY <4>1, <4>2, <7>1 DEF AllPlaces
          <6>3. CASE r # ref
            BY <4>4, <6>1, <6>3 DEF AllPlaces
          <6> QED
            BY <6>2, <6>3
        <5>2. ASSUME NEW p \in AllPlaces PROVE p \in AllPlaces'
          <6>1. PICK r \in Ref : p \in {r} \X DOMAIN matches[r]
            BY DEF AllPlaces
          <6>2. DOMAIN matches[r] \subseteq DOMAIN matches'[r]
            BY <4>2, <4>3, <4>4
          <6>3. p \in {r} \X DOMAIN matches'[r]
            BY <6>1, <6>2
          <6> QED
            BY <6>3 DEF AllPlaces
        <5>3. <<ref, k + 1>> \in {ref} \X DOMAIN matches'[ref]
          BY <4>2, <4>3
        <5>4. <<ref, k + 1>> \in AllPlaces'
          BY <4>1, <5>3 DEF AllPlaces
        <5> QED
          BY <5>1, <5>2, <5>4
      <4>7. <<ref, k + 1>> \notin AllPlaces
        <5> SUFFICES ASSUME NEW r \in Ref, <<ref, k + 1>> \in {r} \X DOMAIN matches[r]
                     PROVE  FALSE
          BY DEF AllPlaces
        <5>1. r = ref /\ k + 1 \in DOMAIN matches[ref]
          OBVIOUS
        <5> QED
          BY <4>2, <5>1
      <4>8. /\ IsFiniteSet(Findings') /\ Cardinality(Findings') = Cardinality(Findings) + 1
            /\ IsFiniteSet(AllPlaces') /\ Cardinality(AllPlaces') = Cardinality(AllPlaces) + 1
        BY <4>5, <4>6, <4>7, FS_AddElement DEF Counted
      <4> QED
        BY <4>8 DEF Counted
    <3> QED
      BY <3>5, <3>6
  <2>3. CASE Correlated
    <3>1. read' = read /\ \A r \in Ref : matches'[r] \in Sorted(matches[r])
      BY <2>3 DEF Correlated
    <3>2. \A r \in Ref : DOMAIN matches'[r] = DOMAIN matches[r]
      BY <3>1, SortedIsOrdered DEF TypeOK
    <3>3. AllPlaces' = AllPlaces /\ Findings' = Findings
      BY <3>1, <3>2 DEF AllPlaces, Findings
    <3> QED
      BY <3>3 DEF Counted
  <2> QED
    BY <2>1, <2>2, <2>3 DEF Next, vars, resultVars, AssignRef, Assembled, NotRequested,
      Unavailable, Matched, RenderRef, Rendered, Terminated
<1> QED
  BY <1>1, <1>2, EnrichmentTyped, PTL DEF Spec

(***************************************************************************)
(* No report loses, invents or repeats a finding, and each number above    *)
(* the findings is exact by its rule.                                      *)
(***************************************************************************)
THEOREM EveryFindingReported == Spec => []FindingsReported
<1>1. ASSUME TypeOK, MatchesRead, Rendering, Counted PROVE FindingsReported
  <2> USE <1>1
  <2> DEFINE Reads(ref, m) == {i \in DOMAIN read :
                                 /\ read[i].ref = ref /\ read[i].id = m.id
                                 /\ read[i].severity = m.severity}
  <2> SUFFICES ASSUME pc = "done"
               PROVE  /\ {<<row.package, row.id, row.severity>> : row \in rows} =
                           {<<Package(read[i].ref), read[i].id, read[i].severity>> : i \in Findings}
                      /\ \A a, b \in rows : a.package = b.package /\ a.id = b.id
                                              /\ a.severity = b.severity => a = b
                      /\ {<<row.ref, row.id>> : row \in HTMLRows} =
                           {<<read[i].ref, read[i].id>> : i \in Findings}
                      /\ \A a, b \in HTMLRows : a.ref = b.ref /\ a.id = b.id => a = b
                      /\ DOMAIN rules = {read[i].id : i \in Findings}
                      /\ SummaryCounts.unique = VulnStats.unique
                      /\ SummaryCounts.findings <= VulnStats.matches
                      /\ VulnStats.matches = Cardinality(Findings)
                      /\ SummaryCounts.affected =
                           Cardinality({Package(read[i].ref) : i \in Findings})
                      /\ VulnStats.affected = Cardinality({read[i].ref : i \in Findings})
                      /\ \A ref \in Ref, m \in Match :
                           SARIFResults(ref, m) = Cardinality(Reads(ref, m))
    BY DEF FindingsReported, Findings
  <2> HIDE DEF Reads
  <2>1. /\ {<<row.package, row.id, row.severity>> : row \in rows} =
             {<<Package(read[i].ref), read[i].id, read[i].severity>> : i \in Findings}
        /\ {<<row.ref, row.id>> : row \in HTMLRows} =
             {<<read[i].ref, read[i].id>> : i \in Findings}
        /\ DOMAIN rules = {read[i].id : i \in Findings}
        /\ UNION {{matches[r][i].id : i \in DOMAIN matches[r]} : r \in Found} =
             {read[i].id : i \in Findings}
        /\ Found = {read[i].ref : i \in Findings}
    BY FindingsInTables
  <2>2. \A row \in rows : \E i \in Findings :
          row.package = Package(read[i].ref) /\ row.id = read[i].id
    <3> SUFFICES ASSUME NEW row \in rows
                 PROVE  \E i \in Findings : row.package = Package(read[i].ref) /\ row.id = read[i].id
      OBVIOUS
    <3>1. PICK i \in Findings : <<row.package, row.id, row.severity>> =
                                  <<Package(read[i].ref), read[i].id, read[i].severity>>
      <4>1. <<row.package, row.id, row.severity>> \in
              {<<q.package, q.id, q.severity>> : q \in rows}
        OBVIOUS
      <4>2. <<row.package, row.id, row.severity>> \in
              {<<Package(read[i].ref), read[i].id, read[i].severity>> : i \in Findings}
        BY <2>1, <4>1
      <4> QED
        BY <4>2
    <3> QED
      BY <3>1
  <2>3. \A i \in Findings : \E row \in rows :
          row.package = Package(read[i].ref) /\ row.id = read[i].id
    <3> SUFFICES ASSUME NEW i \in Findings
                 PROVE  \E row \in rows : row.package = Package(read[i].ref) /\ row.id = read[i].id
      OBVIOUS
    <3>1. PICK row \in rows : <<row.package, row.id, row.severity>> =
                                <<Package(read[i].ref), read[i].id, read[i].severity>>
      <4>1. <<Package(read[i].ref), read[i].id, read[i].severity>> \in
              {<<Package(read[j].ref), read[j].id, read[j].severity>> : j \in Findings}
        OBVIOUS
      <4>2. <<Package(read[i].ref), read[i].id, read[i].severity>> \in
              {<<row.package, row.id, row.severity>> : row \in rows}
        BY <2>1, <4>1
      <4> QED
        BY <4>2
    <3> QED
      BY <3>1
  <2>4. SummaryCounts.unique = VulnStats.unique
    <3>1. {row.id : row \in rows} = {read[i].id : i \in Findings}
      BY <2>2, <2>3
    <3>2. SummaryCounts.unique = Cardinality({row.id : row \in rows})
      BY DEF SummaryCounts
    <3>3. VulnStats.unique =
            Cardinality(UNION {{matches[r][i].id : i \in DOMAIN matches[r]} : r \in Found})
      BY DEF VulnStats, Found
    <3> QED
      BY <2>1, <3>1, <3>2, <3>3
  <2>5. SummaryCounts.affected = Cardinality({Package(read[i].ref) : i \in Findings})
    <3>1. {row.package : row \in rows} = {Package(read[i].ref) : i \in Findings}
      BY <2>2, <2>3
    <3> QED
      BY <3>1 DEF SummaryCounts
  <2>7. VulnStats.affected = Cardinality({read[i].ref : i \in Findings})
    BY <2>1 DEF VulnStats, Found
  <2>8. VulnStats.matches = Cardinality(Findings)
    <3> DEFINE Of(r) == {r} \X DOMAIN matches[r]
    <3>1. \A r \in Ref : r \notin Found => Of(r) = {}
      <4>1. DOMAIN <<>> = {}
        OBVIOUS
      <4> QED
        BY <4>1 DEF Found
    <3>2. Found \subseteq Ref
      BY DEF Found
    <3>3. VulnStats.matches = Cardinality(UNION {Of(r) : r \in Found})
      BY DEF VulnStats, Found
    <3>4. AllPlaces = UNION {Of(r) : r \in Ref}
      BY DEF AllPlaces
    <3> HIDE DEF Of
    <3>5. UNION {Of(r) : r \in Found} = UNION {Of(r) : r \in Ref}
      BY <3>1, <3>2
    <3> QED
      BY <3>3, <3>4, <3>5 DEF Counted
  <2>9. \A a, b \in rows : a.package = b.package /\ a.id = b.id
                              /\ a.severity = b.severity => a = b
    BY DEF Rendering, RowKey
  <2>10. \A a, b \in HTMLRows : a.ref = b.ref /\ a.id = b.id => a = b
    BY DEF HTMLRows
  <2>11. SummaryCounts.findings <= VulnStats.matches
    <3> DEFINE Shows(row, i) == <<row.package, row.id, row.severity>> =
                                  <<Package(read[i].ref), read[i].id, read[i].severity>>
               f == [i \in Findings |-> CHOOSE row \in rows : Shows(row, i)]
    <3>1. \A i \in Findings : \E row \in rows : Shows(row, i)
      <4> SUFFICES ASSUME NEW i \in Findings PROVE \E row \in rows : Shows(row, i)
        OBVIOUS
      <4>1. <<Package(read[i].ref), read[i].id, read[i].severity>> \in
              {<<row.package, row.id, row.severity>> : row \in rows}
        BY <2>1
      <4> QED
        BY <4>1
    <3>2. \A row \in rows : \E i \in Findings : Shows(row, i)
      <4> SUFFICES ASSUME NEW row \in rows PROVE \E i \in Findings : Shows(row, i)
        OBVIOUS
      <4>1. <<row.package, row.id, row.severity>> \in
              {<<Package(read[i].ref), read[i].id, read[i].severity>> : i \in Findings}
        BY <2>1
      <4> QED
        BY <4>1
    <3>3. \A a, b \in rows, i \in Findings : Shows(a, i) /\ Shows(b, i) => a = b
      BY <2>9
    <3> HIDE DEF Shows
    <3>4. \A i \in Findings : f[i] \in rows /\ Shows(f[i], i)
      BY <3>1
    <3>5. rows = {f[i] : i \in Findings}
      BY <3>2, <3>3, <3>4
    <3>6. Cardinality({f[i] : i \in Findings}) <= Cardinality(Findings)
      <4>1. DOMAIN f = Findings /\ f = [i \in Findings |-> f[i]]
        OBVIOUS
      <4>2. IsFiniteSet(Findings)
        BY DEF Counted
      <4> HIDE DEF f
      <4> QED
        BY <4>1, <4>2, ImageFinite
    <3>7. SummaryCounts.findings = Cardinality(rows)
      BY DEF SummaryCounts
    <3> HIDE DEF f
    <3> QED
      BY <2>8, <3>5, <3>6, <3>7
  <2>6. ASSUME NEW ref \in Ref, NEW m \in Match
        PROVE  SARIFResults(ref, m) = Cardinality(Reads(ref, m))
    <3>1. \A i \in DOMAIN read : read[i] \in ReadMatches
      BY MatchesTyped
    <3>2. Places(read, Reading(ref, m)) = Reads(ref, m)
      BY <3>1 DEF Places, Reading, Reads, ReadMatches, Match
    <3>3. SARIFResults(ref, m) = Cardinality(Places(matches[ref], m))
      BY DEF SARIFResults, Places
    <3> QED
      BY <3>2, <3>3 DEF MatchesRead
  <2> QED
    BY <2>1, <2>4, <2>5, <2>6, <2>7, <2>8, <2>9, <2>10, <2>11
<1> QED
  BY <1>1, EnrichmentTyped, EveryMatchRead, TablesKept, AllCounted, PTL
=============================================================================
