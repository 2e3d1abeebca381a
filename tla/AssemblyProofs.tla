--------------------------- MODULE AssemblyProofs ---------------------------
(***************************************************************************)
(* For any tree, any scan results and any number of components: what the   *)
(* deduplications keep, what they document, and that the graph, the list   *)
(* and the records agree in the end.                                       *)
(***************************************************************************)
EXTENDS OccurrenceIndex, FiniteSetTheorems, SequenceTheorems, TLAPS

-----------------------------------------------------------------------------
(***************************************************************************)
(* The orders.                                                             *)
(***************************************************************************)
Beats(b, e, rank) == rank[b] > rank[e] \/ (rank[b] = rank[e] /\ b < e)

(***************************************************************************)
(* Every group of candidates has one that comes before all the others: of  *)
(* a smallest group without one, some candidate could be taken away, and   *)
(* the best of the rest or that candidate would be the best of the group.  *)
(***************************************************************************)
LEMMA BestExists ==
  ASSUME NEW rank \in [Entry -> Nat], NEW G \in SUBSET Entry, G # {}
  PROVE  \E b \in G : \A e \in G \ {b} : Beats(b, e, rank)
<1> DEFINE Led(H) == \E b \in H : \A e \in H \ {b} : Beats(b, e, rank)
           Bad == {H \in SUBSET Entry : H # {} /\ ~Led(H)}
<1> SUFFICES ASSUME Bad # {} PROVE FALSE
  OBVIOUS
<1>1. Bad \subseteq FiniteSubsetsOf(Entry)
  <2> SUFFICES ASSUME NEW H \in SUBSET Entry PROVE IsFiniteSet(H)
    BY DEF FiniteSubsetsOf
  <2> QED
    BY FS_Subset, AssemblyAssumption
<1>2. PICK H \in Bad : \A K \in Bad : ~ (<<K, H>> \in StrictSubsetOrdering(Entry))
  <2> HIDE DEF Bad
  <2> QED
    BY <1>1, FS_StrictSubsetOrderingWellFounded, WFMin
<1>3. PICK x \in H : TRUE
  OBVIOUS
<1> DEFINE K == H \ {x}
<1>4. CASE K = {}
  <2>1. Led(H)
    BY <1>3, <1>4
  <2> QED
    BY <2>1, <1>2
<1>5. CASE K # {}
  <2>1. <<K, H>> \in StrictSubsetOrdering(Entry)
    BY <1>3 DEF StrictSubsetOrdering
  <2>2. Led(K)
    <3>1. K \in SUBSET Entry /\ K \notin Bad
      BY <2>1, <1>2
    <3> QED
      BY <3>1, <1>5
  <2>3. PICK b \in K : \A e \in K \ {b} : Beats(b, e, rank)
    BY <2>2
  <2>4. \A e \in H : e \in Nat /\ rank[e] \in Nat
    BY AssemblyAssumption
  <2>5. x \in H /\ b \in H /\ b # x
    BY <2>3
  <2>6. Beats(b, x, rank) \/ Beats(x, b, rank)
    BY <2>4, <2>5 DEF Beats
  <2>7. CASE Beats(b, x, rank)
    <3>1. \A e \in H \ {b} : Beats(b, e, rank)
      BY <2>3, <2>7
    <3>2. Led(H)
      BY <3>1, <2>5
    <3> QED
      BY <3>2, <1>2
  <2>8. CASE Beats(x, b, rank)
    <3>1. ASSUME NEW e \in H \ {x} PROVE Beats(x, e, rank)
      <4>1. e = b \/ Beats(b, e, rank)
        BY <2>3
      <4>2. e \in Nat /\ b \in Nat /\ x \in Nat
        BY <2>4, <2>5
      <4>3. rank[e] \in Nat /\ rank[b] \in Nat /\ rank[x] \in Nat
        BY <2>4, <2>5
      <4> QED
        BY <4>1, <4>2, <4>3, <2>8 DEF Beats
    <3>2. Led(H)
      BY <3>1, <2>5
    <3> QED
      BY <3>2, <1>2
  <2> QED
    BY <2>6, <2>7, <2>8
<1> QED
  BY <1>4, <1>5

(***************************************************************************)
(* So Best is one of the candidates, and no other one ranks above it.      *)
(***************************************************************************)
LEMMA BestIsBest ==
  ASSUME NEW rank \in [Entry -> Nat], NEW G \in SUBSET Entry, G # {}
  PROVE  /\ Best(G, rank) \in G
         /\ \A e \in G : rank[e] <= rank[Best(G, rank)]
<1>1. \E b \in G : \A e \in G \ {b} : Beats(b, e, rank)
  BY BestExists
<1>2. /\ Best(G, rank) \in G
      /\ \A e \in G \ {Best(G, rank)} : Beats(Best(G, rank), e, rank)
  BY <1>1 DEF Best, Beats
<1> DEFINE b == Best(G, rank)
<1>3. ASSUME NEW e \in G PROVE rank[e] <= rank[b]
  <2>1. rank[e] \in Nat /\ rank[b] \in Nat
    BY <1>2
  <2>2. e = b \/ Beats(b, e, rank)
    BY <1>2
  <2> HIDE DEF b
  <2> QED
    BY <2>1, <2>2 DEF Beats
<1> QED
  BY <1>2, <1>3

(***************************************************************************)
(* The ranks by which the passes choose are natural numbers, and a         *)
(* component has at most one evidence path.                                *)
(***************************************************************************)
LEMMA RanksTyped ==
  /\ \A e : Score(e) \in Nat /\ Points(HasSlash(e), 1) \in 0..1
  /\ \A e : Evidence(e) = {} \/ Cardinality(Evidence(e)) = 1
  /\ \A e : Cardinality(Evidence(e)) \in 0..1
  /\ ByScore \in [Entry -> Nat]
  /\ ByEvidence \in [Entry -> Nat]
  /\ Globally \in [Entry -> Nat]
<1>1. \A e : Score(e) \in 0..10 /\ Points(HasSlash(e), 1) \in 0..1
  BY DEF Score, Points
<1>2. \A e : Evidence(e) = {} \/ Cardinality(Evidence(e)) = 1
  BY FS_Singleton DEF Evidence
<1>3. \A e : Cardinality(Evidence(e)) \in 0..1
  BY <1>2, FS_EmptySet
<1>4. ByScore \in [Entry -> Nat]
  BY <1>1 DEF ByScore
<1>5. ByEvidence \in [Entry -> Nat]
  BY <1>1, <1>3 DEF ByEvidence
<1>6. Globally \in [Entry -> Nat]
  BY <1>1, <1>5 DEF Globally
<1> QED
  BY <1>1, <1>2, <1>3, <1>4, <1>5, <1>6

-----------------------------------------------------------------------------
(***************************************************************************)
(* normalizeScanComponents, for the scan of one node.                      *)
(***************************************************************************)
LEMMA CandidatesReported ==
  ASSUME NEW n
  PROVE  /\ Reported(n) \subseteq Entry
         /\ Normalized(n) \subseteq Merged(n)
         /\ Merged(n) \subseteq Candidates(n)
         /\ Candidates(n) \subseteq Reported(n)
         /\ \A e \in Reported(n) : home[e] = n
BY DEF Reported, Normalized, Merged, Candidates

(***************************************************************************)
(* A weak candidate goes in favour of a good one of its locus, which is    *)
(* not dropped in this pass.                                               *)
(***************************************************************************)
LEMMA WeakKept ==
  ASSUME NEW n, NEW r \in WeakRecords(n)
  PROVE  /\ r.entry \in Candidates(n) \ Merged(n)
         /\ r.kept \in Merged(n)
         /\ r = Record("weak-duplicate", r.entry, Best(Locus(n, r.entry), ByScore))
         /\ r.kept # r.entry
         /\ DeliveryPath(r.kept) = DeliveryPath(r.entry)
         /\ Purl(r.entry) = NoPurl
         /\ IsWeak(r.entry)
         /\ Score(r.kept) >= 4
         /\ Score(r.kept) >= Score(r.entry)
<1>1. PICK e \in Candidates(n) :
        /\ e # Best(Locus(n, e), ByScore)
        /\ Score(Best(Locus(n, e), ByScore)) >= 4
        /\ \A f \in Locus(n, e) \ {Best(Locus(n, e), ByScore)} : IsWeak(f)
        /\ r = Record("weak-duplicate", e, Best(Locus(n, e), ByScore))
  BY DEF WeakRecords
<1> DEFINE b == Best(Locus(n, e), ByScore)
<1>2. r.entry = e /\ r.kept = b
  BY <1>1 DEF Record
<1>3. e \in Locus(n, e) /\ Locus(n, e) \in SUBSET Entry
  BY CandidatesReported DEF Locus
<1>4. b \in Locus(n, e) /\ ByScore[e] <= ByScore[b]
  BY <1>3, BestIsBest, RanksTyped
<1>5. b \in Candidates(n) /\ DeliveryPath(b) = DeliveryPath(e) /\ Evidence(b) = Evidence(e)
  BY <1>4 DEF Locus
<1>6. Locus(n, b) = Locus(n, e)
  BY <1>5 DEF Locus
<1>7. b \notin Entries(WeakRecords(n))
  BY <1>6 DEF Entries, WeakRecords, Record
<1>8. e \in Entries(WeakRecords(n))
  BY <1>2 DEF Entries
<1>9. IsWeak(e)
  BY <1>1, <1>3
<1>10. Score(b) >= Score(e)
  BY <1>3, <1>4, RanksTyped DEF ByScore
<1> QED
  BY <1>1, <1>2, <1>5, <1>7, <1>8, <1>9, <1>10 DEF Merged, IsWeak

(***************************************************************************)
(* A repeated package goes in favour of one that is listed.                *)
(***************************************************************************)
LEMMA PackageKept ==
  ASSUME NEW n, NEW e \in Merged(n)
  PROVE  LET k == Best(SamePackage(n, e), ByEvidence)
         IN  /\ k \in Merged(n)
             /\ Purl(k) = Purl(e)
             /\ DeliveryPath(k) = DeliveryPath(e)
             /\ ByEvidence[e] <= ByEvidence[k]
             /\ Best(SamePackage(n, k), ByEvidence) = k
             /\ k \in Normalized(n)
<1> DEFINE k == Best(SamePackage(n, e), ByEvidence)
<1>1. e \in SamePackage(n, e) /\ SamePackage(n, e) \in SUBSET Entry
  BY CandidatesReported DEF SamePackage
<1>2. k \in SamePackage(n, e) /\ ByEvidence[e] <= ByEvidence[k]
  BY <1>1, BestIsBest, RanksTyped
<1>3. k \in Merged(n) /\ Purl(k) = Purl(e) /\ DeliveryPath(k) = DeliveryPath(e)
  BY <1>2 DEF SamePackage
<1>4. SamePackage(n, k) = SamePackage(n, e)
  BY <1>3 DEF SamePackage
<1>5. k \notin Entries(PurlRecords(n))
  BY <1>4 DEF Entries, PurlRecords, Record
<1> QED
  BY <1>2, <1>3, <1>4, <1>5 DEF Normalized

(***************************************************************************)
(* What a record of the pass over package URLs says of its two components. *)
(***************************************************************************)
LEMMA PurlKept ==
  ASSUME NEW n, NEW r \in PurlRecords(n)
  PROVE  /\ r.entry \in Merged(n) \ Normalized(n)
         /\ r.kept \in Normalized(n)
         /\ r = Record("purl-duplicate", r.entry, Best(SamePackage(n, r.entry), ByEvidence))
         /\ r.kept # r.entry
         /\ Purl(r.kept) = Purl(r.entry)
         /\ DeliveryPath(r.kept) = DeliveryPath(r.entry)
         /\ ByEvidence[r.entry] <= ByEvidence[r.kept]
<1>1. PICK e \in Merged(n) :
        /\ Purl(e) # NoPurl /\ e # Best(SamePackage(n, e), ByEvidence)
        /\ r = Record("purl-duplicate", e, Best(SamePackage(n, e), ByEvidence))
  BY DEF PurlRecords
<1>2. r.entry = e /\ r.kept = Best(SamePackage(n, e), ByEvidence)
  BY <1>1 DEF Record
<1>3. e \in Entries(PurlRecords(n))
  BY <1>2 DEF Entries
<1> QED
  BY <1>1, <1>2, <1>3, PackageKept DEF Normalized

(***************************************************************************)
(* A component dropped as a file is kept nowhere: its record names it      *)
(* alone.                                                                  *)
(***************************************************************************)
LEMMA FileKept ==
  ASSUME NEW n, NEW r \in FileRecords(n)
  PROVE  /\ r.entry \in Reported(n) \ Candidates(n)
         /\ r.kept = r.entry
         /\ r = Record(IF IsFileCatalogerArtifact(r.entry) THEN "fs-cataloger-artifact"
                       ELSE "low-value-file", r.entry, r.entry)
BY DEF FileRecords, Record, Candidates

(***************************************************************************)
(* Each reported component is listed, or has one record of one pass.       *)
(***************************************************************************)
LEMMA OneRecordEach ==
  ASSUME NEW n, NEW e \in Reported(n)
  PROVE  /\ e \in Normalized(n) => \A r \in NodeRecords(n) : r.entry # e
         /\ e \notin Normalized(n) =>
              \E r \in NodeRecords(n) : r.entry = e
         /\ \A r, s \in NodeRecords(n) : r.entry = e /\ s.entry = e => r = s
<1>1. e \in Normalized(n) => \A r \in NodeRecords(n) : r.entry # e
  BY FileKept, WeakKept, PurlKept, CandidatesReported DEF NodeRecords
<1>2. ASSUME e \notin Normalized(n) PROVE \E r \in NodeRecords(n) : r.entry = e
  <2>1. CASE e \notin Candidates(n)
    <3> DEFINE r == Record(IF IsFileCatalogerArtifact(e) THEN "fs-cataloger-artifact"
                           ELSE "low-value-file", e, e)
    <3>1. r \in FileRecords(n)
      BY <2>1 DEF FileRecords, Candidates
    <3> QED
      BY <3>1 DEF NodeRecords, Record
  <2>2. CASE e \in Candidates(n) \ Merged(n)
    BY <2>2 DEF Merged, Entries, NodeRecords
  <2>3. CASE e \in Merged(n) \ Normalized(n)
    BY <2>3 DEF Normalized, Entries, NodeRecords
  <2> QED
    BY <1>2, <2>1, <2>2, <2>3
<1>3. ASSUME NEW r \in NodeRecords(n), NEW s \in NodeRecords(n),
             r.entry = e, s.entry = e
      PROVE  r = s
  <2>1. CASE e \notin Candidates(n)
    <3>1. r \in FileRecords(n) /\ s \in FileRecords(n)
      BY <1>3, <2>1, WeakKept, PurlKept, CandidatesReported DEF NodeRecords
    <3> QED
      BY <1>3, <3>1, FileKept
  <2>2. CASE e \in Candidates(n) \ Merged(n)
    <3>1. r \in WeakRecords(n) /\ s \in WeakRecords(n)
      BY <1>3, <2>2, FileKept, PurlKept DEF NodeRecords
    <3> QED
      BY <1>3, <3>1, WeakKept
  <2>3. CASE e \in Merged(n)
    <3>1. r \in PurlRecords(n) /\ s \in PurlRecords(n)
      BY <1>3, <2>3, FileKept, WeakKept, CandidatesReported DEF NodeRecords
    <3> QED
      BY <1>3, <3>1, PurlKept
  <2> QED
    BY <2>1, <2>2, <2>3
<1> QED
  BY <1>1, <1>2, <1>3

-----------------------------------------------------------------------------
(***************************************************************************)
(* What is derived from the inputs stays what it is.                       *)
(***************************************************************************)
LEMMA InputsFixed ==
  ASSUME UNCHANGED inputVars
  PROVE  /\ \A e : /\ Purl(e)' = Purl(e)
                   /\ DeliveryPath(e)' = DeliveryPath(e)
                   /\ Evidence(e)' = Evidence(e)
                   /\ Score(e)' = Score(e)
                   /\ IsFileCatalogerArtifact(e)' <=> IsFileCatalogerArtifact(e)
                   /\ IsLowValueFileArtifact(e)' <=> IsLowValueFileArtifact(e)
                   /\ IsWeak(e)' <=> IsWeak(e)
                   /\ HasSlash(e)' <=> HasSlash(e)
         /\ ByScore' = ByScore
         /\ ByEvidence' = ByEvidence
         /\ Globally' = Globally
         /\ AllReported' = AllReported
         /\ \A n : Normalized(n)' = Normalized(n) /\ NodeRecords(n)' = NodeRecords(n)
<1>1. node' = node /\ home' = home /\ comp' = comp
  BY DEF inputVars
<1>2. ASSUME NEW e
      PROVE  /\ Purl(e)' = Purl(e)
             /\ DeliveryPath(e)' = DeliveryPath(e)
             /\ Evidence(e)' = Evidence(e)
             /\ Score(e)' = Score(e)
             /\ IsFileCatalogerArtifact(e)' <=> IsFileCatalogerArtifact(e)
             /\ IsLowValueFileArtifact(e)' <=> IsLowValueFileArtifact(e)
             /\ IsWeak(e)' <=> IsWeak(e)
             /\ HasSlash(e)' <=> HasSlash(e)
  BY <1>1 DEF Purl, DeliveryPath, Extracted, Evidence, Score, Points,
       IsFileCatalogerArtifact, IsLowValueFileArtifact, IsWeak, HasSlash
<1>3. ByScore' = ByScore
  BY <1>2 DEF ByScore
<1>4. ByEvidence' = ByEvidence
  BY <1>2 DEF ByEvidence
<1>5. Globally' = Globally
  BY <1>2, <1>4 DEF Globally, Points
<1>6. \A n : Reported(n)' = Reported(n)
  BY <1>1 DEF Reported
<1>7. AllReported' = AllReported
  BY <1>6 DEF AllReported
<1>8. ASSUME NEW n
      PROVE  Normalized(n)' = Normalized(n) /\ NodeRecords(n)' = NodeRecords(n)
  <2>1. FileRecords(n)' = FileRecords(n)
    BY <1>2, <1>6 DEF FileRecords
  <2>2. Candidates(n)' = Candidates(n)
    BY <1>2, <1>6 DEF Candidates
  <2>3. \A e : Locus(n, e)' = Locus(n, e)
    BY <1>2, <2>2 DEF Locus
  <2>4. WeakRecords(n)' = WeakRecords(n)
    BY <1>2, <1>3, <2>2, <2>3 DEF WeakRecords
  <2>5. Merged(n)' = Merged(n)
    BY <2>2, <2>4 DEF Merged, Entries
  <2>6. \A e : SamePackage(n, e)' = SamePackage(n, e)
    BY <1>2, <2>5 DEF SamePackage
  <2>7. PurlRecords(n)' = PurlRecords(n)
    BY <1>2, <1>4, <2>5, <2>6 DEF PurlRecords
  <2>8. Normalized(n)' = Normalized(n)
    BY <2>5, <2>7 DEF Normalized, Entries
  <2> QED
    BY <2>1, <2>4, <2>7, <2>8 DEF NodeRecords
<1> QED
  BY <1>2, <1>3, <1>4, <1>5, <1>7, <1>8

-----------------------------------------------------------------------------
(***************************************************************************)
(* deduplicateGlobalComponents: the survivor of a group is no duplicate.   *)
(***************************************************************************)
LEMMA SurvivorStays ==
  ASSUME NEW e \in listed \cap Entry, ~comp[e].file
  PROVE  /\ Survivor(e) \in Group(e)
         /\ Survivor(e) \in (listed \cap Entry) \ Duplicates
         /\ Purl(Survivor(e)) = Purl(e)
         /\ Globally[e] <= Globally[Survivor(e)]
<1> DEFINE k == Survivor(e)
<1>1. e \in Group(e) /\ Group(e) \in SUBSET Entry
  BY DEF Group
<1>2. k \in Group(e) /\ Globally[e] <= Globally[k]
  BY <1>1, BestIsBest, RanksTyped DEF Survivor
<1>3. k \in listed \cap Entry /\ Purl(k) = Purl(e)
  BY <1>2 DEF Group
<1>4. Group(k) = Group(e)
  BY <1>3 DEF Group
<1>5. Survivor(k) = k
  BY <1>4 DEF Survivor
<1> QED
  BY <1>2, <1>3, <1>5 DEF Duplicates

(***************************************************************************)
(* The nodes that were visited have their components in the list, each     *)
(* with its paths and a link, and their records among the suppressed.      *)
(***************************************************************************)
Built ==
  pc # "done" =>
    /\ pc = "dedup" => todo = {}
    /\ \A e \in Entry : e \in listed <=> home[e] \notin todo /\ e \in Normalized(home[e])
    /\ suppressed = UNION {NodeRecords(n) : n \in Node \ todo}
    /\ UNION {dependsOn[n] : n \in Node} = listed
    /\ \A n \in Node :
         dependsOn[n] = (Children(n) \ todo) \cup (IF n \in todo THEN {} ELSE Normalized(n))
    /\ \A e \in listed \cap Entry :
         delivery[e] = {DeliveryPath(e)} /\ evidence[e] = Evidence(e)

(***************************************************************************)
(* Delivery and evidence paths are made of the names of the tree.          *)
(***************************************************************************)
LEMMA PathsTyped ==
  ASSUME TypeOK, NEW e \in Entry
  PROVE  DeliveryPath(e) \in Seq(Name) /\ Evidence(e) \subseteq Seq(Name)
<1>1. /\ NodePath[home[e]] \in Seq(Name)
      /\ comp[e].loc \in Seq(Name)
      /\ Manifest \in Name
  BY AssemblyAssumption DEF TypeOK
<1> DEFINE path == NodePath[home[e]]
           loc == comp[e].loc
<1>2. path \o loc \in Seq(Name) /\ Append(path, Manifest) \in Seq(Name)
  <2>1. path \in Seq(Name) /\ loc \in Seq(Name) /\ Manifest \in Name
    BY <1>1
  <2> HIDE DEF path, loc
  <2> QED
    BY <2>1
<1>3. DeliveryPath(e) = path \o loc \/ DeliveryPath(e) = path
  BY DEF DeliveryPath
<1>4. Evidence(e) \subseteq {Append(path, Manifest)}
  BY DEF Evidence
<1> QED
  BY <1>1, <1>2, <1>3, <1>4

SuppressionRecord == [reason : Reasons, entry : Entry, kept : Entry]

(***************************************************************************)
(* The records of a node are typed.                                        *)
(***************************************************************************)
LEMMA RecordsTyped ==
  ASSUME NEW n
  PROVE  NodeRecords(n) \subseteq SuppressionRecord
<1> SUFFICES ASSUME NEW r \in NodeRecords(n) PROVE r \in SuppressionRecord
  OBVIOUS
<1> USE CandidatesReported DEF SuppressionRecord, Reasons
<1>1. CASE r \in FileRecords(n)
  BY <1>1, FileKept DEF Record
<1>2. CASE r \in WeakRecords(n)
  BY <1>2, WeakKept DEF Record
<1>3. CASE r \in PurlRecords(n)
  BY <1>3, PurlKept DEF Record
<1> QED
  BY <1>1, <1>2, <1>3 DEF NodeRecords

(***************************************************************************)
(* A duplicate found over all nodes has a listed survivor with its package *)
(* URL that ranks no lower.                                                *)
(***************************************************************************)
LEMMA DuplicatesKept ==
  ASSUME NEW e \in Duplicates
  PROVE  /\ e \in listed \cap Entry
         /\ Survivor(e) # e
         /\ Survivor(e) \in (listed \cap Entry) \ Duplicates
         /\ Survivor(e) \in Group(e)
         /\ Purl(Survivor(e)) = Purl(e)
         /\ Globally[e] <= Globally[Survivor(e)]
<1>1. e \in listed \cap Entry /\ ~comp[e].file /\ e # Survivor(e)
  BY DEF Duplicates
<1> QED
  BY <1>1, SurvivorStays

(***************************************************************************)
(* Every reachable state of the assembly is well typed.                    *)
(***************************************************************************)
THEOREM TypeCorrect == Spec => []TypeOK
<1>1. Init => TypeOK
  BY DEF Init, TypeOK
<1>2. ASSUME TypeOK, [Next]_vars PROVE TypeOK'
  <2> USE <1>2
  <2>1. ASSUME NEW n \in Node, ProcessNode(n) PROVE TypeOK'
    <3> USE <2>1 DEF ProcessNode
    <3>1. UNCHANGED <<node, home, comp>> /\ pc' \in {"nodes", "dedup", "done"}
      BY DEF TypeOK, inputVars
    <3>2. Normalized(n) \subseteq Entry
      BY CandidatesReported
    <3>3. listed' \subseteq Node \cup Entry /\ todo' \subseteq Node
      BY <3>2 DEF TypeOK
    <3>4. dependsOn' \in [Node -> SUBSET (Node \cup Entry)]
      BY <3>2 DEF TypeOK, Links
    <3>5. /\ delivery' \in [Entry -> SUBSET Seq(Name)]
          /\ evidence' \in [Entry -> SUBSET Seq(Name)]
      BY PathsTyped DEF TypeOK
    <3>6. aggregate' \in [Node -> {"none", "complete", "incomplete", "unknown"}]
      BY DEF TypeOK, Aggregate
    <3>7. suppressed' \subseteq [reason : Reasons, entry : Entry, kept : Entry]
      BY RecordsTyped DEF TypeOK, SuppressionRecord
    <3> QED
      BY <3>1, <3>3, <3>4, <3>5, <3>6, <3>7 DEF TypeOK
  <2>2. ASSUME Deduplicate PROVE TypeOK'
    <3> USE <2>2 DEF Deduplicate
    <3>1. UNCHANGED <<node, home, comp, todo, aggregate>>
      BY DEF inputVars
    <3>2. listed' \subseteq Node \cup Entry
      BY DEF TypeOK
    <3>3. \A e \in Duplicates : e \in Entry /\ Survivor(e) \in Entry
      BY DuplicatesKept
    <3>4. \A refs \in SUBSET (Node \cup Entry) : Rewrite(refs) \subseteq Node \cup Entry
      BY <3>3 DEF Rewrite
    <3>5. dependsOn' \in [Node -> SUBSET (Node \cup Entry)]
      BY <3>4 DEF TypeOK
    <3>6. ASSUME NEW property \in [Entry -> SUBSET Seq(Name)]
          PROVE  Merge(property) \in [Entry -> SUBSET Seq(Name)]
      <4>1. \A e \in Entry :
              LeafMost(UNION {property[f] : f \in Group(e)}) \subseteq Seq(Name)
        BY DEF LeafMost, Group
      <4> QED
        BY <4>1 DEF Merge
    <3>7. /\ delivery' \in [Entry -> SUBSET Seq(Name)]
          /\ evidence' \in [Entry -> SUBSET Seq(Name)]
      BY <3>6 DEF TypeOK
    <3>8. suppressed' \subseteq [reason : Reasons, entry : Entry, kept : Entry]
      BY <3>3 DEF TypeOK, Record, Reasons
    <3> QED
      BY <3>1, <3>2, <3>5, <3>7, <3>8 DEF TypeOK
  <2>3. ASSUME UNCHANGED vars PROVE TypeOK'
    BY <2>3 DEF TypeOK, vars, inputVars
  <2> QED
    BY <2>1, <2>2, <2>3 DEF Next, Terminated
<1> QED
  BY <1>1, <1>2, PTL DEF Spec

(***************************************************************************)
(* A visit adds to the list and to the graph the same references.          *)
(***************************************************************************)
LEMMA BuiltUp == Spec => []Built
<1>1. Init => Built
  BY DEF Init, Built, Children
<1>2. ASSUME TypeOK, Built, [Next]_vars PROVE Built'
  <2> USE <1>2
  <2>1. ASSUME NEW n \in Node, ProcessNode(n) PROVE Built'
    <3> USE <2>1 DEF ProcessNode
    <3>1. UNCHANGED inputVars
      OBVIOUS
    <3>2. Normalized(n) \subseteq Entry /\ \A e \in Normalized(n) : home[e] = n
      BY CandidatesReported
    <3>3. pc # "done"
      OBVIOUS
    <3>4. pc' = "dedup" => todo' = {}
      OBVIOUS
    <3>5. ASSUME NEW e \in Entry
          PROVE  e \in listed' <=> home[e] \notin todo' /\ e \in Normalized(home[e])
      <4>1. e \in listed' <=> e \in listed \/ e \in Normalized(n)
        BY AssemblyAssumption
      <4>2. e \in Normalized(n) <=> home[e] = n /\ e \in Normalized(home[e])
        BY <3>2
      <4>3. e \in listed <=> home[e] \notin todo /\ e \in Normalized(home[e])
        BY <3>3 DEF Built
      <4> QED
        BY <4>1, <4>2, <4>3
    <3>6. suppressed' = UNION {NodeRecords(m) : m \in Node \ todo'}
      <4>1. suppressed = UNION {NodeRecords(m) : m \in Node \ todo}
        BY <3>3 DEF Built
      <4>2. Node \ todo' = (Node \ todo) \cup {n}
        OBVIOUS
      <4> QED
        BY <4>1, <4>2
    <3>7. UNION {dependsOn'[m] : m \in Node} = listed'
      <4> DEFINE new == ({n} \ {Root}) \cup Normalized(n)
      <4>1. UNION {dependsOn[m] : m \in Node} = listed
        BY <3>3 DEF Built
      <4>2. \A m \in Node : dependsOn'[m] \subseteq dependsOn[m] \cup new
        BY DEF Links
      <4>3. \A m \in Node : dependsOn[m] \subseteq dependsOn'[m]
        BY DEF Links
      <4>4. Normalized(n) \subseteq dependsOn'[n]
        BY DEF Links
      <4>5. n # Root => Parent[n] \in Node /\ n \in dependsOn'[Parent[n]]
        BY AssemblyAssumption DEF Links
      <4>6. listed' = listed \cup new
        OBVIOUS
      <4> QED
        BY <4>1, <4>2, <4>3, <4>4, <4>5, <4>6
    <3>8. ASSUME NEW e \in listed' \cap Entry
          PROVE  delivery'[e] = {DeliveryPath(e)} /\ evidence'[e] = Evidence(e)
      <4>1. CASE e \in Normalized(n)
        BY <4>1
      <4>2. CASE e \notin Normalized(n)
        <5>1. e \in listed
          BY <4>2, AssemblyAssumption
        <5> QED
          BY <5>1, <4>2, <3>3 DEF Built
      <4> QED
        BY <4>1, <4>2
    <3>9. ASSUME NEW m \in Node
          PROVE  dependsOn'[m] = (Children(m) \ todo')
                                   \cup (IF m \in todo' THEN {} ELSE Normalized(m))
      <4>1. dependsOn[m] = (Children(m) \ todo) \cup (IF m \in todo THEN {} ELSE Normalized(m))
        BY <3>3 DEF Built
      <4>2. dependsOn'[m] = dependsOn[m]
              \cup (IF m = n THEN Normalized(n) ELSE {})
              \cup (IF n # Root /\ m = Parent[n] THEN {n} ELSE {})
        BY DEF Links
      <4>3. Children(m) \ todo' = (Children(m) \ todo) \cup (Children(m) \cap {n})
        OBVIOUS
      <4>4. Children(m) \cap {n} = IF n # Root /\ m = Parent[n] THEN {n} ELSE {}
        BY DEF Children
      <4> HIDE DEF ProcessNode
      <4>5. todo' = todo \ {n} /\ n \in todo
        BY DEF ProcessNode
      <4>6. CASE m = n
        BY <4>1, <4>2, <4>3, <4>4, <4>5, <4>6
      <4>7. CASE m # n
        BY <4>1, <4>2, <4>3, <4>4, <4>5, <4>7
      <4> QED
        BY <4>6, <4>7
    <3>10. home' = home
      BY DEF inputVars
    <3> HIDE DEF ProcessNode
    <3>11. \A m \in Node : NodeRecords(m)' = NodeRecords(m) /\ Normalized(m)' = Normalized(m)
      BY <3>1, InputsFixed
    <3>12. \A e \in Entry : /\ Normalized(home[e])' = Normalized(home[e])
                            /\ DeliveryPath(e)' = DeliveryPath(e)
                            /\ Evidence(e)' = Evidence(e)
      BY <3>1, <3>10, InputsFixed
    <3> QED
      BY <3>4, <3>5, <3>6, <3>7, <3>8, <3>9, <3>10, <3>11, <3>12 DEF Built, Children
  <2>2. CASE Deduplicate
    BY <2>2 DEF Deduplicate, Built
  <2>3. CASE UNCHANGED vars
    <3>1. UNCHANGED inputVars /\ UNCHANGED <<pc, home, todo, listed, dependsOn,
                                             delivery, evidence, suppressed>>
      BY <2>3 DEF vars, inputVars
    <3>2. \A n : Normalized(n)' = Normalized(n) /\ NodeRecords(n)' = NodeRecords(n)
      BY <3>1, InputsFixed
    <3>3. \A e : DeliveryPath(e)' = DeliveryPath(e) /\ Evidence(e)' = Evidence(e)
      BY <3>1, InputsFixed
    <3> QED
      BY <3>1, <3>2, <3>3 DEF Built, Children
  <2> QED
    BY <2>1, <2>2, <2>3 DEF Next, Terminated
<1> QED
  BY <1>1, <1>2, TypeCorrect, PTL DEF Spec

-----------------------------------------------------------------------------
(***************************************************************************)
(* The step from the nodes to the end.                                     *)
(***************************************************************************)
LEMMA Reporting ==
  ASSUME NEW e \in AllReported
  PROVE  e \in Entry /\ home[e] \in Node /\ e \in Reported(home[e])
BY DEF AllReported, Reported

(***************************************************************************)
(* The records of a node are about what was reported for it.               *)
(***************************************************************************)
LEMMA RecordsAtHome ==
  ASSUME NEW n, NEW r \in NodeRecords(n)
  PROVE  r.entry \in Reported(n) /\ home[r.entry] = n
BY FileKept, WeakKept, PurlKept, CandidatesReported DEF NodeRecords

(***************************************************************************)
(* What the last deduplication finds, when every node was processed, and   *)
(* what it leaves.                                                         *)
(***************************************************************************)
LEMMA AtTheEnd ==
  ASSUME TypeOK, Built, Deduplicate
  PROVE  /\ UNCHANGED inputVars
         /\ Done'
         /\ \A e \in Entry : e \in listed <=> e \in Normalized(home[e])
         /\ suppressed = UNION {NodeRecords(n) : n \in Node}
         /\ UNION {dependsOn[n] : n \in Node} = listed
         /\ \A n \in Node : dependsOn[n] = Children(n) \cup Normalized(n)
         /\ \A e \in listed \cap Entry : delivery[e] = {DeliveryPath(e)}
         /\ listed' = listed \ Duplicates
         /\ \A r : r \in suppressed' <=>
              r \in suppressed \/ \E e \in Duplicates : r = Record("purl-duplicate", e, Survivor(e))
<1>1. pc = "dedup" /\ todo = {}
  BY DEF Deduplicate, Built
<1> QED
  BY <1>1 DEF Deduplicate, Built, Done, TypeOK

(***************************************************************************)
(* A reference to a duplicate is replaced by one to its survivor, which    *)
(* the list keeps and the records name.                                    *)
(***************************************************************************)
LEMMA GraphRewritten ==
  ASSUME TypeOK, Built, Deduplicate
  PROVE  GraphMatchesList'
<1>1. listed' = listed \ Duplicates /\ UNION {dependsOn[n] : n \in Node} = listed
  BY AtTheEnd
<1>2. \A n \in Node : dependsOn'[n] = Rewrite(dependsOn[n])
  BY DEF Deduplicate
<1>3. \A d \in Duplicates : d \in listed /\ Survivor(d) \in listed \ Duplicates
  BY DuplicatesKept
<1>4. UNION {dependsOn'[n] : n \in Node} \subseteq listed'
  <2> SUFFICES ASSUME NEW n \in Node, NEW x \in dependsOn'[n] PROVE x \in listed'
    OBVIOUS
  <2>1. PICK r \in dependsOn[n] : x = IF r \in Duplicates THEN Survivor(r) ELSE r
    BY <1>2 DEF Rewrite
  <2> QED
    BY <2>1, <1>1, <1>3
<1>5. listed' \subseteq UNION {dependsOn'[n] : n \in Node}
  <2> SUFFICES ASSUME NEW x \in listed' PROVE \E n \in Node : x \in dependsOn'[n]
    OBVIOUS
  <2>1. PICK n \in Node : x \in dependsOn[n] /\ x \notin Duplicates
    BY <1>1
  <2> QED
    BY <2>1, <1>2 DEF Rewrite
<1>6. /\ UNCHANGED inputVars /\ home' = home
      /\ \A n \in Node : dependsOn[n] = Children(n) \cup Normalized(n)
      /\ \A e \in Entry : e \in listed <=> e \in Normalized(home[e])
      /\ suppressed = UNION {NodeRecords(n) : n \in Node}
      /\ \A r : r \in suppressed' <=>
           r \in suppressed \/ \E e \in Duplicates : r = Record("purl-duplicate", e, Survivor(e))
  BY AtTheEnd DEF inputVars
<1>7. ASSUME NEW n \in Node
      PROVE  dependsOn'[n] = Children(n) \cup
               {f \in listed' \cap Entry :
                  home[f] = n \/ \E r \in suppressed' : r.kept = f /\ home[r.entry] = n}
  <2> DEFINE Below == {f \in listed' \cap Entry :
                         home[f] = n \/ \E r \in suppressed' : r.kept = f /\ home[r.entry] = n}
  <2>1. \A m \in Children(n) : m \in dependsOn[n] /\ m \notin Duplicates
    BY <1>6, DuplicatesKept, AssemblyAssumption DEF Children
  <2>2. \A e \in Normalized(n) : e \in listed \cap Entry /\ home[e] = n /\ e \in dependsOn[n]
    BY <1>6, CandidatesReported
  <2>3. \A d \in Duplicates : /\ Record("purl-duplicate", d, Survivor(d)) \in suppressed'
                              /\ Survivor(d) \in listed' \cap Entry
    BY <1>1, <1>6, DuplicatesKept
  <2>4. ASSUME NEW x \in dependsOn'[n] PROVE x \in Children(n) \cup Below
    <3>1. PICK r \in dependsOn[n] : x = IF r \in Duplicates THEN Survivor(r) ELSE r
      BY <1>2 DEF Rewrite
    <3>2. CASE r \in Children(n)
      BY <2>1, <3>1, <3>2
    <3>3. CASE r \in Normalized(n) /\ r \notin Duplicates
      BY <1>1, <2>2, <3>1, <3>3
    <3>4. CASE r \in Normalized(n) /\ r \in Duplicates
      <4>1. PICK s : s = Record("purl-duplicate", r, Survivor(r))
        OBVIOUS
      <4>2. s \in suppressed' /\ s.kept = x /\ s.entry = r
        BY <2>3, <3>1, <3>4, <4>1 DEF Record
      <4>3. home[s.entry] = n /\ x \in listed' \cap Entry
        BY <2>2, <2>3, <3>1, <3>4, <4>2
      <4> QED
        BY <4>2, <4>3
    <3> QED
      BY <1>6, <3>1, <3>2, <3>3, <3>4
  <2>5. ASSUME NEW m \in Children(n) PROVE m \in dependsOn'[n]
    BY <1>2, <2>1 DEF Rewrite
  <2>6. ASSUME NEW f \in listed' \cap Entry, home[f] = n PROVE f \in dependsOn'[n]
    <3>1. f \in Normalized(n) /\ f \notin Duplicates
      BY <1>1, <1>6, <2>6
    <3>2. f \in dependsOn[n]
      BY <2>2, <3>1
    <3> QED
      BY <1>2, <3>1, <3>2 DEF Rewrite
  <2>7. ASSUME NEW r \in suppressed', r.kept \in listed' \cap Entry, home[r.entry] = n
        PROVE  r.kept \in dependsOn'[n]
    <3>1. CASE r \in suppressed
      <4>1. PICK m \in Node : r \in NodeRecords(m)
        BY <1>6, <3>1
      <4>2. r \in NodeRecords(n)
        BY <2>7, <4>1, RecordsAtHome
      <4>3. home[r.kept] = n
        BY <2>7, <4>2, FileKept, WeakKept, PurlKept, CandidatesReported DEF NodeRecords
      <4> QED
        BY <2>6, <2>7, <4>3
    <3>2. ASSUME NEW d \in Duplicates, r = Record("purl-duplicate", d, Survivor(d))
          PROVE  r.kept \in dependsOn'[n]
      <4>1. r.entry = d /\ r.kept = Survivor(d)
        BY <3>2 DEF Record
      <4>2. d \in Normalized(n)
        BY <1>6, <2>7, <4>1, DuplicatesKept
      <4>3. d \in dependsOn[n]
        BY <2>2, <4>2
      <4> QED
        BY <1>2, <4>1, <4>3 DEF Rewrite
    <3> QED
      BY <1>6, <3>1, <3>2
  <2>8. \A x \in Below : x \in dependsOn'[n]
    BY <2>6, <2>7
  <2> QED
    BY <2>4, <2>5, <2>8
<1> QED
  BY <1>4, <1>5, <1>6, <1>7 DEF GraphMatchesList, Children

(***************************************************************************)
(* A reported component has the record of the pass that dropped it.        *)
(***************************************************************************)
LEMMA RecordsAccount ==
  ASSUME TypeOK, Built, Deduplicate
  PROVE  Accounted'
<1>1. AllReported' = AllReported
  BY AtTheEnd, InputsFixed
<1> SUFFICES ASSUME NEW e \in AllReported
             PROVE  Cardinality({r \in suppressed' : r.entry = e}) =
                      IF e \in listed' THEN 0 ELSE 1
  BY <1>1 DEF Accounted
<1> DEFINE n == home[e]
           Recs == {r \in suppressed' : r.entry = e}
<1>2. e \in Entry /\ n \in Node /\ e \in Reported(n)
  BY Reporting
<1>3. e \in listed <=> e \in Normalized(n)
  BY <1>2, AtTheEnd
<1>4. listed' = listed \ Duplicates
  BY AtTheEnd
<1>5. \A r \in suppressed : r.entry = e => r \in NodeRecords(n)
  BY AtTheEnd, RecordsAtHome
<1>6. NodeRecords(n) \subseteq suppressed
  BY <1>2, AtTheEnd
<1>7. \A r : r \in suppressed' <=>
        r \in suppressed \/ \E d \in Duplicates : r = Record("purl-duplicate", d, Survivor(d))
  BY AtTheEnd
<1>8. Cardinality({}) = 0 /\ \A x : Cardinality({x}) = 1
  BY FS_EmptySet, FS_Singleton
<1>9. CASE e \in listed /\ e \notin Duplicates
  <2>1. Recs = {}
    BY <1>3, <1>5, <1>7, <1>9, <1>2, OneRecordEach DEF Record
  <2> QED
    BY <2>1, <1>4, <1>8, <1>9
<1>10. CASE e \in Duplicates
  <2>1. e \in listed
    BY <1>10, DuplicatesKept
  <2>2. Recs = {Record("purl-duplicate", e, Survivor(e))}
    BY <2>1, <1>3, <1>5, <1>7, <1>10, <1>2, OneRecordEach DEF Record
  <2> QED
    BY <2>2, <1>4, <1>8, <1>10
<1>11. CASE e \notin listed
  <2>1. e \notin Duplicates
    BY <1>11, DuplicatesKept
  <2>2. PICK s \in NodeRecords(n) : s.entry = e
    BY <1>2, <1>3, <1>11, OneRecordEach
  <2>3. \A r \in NodeRecords(n) : r.entry = e => r = s
    BY <1>2, <2>2, OneRecordEach
  <2>4. \A r \in suppressed' : r.entry = e => r \in suppressed
    BY <2>1, <1>7 DEF Record
  <2>5. Recs = {s}
    BY <2>2, <2>3, <2>4, <1>5, <1>6, <1>7
  <2> QED
    BY <2>5, <1>4, <1>8, <1>11
<1> QED
  BY <1>9, <1>10, <1>11

-----------------------------------------------------------------------------
(***************************************************************************)
(* Of paths that extend each other the leaf-most ones remain, so for each  *)
(* path of a group one at it or below it.                                  *)
(***************************************************************************)
LEMMA PrefixTransitive ==
  ASSUME NEW a \in Seq(Name), NEW b \in Seq(Name), NEW c \in Seq(Name),
         Strict(a, b), Strict(b, c)
  PROVE  Strict(a, c)
<1>1. /\ Len(a) \in Nat /\ Len(b) \in Nat /\ Len(c) \in Nat
      /\ Len(a) < Len(b) /\ Len(b) < Len(c)
      /\ SubSeq(b, 1, Len(a)) = a /\ SubSeq(c, 1, Len(b)) = b
  BY DEF Strict
<1>2. SubSeq(c, 1, Len(a)) \in Seq(Name) /\ Len(SubSeq(c, 1, Len(a))) = Len(a)
  BY <1>1
<1>3. ASSUME NEW i \in 1..Len(a) PROVE SubSeq(c, 1, Len(a))[i] = a[i]
  <2>1. SubSeq(c, 1, Len(a))[i] = c[i]
    BY <1>1
  <2>2. SubSeq(c, 1, Len(b))[i] = c[i]
    BY <1>1
  <2>3. SubSeq(b, 1, Len(a))[i] = b[i]
    BY <1>1
  <2> QED
    BY <2>1, <2>2, <2>3, <1>1
<1>4. SubSeq(c, 1, Len(a)) = a
  BY <1>2, <1>3, SeqEqual
<1> QED
  BY <1>1, <1>4 DEF Strict

(***************************************************************************)
(* Below each path of a group, or at it, is one that has none below it:    *)
(* the set of paths below it is finite, and a path whose set is least has  *)
(* none.                                                                   *)
(***************************************************************************)
LEMMA LeafBelow ==
  ASSUME NEW path \in [Entry -> Seq(Name)], NEW G \in SUBSET Entry, NEW j \in G
  PROVE  \E p \in LeafMost({path[f] : f \in G}) : p = path[j] \/ Strict(path[j], p)
<1> DEFINE P == {path[f] : f \in G}
           Below(f) == {g \in G : Strict(path[f], path[g])}
           T == {f \in G : f = j \/ Strict(path[j], path[f])}
           U == {Below(f) : f \in T}
<1>1. U \subseteq FiniteSubsetsOf(Entry) /\ U # {}
  <2>1. \A f \in T : Below(f) \in SUBSET Entry
    OBVIOUS
  <2>2. \A H \in SUBSET Entry : IsFiniteSet(H)
    BY FS_Subset, AssemblyAssumption
  <2>3. j \in T
    OBVIOUS
  <2> QED
    BY <2>1, <2>2, <2>3 DEF FiniteSubsetsOf
<1>2. PICK H \in U : \A K \in U : ~ (<<K, H>> \in StrictSubsetOrdering(Entry))
  <2> HIDE DEF U
  <2> QED
    BY <1>1, FS_StrictSubsetOrderingWellFounded, WFMin
<1>3. PICK f \in T : H = Below(f)
  BY <1>2
<1>4. ASSUME NEW g \in Below(f) PROVE FALSE
  <2>1. /\ f \in G /\ g \in G /\ Strict(path[f], path[g])
        /\ path[j] \in Seq(Name) /\ path[f] \in Seq(Name) /\ path[g] \in Seq(Name)
    BY <1>3, <1>4
  <2>2. g \in T
    BY <2>1, <1>3, PrefixTransitive
  <2>3. Below(g) \subseteq Below(f)
    <3> SUFFICES ASSUME NEW h \in Below(g) PROVE h \in Below(f)
      OBVIOUS
    <3>1. path[h] \in Seq(Name) /\ Strict(path[g], path[h])
      OBVIOUS
    <3> QED
      BY <2>1, <3>1, PrefixTransitive
  <2>4. g \notin Below(g)
    BY <2>1 DEF Strict
  <2>5. Below(g) # Below(f) /\ Below(f) \subseteq Entry
    BY <2>4, <1>4
  <2>6. <<Below(g), Below(f)>> \in StrictSubsetOrdering(Entry)
    <3> HIDE DEF Below
    <3> QED
      BY <2>3, <2>5 DEF StrictSubsetOrdering
  <2> QED
    BY <2>2, <2>6, <1>2, <1>3
<1>5. path[f] \in LeafMost(P)
  BY <1>3, <1>4 DEF LeafMost
<1> QED
  BY <1>3, <1>5

(***************************************************************************)
(* What processNode listed is represented in the end: by itself, or by the *)
(* survivor that its record names, with the paths of both.                 *)
(***************************************************************************)
LEMMA Represented ==
  ASSUME TypeOK, Built, Deduplicate, NEW j \in listed \cap Entry
  PROVE  \E k \in listed' \cap Entry :
           /\ k \in listed
           /\ k = j \/ (k \in KeptBy(j)' /\ Purl(j) # NoPurl)
           /\ Purl(k) = Purl(j)
           /\ StandsFor(k, j)'
<1>1. listed' = listed \ Duplicates
  BY AtTheEnd
<1>2. \A e \in listed \cap Entry : delivery[e] = {DeliveryPath(e)}
  BY AtTheEnd
<1> PICK k : k = IF j \in Duplicates THEN Survivor(j) ELSE j
  OBVIOUS
<1>3. k \in listed' \cap Entry /\ k \in listed /\ Purl(k) = Purl(j)
  BY <1>1, DuplicatesKept
<1>4. ASSUME j \in Duplicates PROVE k \in KeptBy(j)' /\ Purl(j) # NoPurl
  <2>1. Record("purl-duplicate", j, k) \in suppressed'
    BY <1>4, AtTheEnd
  <2> QED
    BY <2>1, <1>4 DEF KeptBy, Record, Duplicates
<1>5. DeliveryPath(j)' = DeliveryPath(j)
  BY AtTheEnd, InputsFixed
<1>6. \E p \in delivery'[k] : p = DeliveryPath(j) \/ Strict(DeliveryPath(j), p)
  <2>1. delivery'[k] =
          IF k \in listed /\ \E d \in Duplicates : Survivor(d) = k
          THEN LeafMost(UNION {delivery[f] : f \in Group(k)}) ELSE delivery[k]
    BY <1>3 DEF Deduplicate, Merge
  <2>2. CASE ~ \E d \in Duplicates : Survivor(d) = k
    <3>1. j = k
      BY <2>2
    <3> QED
      BY <3>1, <2>1, <2>2, <1>2
  <2>3. CASE \E d \in Duplicates : Survivor(d) = k
    <3>1. j \in Group(k)
      <4>1. CASE j \in Duplicates
        BY <4>1, <1>3 DEF Duplicates, Group
      <4>2. CASE j \notin Duplicates
        BY <4>2, <2>3, DuplicatesKept DEF Group
      <4> QED
        BY <4>1, <4>2
    <3> DEFINE path == [e \in Entry |-> DeliveryPath(e)]
    <3>2. path \in [Entry -> Seq(Name)]
      BY PathsTyped
    <3>3. UNION {delivery[f] : f \in Group(k)} = {path[f] : f \in Group(k)}
      BY <1>2 DEF Group
    <3>4. Group(k) \in SUBSET Entry /\ path[j] = DeliveryPath(j)
      BY DEF Group
    <3>5. \E p \in LeafMost({path[f] : f \in Group(k)}) : p = path[j] \/ Strict(path[j], p)
      <4> HIDE DEF path
      <4> QED
        BY <3>1, <3>2, <3>4, LeafBelow
    <3> QED
      BY <3>3, <3>4, <3>5, <2>1, <2>3, <1>3
  <2> QED
    BY <2>2, <2>3
<1>7. StandsFor(k, j)'
  BY <1>5, <1>6 DEF StandsFor, Strict
<1> QED
  BY <1>3, <1>4, <1>7

(***************************************************************************)
(* What normalizeScanComponents did not drop is in the list.               *)
(***************************************************************************)
LEMMA NormalizedListed ==
  ASSUME TypeOK, Built, Deduplicate, NEW n \in Node, NEW e \in Normalized(n)
  PROVE  e \in listed \cap Entry
BY AtTheEnd, CandidatesReported

(***************************************************************************)
(* A candidate that the first pass kept is represented in the end, through *)
(* one record for the second pass and one for the third.                   *)
(***************************************************************************)
LEMMA MergedRepresented ==
  ASSUME TypeOK, Built, Deduplicate, NEW n \in Node, NEW b \in Merged(n)
  PROVE  \E k \in listed' \cap Entry :
           /\ k \in listed
           /\ \/ k = b
              \/ k \in KeptBy(b)' /\ Purl(b) # NoPurl
              \/ (\E j \in KeptBy(b)' : k \in KeptBy(j)') /\ Purl(b) # NoPurl
           /\ Purl(k) = Purl(b)
           /\ StandsFor(k, b)'
<1>1. CASE b \in Normalized(n)
  BY <1>1, NormalizedListed, Represented
<1>2. CASE b \notin Normalized(n)
  <2>1. PICK r \in PurlRecords(n) : r.entry = b
    BY <1>2 DEF Normalized, Entries
  <2>2. PICK j : j = r.kept
    OBVIOUS
  <2>3. /\ j \in Normalized(n) /\ Purl(j) = Purl(b)
        /\ DeliveryPath(j) = DeliveryPath(b)
    BY <2>1, <2>2, PurlKept
  <2>4. Purl(b) # NoPurl
    BY <2>1 DEF PurlRecords, Record
  <2>5. r \in suppressed'
    <3>1. r \in NodeRecords(n)
      BY <2>1 DEF NodeRecords
    <3> QED
      BY <3>1, AtTheEnd
  <2>6. j \in KeptBy(b)'
    BY <2>1, <2>2, <2>5 DEF KeptBy
  <2>7. PICK k \in listed' \cap Entry :
          /\ k \in listed
          /\ k = j \/ k \in KeptBy(j)'
          /\ Purl(k) = Purl(j)
          /\ StandsFor(k, j)'
    BY <2>3, NormalizedListed, Represented
  <2>8. DeliveryPath(j)' = DeliveryPath(b)'
    BY <2>3, AtTheEnd, InputsFixed
  <2>9. StandsFor(k, b)'
    BY <2>7, <2>8 DEF StandsFor
  <2> QED
    BY <2>3, <2>4, <2>6, <2>7, <2>9
<1> QED
  BY <1>1, <1>2

(***************************************************************************)
(* After the last deduplication each record leads to a listed component    *)
(* that stands for the one dropped.                                        *)
(***************************************************************************)
LEMMA RecordsLeadOn ==
  ASSUME TypeOK, Built, Deduplicate
  PROVE  KeptLeadsToListed'
<1> DEFINE Reached(k, b) == \/ k = b
                            \/ k \in KeptBy(b)
                            \/ \E j \in KeptBy(b) : k \in KeptBy(j)
<1> SUFFICES ASSUME NEW r \in suppressed', r.kept # r.entry
             PROVE  \E k \in listed' \cap Entry :
                      Reached(k, r.kept)' /\ StandsFor(k, r.entry)'
  BY DEF KeptLeadsToListed
<1> PICK e, b : e = r.entry /\ b = r.kept
  OBVIOUS
<1>1. ASSUME NEW f, NEW g, NEW k, DeliveryPath(f) = DeliveryPath(g), StandsFor(k, f)'
      PROVE  StandsFor(k, g)'
  <2>1. DeliveryPath(f)' = DeliveryPath(g)'
    BY <1>1, AtTheEnd, InputsFixed
  <2> QED
    BY <1>1, <2>1 DEF StandsFor
<1>2. ASSUME NEW n \in Node, b \in Merged(n), DeliveryPath(b) = DeliveryPath(e)
      PROVE  \E k \in listed' \cap Entry : Reached(k, r.kept)' /\ StandsFor(k, r.entry)'
  <2>1. PICK k \in listed' \cap Entry :
          /\ \/ k = b
             \/ k \in KeptBy(b)'
             \/ \E j \in KeptBy(b)' : k \in KeptBy(j)'
          /\ StandsFor(k, b)'
    BY <1>2, MergedRepresented
  <2>2. StandsFor(k, e)'
    BY <2>1, <1>1, <1>2
  <2> QED
    BY <2>1, <2>2
<1>3. CASE r \in suppressed
  <2>1. PICK n \in Node : r \in NodeRecords(n)
    BY <1>3, AtTheEnd
  <2>2. r \notin FileRecords(n)
    BY FileKept
  <2>3. b \in Merged(n) /\ DeliveryPath(b) = DeliveryPath(e)
    BY <2>1, <2>2, WeakKept, PurlKept, CandidatesReported DEF NodeRecords
  <2> QED
    BY <2>3, <1>2
<1>4. CASE \E d \in Duplicates : r = Record("purl-duplicate", d, Survivor(d))
  <2>1. e \in Duplicates /\ b = Survivor(e)
    BY <1>4 DEF Record
  <2>2. e \in listed \cap Entry /\ e \notin listed'
    BY <2>1, DuplicatesKept, AtTheEnd
  <2>3. PICK k \in listed' \cap Entry : k \in KeptBy(e)' /\ StandsFor(k, e)'
    BY <2>2, Represented
  <2>4. \A s \in suppressed' : s.entry = e => s = r
    <3>1. e \in Normalized(home[e]) /\ home[e] \in Node
      BY <2>2, AtTheEnd DEF TypeOK
    <3>2. \A s \in suppressed : s.entry # e
      <4> SUFFICES ASSUME NEW s \in suppressed, s.entry = e PROVE FALSE
        OBVIOUS
      <4>1. PICK n \in Node : s \in NodeRecords(n)
        BY AtTheEnd
      <4>2. n = home[e]
        BY <4>1, RecordsAtHome
      <4> QED
        BY <3>1, <4>1, <4>2, OneRecordEach, CandidatesReported
    <3>3. \A s \in suppressed' : s.entry = e =>
            \E d \in Duplicates : s = Record("purl-duplicate", d, Survivor(d))
      BY <3>2, AtTheEnd
    <3> QED
      BY <3>3, <2>1, <1>4 DEF Record
  <2>5. k = b
    BY <2>3, <2>4 DEF KeptBy
  <2> QED
    BY <2>3, <2>5
<1> QED
  BY <1>3, <1>4, AtTheEnd

(***************************************************************************)
(* A package that was reported for a URL is no weak placeholder, and the   *)
(* two deduplications by URL keep one of each group.                       *)
(***************************************************************************)
LEMMA PackageMerged ==
  ASSUME NEW e \in AllReported, Purl(e) # NoPurl, ~IsFileCatalogerArtifact(e)
  PROVE  e \in Merged(home[e])
<1>1. e \in Candidates(home[e])
  BY Reporting DEF Candidates, IsLowValueFileArtifact
<1> QED
  BY <1>1, WeakKept DEF Merged, Entries

(***************************************************************************)
(* After the last deduplication each package URL has a component, and no   *)
(* two that are not of type file.                                          *)
(***************************************************************************)
LEMMA PackagesUnique ==
  ASSUME TypeOK, Built, Deduplicate
  PROVE  OneComponentPerPurl'
<1>1. AllReported' = AllReported /\ comp' = comp
  BY AtTheEnd, InputsFixed DEF inputVars
<1>2. \A e : Purl(e)' = Purl(e) /\ (IsFileCatalogerArtifact(e)' <=> IsFileCatalogerArtifact(e))
  BY AtTheEnd, InputsFixed
<1>3. ASSUME NEW e \in AllReported, Purl(e) # NoPurl, ~IsFileCatalogerArtifact(e)
      PROVE  /\ \E f \in listed' \cap Entry : Purl(f) = Purl(e)
             /\ Cardinality({f \in listed' \cap Entry : Purl(f) = Purl(e) /\ ~comp[f].file}) <= 1
  <2>1. e \in Merged(home[e]) /\ home[e] \in Node
    BY <1>3, PackageMerged, Reporting
  <2>2. \E f \in listed' \cap Entry : Purl(f) = Purl(e)
    BY <2>1, MergedRepresented
  <2> DEFINE F == {f \in listed' \cap Entry : Purl(f) = Purl(e) /\ ~comp[f].file}
  <2>3. ASSUME NEW f \in F, NEW g \in F PROVE f = g
    <3>1. /\ f \in listed /\ f \notin Duplicates
          /\ g \in listed /\ g \notin Duplicates
      BY AtTheEnd
    <3>2. f = Survivor(f) /\ g = Survivor(g)
      BY <3>1, <1>3 DEF Duplicates
    <3>3. Group(f) = Group(g)
      BY DEF Group
    <3> QED
      BY <3>2, <3>3 DEF Survivor
  <2>4. F = {} \/ \E f : F = {f}
    <3> HIDE DEF F
    <3> QED
      BY <2>3
  <2>5. Cardinality(F) <= 1
    <3>1. Cardinality({}) = 0 /\ \A f : Cardinality({f}) = 1
      BY FS_EmptySet, FS_Singleton
    <3>2. Cardinality(F) = 0 \/ Cardinality(F) = 1
      <4> HIDE DEF F
      <4> QED
        BY <2>4, <3>1
    <3> HIDE DEF F
    <3> QED
      BY <3>2
  <2> QED
    BY <2>2, <2>5
<1> QED
  BY <1>1, <1>2, <1>3 DEF OneComponentPerPurl

(***************************************************************************)
(* The ranks of the three deduplications, as a comparison of what a        *)
(* component identifies.                                                   *)
(***************************************************************************)
Improves(k, e) ==
  /\ Purl(e) # NoPurl => Purl(k) = Purl(e)
  /\ Score(k) + Points(HasSlash(k), 1) >= Score(e) \/ Evidence(k) # {}

(***************************************************************************)
(* A component that ranks no lower in either order is an improvement.      *)
(***************************************************************************)
LEMMA RankedHigher ==
  ASSUME NEW e \in Entry, NEW k \in Entry, Purl(k) = Purl(e),
         ByEvidence[e] <= ByEvidence[k] \/ Globally[e] <= Globally[k]
  PROVE  Improves(k, e)
<1>1. /\ Score(e) \in Nat /\ Score(k) \in Nat
      /\ Points(HasSlash(e), 1) \in 0..1 /\ Points(HasSlash(k), 1) \in 0..1
      /\ Cardinality(Evidence(e)) \in 0..1
  BY RanksTyped
<1>2. CASE Evidence(k) # {}
  BY <1>2 DEF Improves
<1>3. CASE Evidence(k) = {}
  <2>1. Cardinality(Evidence(k)) = 0
    BY <1>3, FS_EmptySet
  <2>2. /\ ByEvidence[e] = 11 * Cardinality(Evidence(e)) + Score(e)
        /\ ByEvidence[k] = Score(k)
        /\ Globally[e] = ByEvidence[e] + Points(HasSlash(e), 1)
        /\ Globally[k] = Score(k) + Points(HasSlash(k), 1)
    BY <1>1, <2>1 DEF ByEvidence, Globally
  <2>3. Score(k) + Points(HasSlash(k), 1) >= Score(e)
    BY <1>1, <2>2
  <2> QED
    BY <2>3 DEF Improves
<1> QED
  BY <1>2, <1>3

(***************************************************************************)
(* A node drops a component only for an improvement.                       *)
(***************************************************************************)
LEMMA NodeRecordsImprove ==
  ASSUME NEW n, NEW r \in NodeRecords(n), r.kept # r.entry
  PROVE  Improves(r.kept, r.entry)
<1>1. r.entry \in Entry /\ r.kept \in Entry
  BY RecordsTyped DEF SuppressionRecord
<1>2. CASE r \in WeakRecords(n)
  <2>1. Purl(r.entry) = NoPurl /\ Score(r.kept) >= Score(r.entry)
    BY <1>2, WeakKept
  <2>2. /\ Score(r.kept) \in Nat /\ Score(r.entry) \in Nat
        /\ Points(HasSlash(r.kept), 1) \in 0..1
    BY RanksTyped
  <2>3. Score(r.kept) + Points(HasSlash(r.kept), 1) >= Score(r.entry)
    BY <2>1, <2>2
  <2> QED
    BY <2>1, <2>3 DEF Improves
<1>3. CASE r \in PurlRecords(n)
  <2>1. /\ Purl(r.kept) = Purl(r.entry)
        /\ ByEvidence[r.entry] <= ByEvidence[r.kept]
    BY <1>3, PurlKept
  <2> QED
    BY <1>1, <2>1, RankedHigher
<1> QED
  BY <1>2, <1>3, FileKept DEF NodeRecords

(***************************************************************************)
(* So do all passes together.                                              *)
(***************************************************************************)
LEMMA RecordsImprove ==
  ASSUME TypeOK, Built, Deduplicate, NothingBetterDropped
  PROVE  NothingBetterDropped'
<1>1. ASSUME NEW r \in suppressed', r.kept # r.entry
      PROVE  Improves(r.kept, r.entry)
  <2>1. CASE r \in suppressed
    BY <2>1, <1>1 DEF NothingBetterDropped, Improves
  <2>2. ASSUME NEW d \in Duplicates, r = Record("purl-duplicate", d, Survivor(d))
        PROVE  Improves(r.kept, r.entry)
    <3>1. r.entry = d /\ r.kept = Survivor(d)
      BY <2>2 DEF Record
    <3> QED
      BY <3>1, DuplicatesKept, RankedHigher
  <2> QED
    BY <2>1, <2>2, AtTheEnd
<1>2. \A e : /\ Purl(e)' = Purl(e) /\ Score(e)' = Score(e) /\ Evidence(e)' = Evidence(e)
             /\ HasSlash(e)' <=> HasSlash(e)
  BY AtTheEnd, InputsFixed
<1>3. \A e : Points(HasSlash(e), 1)' = Points(HasSlash(e), 1)
  BY <1>2 DEF Points
<1> QED
  BY <1>1, <1>2, <1>3 DEF NothingBetterDropped, Improves

-----------------------------------------------------------------------------
(***************************************************************************)
(* No reference dangles, and a node depends on exactly the nodes it        *)
(* contains and what stands in the list for the components it reported.    *)
(***************************************************************************)
THEOREM GraphAndListAgree == Spec => []GraphMatchesList
<1>1. Init => GraphMatchesList
  BY DEF Init, GraphMatchesList, Done
<1>2. ASSUME TypeOK, Built, GraphMatchesList, [Next]_vars PROVE GraphMatchesList'
  <2>1. CASE Deduplicate
    BY <1>2, <2>1, GraphRewritten
  <2>2. CASE \E n \in Node : ProcessNode(n)
    BY <2>2 DEF ProcessNode, GraphMatchesList, Done
  <2>3. CASE UNCHANGED vars
    BY <1>2, <2>3 DEF GraphMatchesList, Children, Done, vars, inputVars
  <2> QED
    BY <1>2, <2>1, <2>2, <2>3 DEF Next, Terminated
<1> QED
  BY <1>1, <1>2, TypeCorrect, BuiltUp, PTL DEF Spec

(***************************************************************************)
(* types.go:33: a reported component is in the BOM or has one record.      *)
(***************************************************************************)
THEOREM EveryComponentAccounted == Spec => []Accounted
<1>1. Init => Accounted
  BY DEF Init, Accounted, Done
<1>2. ASSUME TypeOK, Built, Accounted, [Next]_vars PROVE Accounted'
  <2>1. CASE Deduplicate
    BY <1>2, <2>1, RecordsAccount
  <2>2. CASE \E n \in Node : ProcessNode(n)
    BY <2>2 DEF ProcessNode, Accounted, Done
  <2>3. CASE UNCHANGED vars
    <3>1. UNCHANGED inputVars /\ UNCHANGED <<pc, listed, suppressed>>
      BY <2>3 DEF vars, inputVars
    <3>2. AllReported' = AllReported
      BY <3>1, InputsFixed
    <3> QED
      BY <1>2, <3>1, <3>2 DEF Accounted, Done
  <2> QED
    BY <1>2, <2>1, <2>2, <2>3 DEF Next, Terminated
<1> QED
  BY <1>1, <1>2, TypeCorrect, BuiltUp, PTL DEF Spec

(***************************************************************************)
(* The records of a dropped component lead to one in the BOM that is       *)
(* delivered in the same artifact or below it.                             *)
(***************************************************************************)
THEOREM RecordsLeadToListed == Spec => []KeptLeadsToListed
<1>1. Init => KeptLeadsToListed
  BY DEF Init, KeptLeadsToListed, Done
<1>2. ASSUME TypeOK, Built, KeptLeadsToListed, [Next]_vars PROVE KeptLeadsToListed'
  <2>1. CASE Deduplicate
    BY <1>2, <2>1, RecordsLeadOn
  <2>2. CASE \E n \in Node : ProcessNode(n)
    BY <2>2 DEF ProcessNode, KeptLeadsToListed, Done
  <2>3. CASE UNCHANGED vars
    <3>1. UNCHANGED inputVars /\ UNCHANGED <<pc, listed, suppressed, delivery>>
      BY <2>3 DEF vars, inputVars
    <3>2. \A e : DeliveryPath(e)' = DeliveryPath(e)
      BY <3>1, InputsFixed
    <3>3. \A k, e : StandsFor(k, e)' <=> StandsFor(k, e)
      BY <3>1, <3>2 DEF StandsFor
    <3>4. \A e : KeptBy(e)' = KeptBy(e)
      BY <3>1 DEF KeptBy
    <3> QED
      BY <1>2, <3>1, <3>3, <3>4 DEF KeptLeadsToListed, Done
  <2> QED
    BY <1>2, <2>1, <2>2, <2>3 DEF Next, Terminated
<1> QED
  BY <1>1, <1>2, TypeCorrect, BuiltUp, PTL DEF Spec

(***************************************************************************)
(* For each package URL reported, files of the file cataloger aside, a     *)
(* component of some type is listed, and at most one that is no file.      *)
(***************************************************************************)
THEOREM OnePerPurl == Spec => []OneComponentPerPurl
<1>1. Init => OneComponentPerPurl
  BY DEF Init, OneComponentPerPurl, Done
<1>2. ASSUME TypeOK, Built, OneComponentPerPurl, [Next]_vars PROVE OneComponentPerPurl'
  <2>1. CASE Deduplicate
    BY <1>2, <2>1, PackagesUnique
  <2>2. CASE \E n \in Node : ProcessNode(n)
    BY <2>2 DEF ProcessNode, OneComponentPerPurl, Done
  <2>3. CASE UNCHANGED vars
    <3>1. UNCHANGED inputVars /\ UNCHANGED <<pc, listed, comp>>
      BY <2>3 DEF vars, inputVars
    <3>2. AllReported' = AllReported
      BY <3>1, InputsFixed
    <3>3. \A e : /\ Purl(e)' = Purl(e)
                 /\ IsFileCatalogerArtifact(e)' <=> IsFileCatalogerArtifact(e)
      BY <3>1, InputsFixed
    <3> QED
      BY <1>2, <3>1, <3>2, <3>3 DEF OneComponentPerPurl, Done
  <2> QED
    BY <1>2, <2>1, <2>2, <2>3 DEF Next, Terminated
<1> QED
  BY <1>1, <1>2, TypeCorrect, BuiltUp, PTL DEF Spec

(***************************************************************************)
(* A component is only dropped in favour of one that identifies at least   *)
(* as much.                                                                *)
(***************************************************************************)
THEOREM OnlyImprovements == Spec => []NothingBetterDropped
<1>1. Init => NothingBetterDropped
  BY DEF Init, NothingBetterDropped
<1>2. ASSUME TypeOK, Built, NothingBetterDropped, [Next]_vars PROVE NothingBetterDropped'
  <2>1. CASE Deduplicate
    BY <1>2, <2>1, RecordsImprove
  <2>2. CASE \E n \in Node : ProcessNode(n)
    <3>1. PICK n \in Node : ProcessNode(n)
      BY <2>2
    <3>2. UNCHANGED inputVars /\ suppressed' = suppressed \cup NodeRecords(n)
      BY <3>1 DEF ProcessNode
    <3>3. \A r \in suppressed : r.kept # r.entry => Improves(r.kept, r.entry)
      BY <1>2 DEF NothingBetterDropped, Improves
    <3>4. \A r \in suppressed' : r.kept # r.entry => Improves(r.kept, r.entry)
      BY <3>2, <3>3, NodeRecordsImprove
    <3>5. \A e : /\ Purl(e)' = Purl(e) /\ Score(e)' = Score(e) /\ Evidence(e)' = Evidence(e)
                 /\ HasSlash(e)' <=> HasSlash(e)
      BY <3>2, InputsFixed
    <3>6. \A e : Points(HasSlash(e), 1)' = Points(HasSlash(e), 1)
      BY <3>5 DEF Points
    <3> QED
      BY <3>4, <3>5, <3>6 DEF NothingBetterDropped, Improves
  <2>3. CASE UNCHANGED vars
    <3>1. UNCHANGED inputVars /\ suppressed' = suppressed
      BY <2>3 DEF vars, inputVars
    <3>2. \A e : /\ Purl(e)' = Purl(e) /\ Score(e)' = Score(e) /\ Evidence(e)' = Evidence(e)
                 /\ HasSlash(e)' <=> HasSlash(e)
      BY <3>1, InputsFixed
    <3>3. \A e : Points(HasSlash(e), 1)' = Points(HasSlash(e), 1)
      BY <3>2 DEF Points
    <3> QED
      BY <1>2, <3>1, <3>2, <3>3 DEF NothingBetterDropped
  <2> QED
    BY <1>2, <2>1, <2>2, <2>3 DEF Next, Terminated
<1> QED
  BY <1>1, <1>2, TypeCorrect, BuiltUp, PTL DEF Spec

-----------------------------------------------------------------------------
(***************************************************************************)
(* OccurrenceIndex: what the deduplications hand to the index.             *)
(***************************************************************************)
Outcome ==
  Done =>
    /\ listed \cap Entry \subseteq {e \in AllReported : ~IsLowValueFileArtifact(e)}
    /\ \A e \in AllReported : Purl(e) # NoPurl /\ ~IsFileCatalogerArtifact(e) =>
         \E k \in listed \cap Entry : Purl(k) = Purl(e) /\ StandsFor(k, e)
    /\ \A e \in AllReported :
         Purl(e) = NoPurl /\ comp[e].name # "absolute" /\ ~IsLowValueFileArtifact(e) =>
           \/ e \in listed /\ delivery[e] = {DeliveryPath(e)}
           \/ /\ IsWeak(e)
              /\ \E k \in listed \cap Entry : Score(k) >= 4 /\ StandsFor(k, e)

(***************************************************************************)
(* What is listed was reported, and is no low-value file.                  *)
(***************************************************************************)
LEMMA ListedReported ==
  ASSUME TypeOK, Built, Deduplicate
  PROVE  listed' \cap Entry \subseteq {e \in AllReported : ~IsLowValueFileArtifact(e)}
<1> SUFFICES ASSUME NEW e \in listed' \cap Entry
             PROVE  e \in AllReported /\ ~IsLowValueFileArtifact(e)
  OBVIOUS
<1>1. e \in Normalized(home[e]) /\ home[e] \in Node
  BY AtTheEnd DEF TypeOK
<1>2. e \in Reported(home[e]) /\ e \in Candidates(home[e])
  BY <1>1, CandidatesReported
<1> QED
  BY <1>1, <1>2 DEF AllReported, Candidates

(***************************************************************************)
(* A component without a URL is listed as it was found, or it was weak and *)
(* gave way to a good one.                                                 *)
(***************************************************************************)
LEMMA OthersStay ==
  ASSUME TypeOK, Built, Deduplicate, NEW e \in AllReported,
         Purl(e) = NoPurl, comp[e].name # "absolute", ~IsLowValueFileArtifact(e)
  PROVE  \/ e \in listed' /\ delivery'[e] = {DeliveryPath(e)}
         \/ /\ IsWeak(e)
            /\ \E k \in listed' \cap Entry : Score(k) >= 4 /\ StandsFor(k, e)'
<1> DEFINE n == home[e]
<1>1. e \in Entry /\ n \in Node /\ e \in Candidates(n)
  BY Reporting DEF Candidates, IsFileCatalogerArtifact
<1>2. CASE e \in Merged(n)
  <2>1. e \in Normalized(n)
    BY <1>2 DEF Normalized, Entries, PurlRecords, Record
  <2>2. e \in listed /\ e \notin Duplicates
    BY <1>1, <2>1, NormalizedListed DEF Duplicates
  <2>3. ~ \E d \in Duplicates : Survivor(d) = e
    BY DuplicatesKept DEF Duplicates
  <2>4. delivery'[e] = delivery[e]
    BY <1>1, <2>3 DEF Deduplicate, Merge
  <2> QED
    BY <1>1, <2>2, <2>4, AtTheEnd
<1>3. CASE e \notin Merged(n)
  <2>1. PICK r \in WeakRecords(n) : r.entry = e
    BY <1>1, <1>3 DEF Merged, Entries
  <2>2. PICK b : b = r.kept
    OBVIOUS
  <2>3. /\ b \in Merged(n) /\ DeliveryPath(b) = DeliveryPath(e)
        /\ IsWeak(e) /\ Score(b) >= 4
    BY <2>1, <2>2, WeakKept
  <2>4. PICK k \in listed' \cap Entry :
          /\ k = b \/ Purl(b) # NoPurl
          /\ Purl(k) = Purl(b)
          /\ StandsFor(k, b)'
    BY <1>1, <2>3, MergedRepresented
  <2>5. Score(k) >= 4
    BY <2>3, <2>4 DEF Score, Points
  <2>6. DeliveryPath(b)' = DeliveryPath(e)'
    BY <2>3, AtTheEnd, InputsFixed
  <2>7. StandsFor(k, e)'
    BY <2>4, <2>6 DEF StandsFor
  <2> QED
    BY <2>3, <2>5, <2>7
<1> QED
  BY <1>2, <1>3

(***************************************************************************)
(* Outcome holds in every reachable state.                                 *)
(***************************************************************************)
LEMMA OutcomeReached == Spec => []Outcome
<1>1. Init => Outcome
  BY DEF Init, Outcome, Done
<1>2. ASSUME TypeOK, Built, Outcome, [Next]_vars PROVE Outcome'
  <2>1. CASE Deduplicate
    <3> USE <1>2, <2>1
    <3>1. AllReported' = AllReported /\ comp' = comp
      BY AtTheEnd, InputsFixed DEF inputVars
    <3>2. \A e : /\ Purl(e)' = Purl(e) /\ Score(e)' = Score(e)
                 /\ DeliveryPath(e)' = DeliveryPath(e)
                 /\ IsFileCatalogerArtifact(e)' <=> IsFileCatalogerArtifact(e)
                 /\ IsLowValueFileArtifact(e)' <=> IsLowValueFileArtifact(e)
                 /\ IsWeak(e)' <=> IsWeak(e)
      BY AtTheEnd, InputsFixed
    <3>3. \A e \in AllReported : Purl(e) # NoPurl /\ ~IsFileCatalogerArtifact(e) =>
            \E k \in listed' \cap Entry : Purl(k) = Purl(e) /\ StandsFor(k, e)'
      BY PackageMerged, MergedRepresented, Reporting
    <3>4. \A e \in AllReported :
            Purl(e) = NoPurl /\ comp[e].name # "absolute" /\ ~IsLowValueFileArtifact(e) =>
              \/ e \in listed' /\ delivery'[e] = {DeliveryPath(e)}
              \/ /\ IsWeak(e)
                 /\ \E k \in listed' \cap Entry : Score(k) >= 4 /\ StandsFor(k, e)'
      BY OthersStay
    <3> QED
      BY <3>1, <3>2, <3>3, <3>4, ListedReported DEF Outcome
  <2>2. CASE \E n \in Node : ProcessNode(n)
    BY <2>2 DEF ProcessNode, Outcome, Done
  <2>3. CASE UNCHANGED vars
    <3>1. UNCHANGED inputVars /\ UNCHANGED <<pc, comp, listed, delivery>>
      BY <2>3 DEF vars, inputVars
    <3>2. AllReported' = AllReported
      BY <3>1, InputsFixed
    <3>3. \A e : /\ Purl(e)' = Purl(e) /\ Score(e)' = Score(e)
                 /\ DeliveryPath(e)' = DeliveryPath(e)
                 /\ IsFileCatalogerArtifact(e)' <=> IsFileCatalogerArtifact(e)
                 /\ IsLowValueFileArtifact(e)' <=> IsLowValueFileArtifact(e)
                 /\ IsWeak(e)' <=> IsWeak(e)
      BY <3>1, InputsFixed
    <3>4. \A k, e : StandsFor(k, e)' <=> StandsFor(k, e)
      BY <3>1, <3>3 DEF StandsFor
    <3> QED
      BY <1>2, <3>1, <3>2, <3>3, <3>4 DEF Outcome, Done
  <2> QED
    BY <1>2, <2>1, <2>2, <2>3 DEF Next, Terminated
<1> QED
  BY <1>1, <1>2, TypeCorrect, BuiltUp, PTL DEF Spec

(***************************************************************************)
(* mergeDuplicateOccurrences keeps the best occurrence of each locus, and  *)
(* drops only weak ones for a good one.                                    *)
(***************************************************************************)
LEMMA BestIndexed ==
  ASSUME NEW e \in Occurrences, e \notin Indexed
  PROVE  /\ IsWeak(e)
         /\ \E b \in Indexed : Score(b) >= 4 /\ delivery[b] = delivery[e]
<1> DEFINE group == OccurrenceLocus(e)
           b == Best(group, ByScore)
<1>1. e \in group /\ group \in SUBSET Entry /\ group \subseteq Occurrences
  BY DEF OccurrenceLocus, Occurrences
<1>2. b \in group
  BY <1>1, BestIsBest, RanksTyped
<1>3. b \in Occurrences /\ delivery[b] = delivery[e] /\ OccurrenceLocus(b) = group
  BY <1>1, <1>2 DEF OccurrenceLocus
<1>4. b \in Indexed
  BY <1>3 DEF Indexed
<1>5. ShouldCollapse(group) /\ e # b
  BY DEF Indexed
<1>6. Score(b) >= 4 /\ IsWeak(e)
  BY <1>1, <1>5 DEF ShouldCollapse
<1> QED
  BY <1>3, <1>4, <1>6

(***************************************************************************)
(* A weak component has no package URL and next to no score.               *)
(***************************************************************************)
LEMMA WeakIsPoor ==
  ASSUME NEW e, IsWeak(e)
  PROVE  Purl(e) = NoPurl /\ Score(e) <= 1
BY DEF IsWeak, Score, Points

(***************************************************************************)
(* A reader finds every identified package, unless its representative is   *)
(* left out for an absolute path as its name.                              *)
(***************************************************************************)
THEOREM EveryPackageIndexed == Spec => []PackagesIndexed
<1>1. ASSUME Outcome PROVE PackagesIndexed
  <2> SUFFICES ASSUME Done, NEW e \in AllReported,
                      Purl(e) # NoPurl, ~IsFileCatalogerArtifact(e)
               PROVE  \E f \in Findable : Purl(f) = Purl(e) /\ StandsFor(f, e)
    BY DEF PackagesIndexed
  <2>1. PICK k \in listed \cap Entry : Purl(k) = Purl(e) /\ StandsFor(k, e)
    BY <1>1 DEF Outcome
  <2>2. comp[k].name # "absolute" => k \in Occurrences
    BY <1>1 DEF Outcome, Occurrences
  <2>3. comp[k].name # "absolute" => k \in Indexed
    BY <2>1, <2>2, BestIndexed, WeakIsPoor
  <2>4. k \in Findable
    BY <2>3 DEF Findable
  <2> QED
    BY <2>1, <2>4
<1> QED
  BY <1>1, OutcomeReached, PTL

(***************************************************************************)
(* Files of low value and absolute names aside, which the filters drop     *)
(* with nothing in their place, a component without a URL that a reader    *)
(* does not find gave way to one that is better identified.                *)
(***************************************************************************)
THEOREM EveryOtherIndexed == Spec => []OthersIndexed
<1>1. ASSUME Outcome PROVE OthersIndexed
  <2> SUFFICES ASSUME Done, NEW e \in AllReported, e \notin Indexed, Purl(e) = NoPurl,
                      comp[e].name # "absolute", ~IsLowValueFileArtifact(e)
               PROVE  \E f \in Findable : Score(f) > Score(e) /\ StandsFor(f, e)
    BY DEF OthersIndexed
  <2>1. ASSUME NEW f, IsWeak(e), Score(f) >= 4 PROVE Score(f) > Score(e)
    <3>1. Score(e) <= 1 /\ Score(e) \in Nat /\ Score(f) \in Nat
      BY <2>1, WeakIsPoor, RanksTyped
    <3> QED
      BY <2>1, <3>1
  <2>2. CASE e \in listed /\ delivery[e] = {DeliveryPath(e)}
    <3>1. e \in Occurrences
      BY <2>2, Reporting DEF Occurrences
    <3>2. PICK b \in Indexed : Score(b) >= 4 /\ delivery[b] = delivery[e] /\ IsWeak(e)
      BY <3>1, BestIndexed
    <3>3. StandsFor(b, e)
      BY <2>2, <3>2 DEF StandsFor
    <3> QED
      BY <2>1, <3>2, <3>3 DEF Findable
  <2>3. ASSUME IsWeak(e),
               NEW k \in listed \cap Entry, Score(k) >= 4, StandsFor(k, e)
        PROVE  \E f \in Findable : Score(f) > Score(e) /\ StandsFor(f, e)
    <3>1. comp[k].name # "absolute" => k \in Occurrences
      BY <1>1 DEF Outcome, Occurrences
    <3>2. ~IsWeak(k)
      <4>1. Score(k) \in Nat
        BY RanksTyped
      <4> QED
        BY <2>3, <4>1, WeakIsPoor
    <3>3. k \in Findable
      BY <3>1, <3>2, BestIndexed DEF Findable
    <3> QED
      BY <2>1, <2>3, <3>3
  <2> QED
    BY <1>1, <2>2, <2>3 DEF Outcome
<1> QED
  BY <1>1, OutcomeReached, PTL
=============================================================================
