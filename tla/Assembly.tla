------------------------------ MODULE Assembly ------------------------------
(***************************************************************************)
(* Package assembly: Assemble merges the per-node scan results into one    *)
(* BOM.  Within a node, normalizeScanComponents drops file artifacts, weak *)
(* placeholders and repeated packages; processNode lists what is left and  *)
(* links it to the node; deduplicateGlobalComponents then keeps one        *)
(* component per package URL and rewrites the references to the others.    *)
(* Every component that is dropped leaves a suppression record.            *)
(*                                                                         *)
(* A delivery path is a sequence of names.  An entry is what Syft reported *)
(* once, and a number: its place in the orders that break ties (scanner    *)
(* order, compareScanCandidates, BOM reference), which are abstracted to   *)
(* one: a pair tied in one deduplication is not compared by another.       *)
(* References are distinct (newBOMRefAssigner), so a reference is the node *)
(* or entry it names.                                                      *)
(***************************************************************************)
EXTENDS Integers, Sequences, FiniteSets

CONSTANTS Node,       \* the nodes of the extraction tree
          Root,
          Parent,     \* the parent of every other node
          Name,       \* the names that delivery paths are made of
          NodePath,   \* node.Path
          Entry,      \* what the scans can report
          Component,  \* what Syft can report: [file: its type is file, name:
                      \*   a class of names, version, foundBy, ref: the field
                      \*   is set, purl, loc: its syft:location below the node]
          NodeResult, \* how a node can end: its status, and its scan
          Manifest,   \* the name of a JAR manifest
          NoPurl      \* PackageURL = ""

ASSUME AssemblyAssumption ==
  /\ Root \in Node
  /\ Parent \in [Node \ {Root} -> Node]
  /\ Entry \subseteq Nat
  /\ IsFiniteSet(Entry)
  /\ Entry \cap Node = {}
  /\ NodePath \in [Node -> Seq(Name)]
  /\ Manifest \in Name
  /\ \A c \in Component : c.loc \in Seq(Name)

VARIABLES
  pc,           \* "nodes", "dedup" or "done"
  node,         \* how each node ended
  home,         \* the node whose scan reports the entry
  comp,         \* the component reported
  todo,         \* nodes processNode has not visited
  listed,       \* the nodes and entries in the component list
  dependsOn,    \* the dependency graph
  delivery,     \* the delivery-path properties of an entry's component
  evidence,     \* its evidence-path properties
  aggregate,    \* the composition of each node, "none" before the visit
  suppressed    \* the suppression records

inputVars == <<node, home, comp>>
vars == <<pc, inputVars, todo, listed, dependsOn, delivery, evidence, aggregate,
          suppressed>>

-----------------------------------------------------------------------------
(***************************************************************************)
(* What the code derives from a reported component: the artifact it was    *)
(* found in, and the manifest that supports it, which is only known for a  *)
(* JAR scanned on its own.                                                 *)
(***************************************************************************)
Extracted(n) == node[n].status = "extracted"

DeliveryPath(e) ==
  IF Extracted(home[e]) THEN NodePath[home[e]] \o comp[e].loc ELSE NodePath[home[e]]

Evidence(e) ==
  IF node[home[e]].manifest /\ comp[e].ref
  THEN {Append(NodePath[home[e]], Manifest)} ELSE {}

Purl(e) == comp[e].purl

IsFileCatalogerArtifact(e) == comp[e].file /\ comp[e].name = "absolute"

IsLowValueFileArtifact(e) ==
  comp[e].file /\ Purl(e) = NoPurl /\ ~comp[e].version /\ ~comp[e].foundBy

(***************************************************************************)
(* scanCandidateQualityScore and isWeakScanCandidate.  A name is empty, an *)
(* absolute path, a "slashed" one that only contains a slash, the "base"   *)
(* name of the delivery path, or an "other" one.                           *)
(***************************************************************************)
HasSlash(e) == comp[e].name \in {"absolute", "slashed"}

Points(condition, n) == IF condition THEN n ELSE 0

Score(e) ==
  Points(Purl(e) # NoPurl, 4) + Points(comp[e].foundBy, 3)
  + Points(comp[e].version, 2) + Points(comp[e].name \in {"base", "other"}, 1)

\* Mutant of IsWeak: the package URL is not looked at.
IsWeakByName(e) ==
  /\ ~comp[e].foundBy /\ ~comp[e].version
  /\ comp[e].name # "other"

IsWeak(e) ==
  /\ Purl(e) = NoPurl /\ ~comp[e].foundBy /\ ~comp[e].version
  /\ comp[e].name # "other"

(***************************************************************************)
(* The candidate of G that comes first: the highest rank, then the order.  *)
(***************************************************************************)
Best(G, rank) ==
  CHOOSE b \in G : \A e \in G \ {b} : rank[b] > rank[e] \/ (rank[b] = rank[e] /\ b < e)

ByScore == [e \in Entry |-> Score(e)]

(***************************************************************************)
(* More evidence comes first, and no score is above 10.                    *)
(***************************************************************************)
ByEvidence == [e \in Entry |-> 11 * Cardinality(Evidence(e)) + Score(e)]

(***************************************************************************)
(* globalQualityScore also grants the point for a name with a slash.       *)
(***************************************************************************)
Globally == [e \in Entry |-> ByEvidence[e] + Points(HasSlash(e), 1)]

Record(reason, e, kept) == [reason |-> reason, entry |-> e, kept |-> kept]

-----------------------------------------------------------------------------
(***************************************************************************)
(* normalizeScanComponents.                                                *)
(***************************************************************************)
Reported(n) == {e \in Entry : home[e] = n /\ node[n].scan = "ok"}

FileRecords(n) ==
  {Record(IF IsFileCatalogerArtifact(e) THEN "fs-cataloger-artifact"
                                        ELSE "low-value-file", e, e) :
     e \in {e \in Reported(n) : IsFileCatalogerArtifact(e) \/ IsLowValueFileArtifact(e)}}

Candidates(n) ==
  {e \in Reported(n) : ~IsFileCatalogerArtifact(e) /\ ~IsLowValueFileArtifact(e)}

(***************************************************************************)
(* mergeDuplicateScanCandidates: at one locus (delivery path and evidence) *)
(* the weak candidates go if there is one good candidate and all the       *)
(* others are weak.                                                        *)
(***************************************************************************)
Locus(n, e) ==
  {f \in Candidates(n) : DeliveryPath(f) = DeliveryPath(e) /\ Evidence(f) = Evidence(e)}

WeakRecords(n) ==
  {Record("weak-duplicate", e, Best(Locus(n, e), ByScore)) :
     e \in {e \in Candidates(n) :
              LET best == Best(Locus(n, e), ByScore)
              IN  /\ e # best
                  /\ Score(best) >= 4
                  /\ \A f \in Locus(n, e) \ {best} : IsWeak(f)}}

Entries(records) == {r.entry : r \in records}

(***************************************************************************)
(* mergePURLDuplicateScanCandidates: one candidate for each package URL    *)
(* and delivery path.                                                      *)
(***************************************************************************)
Merged(n) == Candidates(n) \ Entries(WeakRecords(n))

SamePackage(n, e) ==
  {f \in Merged(n) : Purl(f) = Purl(e) /\ DeliveryPath(f) = DeliveryPath(e)}

PurlRecords(n) ==
  {Record("purl-duplicate", e, Best(SamePackage(n, e), ByEvidence)) :
     e \in {e \in Merged(n) :
              Purl(e) # NoPurl /\ e # Best(SamePackage(n, e), ByEvidence)}}

Normalized(n) == Merged(n) \ Entries(PurlRecords(n))

\* Mutant of NodeRecords: the second pass drops without a record.
NodeRecordsFirstPass(n) == FileRecords(n) \cup WeakRecords(n)

NodeRecords(n) == FileRecords(n) \cup WeakRecords(n) \cup PurlRecords(n)

-----------------------------------------------------------------------------
Init ==
  /\ pc = "nodes"
  /\ node \in [Node -> NodeResult]
  /\ home \in [Entry -> Node]
  /\ comp \in [Entry -> Component]
  /\ \A n \in Node \ {Root} : node[Parent[n]].status # "native"
  /\ \A e \in Entry : comp[e].loc # <<>> => Extracted(home[e])
  /\ todo = Node
  /\ listed = {}
  /\ dependsOn = [n \in Node |-> {}]
  /\ delivery = [e \in Entry |-> {}]
  /\ evidence = [e \in Entry |-> {}]
  /\ aggregate = [n \in Node |-> "none"]
  /\ suppressed = {}

Aggregate(n) ==
  IF node[n].scan = "error" THEN "unknown"
  ELSE IF node[n].status \in {"extracted", "native"} THEN "complete"
  ELSE "incomplete"

\* Mutant of Links: what a node reports is linked to its parent.
LinksToParent(n) ==
  [m \in Node |-> dependsOn[m]
     \cup (IF m = (IF n = Root THEN Root ELSE Parent[n]) THEN Normalized(n) ELSE {})
     \cup (IF n # Root /\ m = Parent[n] THEN {n} ELSE {})]

Links(n) ==
  [m \in Node |-> dependsOn[m]
     \cup (IF m = n THEN Normalized(n) ELSE {})
     \cup (IF n # Root /\ m = Parent[n] THEN {n} ELSE {})]

(***************************************************************************)
(* processNode visits a node after its parent.                             *)
(***************************************************************************)
ProcessNode(n) ==
  /\ pc = "nodes"
  /\ n \in todo
  /\ n # Root => Parent[n] \notin todo
  /\ todo' = todo \ {n}
  /\ pc' = IF todo' = {} THEN "dedup" ELSE pc
  /\ listed' = listed \cup ({n} \ {Root}) \cup Normalized(n)
  /\ dependsOn' = Links(n)
  /\ delivery' = [e \in Entry |->
                    IF e \in Normalized(n) THEN {DeliveryPath(e)} ELSE delivery[e]]
  /\ evidence' = [e \in Entry |->
                    IF e \in Normalized(n) THEN Evidence(e) ELSE evidence[e]]
  /\ aggregate' = [aggregate EXCEPT ![n] = Aggregate(n)]
  /\ suppressed' = suppressed \cup NodeRecords(n)
  /\ UNCHANGED inputVars

-----------------------------------------------------------------------------
(***************************************************************************)
(* deduplicateGlobalComponents.                                            *)
(***************************************************************************)
Strict(a, b) == Len(a) < Len(b) /\ SubSeq(b, 1, Len(a)) = a

\* Mutant of LeafMost: the arguments of the ancestor test are swapped.
RootMost(paths) == {p \in paths : ~\E q \in paths : Strict(q, p)}

LeafMost(paths) == {p \in paths : ~\E q \in paths : Strict(p, q)}

\* Mutant of Group: the delivery path is part of the key.
GroupByPath(e) ==
  {f \in listed \cap Entry :
     Purl(f) = Purl(e) /\ ~comp[f].file /\ DeliveryPath(f) = DeliveryPath(e)}

(***************************************************************************)
(* Entries of type file are not grouped.                                   *)
(***************************************************************************)
Group(e) == {f \in listed \cap Entry : Purl(f) = Purl(e) /\ ~comp[f].file}

Survivor(e) == Best(Group(e), Globally)

Duplicates ==
  {e \in listed \cap Entry : Purl(e) # NoPurl /\ ~comp[e].file /\ e # Survivor(e)}

\* Mutant of Rewrite: the references are left as they are.
RewriteNothing(refs) == refs

Rewrite(refs) == {IF r \in Duplicates THEN Survivor(r) ELSE r : r \in refs}

Merge(property) ==
  [e \in Entry |->
     IF e \in listed /\ \E d \in Duplicates : Survivor(d) = e
     THEN LeafMost(UNION {property[f] : f \in Group(e)}) ELSE property[e]]

Deduplicate ==
  /\ pc = "dedup"
  /\ listed' = listed \ Duplicates
  /\ dependsOn' = [n \in Node |-> Rewrite(dependsOn[n])]
  /\ delivery' = Merge(delivery)
  /\ evidence' = Merge(evidence)
  /\ suppressed' =
       suppressed \cup {Record("purl-duplicate", e, Survivor(e)) : e \in Duplicates}
  /\ pc' = "done"
  /\ UNCHANGED <<inputVars, todo, aggregate>>

Terminated == pc = "done" /\ UNCHANGED vars

Next == (\E n \in Node : ProcessNode(n)) \/ Deduplicate \/ Terminated

Spec == Init /\ [][Next]_vars

-----------------------------------------------------------------------------
Reasons == {"fs-cataloger-artifact", "low-value-file", "weak-duplicate",
            "purl-duplicate"}

(***************************************************************************)
(* Every variable holds a value of its type.                               *)
(***************************************************************************)
TypeOK ==
  /\ pc \in {"nodes", "dedup", "done"}
  /\ node \in [Node -> NodeResult]
  /\ home \in [Entry -> Node]
  /\ comp \in [Entry -> Component]
  /\ todo \subseteq Node
  /\ listed \subseteq Node \cup Entry
  /\ dependsOn \in [Node -> SUBSET (Node \cup Entry)]
  /\ delivery \in [Entry -> SUBSET Seq(Name)]
  /\ evidence \in [Entry -> SUBSET Seq(Name)]
  /\ aggregate \in [Node -> {"none", "complete", "incomplete", "unknown"}]
  /\ suppressed \subseteq [reason : Reasons, entry : Entry, kept : Entry]

Done == pc = "done"

AllReported == UNION {Reported(n) : n \in Node}

(***************************************************************************)
(* The dependency graph and the component list agree in the end: no        *)
(* reference dangles, nothing but the root is listed without one, and a    *)
(* node depends on exactly the nodes it contains and the listed components *)
(* that its scan reported or that took the place of one it reported.       *)
(***************************************************************************)
Children(n) == {m \in Node \ {Root} : Parent[m] = n}

GraphMatchesList ==
  Done =>
    /\ UNION {dependsOn[n] : n \in Node} = listed
    /\ \A n \in Node :
         dependsOn[n] = Children(n) \cup
           {f \in listed \cap Entry :
              home[f] = n \/ \E r \in suppressed : r.kept = f /\ home[r.entry] = n}

(***************************************************************************)
(* types.go:33: every component a scan reported is either in the BOM or    *)
(* documented by one suppression record, whichever pass dropped it.        *)
(***************************************************************************)
Accounted ==
  Done => \A e \in AllReported :
    Cardinality({r \in suppressed : r.entry = e}) = IF e \in listed THEN 0 ELSE 1

(***************************************************************************)
(* The component f is delivered in the artifact that e was found in, or    *)
(* below it.                                                               *)
(***************************************************************************)
StandsFor(f, e) ==
  \E p \in delivery[f] : p = DeliveryPath(e) \/ Strict(DeliveryPath(e), p)

(***************************************************************************)
(* The component that a suppression record names as kept may be dropped by *)
(* a later pass, but the records then lead on to one that is in the BOM    *)
(* and stands for an artifact at the same place or a place below it.       *)
(***************************************************************************)
KeptBy(e) == {r.kept : r \in {r \in suppressed : r.entry = e}}

KeptLeadsToListed ==
  Done => \A r \in suppressed : r.kept # r.entry =>
    \E k \in listed \cap Entry :
      /\ \/ k = r.kept
         \/ k \in KeptBy(r.kept)
         \/ \E j \in KeptBy(r.kept) : k \in KeptBy(j)
      /\ StandsFor(k, r.entry)

(***************************************************************************)
(* The two deduplications never drop the last component with a package     *)
(* URL, and leave at most one that is not of type file: files are not      *)
(* grouped, so one may be listed beside it, or without any other.          *)
(***************************************************************************)
OneComponentPerPurl ==
  Done => \A e \in AllReported :
    Purl(e) # NoPurl /\ ~IsFileCatalogerArtifact(e) =>
      /\ \E f \in listed \cap Entry : Purl(f) = Purl(e)
      /\ Cardinality({f \in listed \cap Entry : Purl(f) = Purl(e) /\ ~comp[f].file}) <= 1

(***************************************************************************)
(* A weak placeholder or a repeated package is dropped only in favour of   *)
(* a component that identifies at least as much: it has a package URL if   *)
(* the dropped one has, and evidence or no lower a score.  The point for a *)
(* name without a slash does not count, as globalQualityScore ignores it.  *)
(***************************************************************************)
NothingBetterDropped ==
  \A r \in suppressed : r.kept # r.entry =>
    /\ Purl(r.entry) # NoPurl => Purl(r.kept) = Purl(r.entry)
    /\ \/ Score(r.kept) + Points(HasSlash(r.kept), 1) >= Score(r.entry)
       \/ Evidence(r.kept) # {}
=============================================================================
