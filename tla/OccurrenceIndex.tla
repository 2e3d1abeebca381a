--------------------------- MODULE OccurrenceIndex ---------------------------
(***************************************************************************)
(* Package report, report_occurrence.go and report_suppression.go: the     *)
(* index of component occurrences that the Markdown report derives from    *)
(* the BOM of Assembly, and the links from its suppression records into    *)
(* that index.  The index filters and merges components once more, by      *)
(* rules of its own, so what a reader finds of a scan is the outcome of    *)
(* the three deduplications of Assembly and of this one.                   *)
(*                                                                         *)
(* The components of nodes are always left out: one that was tried has an  *)
(* extraction-status, and any other is a file without package identity.    *)
(* Every component has a delivery path.                                    *)
(***************************************************************************)
EXTENDS Assembly

(***************************************************************************)
(* collectComponentOccurrences: what the filters let through.              *)
(***************************************************************************)
Occurrences ==
  {e \in listed \cap Entry :
     comp[e].name # "absolute" /\ ~IsLowValueFileArtifact(e)}

(***************************************************************************)
(* mergeDuplicateOccurrences: the occurrences with the same delivery and   *)
(* evidence paths, which may be several since deduplicateGlobalComponents. *)
(***************************************************************************)
OccurrenceLocus(e) ==
  {f \in Occurrences : delivery[f] = delivery[e] /\ evidence[f] = evidence[e]}

\* Mutant of ShouldCollapse: the best one need not be a good one.
ShouldCollapsePoor(group) ==
  LET best == Best(group, ByScore)
  IN  \A e \in group \ {best} : IsWeak(e)

\* Mutant of ShouldCollapse: one weak duplicate is enough.
ShouldCollapseAnyWeak(group) ==
  LET best == Best(group, ByScore)
  IN  Score(best) >= 4 /\ \E e \in group \ {best} : IsWeak(e)

ShouldCollapse(group) ==
  LET best == Best(group, ByScore)
  IN  Score(best) >= 4 /\ \A e \in group \ {best} : IsWeak(e)

Indexed ==
  {e \in Occurrences :
     LET group == OccurrenceLocus(e)
     IN  ShouldCollapse(group) => e = Best(group, ByScore)}

-----------------------------------------------------------------------------
(***************************************************************************)
(* newSuppressionLinkResolver and resolve: a record links to an indexed    *)
(* component at its delivery path, the best one with the name and the      *)
(* cataloger of the component that was kept.  The record of a dropped file *)
(* artifact names none, and links to the only component at its path.  Link *)
(* is empty where the report explains why there is no link.                *)
(***************************************************************************)
NamesKept(r) == r.kept # r.entry

IndexedAt(path) == {e \in Indexed : path \in delivery[e]}

Named(r) ==
  {e \in IndexedAt(DeliveryPath(r.entry)) :
     /\ comp[e].name = comp[r.kept].name
     /\ comp[r.kept].foundBy => comp[e].foundBy}

Link(r) ==
  LET found == IF NamesKept(r) THEN Named(r) ELSE IndexedAt(DeliveryPath(r.entry))
  IN  IF NamesKept(r) /\ found # {} THEN {Best(found, ByScore)}
      ELSE IF Cardinality(found) = 1 THEN found ELSE {}

-----------------------------------------------------------------------------
(***************************************************************************)
(* What the index shows of the BOM, and what it leaves out of a package    *)
(* for having an absolute path as its name.                                *)
(***************************************************************************)
Findable == Indexed \cup {e \in listed \cap Entry : comp[e].name = "absolute"}

(***************************************************************************)
(* A reader finds every identified package in the index: the components    *)
(* that the scans reported for a package URL are represented by an indexed *)
(* one with that URL, which is delivered in the artifact each was found in *)
(* or below it.  The exception is a representative with an absolute path   *)
(* as its name, which is in the BOM but left out of the index.             *)
(***************************************************************************)
PackagesIndexed ==
  Done => \A e \in AllReported :
    Purl(e) # NoPurl /\ ~IsFileCatalogerArtifact(e) =>
      \E f \in Findable : Purl(f) = Purl(e) /\ StandsFor(f, e)

(***************************************************************************)
(* The filters leave components out of the index with nothing in their     *)
(* place: those named by an absolute path and the low-value files.  Any    *)
(* other component without a package URL is in the index, or has given way *)
(* to a better identified one delivered in the artifact it was found in or *)
(* below it, which is in the index unless it has such a name itself.       *)
(***************************************************************************)
OthersIndexed ==
  Done => \A e \in AllReported :
    Purl(e) = NoPurl /\ comp[e].name # "absolute" /\ ~IsLowValueFileArtifact(e) =>
      \/ e \in Indexed
      \/ \E f \in Findable : Score(f) > Score(e) /\ StandsFor(f, e)

-----------------------------------------------------------------------------
(***************************************************************************)
(* SCAN_APPROACH.md:550: the report lists for every removed component "the *)
(* kept replacement component".  So the link of a repeated package leads   *)
(* to a component with the same package URL.                               *)
(***************************************************************************)
LinksLeadToPackage ==
  Done => \A r \in suppressed :
    r.reason = "purl-duplicate" => \A f \in Link(r) : Purl(f) = Purl(r.entry)
==============================================================================
