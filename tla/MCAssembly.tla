----------------------------- MODULE MCAssembly -----------------------------
(***************************************************************************)
(* Assembly of a delivery with one nested archive or JAR.  The components  *)
(* are one of each class the code tells apart, packages of one URL at two  *)
(* depths, and two of another URL, one with the name of the first package. *)
(***************************************************************************)
EXTENDS OccurrenceIndex

CONSTANTS root, inner

MCParent == [n \in {inner} |-> root]

MCNodePath == [n \in {root, inner} |->
                 IF n = root THEN <<"delivery">> ELSE <<"delivery", "inner">>]

Plain == [file |-> FALSE, name |-> "other", purl |-> NoPurl, version |-> FALSE,
          foundBy |-> FALSE, ref |-> TRUE, loc |-> <<>>]

Package == [Plain EXCEPT !.purl = "p", !.foundBy = TRUE]

Components ==
  {[Plain EXCEPT !.file = TRUE, !.name = "absolute", !.purl = "p"],
   [Plain EXCEPT !.file = TRUE],
   [Plain EXCEPT !.name = "base"],
   [Plain EXCEPT !.version = TRUE, !.foundBy = TRUE],
   Package,
   [Package EXCEPT !.loc = <<"inner">>, !.version = TRUE],
   [Package EXCEPT !.foundBy = FALSE, !.ref = FALSE, !.name = "base"],
   [Package EXCEPT !.file = TRUE],
   [Package EXCEPT !.name = "absolute"],
   [Package EXCEPT !.purl = "q"],
   [Package EXCEPT !.purl = "q", !.name = "slashed"]}

Results ==
  {[status |-> "extracted", scan |-> "ok", manifest |-> FALSE],
   [status |-> "native", scan |-> "ok", manifest |-> TRUE],
   [status |-> "native", scan |-> "error", manifest |-> FALSE],
   [status |-> "failed", scan |-> "none", manifest |-> FALSE]}
=============================================================================
