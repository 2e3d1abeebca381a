---------------------------- MODULE MCEnrichment ----------------------------
(***************************************************************************)
(* Three keys whose hashes collide, and two matches.  Of the components,   *)
(* two are occurrences of one package, with a package URL and without, and *)
(* the others are not in the index: a container with a CPE and a file.     *)
(***************************************************************************)
EXTENDS Enrichment

CONSTANTS r1, r2, r3, r4

MCRef == {r1, r2, r3, r4}

Hash(s0, s1, s2) == [s \in 0..2 |-> IF s = 0 THEN s0 ELSE IF s = 1 THEN s1 ELSE s2]

(***************************************************************************)
(* The first hashes of all keys collide; or those of two, and the second   *)
(* one of the one with the first one of a third.                           *)
(***************************************************************************)
MCFactory ==
  {<<Hash(r1, r2, r3), Hash(r1, r3, r2), Hash(r1, r3, r4)>>,
   <<Hash(r2, r1, r4), Hash(r2, r3, r4), Hash(r3, r4, r1)>>}

MCComponent ==
  {[package |-> "p", purl |-> TRUE, cpe |-> FALSE, indexed |-> TRUE],
   [package |-> "p", purl |-> FALSE, cpe |-> FALSE, indexed |-> TRUE],
   [package |-> "container", purl |-> FALSE, cpe |-> TRUE, indexed |-> FALSE],
   [package |-> "file", purl |-> FALSE, cpe |-> FALSE, indexed |-> FALSE]}
=============================================================================
