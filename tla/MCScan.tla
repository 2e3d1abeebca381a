------------------------------- MODULE MCScan -------------------------------
(***************************************************************************)
(* Scan with two extracted directories: the first holds a package of the   *)
(* first native file and one no native file owns, the second a package of  *)
(* the second native file.                                                 *)
(***************************************************************************)
EXTENDS Scan, TLC

CONSTANTS e1, e2, n1, n2, p1, p2, p3

MCFoundIn == p1 :> e1 @@ p2 :> e1 @@ p3 :> e2

MCOwner == p1 :> n1 @@ p2 :> NoOwner @@ p3 :> n2
=============================================================================
