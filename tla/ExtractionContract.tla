------------------------- MODULE ExtractionContract -------------------------
(***************************************************************************)
(* What the orchestrator may rely on of extract.Extract: it returns once,  *)
(* with a tree and an error value.  Of the tree the orchestrator and the   *)
(* reports read whether some node failed or missed its tool, whether some  *)
(* node was skipped, and whether some node is security-blocked.  Outcome   *)
(* is the set of combinations that can occur under each policy.            *)
(***************************************************************************)
VARIABLES
  policy,     \* cfg.PolicyMode
  returned,   \* Extract has returned
  outcome     \* the error, and what the orchestrator and the reports read
              \* of the tree

vars == <<policy, returned, outcome>>

Err == {"none", "hard", "limit", "deadline", "other"}

(***************************************************************************)
(* Under the strict policy the first violation is the returned error, so   *)
(* any other result comes with an unblocked tree.  Under the partial       *)
(* policy only the delivery itself can return a violation, and then it has *)
(* no children.  A bare deadline comes from the inner TAR of a compressed  *)
(* TAR delivery, whose node stays "extracted".                             *)
(***************************************************************************)
Outcome ==
  {o \in [err : Err, failed : BOOLEAN, skipped : BOOLEAN, blocked : BOOLEAN] :
     /\ policy = "strict" /\ o.err # "hard" => ~o.blocked
     /\ policy = "partial" /\ o.err = "hard" => ~o.failed /\ ~o.skipped
     /\ policy = "partial" /\ o.err = "limit" => ~o.skipped
     /\ o.err = "limit" => ~o.blocked
     /\ o.err = "deadline" => ~o.failed /\ ~o.skipped /\ ~o.blocked}

None == [err |-> "none", failed |-> FALSE, skipped |-> FALSE, blocked |-> FALSE]

Init ==
  /\ policy \in {"strict", "partial"}
  /\ returned = FALSE
  /\ outcome = None

Return ==
  /\ ~returned
  /\ returned' = TRUE
  /\ outcome' \in Outcome
  /\ UNCHANGED policy

SafeSpec == Init /\ [][Return]_vars

Spec == SafeSpec /\ WF_vars(Return)
=============================================================================
