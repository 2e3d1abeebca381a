---------------------------- MODULE ScanContract ----------------------------
(***************************************************************************)
(* What the orchestrator may rely on of scan.ScanAll: it returns once,     *)
(* with a nil error in every case and one result per target.  Of these     *)
(* the orchestrator reads whether one has an Error (hasScanFailures);      *)
(* `missing` says that one is as empty as before the scans, with no Error  *)
(* either, which only a cancelled run can leave behind.                    *)
(***************************************************************************)
VARIABLES cancelled, returned, outcome

vars == <<cancelled, returned, outcome>>

Outcome(c) ==
  {o \in [failed : BOOLEAN, missing : BOOLEAN] : o.missing => c}

Init ==
  /\ cancelled \in BOOLEAN
  /\ returned = FALSE
  /\ outcome = [failed |-> FALSE, missing |-> FALSE]

Cancel ==
  /\ ~returned
  /\ cancelled' = TRUE
  /\ UNCHANGED <<returned, outcome>>

Return ==
  /\ ~returned
  /\ returned' = TRUE
  /\ outcome' \in Outcome(cancelled)
  /\ UNCHANGED cancelled

Spec == Init /\ [][Cancel \/ Return]_vars /\ WF_vars(Return)
=============================================================================
