------------------------------ MODULE MCToolRun -----------------------------
(***************************************************************************)
(* Outputs of up to three entries with integers of four bits: files that   *)
(* are empty, fit exactly or overflow in pairs, and each other kind.       *)
(***************************************************************************)
EXTENDS ToolRun, SequencesExt

SmallInt == 7

SomeLimits ==
  {[MaxFiles |-> 2, MaxTotalSize |-> 7, MaxEntrySize |-> 4],
   [MaxFiles |-> 7, MaxTotalSize |-> 7, MaxEntrySize |-> 7],
   [MaxFiles |-> 7, MaxTotalSize |-> 4, MaxEntrySize |-> 7]}

SomeEntries ==
  [kind : {"regular"}, size : {0, 2, 4, 5}] \cup [kind : Kind \ {"regular"}, size : {0}]

UpToThree == BoundedSeq(SomeEntries, 3)
=============================================================================
