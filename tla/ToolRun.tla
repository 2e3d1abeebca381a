------------------------------ MODULE ToolRun -------------------------------
(***************************************************************************)
(* One run of an external tool: sandbox.Resolve and the Run of the sandbox *)
(* it selects, the rewriting of the tool's arguments, and the check of the *)
(* output, ValidatePostExtraction and summarizeExtractedDir.  Extraction   *)
(* takes the results of this as choices: "failed" is RunFails, "extracted" *)
(* AcceptOutput, and the others RejectOutput.                              *)
(*                                                                         *)
(* Sizes are int64 in the code; here every sum and difference of two wraps *)
(* around outside -MaxInt - 1 .. MaxInt.                                   *)
(***************************************************************************)
EXTENDS Integers, Sequences, FiniteSets

CONSTANTS MaxInt,   \* math.MaxInt64
          Limits,   \* the limits a configuration can have
          Output    \* what tools can write, in the order of filepath.Walk

Kind == {"regular", "dir", "symlink", "special", "dotted", "unreadable"}

ASSUME ToolRunAssumption ==
  /\ MaxInt \in Nat \ {0}
  /\ Limits \subseteq [MaxFiles : 1..MaxInt, MaxTotalSize : 1..MaxInt,
                       MaxEntrySize : 1..MaxInt]
  /\ Output \subseteq Seq([kind : Kind, size : 0..MaxInt])
  /\ <<>> \in Output

VARIABLES
  pc,        \* "resolve", "run", "validate", "summarize" or "done"
  bwrap,     \* NewBwrapSandbox().Available()
  unsafe,    \* cfg.Unsafe
  limits,    \* cfg.Limits
  tool,
  sandbox,   \* the sandbox selected
  written,   \* what the tool has written
  output,    \* what is in the output directory
  next,      \* the entry that the walk of the directory visits next
  stats,     \* ExtractionStats
  seen,      \* history: the same counters without a limit of width
  summary,   \* what becomes node.EntriesCount and node.TotalSize
  result     \* how the run ended

inputVars == <<bwrap, unsafe, limits, tool>>
vars == <<pc, inputVars, sandbox, written, output, next, stats, seen, summary, result>>

Wrap(x) ==
  IF x > MaxInt THEN x - 2 * (MaxInt + 1)
  ELSE IF x < -MaxInt - 1 THEN x + 2 * (MaxInt + 1) ELSE x

-----------------------------------------------------------------------------
(***************************************************************************)
(* The argument that names the output directory, and what a sandbox makes  *)
(* of it.  replacePrefix only knows a path at the start of an argument.    *)
(***************************************************************************)
OutputArg ==
  [flag |-> IF tool = "7z" THEN "-o" ELSE "", path |-> "host"]

ReplacePrefix(arg) == IF arg.flag = "" THEN [arg EXCEPT !.path = "/output"] ELSE arg

(***************************************************************************)
(* A host path does not exist inside Bubblewrap; what a tool writes there  *)
(* goes to a file system that ends with the process.                       *)
(***************************************************************************)
Arrives == sandbox = "bwrap" => ReplacePrefix(OutputArg).path = "/output"

Init ==
  /\ pc = "resolve"
  /\ bwrap \in BOOLEAN
  /\ unsafe \in BOOLEAN
  /\ limits \in Limits
  /\ tool \in {"7z", "unshield", "unsquashfs"}
  /\ sandbox = "none"
  /\ written = <<>>
  /\ output = <<>>
  /\ next = 1
  /\ stats = [FileCount |-> 0, TotalSize |-> 0]
  /\ seen = [FileCount |-> 0, TotalSize |-> 0]
  /\ summary = [EntriesCount |-> 0, TotalSize |-> 0]
  /\ result = "none"

Resolve ==
  /\ pc = "resolve"
  /\ sandbox' = IF bwrap THEN "bwrap" ELSE IF unsafe THEN "passthrough" ELSE "denied"
  /\ pc' = "run"
  /\ UNCHANGED <<inputVars, written, output, next, stats, seen, summary, result>>

(***************************************************************************)
(* The sandbox refuses, the tool is not found or its exit code is not 0.   *)
(***************************************************************************)
RunFails ==
  /\ pc = "run"
  /\ result' = "failed"
  /\ pc' = "done"
  /\ UNCHANGED <<inputVars, sandbox, written, output, next, stats, seen, summary>>

RunSucceeds ==
  /\ pc = "run"
  /\ sandbox # "denied"
  /\ written' \in Output
  /\ output' = IF Arrives THEN written' ELSE <<>>
  /\ pc' = "validate"
  /\ UNCHANGED <<inputVars, sandbox, next, stats, seen, summary, result>>

-----------------------------------------------------------------------------
(***************************************************************************)
(* The walk function of ValidatePostExtraction: ValidatePath, which treats *)
(* a name that begins with two dots as a traversal, the test for a symlink *)
(* and ValidateEntry.  The compressed size is not known here, so there is  *)
(* no test of the compression ratio.                                       *)
(***************************************************************************)
Illegal(e) == e.kind \in {"dotted", "symlink", "special"}

\* Mutant of ExceedsLimit: the file that just fits is one too many.
ExceedsLimitTight(e) ==
  \/ e.size > limits.MaxEntrySize
  \/ stats.FileCount >= limits.MaxFiles
  \/ e.size >= Wrap(limits.MaxTotalSize - stats.TotalSize)

\* Mutant of ExceedsLimit: the sum is tested instead of the difference.
ExceedsLimitSum(e) ==
  \/ e.size > limits.MaxEntrySize
  \/ stats.FileCount >= limits.MaxFiles
  \/ Wrap(stats.TotalSize + e.size) > limits.MaxTotalSize

\* Mutant of ExceedsLimit: the count is tested as if it were incremented.
ExceedsLimitLate(e) ==
  \/ e.size > limits.MaxEntrySize
  \/ stats.FileCount > limits.MaxFiles
  \/ e.size > Wrap(limits.MaxTotalSize - stats.TotalSize)

ExceedsLimit(e) ==
  \/ e.size > limits.MaxEntrySize
  \/ stats.FileCount >= limits.MaxFiles
  \/ e.size > Wrap(limits.MaxTotalSize - stats.TotalSize)

Verdict(e) ==
  IF Illegal(e) THEN "hard"
  ELSE IF e.kind = "unreadable" THEN "other"
  ELSE IF e.kind = "regular" /\ ExceedsLimit(e) THEN "limit"
  ELSE "none"

Rejects ==
  /\ pc = "validate"
  /\ next <= Len(output)
  /\ Verdict(output[next]) # "none"
  /\ result' = Verdict(output[next])
  /\ pc' = "done"
  /\ UNCHANGED <<inputVars, sandbox, written, output, next, stats, seen, summary>>

Passes ==
  /\ pc = "validate"
  /\ next <= Len(output)
  /\ LET e == output[next]
     IN  /\ Verdict(e) = "none"
         /\ IF e.kind = "regular"
            THEN /\ stats' = [FileCount |-> stats.FileCount + 1,
                              TotalSize |-> Wrap(stats.TotalSize + e.size)]
                 /\ seen' = [FileCount |-> seen.FileCount + 1,
                             TotalSize |-> seen.TotalSize + e.size]
            ELSE UNCHANGED <<stats, seen>>
  /\ next' = next + 1
  /\ UNCHANGED <<pc, inputVars, sandbox, written, output, summary, result>>

Validated ==
  /\ pc = "validate"
  /\ next > Len(output)
  /\ next' = 1
  /\ pc' = "summarize"
  /\ UNCHANGED <<inputVars, sandbox, written, output, stats, seen, summary, result>>

-----------------------------------------------------------------------------
(***************************************************************************)
(* The walk function of summarizeExtractedDir, which has a rule of its own *)
(* for what it counts, and no limit.                                       *)
(***************************************************************************)

\* Mutant of Counts: directories are counted.
CountsAll(e) == e.kind \in {"regular", "dir"}

Counts(e) == e.kind = "regular"

Summarizes ==
  /\ pc = "summarize"
  /\ next <= Len(output)
  /\ summary' =
       IF Counts(output[next])
       THEN [EntriesCount |-> summary.EntriesCount + 1,
             TotalSize |-> Wrap(summary.TotalSize + output[next].size)]
       ELSE summary
  /\ next' = next + 1
  /\ UNCHANGED <<pc, inputVars, sandbox, written, output, stats, seen, result>>

(***************************************************************************)
(* The second walk can fail at any entry.                                  *)
(***************************************************************************)
SummaryFails ==
  /\ pc = "summarize"
  /\ result' = "other"
  /\ pc' = "done"
  /\ UNCHANGED <<inputVars, sandbox, written, output, next, stats, seen, summary>>

Accepts ==
  /\ pc = "summarize"
  /\ next > Len(output)
  /\ result' = "extracted"
  /\ pc' = "done"
  /\ UNCHANGED <<inputVars, sandbox, written, output, next, stats, seen, summary>>

Terminated == pc = "done" /\ UNCHANGED vars

Next ==
  \/ Resolve
  \/ RunFails
  \/ RunSucceeds
  \/ Rejects
  \/ Passes
  \/ Validated
  \/ Summarizes
  \/ SummaryFails
  \/ Accepts
  \/ Terminated

Spec == Init /\ [][Next]_vars

-----------------------------------------------------------------------------
Counters == [FileCount : 0..MaxInt, TotalSize : 0..MaxInt]

(***************************************************************************)
(* Every variable holds a value of its type; the counters are never        *)
(* negative.                                                               *)
(***************************************************************************)
TypeOK ==
  /\ pc \in {"resolve", "run", "validate", "summarize", "done"}
  /\ bwrap \in BOOLEAN
  /\ unsafe \in BOOLEAN
  /\ limits \in Limits
  /\ tool \in {"7z", "unshield", "unsquashfs"}
  /\ sandbox \in {"none", "bwrap", "passthrough", "denied"}
  /\ written \in Output
  /\ output \in Output
  /\ next \in 1..(Len(output) + 1)
  /\ stats \in Counters
  /\ seen \in [FileCount : Nat, TotalSize : Nat]
  /\ summary \in [EntriesCount : 0..MaxInt, TotalSize : 0..MaxInt]
  /\ result \in {"none", "failed", "hard", "other", "limit", "extracted"}

(***************************************************************************)
(* The counters that ValidateEntry decides on are the real count and sum:  *)
(* no file is missed and no addition wraps around, also when a limit is as *)
(* large as an int64, and they never pass the limits.                      *)
(***************************************************************************)
CountersExact ==
  /\ stats = seen
  /\ stats.FileCount <= limits.MaxFiles
  /\ stats.TotalSize <= limits.MaxTotalSize

(***************************************************************************)
(* The files of an output, and the total size of those among its first i   *)
(* entries, as a function of i.                                            *)
(***************************************************************************)
Files(s) == {i \in DOMAIN s : s[i].kind = "regular"}

FileSize(e) == IF e.kind = "regular" THEN e.size ELSE 0

SizesUpTo(s) ==
  LET total[i \in 0..Len(s)] == IF i = 0 THEN 0 ELSE total[i - 1] + FileSize(s[i])
  IN  total

(***************************************************************************)
(* An output is accepted only if all its entries are legal and within the  *)
(* limits, each by itself and all together in number and size; it is only  *)
(* rejected for what the offending entry is or for a limit it really       *)
(* exceeds, the last file that fits being accepted.                        *)
(***************************************************************************)
VerdictExact ==
  /\ result = "extracted" =>
       /\ \A i \in DOMAIN output :
            /\ output[i].kind \in {"regular", "dir"}
            /\ output[i].kind = "regular" => output[i].size <= limits.MaxEntrySize
       /\ Cardinality(Files(output)) <= limits.MaxFiles
       /\ SizesUpTo(output)[Len(output)] <= limits.MaxTotalSize
  /\ result = "hard" => Illegal(output[next])
  /\ result = "limit" =>
       /\ output[next].kind = "regular"
       /\ \/ output[next].size > limits.MaxEntrySize
          \/ seen.FileCount + 1 > limits.MaxFiles
          \/ seen.TotalSize + output[next].size > limits.MaxTotalSize

(***************************************************************************)
(* The metrics of the node, which a second walk collects without looking   *)
(* at the limits, are those that the validation has tested against them.   *)
(***************************************************************************)
SummaryMatches ==
  result = "extracted" =>
    /\ summary.EntriesCount = stats.FileCount
    /\ summary.TotalSize = stats.TotalSize

-----------------------------------------------------------------------------
(***************************************************************************)
(* MODULE_GUIDE.md:430 gives the command as "-- 7zz x /input/<filename>    *)
(* -o/output": what a successful tool has written is in the output         *)
(* directory that is validated and walked.                                 *)
(***************************************************************************)
OutputArrives == result = "extracted" => output = written
=============================================================================
