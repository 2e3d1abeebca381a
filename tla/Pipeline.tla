------------------------------ MODULE Pipeline ------------------------------
(***************************************************************************)
(* Package orchestrator: Run, from the validation of the configuration to  *)
(* the exit code, with the decisions of package policy.                    *)
(*                                                                         *)
(* Every stage can fail in every way its code lets it fail.  What          *)
(* extract.Extract and scan.ScanAll return is taken from their contracts,  *)
(* which the modules Extraction and Scan implement.  An issue is its stage *)
(* label, and a file is what this run has written to it; with a report     *)
(* goes the list of issues it was generated from, and PrintedRows says     *)
(* what of it the human report shows.                                      *)
(***************************************************************************)
EXTENDS Naturals, Sequences

CONSTANTS PolicyMode,   \* the values of cfg.PolicyMode to consider
          ReportMode,   \* the values of cfg.ReportMode to consider
          MaxVulnErrors,\* bound: issues a vulnscan run adds
  MaxRows,      \* maxRows of the human report's table, 25 in the code
  NodeEntries,  \* nodes of a tree that get a row, if it has such nodes
  ScanEntries   \* scans with an Error, if there is one

ASSUME PipelineAssumption ==
  /\ PolicyMode \subseteq {"strict", "partial"}
  /\ ReportMode \subseteq {"human", "machine", "html", "sarif", "both", "all"}
  /\ MaxVulnErrors \in Nat
  /\ {MaxRows, NodeEntries, ScanEntries} \subseteq Nat \ {0}

VARIABLES
  pc,              \* the stage Run executes next
  policy,          \* cfg.PolicyMode of this run
  mode,            \* cfg.ReportMode of this run
  issues,          \* issues
  fatal,           \* fatalErr: the issue it stems from, or None
  decisions,       \* policyEngine.decisions
  tree,            \* what Extract returned
  scans,           \* what ScanAll returned
  sbom,            \* the SBOM file
  sbomPath,        \* sbomPath is not ""
  report,          \* the report files
  reportPath,      \* the format reportPath names, or "none"
  humanCount,      \* humanIssueCount + 1
  cleaned,         \* CleanupNode has run
  exitCode,
  cancelled        \* ctx is cancelled

outVars == <<sbom, sbomPath, report, reportPath, humanCount>>
vars == <<pc, policy, mode, issues, fatal, decisions, tree, scans, outVars, cleaned,
          exitCode, cancelled>>

ExtractionResult ==
  INSTANCE ExtractionContract WITH returned <- pc, outcome <- tree

ScanResult == INSTANCE ScanContract WITH returned <- pc, outcome <- scans

Format == {"human", "machine", "html", "sarif"}

(***************************************************************************)
(* The report files a mode asks for.                                       *)
(***************************************************************************)
Selected(f) ==
  \/ mode = f
  \/ mode = "both" /\ f \in {"human", "machine"}
  \/ mode = "all" /\ f # "sarif"

(***************************************************************************)
(* Run writes them in a fixed order.                                       *)
(***************************************************************************)
After(f) == [human |-> "machine", machine |-> "html",
             html |-> "sarif", sarif |-> "rewrite"][f]

(***************************************************************************)
(* An issue: its stage and, if it is about a report, the report.           *)
(***************************************************************************)
Stage == {"sandbox-resolve", "tool-availability", "extract", "assembly",
          "write-sbom", "vulnscan"}

Verb == {"create", "write", "close", "rewrite"}

Issue(stage) == <<stage, "run">>

None == Issue("none")

FileState == {"none", "partial", "complete"}

Entries(s) == {s[i] : i \in DOMAIN s}

-----------------------------------------------------------------------------
Init ==
  /\ pc = "validate"
  /\ policy \in PolicyMode
  /\ mode \in ReportMode
  /\ issues = <<>>
  /\ fatal = None
  /\ decisions = <<>>
  /\ tree = ExtractionResult!None
  /\ scans = [failed |-> FALSE, missing |-> FALSE]
  /\ sbom = "none"
  /\ sbomPath = FALSE
  /\ report = [f \in Format |-> [state |-> "none", issues |-> <<>>]]
  /\ reportPath = "none"
  /\ humanCount = 0
  /\ cleaned = FALSE
  /\ exitCode = 0
  /\ cancelled = FALSE

(***************************************************************************)
(* A configuration that is not valid and an input that cannot be hashed    *)
(* end the run with exit code 2 and no output.                             *)
(***************************************************************************)
Reject ==
  /\ pc \in {"validate", "hash"}
  /\ fatal' = Issue(pc)
  /\ exitCode' = 2
  /\ pc' = "done"
  /\ UNCHANGED <<policy, mode, issues, decisions, tree, scans, outVars, cleaned, cancelled>>

Accept ==
  /\ pc \in {"validate", "hash"}
  /\ pc' = IF pc = "validate" THEN "hash" ELSE "sandbox"
  /\ UNCHANGED <<policy, mode, issues, fatal, decisions, tree, scans, outVars, cleaned,
                 exitCode, cancelled>>

(***************************************************************************)
(* The sandbox is resolved, with an error or not; only if it is available  *)
(* are missing tools noted: 7zz, unshield.                                 *)
(***************************************************************************)
ResolveSandbox ==
  /\ pc = "sandbox"
  /\ issues' \in {<<>>, <<Issue("sandbox-resolve")>>, <<Issue("tool-availability")>>,
                  <<Issue("tool-availability"), Issue("tool-availability")>>}
  /\ pc' = "extract"
  /\ UNCHANGED <<policy, mode, fatal, decisions, tree, scans, outVars, cleaned,
                 exitCode, cancelled>>

(***************************************************************************)
(* Engine.Evaluate: the decision for an error of the class e that a stage  *)
(* met.  The decisions are only recorded; Run goes on in every case, since *)
(* Extract returns a tree with every error.                                *)
(***************************************************************************)
Evaluate(stage, e) ==
  Append(decisions,
         [trigger |-> IF e = "hard" THEN "hard-security"
                      ELSE IF e = "limit" THEN "limit" ELSE stage,
          action |-> IF e = "hard" \/ policy = "strict" THEN "abort" ELSE "skip"])

Extract ==
  /\ pc = "extract"
  /\ \E o \in ExtractionResult!Outcome :
       /\ tree' = o
       /\ IF o.err = "none"
          THEN UNCHANGED <<issues, decisions>>
          ELSE /\ issues' = Append(issues, Issue("extract"))
               /\ decisions' = Evaluate("extraction", o.err)
  /\ pc' = "scan"
  /\ UNCHANGED <<policy, mode, fatal, scans, outVars, cleaned, exitCode, cancelled>>

\* Mutant of ScanAll: tasks are dropped without a cancellation too.
ScanAllDropsTasks ==
  /\ pc = "scan"
  /\ scans' \in ScanResult!Outcome(TRUE)
  /\ pc' = "assemble"
  /\ UNCHANGED <<policy, mode, issues, fatal, decisions, tree, outVars, cleaned,
                 exitCode, cancelled>>

ScanAll ==
  /\ pc = "scan"
  /\ scans' \in ScanResult!Outcome(cancelled)
  /\ pc' = "assemble"
  /\ UNCHANGED <<policy, mode, issues, fatal, decisions, tree, outVars, cleaned,
                 exitCode, cancelled>>

\* Mutant of AssembleFails: an assembly error ends the run.
AssembleFailsReturns ==
  /\ pc = "assemble"
  /\ issues' = Append(issues, Issue("assembly"))
  /\ decisions' = Evaluate("assembly", "other")
  /\ pc' = "exit"
  /\ UNCHANGED <<policy, mode, fatal, tree, scans, outVars, cleaned, exitCode, cancelled>>

(***************************************************************************)
(* An assembly error is an issue and a decision, but not fatal.            *)
(***************************************************************************)
AssembleFails ==
  /\ pc = "assemble"
  /\ issues' = Append(issues, Issue("assembly"))
  /\ decisions' = Evaluate("assembly", "other")
  /\ pc' = "vulnscan"
  /\ UNCHANGED <<policy, mode, fatal, tree, scans, outVars, cleaned, exitCode, cancelled>>

\* Mutant of WriteFails: sbomPath is not reset.
WriteFailsKeepsPath ==
  /\ pc = "assemble"
  /\ sbom' \in {"none", "partial"}
  /\ sbomPath' = TRUE
  /\ issues' = Append(issues, Issue("write-sbom"))
  /\ decisions' = Evaluate("write-sbom", "other")
  /\ fatal' = Issue("write-sbom")
  /\ pc' = "vulnscan"
  /\ UNCHANGED <<policy, mode, tree, scans, report, reportPath, humanCount, cleaned,
                 exitCode, cancelled>>

WriteFails ==
  /\ pc = "assemble"
  /\ sbom' \in {"none", "partial"}
  /\ sbomPath' = FALSE
  /\ issues' = Append(issues, Issue("write-sbom"))
  /\ decisions' = Evaluate("write-sbom", "other")
  /\ fatal' = Issue("write-sbom")
  /\ pc' = "vulnscan"
  /\ UNCHANGED <<policy, mode, tree, scans, report, reportPath, humanCount, cleaned,
                 exitCode, cancelled>>

WriteSBOM ==
  /\ pc = "assemble"
  /\ sbom' = "complete"
  /\ sbomPath' = TRUE
  /\ pc' = "vulnscan"
  /\ UNCHANGED <<policy, mode, issues, fatal, decisions, tree, scans, report, reportPath,
                 humanCount, cleaned, exitCode, cancelled>>

(***************************************************************************)
(* Grype is asked for or not, and what goes wrong becomes issues.          *)
(***************************************************************************)
VulnScan ==
  /\ pc = "vulnscan"
  /\ \E n \in 0..MaxVulnErrors :
       issues' = issues \o [i \in 1..n |-> Issue("vulnscan")]
  /\ pc' = "human"
  /\ UNCHANGED <<policy, mode, fatal, decisions, tree, scans, outVars, cleaned,
                 exitCode, cancelled>>

-----------------------------------------------------------------------------
\* Mutant of AddFailures: a later failure replaces the first.
AddFailuresLast(new) ==
  /\ issues' = issues \o new
  /\ fatal' = Head(new)

(***************************************************************************)
(* Writing the report f: os.Create, Generate on the issues known by then,  *)
(* Close.  Failures are issues, and the first one of the run is fatal.     *)
(***************************************************************************)
AddFailures(new) ==
  /\ issues' = issues \o new
  /\ fatal' = IF fatal = None THEN Head(new) ELSE fatal

Skip(f) ==
  /\ pc = f
  /\ ~Selected(f)
  /\ pc' = After(f)
  /\ UNCHANGED <<policy, mode, issues, fatal, decisions, tree, scans, outVars, cleaned,
                 exitCode, cancelled>>

CreateFails(f) ==
  /\ pc = f
  /\ Selected(f)
  /\ AddFailures(<<<<"create", f>>>>)
  /\ pc' = After(f)
  /\ UNCHANGED <<policy, mode, decisions, tree, scans, outVars, cleaned, exitCode, cancelled>>

GenerateOrCloseFails(f) ==
  /\ pc = f
  /\ Selected(f)
  /\ report' = [report EXCEPT ![f] = [state |-> "partial", issues |-> issues]]
  /\ \E new \in {<<<<"write", f>>>>, <<<<"close", f>>>>,
                 <<<<"close", f>>, <<"write", f>>>>} : AddFailures(new)
  /\ pc' = After(f)
  /\ UNCHANGED <<policy, mode, decisions, tree, scans, sbom, sbomPath, reportPath,
                 humanCount, cleaned, exitCode, cancelled>>

Written(f) ==
  /\ pc = f
  /\ Selected(f)
  /\ report' = [report EXCEPT ![f] = [state |-> "complete", issues |-> issues]]
  /\ reportPath' = IF f = "human" \/ reportPath = "none" THEN f ELSE reportPath
  /\ humanCount' = IF f = "human" THEN Len(issues) + 1 ELSE humanCount
  /\ pc' = After(f)
  /\ UNCHANGED <<policy, mode, issues, fatal, decisions, tree, scans, sbom, sbomPath,
                 cleaned, exitCode, cancelled>>

\* Mutant of NeedsRewrite: the comparison is off by one.
NeedsRewriteLate == humanCount > 0 /\ Len(issues) > humanCount

(***************************************************************************)
(* The human report is generated again if issues came up after it was.     *)
(***************************************************************************)
NeedsRewrite == humanCount > 0 /\ Len(issues) + 1 > humanCount

SkipRewrite ==
  /\ pc = "rewrite"
  /\ ~NeedsRewrite
  /\ pc' = "cleanup"
  /\ UNCHANGED <<policy, mode, issues, fatal, decisions, tree, scans, outVars, cleaned,
                 exitCode, cancelled>>

Rewrite ==
  /\ pc = "rewrite"
  /\ NeedsRewrite
  /\ report' = [report EXCEPT !["human"] = [state |-> "complete", issues |-> issues]]
  /\ pc' = "cleanup"
  /\ UNCHANGED <<policy, mode, issues, fatal, decisions, tree, scans, sbom, sbomPath,
                 reportPath, humanCount, cleaned, exitCode, cancelled>>

(***************************************************************************)
(* os.Create fails and leaves the first version, or what follows it fails  *)
(* and leaves a truncated file, with one issue or two.                     *)
(***************************************************************************)
RewriteFails ==
  /\ pc = "rewrite"
  /\ NeedsRewrite
  /\ \/ /\ AddFailures(<<<<"rewrite", "human">>>>)
        /\ UNCHANGED report
     \/ /\ report' = [report EXCEPT !["human"] =
                        [state |-> "partial", issues |-> issues]]
        /\ \E n \in 1..2 : AddFailures([i \in 1..n |-> <<"rewrite", "human">>])
  /\ pc' = "cleanup"
  /\ UNCHANGED <<policy, mode, decisions, tree, scans, sbom, sbomPath, reportPath,
                 humanCount, cleaned, exitCode, cancelled>>

CleanupNode ==
  /\ pc = "cleanup"
  /\ cleaned' = TRUE
  /\ pc' = "exit"
  /\ UNCHANGED <<policy, mode, issues, fatal, decisions, tree, scans, outVars, exitCode,
                 cancelled>>

-----------------------------------------------------------------------------
HasHardSecurityIncident == \E d \in Entries(decisions) : d.trigger = "hard-security"
HasAbort == \E d \in Entries(decisions) : d.action = "abort"
HasSkip == \E d \in Entries(decisions) : d.action = "skip"

TreeIncomplete == tree.failed \/ tree.skipped

\* Mutant of ExitCode: every issue counts.
ExitCodeAnyIssue ==
  IF fatal # None THEN 2
  ELSE IF HasHardSecurityIncident \/ tree.blocked THEN 2
  ELSE IF HasSkip \/ HasAbort \/ TreeIncomplete \/ scans.failed \/ issues # <<>> THEN 1
  ELSE 0

\* Mutant of ExitCode: failed scans are not looked at.
ExitCodeNoScans ==
  IF fatal # None THEN 2
  ELSE IF HasHardSecurityIncident \/ tree.blocked THEN 2
  ELSE IF HasSkip \/ HasAbort \/ TreeIncomplete THEN 1
  ELSE 0

\* Mutant of ExitCode: the cases are in the wrong order.
ExitCodePartialFirst ==
  IF fatal # None THEN 2
  ELSE IF HasSkip \/ HasAbort \/ TreeIncomplete \/ scans.failed THEN 1
  ELSE IF HasHardSecurityIncident \/ tree.blocked THEN 2
  ELSE 0

(***************************************************************************)
(* The switch at the end of Run.                                           *)
(***************************************************************************)
ExitCode ==
  IF fatal # None THEN 2
  ELSE IF HasHardSecurityIncident \/ tree.blocked THEN 2
  ELSE IF HasSkip \/ HasAbort \/ TreeIncomplete \/ scans.failed THEN 1
  ELSE 0

Exit ==
  /\ pc = "exit"
  /\ exitCode' = ExitCode
  /\ pc' = "done"
  /\ UNCHANGED <<policy, mode, issues, fatal, decisions, tree, scans, outVars, cleaned,
                 cancelled>>

(***************************************************************************)
(* Ctrl-C cancels ctx, which the extraction, the scans and Grype read; of  *)
(* a Ctrl-C after the scans VulnScan already covers the effect.            *)
(***************************************************************************)
Cancel ==
  /\ pc \in {"validate", "hash", "sandbox", "extract", "scan"}
  /\ ~cancelled
  /\ cancelled' = TRUE
  /\ UNCHANGED <<pc, policy, mode, issues, fatal, decisions, tree, scans, outVars,
                 cleaned, exitCode>>

\* Mutant of ProcessingEntries: only nodes that failed are listed.
ProcessingEntriesNotBlocked(reported) ==
  [extraction |-> IF tree.failed THEN NodeEntries ELSE 0,
   pipeline |-> Len(reported),
   scan |-> IF scans.failed THEN ScanEntries ELSE 0]

(***************************************************************************)
(* collectProcessingEntries: how many entries of each source the table of  *)
(* a human report has that is generated from the issues given.             *)
(***************************************************************************)
ProcessingEntries(reported) ==
  [extraction |-> IF tree.failed \/ tree.blocked THEN NodeEntries ELSE 0,
   pipeline |-> Len(reported),
   scan |-> IF scans.failed THEN ScanEntries ELSE 0]

Fitting(n, rows) == IF n <= rows THEN n ELSE rows

\* Mutant of PrintedRows: the pipeline's entries come last.
PrintedRowsPipelineLast(reported) ==
  LET entries == ProcessingEntries(reported)
      extraction == Fitting(entries.extraction, MaxRows)
      scan == Fitting(entries.scan, MaxRows - extraction)
  IN  [extraction |-> extraction,
       pipeline |-> Fitting(entries.pipeline, MaxRows - extraction - scan),
       scan |-> scan]

(***************************************************************************)
(* writeProcessingIssues: the entries are sorted by source, the first      *)
(* MaxRows of them are printed, and a closing line counts the others.      *)
(***************************************************************************)
PrintedRows(reported) ==
  LET entries == ProcessingEntries(reported)
      extraction == Fitting(entries.extraction, MaxRows)
      pipeline == Fitting(entries.pipeline, MaxRows - extraction)
  IN  [extraction |-> extraction,
       pipeline |-> pipeline,
       scan |-> Fitting(entries.scan, MaxRows - extraction - pipeline)]

Terminated == pc = "done" /\ UNCHANGED vars

Report(f) == Skip(f) \/ CreateFails(f) \/ GenerateOrCloseFails(f) \/ Written(f)

Run ==
  \/ Reject
  \/ Accept
  \/ ResolveSandbox
  \/ Extract
  \/ ScanAll
  \/ AssembleFails
  \/ WriteFails
  \/ WriteSBOM
  \/ VulnScan
  \/ \E f \in Format : Report(f)
  \/ SkipRewrite
  \/ Rewrite
  \/ RewriteFails
  \/ CleanupNode
  \/ Exit

Next == Run \/ Cancel \/ Terminated

Spec == Init /\ [][Next]_vars

-----------------------------------------------------------------------------
OutputFailure(i) == i[1] \in Verb \cup {"write-sbom"}

IssueSet == (Stage \X {"run"}) \cup (Verb \X Format)

Decision ==
  [trigger : {"hard-security", "limit", "extraction", "assembly", "write-sbom"},
   action : {"abort", "skip"}]

(***************************************************************************)
(* Every variable holds a value of its type.                               *)
(***************************************************************************)
TypeOK ==
  /\ pc \in Format \cup {"validate", "hash", "sandbox", "extract", "scan", "assemble",
                         "vulnscan", "rewrite", "cleanup", "exit", "done"}
  /\ policy \in PolicyMode
  /\ mode \in ReportMode
  /\ issues \in Seq(IssueSet)
  /\ fatal \in IssueSet \cup {None, Issue("validate"), Issue("hash")}
  /\ decisions \in Seq(Decision)
  /\ tree \in ExtractionResult!Outcome
  /\ scans \in [failed : BOOLEAN, missing : BOOLEAN]
  /\ sbom \in FileState
  /\ sbomPath \in BOOLEAN
  /\ report \in [Format -> [state : FileState, issues : Seq(IssueSet)]]
  /\ reportPath \in Format \cup {"none"}
  /\ humanCount \in Nat
  /\ cleaned \in BOOLEAN
  /\ exitCode \in 0..2
  /\ cancelled \in BOOLEAN

Started == fatal \notin {Issue("validate"), Issue("hash")}

Ended == pc = "done" /\ Started

HardEvent == tree.err = "hard" \/ tree.blocked

(***************************************************************************)
(* DESIGN.md 6.3, "Normative finalization rule": a hard security event     *)
(* never suppresses an output by itself.  An SBOM or a report that is not  *)
(* complete at the end has a failure of its own among the issues, and the  *)
(* event shows in the exit code.                                           *)
(***************************************************************************)
HardSecurityFinalized ==
  Ended /\ HardEvent =>
    /\ exitCode = 2
    /\ sbom # "complete" =>
         \E i \in Entries(issues) : i \in {Issue("assembly"), Issue("write-sbom")}
    /\ \A f \in Format : Selected(f) /\ report[f].state # "complete" =>
         \E i \in Entries(issues) : i \in Verb \X {f}

(***************************************************************************)
(* Exit code 0 is given only to a run whose extraction had no incomplete   *)
(* part and whose scans had no failed one, which made no policy decision   *)
(* and whose SBOM and selected reports were all written in full, whatever  *)
(* failed on the way.  A target that has no result at all is no failed     *)
(* scan, and only a run that was cancelled has one (SuccessIsScanned is    *)
(* about that run).  Any other exit code has a cause of these, which a     *)
(* failure of Grype alone is not (MODULE_GUIDE.md 3.11 and 3.12).          *)
(***************************************************************************)
SuccessIsComplete ==
  Ended =>
    IF exitCode = 0
    THEN /\ tree = ExtractionResult!None
         /\ ~scans.failed
         /\ scans.missing => cancelled
         /\ decisions = <<>>
         /\ sbomPath /\ sbom = "complete"
         /\ \A f \in Format : Selected(f) => report[f].state = "complete"
    ELSE \/ \E i \in Entries(issues) : OutputFailure(i) \/ i = Issue("assembly")
         \/ tree.err # "none" \/ TreeIncomplete \/ tree.blocked
         \/ scans.failed

(***************************************************************************)
(* The human report that survives was generated from all the issues of the *)
(* run, those of the reports written after it included, unless rewriting   *)
(* it failed: it counts them all, and each has a row of its own unless the *)
(* table is full with others (25 nodes that failed leave no row for an     *)
(* issue).  And the table gives a reason for an exit code that is not 0,   *)
(* although the exit code and the table read the tree and the scans each   *)
(* in its own way; a skipped node alone it leaves to the extraction log.   *)
(***************************************************************************)
HumanReportCurrent ==
  pc \in {"cleanup", "exit", "done"} /\ report["human"].state = "complete"
  /\ <<"rewrite", "human">> \notin Entries(issues)
    => LET printed == PrintedRows(report["human"].issues)
       IN  /\ report["human"].issues = issues
           /\ \/ printed.pipeline = Len(issues)
              \/ printed.extraction + printed.pipeline = MaxRows
           /\ exitCode # 0 /\ printed = [extraction |-> 0, pipeline |-> 0, scan |-> 0]
                => tree.skipped

(***************************************************************************)
(* Result.Error is the first output failure of the run, though later       *)
(* stages go on and fail in their turn, and it is documented among the     *)
(* issues.                                                                 *)
(***************************************************************************)
FatalIsFirst ==
  Started =>
    IF \E i \in DOMAIN issues : OutputFailure(issues[i])
    THEN \E i \in DOMAIN issues :
           /\ fatal = issues[i] /\ OutputFailure(issues[i])
           /\ \A j \in 1..(i - 1) : ~OutputFailure(issues[j])
    ELSE fatal = None

(***************************************************************************)
(* The paths Run returns name files that this run has written in full; the *)
(* report only loses that when rewriting it fails, which is then fatal.    *)
(***************************************************************************)
PathsAreWritten ==
  /\ sbomPath => sbom = "complete"
  /\ reportPath # "none" =>
       \/ report[reportPath].state = "complete"
       \/ <<"rewrite", "human">> \in Entries(issues) /\ fatal # None

(***************************************************************************)
(* Once Extract has run, its temporary directories are removed before Run  *)
(* returns, on every path.                                                 *)
(***************************************************************************)
CleanedUp == Ended => cleaned

-----------------------------------------------------------------------------
(***************************************************************************)
(* USAGE.md:104: "`0`: success (all relevant subtrees fully processed)":   *)
(* with exit code 0 no scan target is without a result.                    *)
(***************************************************************************)
SuccessIsScanned == Ended /\ exitCode = 0 => ~scans.missing
=============================================================================
