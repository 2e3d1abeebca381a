--------------------------- MODULE PipelineProofs ---------------------------
(***************************************************************************)
(* For any number of Grype issues, both policies and every report mode:    *)
(* what Run returns agrees with what it has written.                       *)
(***************************************************************************)
EXTENDS Pipeline, SequenceTheorems, TLAPS

-----------------------------------------------------------------------------
(***************************************************************************)
(* The issues a stage or a report file adds are issues.                    *)
(***************************************************************************)
LEMMA IssuesTyped ==
  /\ \A s \in Stage : Issue(s) \in IssueSet
  /\ \A v \in Verb, f \in Format : <<v, f>> \in IssueSet
BY DEF Issue, IssueSet

(***************************************************************************)
(* The sequences of issues that the actions build are typed.               *)
(***************************************************************************)
LEMMA IssueSequences ==
  /\ <<>> \in Seq(IssueSet)
  /\ \A x \in IssueSet : <<x>> \in Seq(IssueSet) /\ <<x>> # <<>>
  /\ \A x, y \in IssueSet : <<x, y>> \in Seq(IssueSet) /\ <<x, y>> # <<>>
  /\ \A x \in IssueSet, n \in Nat : [i \in 1..n |-> x] \in Seq(IssueSet)
OBVIOUS

(***************************************************************************)
(* What a failing report adds keeps the types (Run, addIssue).             *)
(***************************************************************************)
LEMMA AddFailuresTyped ==
  ASSUME TypeOK, NEW new \in Seq(IssueSet), new # <<>>, AddFailures(new)
  PROVE  /\ issues' \in Seq(IssueSet)
         /\ fatal' \in IssueSet \cup {None, Issue("validate"), Issue("hash")}
<1>1. issues' \in Seq(IssueSet)
  BY ConcatProperties DEF AddFailures, TypeOK
<1>2. Head(new) \in IssueSet
  BY HeadTailProperties
<1> QED
  BY <1>1, <1>2 DEF AddFailures, TypeOK

(***************************************************************************)
(* Run begins well typed.                                                  *)
(***************************************************************************)
LEMMA TypeInit == Init => TypeOK
<1> SUFFICES ASSUME Init PROVE TypeOK
  OBVIOUS
<1>1. tree \in ExtractionResult!Outcome
  BY DEF Init, ExtractionResult!None, ExtractionResult!Outcome, ExtractionResult!Err
<1>2. report \in [Format -> [state : FileState, issues : Seq(IssueSet)]]
  BY DEF Init, FileState
<1>3. issues \in Seq(IssueSet) /\ decisions \in Seq(Decision)
  BY DEF Init
<1>4. /\ pc = "validate" /\ policy \in PolicyMode /\ mode \in ReportMode
      /\ fatal = None /\ scans \in [failed : BOOLEAN, missing : BOOLEAN]
      /\ sbom \in FileState /\ sbomPath \in BOOLEAN /\ reportPath = "none"
  BY DEF Init, FileState
<1>5. humanCount \in Nat /\ exitCode \in 0..2
  BY DEF Init
<1>6. cleaned \in BOOLEAN /\ cancelled \in BOOLEAN
  BY DEF Init
<1> QED
  BY <1>1, <1>2, <1>3, <1>4, <1>5, <1>6 DEF TypeOK

(***************************************************************************)
(* A decision of the policy engine extends the decisions by typed ones.    *)
(***************************************************************************)
LEMMA EvaluateTyped ==
  ASSUME decisions \in Seq(Decision),
         NEW stage \in {"extraction", "assembly", "write-sbom"}, NEW e
  PROVE  Evaluate(stage, e) \in Seq(Decision)
<1> DEFINE d == [trigger |-> IF e = "hard" THEN "hard-security"
                             ELSE IF e = "limit" THEN "limit" ELSE stage,
                 action |-> IF e = "hard" \/ policy = "strict" THEN "abort" ELSE "skip"]
<1>1. d \in Decision
  BY DEF Decision
<1> QED
  BY <1>1 DEF Evaluate

(***************************************************************************)
(* Each stage keeps the types.                                             *)
(***************************************************************************)
LEMMA TypeNext == TypeOK /\ [Next]_vars => TypeOK'
<1> SUFFICES ASSUME TypeOK, [Next]_vars PROVE TypeOK'
  OBVIOUS
<1> USE DEF TypeOK, ExtractionResult!Outcome
<1>1. CASE Reject
  BY <1>1 DEF Reject, outVars
<1>2. CASE Accept
  BY <1>2 DEF Accept, outVars
<1>3. CASE ResolveSandbox
  <2>1. issues' \in Seq(IssueSet)
    <3> HIDE DEF TypeOK, ExtractionResult!Outcome
    <3>1. Issue("sandbox-resolve") \in IssueSet /\ Issue("tool-availability") \in IssueSet
      BY IssuesTyped DEF Stage
    <3>2. \/ issues' = <<>>
          \/ issues' = <<Issue("sandbox-resolve")>>
          \/ issues' = <<Issue("tool-availability")>>
          \/ issues' = <<Issue("tool-availability"), Issue("tool-availability")>>
      BY <1>3 DEF ResolveSandbox
    <3>3. \A s \in {<<Issue("sandbox-resolve")>>, <<Issue("tool-availability")>>,
                   <<Issue("tool-availability"), Issue("tool-availability")>>} :
            s \in Seq(IssueSet)
      BY <3>1, IssueSequences
    <3> QED
      BY <3>2, <3>3, IssueSequences
  <2>2. /\ pc' = "extract"
        /\ UNCHANGED <<policy, mode, fatal, decisions, tree, scans, outVars, cleaned,
                       exitCode, cancelled>>
    BY <1>3 DEF ResolveSandbox
  <2> QED
    BY <2>1, <2>2 DEF outVars
<1>4. CASE Extract
  <2>1. tree' \in ExtractionResult!Outcome
    BY <1>4 DEF Extract
  <2>2. issues' \in Seq(IssueSet)
    <3>1. issues \in Seq(IssueSet)
      OBVIOUS
    <3> HIDE DEF TypeOK, ExtractionResult!Outcome
    <3>2. UNCHANGED issues \/ issues' = Append(issues, Issue("extract"))
      BY <1>4 DEF Extract
    <3> QED
      BY <3>1, <3>2, IssuesTyped DEF Stage
  <2>3. decisions' \in Seq(Decision)
    <3>1. PICK e : \/ UNCHANGED decisions
                   \/ decisions' = Evaluate("extraction", e)
      BY <1>4 DEF Extract
    <3> QED
      BY <3>1, EvaluateTyped
  <2>4. /\ pc' = "scan"
        /\ UNCHANGED <<policy, mode, fatal, scans, outVars, cleaned, exitCode, cancelled>>
    BY <1>4 DEF Extract
  <2> QED
    BY <2>1, <2>2, <2>3, <2>4 DEF outVars
<1>5. CASE ScanAll
  BY <1>5 DEF ScanAll, outVars, ScanResult!Outcome
<1>6. CASE AssembleFails \/ WriteFails
  <2>1. issues' \in Seq(IssueSet)
    <3>1. issues \in Seq(IssueSet)
      OBVIOUS
    <3> HIDE DEF TypeOK, ExtractionResult!Outcome
    <3>2. \/ issues' = Append(issues, Issue("assembly"))
          \/ issues' = Append(issues, Issue("write-sbom"))
      BY <1>6 DEF AssembleFails, WriteFails
    <3> QED
      BY <3>1, <3>2, IssuesTyped DEF Stage
  <2>2. decisions' \in Seq(Decision)
    BY <1>6, EvaluateTyped DEF AssembleFails, WriteFails
  <2>3. CASE AssembleFails
    <3>1. /\ pc' = "vulnscan"
          /\ UNCHANGED <<policy, mode, fatal, tree, scans, outVars, cleaned, exitCode,
                         cancelled>>
      BY <2>3 DEF AssembleFails
    <3> QED
      BY <2>1, <2>2, <3>1 DEF outVars
  <2>4. CASE WriteFails
    BY <2>1, <2>2, <2>4, IssuesTyped DEF WriteFails, Stage, FileState
  <2> QED
    BY <1>6, <2>3, <2>4
<1>7. CASE WriteSBOM
  BY <1>7 DEF WriteSBOM, FileState
<1>8. CASE VulnScan
  <2>1. issues' \in Seq(IssueSet)
    BY <1>8, PipelineAssumption, IssuesTyped, IssueSequences, ConcatProperties
    DEF VulnScan, Stage
  <2> QED
    BY <1>8, <2>1 DEF VulnScan, outVars, Format
<1>9. ASSUME NEW f \in Format, Report(f)
      PROVE  TypeOK'
  <2>1. After(f) \in Format \cup {"rewrite"}
    BY DEF Format, After
  <2>2. CASE Skip(f)
    BY <2>1, <2>2 DEF Skip, outVars
  <2>3. CASE CreateFails(f)
    <3>1. AddFailures(<<<<"create", f>>>>)
      BY <2>3 DEF CreateFails
    <3>2. <<"create", f>> \in IssueSet
      BY IssuesTyped DEF Verb
    <3>3. /\ issues' \in Seq(IssueSet)
          /\ fatal' \in IssueSet \cup {None, Issue("validate"), Issue("hash")}
      BY <3>1, <3>2, IssueSequences, AddFailuresTyped
    <3> QED
      BY <2>1, <2>3, <3>3 DEF CreateFails, outVars
  <2>4. CASE GenerateOrCloseFails(f)
    <3>1. PICK new \in {<<<<"write", f>>>>, <<<<"close", f>>>>,
                         <<<<"close", f>>, <<"write", f>>>>} : AddFailures(new)
      BY <2>4 DEF GenerateOrCloseFails
    <3> DEFINE w == <<"write", f>>
               c == <<"close", f>>
    <3>2. w \in IssueSet /\ c \in IssueSet
      BY IssuesTyped DEF Verb
    <3>3. new \in Seq(IssueSet) /\ new # <<>>
      <4> HIDE DEF TypeOK, ExtractionResult!Outcome, w, c
      <4>1. new = <<w>> \/ new = <<c>> \/ new = <<c, w>>
        BY <3>1 DEF w, c
      <4> QED
        BY <3>2, <4>1, IssueSequences
    <3>4. /\ issues' \in Seq(IssueSet)
          /\ fatal' \in IssueSet \cup {None, Issue("validate"), Issue("hash")}
      BY <3>1, <3>3, AddFailuresTyped
    <3>5. report' \in [Format -> [state : FileState, issues : Seq(IssueSet)]]
      BY <2>4 DEF GenerateOrCloseFails, FileState
    <3> QED
      BY <2>1, <2>4, <3>4, <3>5 DEF GenerateOrCloseFails
  <2>5. CASE Written(f)
    <3>1. report' \in [Format -> [state : FileState, issues : Seq(IssueSet)]]
      BY <2>5 DEF Written, FileState
    <3>2. humanCount' \in Nat
      BY <2>5 DEF Written
    <3>3. reportPath' \in Format \cup {"none"}
      BY <2>5 DEF Written
    <3> QED
      BY <2>1, <2>5, <3>1, <3>2, <3>3 DEF Written
  <2> QED
    BY <1>9, <2>2, <2>3, <2>4, <2>5 DEF Report
<1>10. CASE SkipRewrite
  BY <1>10 DEF SkipRewrite, outVars
<1>11. CASE Rewrite
  BY <1>11 DEF Rewrite, FileState, Format
<1>12. CASE RewriteFails
  <2> DEFINE i == <<"rewrite", "human">>
  <2>1. i \in IssueSet
    BY IssuesTyped DEF Verb, Format
  <2> HIDE DEF i
  <2>2. PICK new : /\ new = <<i>> \/ \E n \in 1..2 : new = [j \in 1..n |-> i]
                   /\ AddFailures(new)
    BY <1>12 DEF RewriteFails, i
  <2>3. new \in Seq(IssueSet) /\ new # <<>>
    <3>1. CASE new = <<i>>
      BY <2>1, <3>1, IssueSequences
    <3>2. ASSUME NEW n \in 1..2, new = [j \in 1..n |-> i]
          PROVE  new \in Seq(IssueSet) /\ new # <<>>
      <4> HIDE DEF TypeOK, ExtractionResult!Outcome
      <4>1. new \in Seq(IssueSet) /\ Len(new) = n
        BY <2>1, <3>2, IssueSequences
      <4> QED
        BY <4>1
    <3> QED
      BY <2>2, <3>1, <3>2
  <2>4. /\ issues' \in Seq(IssueSet)
        /\ fatal' \in IssueSet \cup {None, Issue("validate"), Issue("hash")}
    BY <2>2, <2>3, AddFailuresTyped
  <2>5. report' \in [Format -> [state : FileState, issues : Seq(IssueSet)]]
    <3>1. \/ UNCHANGED report
          \/ report' = [report EXCEPT !["human"] = [state |-> "partial", issues |-> issues]]
      BY <1>12 DEF RewriteFails
    <3>2. [state |-> "partial", issues |-> issues] \in [state : FileState, issues : Seq(IssueSet)]
      BY DEF FileState
    <3> QED
      BY <3>1, <3>2
  <2> QED
    BY <1>12, <2>4, <2>5 DEF RewriteFails
<1>13. CASE CleanupNode
  BY <1>13 DEF CleanupNode, outVars
<1>14. CASE Exit
  BY <1>14 DEF Exit, ExitCode, outVars
<1>15. CASE Cancel
  BY <1>15 DEF Cancel, outVars
<1>16. CASE UNCHANGED vars
  BY <1>16 DEF vars, outVars
<1> QED
  BY <1>1, <1>2, <1>3, <1>4, <1>5, <1>6, <1>7, <1>8, <1>9, <1>10, <1>11, <1>12,
     <1>13, <1>14, <1>15, <1>16 DEF Next, Run, Terminated

(***************************************************************************)
(* Every reachable state of Run is well typed.                             *)
(***************************************************************************)
THEOREM TypeCorrect == Spec => []TypeOK
BY TypeInit, TypeNext, PTL DEF Spec

-----------------------------------------------------------------------------
(***************************************************************************)
(* CleanupNode is the only way to the exit switch.                         *)
(***************************************************************************)
CleanBeforeExit == (pc = "exit" => cleaned) /\ CleanedUp

(***************************************************************************)
(* Each stage keeps CleanBeforeExit.                                       *)
(***************************************************************************)
LEMMA CleanNext == CleanBeforeExit /\ TypeOK /\ [Next]_vars => CleanBeforeExit'
<1> SUFFICES ASSUME CleanBeforeExit, TypeOK, [Next]_vars PROVE CleanBeforeExit'
  OBVIOUS
<1> USE DEF CleanBeforeExit, CleanedUp, Ended, Started
<1>1. CASE Reject
  BY <1>1 DEF Reject
<1>2. CASE Exit \/ CleanupNode
  BY <1>2 DEF Exit, CleanupNode
<1>3. CASE Cancel \/ UNCHANGED vars
  BY <1>3 DEF Cancel, vars
<1>4. CASE \/ Accept \/ ResolveSandbox \/ Extract \/ ScanAll \/ AssembleFails \/ WriteFails
           \/ WriteSBOM \/ VulnScan \/ SkipRewrite \/ Rewrite \/ RewriteFails
  <2>1. pc' \notin {"exit", "done"}
    BY <1>4 DEF Accept, ResolveSandbox, Extract, ScanAll, AssembleFails, WriteFails,
                WriteSBOM, VulnScan, SkipRewrite, Rewrite, RewriteFails
  <2> QED
    BY <2>1
<1>5. ASSUME NEW f \in Format, Report(f)
      PROVE  CleanBeforeExit'
  <2>1. pc' = After(f)
    BY <1>5 DEF Report, Skip, CreateFails, GenerateOrCloseFails, Written
  <2> QED
    BY <2>1 DEF After, Format
<1> QED
  BY <1>1, <1>2, <1>3, <1>4, <1>5 DEF Next, Run, Terminated

(***************************************************************************)
(* Once Extract has run, its temporary directories are removed before Run  *)
(* returns, whatever fails on the way.                                     *)
(***************************************************************************)
THEOREM DirectoriesRemoved == Spec => []CleanedUp
<1>1. Init => CleanBeforeExit
  BY DEF Init, CleanBeforeExit, CleanedUp, Ended
<1>2. CleanBeforeExit => CleanedUp
  BY DEF CleanBeforeExit
<1> QED
  BY <1>1, <1>2, CleanNext, TypeCorrect, PTL DEF Spec

-----------------------------------------------------------------------------
(***************************************************************************)
(* x is the first output failure among the issues s, or there is none.     *)
(***************************************************************************)
IsFirst(x, s, i) ==
  x = s[i] /\ OutputFailure(s[i]) /\ \A j \in 1..(i - 1) : ~OutputFailure(s[j])

FatalMatches(s, x) ==
  IF \E i \in DOMAIN s : OutputFailure(s[i])
  THEN \E i \in DOMAIN s : IsFirst(x, s, i)
  ELSE x = None

(***************************************************************************)
(* A failure is an error.                                                  *)
(***************************************************************************)
LEMMA FailureIsNotNone ==
  ASSUME NEW x, OutputFailure(x) PROVE x # None
BY DEF OutputFailure, None, Issue, Verb

(***************************************************************************)
(* Later issues do not change which failure is the first.                  *)
(***************************************************************************)
LEMMA FirstStays ==
  ASSUME NEW s \in Seq(IssueSet), NEW t \in Seq(IssueSet), NEW x,
         FatalMatches(s, x), x # None
  PROVE  FatalMatches(s \o t, x)
<1>1. PICK i \in DOMAIN s : IsFirst(x, s, i)
  BY DEF FatalMatches
<1>2. i \in 1..Len(s) /\ i \in DOMAIN (s \o t)
  BY ConcatProperties, LenProperties
<1>3. \A j \in 1..i : (s \o t)[j] = s[j]
  BY <1>2, ConcatProperties
<1>4. IsFirst(x, s \o t, i)
  BY <1>1, <1>2, <1>3 DEF IsFirst
<1> QED
  BY <1>2, <1>4 DEF FatalMatches, IsFirst

(***************************************************************************)
(* While there is none, the next issues decide.                            *)
(***************************************************************************)
LEMMA FirstComes ==
  ASSUME NEW s \in Seq(IssueSet), NEW t \in Seq(IssueSet), FatalMatches(s, None)
  PROVE  /\ (\A i \in DOMAIN t : ~OutputFailure(t[i])) => FatalMatches(s \o t, None)
         /\ t # <<>> /\ OutputFailure(Head(t)) => FatalMatches(s \o t, Head(t))
<1>1. \A i \in DOMAIN s : ~OutputFailure(s[i])
  BY FailureIsNotNone DEF FatalMatches, IsFirst
<1>2. /\ DOMAIN s = 1..Len(s) /\ DOMAIN t = 1..Len(t) /\ Len(s) \in Nat /\ Len(t) \in Nat
      /\ DOMAIN (s \o t) = 1..(Len(s) + Len(t))
      /\ \A i \in 1..Len(s) : (s \o t)[i] = s[i]
      /\ \A i \in (Len(s) + 1)..(Len(s) + Len(t)) : (s \o t)[i] = t[i - Len(s)]
  BY ConcatProperties, LenProperties
<1>3. ASSUME \A i \in DOMAIN t : ~OutputFailure(t[i])
      PROVE  FatalMatches(s \o t, None)
  <2>1. \A i \in DOMAIN (s \o t) : ~OutputFailure((s \o t)[i])
    BY <1>1, <1>2, <1>3
  <2> QED
    BY <2>1 DEF FatalMatches
<1>4. ASSUME t # <<>>, OutputFailure(Head(t))
      PROVE  FatalMatches(s \o t, Head(t))
  <2> DEFINE i == Len(s) + 1
  <2>1. Len(t) >= 1 /\ Head(t) = t[1]
    BY <1>4, EmptySeq, HeadTailProperties, <1>2
  <2>2. i \in DOMAIN (s \o t) /\ (s \o t)[i] = t[1]
    BY <1>2, <2>1
  <2>3. \A j \in 1..(i - 1) : ~OutputFailure((s \o t)[j])
    BY <1>1, <1>2
  <2> QED
    BY <1>4, <2>1, <2>2, <2>3 DEF FatalMatches, IsFirst
<1> QED
  BY <1>3, <1>4

(***************************************************************************)
(* The inductive invariant: until the first output fatal is None, and no   *)
(* stage before the extraction has left an issue for ResolveSandbox to     *)
(* overwrite.                                                              *)
(***************************************************************************)
Rejected == pc = "done" /\ ~Started

Early == {"validate", "hash", "sandbox"}

FatalInv ==
  \/ Rejected
  \/ /\ FatalMatches(issues, fatal)
     /\ pc \in Early \cup {"extract", "scan", "assemble"} => fatal = None
     /\ pc \in Early => issues = <<>>

(***************************************************************************)
(* Without issues there is no failure to return.                           *)
(***************************************************************************)
LEMMA NoFailures == FatalMatches(<<>>, None)
BY DEF FatalMatches

(***************************************************************************)
(* A failing report keeps the first failure, or becomes it.                *)
(***************************************************************************)
LEMMA AddFailuresFirst ==
  ASSUME TypeOK, FatalMatches(issues, fatal),
         NEW new \in Seq(IssueSet), new # <<>>, OutputFailure(Head(new)), AddFailures(new)
  PROVE  FatalMatches(issues', fatal')
<1>1. issues \in Seq(IssueSet)
  BY DEF TypeOK
<1>2. CASE fatal = None
  BY <1>1, <1>2, FirstComes DEF AddFailures
<1>3. CASE fatal # None
  BY <1>1, <1>3, FirstStays DEF AddFailures
<1> QED
  BY <1>2, <1>3

(***************************************************************************)
(* A stage that is no output adds its issues without a failure.            *)
(***************************************************************************)
LEMMA AddOthers ==
  ASSUME TypeOK, FatalMatches(issues, fatal),
         NEW t \in Seq(IssueSet), \A i \in DOMAIN t : ~OutputFailure(t[i])
  PROVE  FatalMatches(issues \o t, fatal)
<1>1. issues \in Seq(IssueSet)
  BY DEF TypeOK
<1>2. CASE fatal = None
  BY <1>1, <1>2, FirstComes
<1>3. CASE fatal # None
  BY <1>1, <1>3, FirstStays
<1> QED
  BY <1>2, <1>3

(***************************************************************************)
(* An issue that is no output failure does not change the first one.       *)
(***************************************************************************)
LEMMA AddOther ==
  ASSUME TypeOK, FatalMatches(issues, fatal), NEW x \in IssueSet, ~OutputFailure(x)
  PROVE  FatalMatches(Append(issues, x), fatal)
<1>1. issues \in Seq(IssueSet)
  BY DEF TypeOK
<1>2. <<x>> \in Seq(IssueSet) /\ \A i \in DOMAIN <<x>> : ~OutputFailure(<<x>>[i])
  <2>1. DOMAIN <<x>> = 1..1 /\ <<x>>[1] = x
    OBVIOUS
  <2>2. \A i \in DOMAIN <<x>> : i = 1
    BY <2>1
  <2> QED
    BY <2>1, <2>2, IssueSequences
<1>3. FatalMatches(issues \o <<x>>, fatal)
  BY <1>2, AddOthers
<1> QED
  BY <1>1, <1>3, AppendIsConcat

(***************************************************************************)
(* A run that was rejected is over.                                        *)
(***************************************************************************)
LEMMA RejectedStays == Rejected /\ [Next]_vars => Rejected'
<1> SUFFICES ASSUME Rejected, [Next]_vars PROVE Rejected'
  OBVIOUS
<1>1. pc = "done" /\ \A f \in Format : f # "done"
  BY DEF Rejected, Format
<1>2. UNCHANGED <<pc, fatal>>
  BY <1>1
  DEF Next, Run, Terminated, Report, Skip, CreateFails, GenerateOrCloseFails, Written,
      vars, Reject, Accept, ResolveSandbox, Extract, ScanAll, AssembleFails, WriteFails,
      WriteSBOM, VulnScan, SkipRewrite, Rewrite, RewriteFails, CleanupNode, Exit, Cancel
<1> QED
  BY <1>2 DEF Rejected, Started

(***************************************************************************)
(* Each stage keeps the first failure.                                     *)
(***************************************************************************)
LEMMA FatalNext == FatalInv /\ TypeOK /\ [Next]_vars => FatalInv'
<1> SUFFICES ASSUME FatalInv, TypeOK, [Next]_vars PROVE FatalInv'
  OBVIOUS
<1>0. issues \in Seq(IssueSet)
  BY DEF TypeOK
<1>a. CASE Rejected
  BY <1>a, RejectedStays DEF FatalInv
<1>b. CASE ~Rejected
  <2>1. /\ FatalMatches(issues, fatal)
        /\ pc \in Early \cup {"extract", "scan", "assemble"} => fatal = None
        /\ pc \in Early => issues = <<>>
    BY <1>b DEF FatalInv
  <2>2. CASE Reject
    BY <2>2 DEF Reject, FatalInv, Rejected, Started
  <2>3. CASE Accept \/ Cancel
    BY <2>1, <2>3 DEF Accept, Cancel, FatalInv, Early
  <2>4. CASE ResolveSandbox
    <3>1. pc = "sandbox" /\ fatal = None /\ UNCHANGED fatal /\ pc' = "extract"
      BY <2>1, <2>4 DEF ResolveSandbox, Early
    <3>2. \A i \in DOMAIN issues' : ~OutputFailure(issues'[i])
      BY <2>4 DEF ResolveSandbox, OutputFailure, Issue, Verb
    <3> QED
      BY <3>1, <3>2 DEF FatalInv, FatalMatches, Early
  <2>5. CASE Extract
    <3>1. UNCHANGED issues \/ issues' = Append(issues, Issue("extract"))
      BY <2>5 DEF Extract
    <3>2. FatalMatches(issues', fatal)
      <4> DEFINE x == Issue("extract")
      <4>1. x \in IssueSet /\ ~OutputFailure(x)
        BY IssuesTyped DEF Stage, OutputFailure, Verb, Issue
      <4> HIDE DEF x
      <4>2. FatalMatches(Append(issues, x), fatal)
        BY <2>1, <4>1, AddOther
      <4> QED
        BY <2>1, <3>1, <4>2 DEF x
    <3>3. UNCHANGED fatal /\ pc = "extract" /\ pc' = "scan"
      BY <2>5 DEF Extract
    <3> QED
      BY <2>1, <3>2, <3>3 DEF FatalInv, Early
  <2>6. CASE AssembleFails
    <3> DEFINE x == Issue("assembly")
    <3>1. x \in IssueSet /\ ~OutputFailure(x)
      BY IssuesTyped DEF Stage, OutputFailure, Verb, Issue
    <3>2. issues' = Append(issues, x) /\ UNCHANGED fatal /\ pc' = "vulnscan"
      BY <2>6 DEF AssembleFails
    <3> HIDE DEF x
    <3>3. FatalMatches(Append(issues, x), fatal)
      BY <2>1, <3>1, AddOther
    <3> QED
      BY <3>2, <3>3 DEF FatalInv, Early
  <2>7. CASE WriteFails
    <3> DEFINE x == Issue("write-sbom")
    <3>1. x \in IssueSet /\ OutputFailure(x)
      BY IssuesTyped DEF Stage, OutputFailure, Issue
    <3>2. /\ issues' = Append(issues, x) /\ fatal' = x /\ pc' = "vulnscan"
          /\ fatal = None
      BY <2>1, <2>7 DEF WriteFails
    <3> HIDE DEF x
    <3>3. <<x>> \in Seq(IssueSet) /\ <<x>> # <<>> /\ Head(<<x>>) = x
      BY <3>1, IssueSequences
    <3>4. FatalMatches(issues \o <<x>>, x)
      BY <1>0, <2>1, <3>1, <3>2, <3>3, FirstComes
    <3> QED
      BY <1>0, <3>1, <3>2, <3>4, AppendIsConcat DEF FatalInv, Early
  <2>8. CASE VulnScan
    <3> DEFINE x == Issue("vulnscan")
    <3>1. x \in IssueSet /\ ~OutputFailure(x)
      BY IssuesTyped DEF Stage, OutputFailure, Verb, Issue
    <3>2. /\ \E n \in 0..MaxVulnErrors : issues' = issues \o [i \in 1..n |-> x]
          /\ UNCHANGED fatal /\ pc' = "human"
      BY <2>8 DEF VulnScan
    <3> HIDE DEF x
    <3>3. PICK n \in 0..MaxVulnErrors : issues' = issues \o [i \in 1..n |-> x]
      BY <3>2
    <3>4. [i \in 1..n |-> x] \in Seq(IssueSet)
      BY <3>1, <3>3, PipelineAssumption, IssueSequences
    <3>5. FatalMatches(issues', fatal)
      BY <2>1, <3>1, <3>3, <3>4, AddOthers
    <3> QED
      BY <3>2, <3>5 DEF FatalInv, Early
  <2>9. ASSUME NEW f \in Format, Report(f)
        PROVE  FatalInv'
    <3>1. pc' \notin Early \cup {"extract", "scan", "assemble"}
      BY <2>9 DEF Report, Skip, CreateFails, GenerateOrCloseFails, Written, After,
                  Early, Format
    <3>2. CASE Skip(f) \/ Written(f)
      BY <2>1, <3>1, <3>2 DEF Skip, Written, FatalInv
    <3>3. CASE CreateFails(f) \/ GenerateOrCloseFails(f)
      <4> DEFINE k == <<"create", f>>
                 w == <<"write", f>>
                 c == <<"close", f>>
      <4>1. /\ k \in IssueSet /\ w \in IssueSet /\ c \in IssueSet
            /\ OutputFailure(k) /\ OutputFailure(w) /\ OutputFailure(c)
        BY IssuesTyped DEF Verb, OutputFailure
      <4>2. PICK new \in {<<k>>, <<w>>, <<c>>, <<c, w>>} : AddFailures(new)
        BY <3>3 DEF CreateFails, GenerateOrCloseFails
      <4> HIDE DEF k, w, c
      <4>3. new \in Seq(IssueSet) /\ new # <<>> /\ OutputFailure(Head(new))
        <5>1. Head(new) \in {k, w, c}
          BY <4>1, <4>2
        <5>2. new = <<k>> \/ new = <<w>> \/ new = <<c>> \/ new = <<c, w>>
          BY <4>2
        <5> QED
          BY <4>1, <5>1, <5>2, IssueSequences
      <4>4. FatalMatches(issues', fatal')
        BY <2>1, <4>2, <4>3, AddFailuresFirst
      <4> QED
        BY <3>1, <4>4 DEF FatalInv
    <3> QED
      BY <2>9, <3>2, <3>3 DEF Report
  <2>10. CASE RewriteFails
    <3> DEFINE x == <<"rewrite", "human">>
    <3>1. x \in IssueSet /\ OutputFailure(x)
      BY IssuesTyped DEF Verb, Format, OutputFailure
    <3>2. PICK new : /\ new = <<x>> \/ \E n \in 1..2 : new = [j \in 1..n |-> x]
                     /\ AddFailures(new)
      BY <2>10 DEF RewriteFails
    <3> HIDE DEF x
    <3>3. new \in Seq(IssueSet) /\ new # <<>> /\ OutputFailure(Head(new))
      <4>1. CASE new = <<x>>
        <5>1. Head(new) = x
          BY <4>1
        <5> QED
          BY <3>1, <4>1, <5>1, IssueSequences
      <4>2. ASSUME NEW n \in 1..2, new = [j \in 1..n |-> x]
            PROVE  new \in Seq(IssueSet) /\ new # <<>> /\ OutputFailure(Head(new))
        <5>1. new \in Seq(IssueSet) /\ Len(new) = n
          BY <3>1, <4>2, IssueSequences
        <5>2. new # <<>> /\ Head(new) = new[1] /\ new[1] = x
          BY <4>2, <5>1
        <5> QED
          BY <3>1, <5>1, <5>2
      <4> QED
        BY <3>2, <4>1, <4>2
    <3>4. FatalMatches(issues', fatal')
      BY <2>1, <3>2, <3>3, AddFailuresFirst
    <3>5. pc' = "cleanup"
      BY <2>10 DEF RewriteFails
    <3> QED
      BY <3>4, <3>5 DEF FatalInv, Early
  <2>11. CASE ScanAll \/ WriteSBOM \/ SkipRewrite \/ Rewrite \/ CleanupNode
    <3>1. UNCHANGED <<issues, fatal>> /\ pc' \notin Early \cup {"extract", "scan"}
      BY <2>11 DEF ScanAll, WriteSBOM, SkipRewrite, Rewrite, CleanupNode, Early
    <3>2. pc' = "assemble" => pc = "scan"
      BY <2>11 DEF ScanAll, WriteSBOM, SkipRewrite, Rewrite, CleanupNode
    <3> QED
      BY <2>1, <3>1, <3>2 DEF FatalInv
  <2>12. CASE Exit
    BY <2>1, <2>12 DEF Exit, FatalInv, Early
  <2>13. CASE UNCHANGED vars
    BY <2>1, <2>13 DEF vars, FatalInv
  <2> QED
    BY <2>2, <2>3, <2>4, <2>5, <2>6, <2>7, <2>8, <2>9, <2>10, <2>11, <2>12, <2>13
    DEF Next, Run, Terminated
<1> QED
  BY <1>a, <1>b

(***************************************************************************)
(* FatalInv holds in every reachable state.                                *)
(***************************************************************************)
LEMMA FatalInvariant == Spec => []FatalInv
<1>1. Init => FatalInv
  BY NoFailures DEF Init, FatalInv, Early
<1> QED
  BY <1>1, FatalNext, TypeCorrect, PTL DEF Spec

(***************************************************************************)
(* Result.Error is the first output failure of the run, and there is one   *)
(* whenever an output failed: for any number of issues and failures.       *)
(***************************************************************************)
THEOREM FirstFailureReturned == Spec => []FatalIsFirst
<1>1. FatalInv => FatalIsFirst
  <2> SUFFICES ASSUME FatalInv, Started PROVE FatalIsFirst
    BY DEF FatalIsFirst
  <2>1. FatalMatches(issues, fatal)
    BY DEF FatalInv, Rejected
  <2> QED
    BY <2>1 DEF FatalIsFirst, FatalMatches, IsFirst
<1> QED
  BY <1>1, FatalInvariant, PTL

-----------------------------------------------------------------------------
(***************************************************************************)
(* What is appended to a sequence is in it, with all that was.             *)
(***************************************************************************)
LEMMA EntriesGrow ==
  ASSUME NEW S, NEW s \in Seq(S), NEW t \in Seq(S)
  PROVE  Entries(s) \subseteq Entries(s \o t) /\ Entries(t) \subseteq Entries(s \o t)
<1>1. /\ DOMAIN s = 1..Len(s) /\ DOMAIN t = 1..Len(t) /\ Len(s) \in Nat /\ Len(t) \in Nat
      /\ DOMAIN (s \o t) = 1..(Len(s) + Len(t))
      /\ \A i \in 1..Len(s) : (s \o t)[i] = s[i]
      /\ \A i \in (Len(s) + 1)..(Len(s) + Len(t)) : (s \o t)[i] = t[i - Len(s)]
  BY ConcatProperties, LenProperties
<1>2. \A i \in DOMAIN s : i \in DOMAIN (s \o t) /\ (s \o t)[i] = s[i]
  BY <1>1
<1>3. \A i \in DOMAIN t : Len(s) + i \in DOMAIN (s \o t) /\ (s \o t)[Len(s) + i] = t[i]
  BY <1>1
<1> QED
  BY <1>2, <1>3 DEF Entries

(***************************************************************************)
(* An appended issue is added to those before.                             *)
(***************************************************************************)
LEMMA AppendGrows ==
  ASSUME NEW S, NEW s \in Seq(S), NEW x \in S
  PROVE  Entries(s) \subseteq Entries(Append(s, x)) /\ x \in Entries(Append(s, x))
<1>1. /\ Len(s) \in Nat /\ DOMAIN s = 1..Len(s)
      /\ DOMAIN Append(s, x) = 1..(Len(s) + 1)
      /\ \A i \in 1..Len(s) : Append(s, x)[i] = s[i]
      /\ Append(s, x)[Len(s) + 1] = x
  BY AppendProperties, LenProperties
<1>2. \A i \in DOMAIN s : i \in DOMAIN Append(s, x)
  BY <1>1
<1>3. Len(s) + 1 \in DOMAIN Append(s, x)
  BY <1>1
<1> QED
  BY <1>1, <1>2, <1>3 DEF Entries

(***************************************************************************)
(* What a failing report adds is there afterwards, with all that was.      *)
(***************************************************************************)
LEMMA FailuresKept ==
  ASSUME TypeOK, NEW new \in Seq(IssueSet), new # <<>>, AddFailures(new)
  PROVE  Entries(issues) \subseteq Entries(issues') /\ new[1] \in Entries(issues')
<1>1. Entries(issues) \subseteq Entries(issues') /\ Entries(new) \subseteq Entries(issues')
  BY EntriesGrow DEF AddFailures, TypeOK
<1>2. 1 \in DOMAIN new
  BY LenProperties, EmptySeq
<1> QED
  BY <1>1, <1>2 DEF Entries

(***************************************************************************)
(* A report that fails leaves an issue and a failure.                      *)
(***************************************************************************)
LEMMA ReportFailure ==
  ASSUME TypeOK, NEW f \in Format, CreateFails(f) \/ GenerateOrCloseFails(f)
  PROVE  /\ Entries(issues) \subseteq Entries(issues')
         /\ fatal' # None
         /\ \E v \in Verb : <<v, f>> \in Entries(issues')
<1> DEFINE k == <<"create", f>>
           w == <<"write", f>>
           c == <<"close", f>>
<1>1. /\ k \in IssueSet /\ w \in IssueSet /\ c \in IssueSet
      /\ k # None /\ w # None /\ c # None
  BY IssuesTyped DEF Verb, None, Issue
<1>2. PICK new \in {<<k>>, <<w>>, <<c>>, <<c, w>>} : AddFailures(new)
  BY DEF CreateFails, GenerateOrCloseFails
<1>3. new[1] \in {k, w, c} /\ Head(new) = new[1]
  BY <1>2
<1> HIDE DEF k, w, c
<1>4. new \in Seq(IssueSet) /\ new # <<>>
  <2>1. new = <<k>> \/ new = <<w>> \/ new = <<c>> \/ new = <<c, w>>
    BY <1>2
  <2> QED
    BY <1>1, <2>1, IssueSequences
<1>5. Entries(issues) \subseteq Entries(issues') /\ new[1] \in Entries(issues')
  BY <1>2, <1>4, FailuresKept
<1>6. fatal' # None
  BY <1>1, <1>2, <1>3 DEF AddFailures
<1> QED
  BY <1>3, <1>5, <1>6 DEF k, w, c, Verb

(***************************************************************************)
(* So does the second writing of the human report.                         *)
(***************************************************************************)
LEMMA RewriteFailure ==
  ASSUME TypeOK, RewriteFails
  PROVE  /\ Entries(issues) \subseteq Entries(issues')
         /\ <<"rewrite", "human">> \in Entries(issues')
         /\ fatal' # None
<1> DEFINE x == <<"rewrite", "human">>
<1>1. x \in IssueSet /\ x # None
  BY IssuesTyped DEF Verb, Format, None, Issue
<1>2. PICK new : /\ new = <<x>> \/ \E n \in 1..2 : new = [j \in 1..n |-> x]
                 /\ AddFailures(new)
  BY DEF RewriteFails
<1> HIDE DEF x
<1>3. new \in Seq(IssueSet) /\ new # <<>> /\ new[1] = x /\ Head(new) = x
  <2>1. CASE new = <<x>>
    BY <1>1, <2>1, IssueSequences
  <2>2. ASSUME NEW n \in 1..2, new = [j \in 1..n |-> x]
        PROVE  new \in Seq(IssueSet) /\ new # <<>> /\ new[1] = x /\ Head(new) = x
    <3>1. new \in Seq(IssueSet) /\ Len(new) = n
      BY <1>1, <2>2, IssueSequences
    <3>2. new # <<>> /\ Head(new) = new[1] /\ new[1] = x
      BY <2>2, <3>1
    <3> QED
      BY <3>1, <3>2
  <2> QED
    BY <1>2, <2>1, <2>2
<1>4. Entries(issues) \subseteq Entries(issues') /\ x \in Entries(issues')
  BY <1>2, <1>3, FailuresKept
<1>5. fatal' # None
  BY <1>1, <1>2, <1>3 DEF AddFailures
<1> QED
  BY <1>4, <1>5 DEF x

-----------------------------------------------------------------------------
(***************************************************************************)
(* The inductive invariant: a report's stage is over once the path names   *)
(* it, so that no later stage but the rewrite touches the file.            *)
(***************************************************************************)
Ending == {"cleanup", "exit", "done"}

Past(f) ==
  Ending \cup [human |-> {"machine", "html", "sarif", "rewrite"},
               machine |-> {"html", "sarif", "rewrite"},
               html |-> {"sarif", "rewrite"},
               sarif |-> {"rewrite"}][f]

RewriteFailed == <<"rewrite", "human">> \in Entries(issues) /\ fatal # None

PathsInv ==
  /\ sbomPath => sbom = "complete"
  /\ reportPath # "none" =>
       /\ pc \in Past(reportPath)
       /\ report[reportPath].state = "complete" \/ (pc \in Ending /\ RewriteFailed)

(***************************************************************************)
(* Each stage keeps what is known of the report files.                     *)
(***************************************************************************)
LEMMA PathsNext == PathsInv /\ TypeOK /\ [Next]_vars => PathsInv'
<1> SUFFICES ASSUME PathsInv, TypeOK, [Next]_vars PROVE PathsInv'
  OBVIOUS
<1>0. /\ reportPath \in Format \cup {"none"} /\ issues \in Seq(IssueSet)
      /\ report \in [Format -> [state : FileState, issues : Seq(IssueSet)]]
  BY DEF TypeOK
<1>past. /\ \A f \in Format : Past(f) \cap {"validate", "hash", "sandbox", "extract", "scan",
                                            "assemble", "vulnscan", "human", f} = {}
         /\ \A f \in Format : Ending \cup {"rewrite"} \subseteq Past(f)
         /\ \A f \in Format : After(f) \in Past(f)
         /\ \A f, g \in Format : f \in Past(g) => After(f) \in Past(g)
  BY DEF Past, Ending, Format, After
<1>1. CASE \/ Reject \/ Accept \/ ResolveSandbox \/ Extract \/ ScanAll \/ AssembleFails
           \/ WriteFails \/ WriteSBOM \/ VulnScan
  <2>1. reportPath = "none"
    <3>1. pc \in {"validate", "hash", "sandbox", "extract", "scan", "assemble", "vulnscan"}
      BY <1>1 DEF Reject, Accept, ResolveSandbox, Extract, ScanAll, AssembleFails,
                  WriteFails, WriteSBOM, VulnScan
    <3> QED
      BY <1>0, <1>past, <3>1 DEF PathsInv
  <2>2. UNCHANGED reportPath
    BY <1>1 DEF Reject, Accept, ResolveSandbox, Extract, ScanAll, AssembleFails,
                WriteFails, WriteSBOM, VulnScan, outVars
  <2>3. sbomPath' => sbom' = "complete"
    BY <1>1 DEF Reject, Accept, ResolveSandbox, Extract, ScanAll, AssembleFails,
                WriteFails, WriteSBOM, VulnScan, outVars, PathsInv
  <2> QED
    BY <2>1, <2>2, <2>3 DEF PathsInv
<1>2. ASSUME NEW f \in Format, Report(f)
      PROVE  PathsInv'
  <2>1. /\ pc = f /\ pc' = After(f) /\ UNCHANGED <<sbom, sbomPath>>
        /\ f \notin Ending
    BY <1>2 DEF Report, Skip, CreateFails, GenerateOrCloseFails, Written, outVars,
                Format, Ending
  <2>2. reportPath # "none" =>
          /\ reportPath \in Format /\ reportPath # f
          /\ pc' \in Past(reportPath)
          /\ report[reportPath].state = "complete"
    BY <1>0, <1>past, <2>1 DEF PathsInv
  <2>3. CASE Skip(f) \/ CreateFails(f) \/ GenerateOrCloseFails(f)
    <3>1. UNCHANGED reportPath
      BY <2>3 DEF Skip, CreateFails, GenerateOrCloseFails, outVars
    <3>2. \A g \in Format \ {f} : report'[g] = report[g]
      BY <1>0, <2>3 DEF Skip, CreateFails, GenerateOrCloseFails, outVars
    <3> QED
      BY <2>1, <2>2, <3>1, <3>2 DEF PathsInv
  <2>4. CASE Written(f)
    <3>1. report'[f].state = "complete" /\ \A g \in Format \ {f} : report'[g] = report[g]
      BY <1>0, <2>4 DEF Written
    <3>2. reportPath' = f \/ (reportPath' = reportPath /\ reportPath # "none")
      BY <2>4 DEF Written
    <3> QED
      BY <1>past, <2>1, <2>2, <3>1, <3>2 DEF PathsInv
  <2> QED
    BY <1>2, <2>3, <2>4 DEF Report
<1>3. CASE SkipRewrite \/ Rewrite \/ RewriteFails
  <2>1. /\ pc = "rewrite" /\ pc' = "cleanup"
        /\ UNCHANGED <<sbom, sbomPath, reportPath>>
    BY <1>3 DEF SkipRewrite, Rewrite, RewriteFails, outVars
  <2>2. reportPath # "none" =>
          /\ reportPath \in Format
          /\ pc' \in Past(reportPath)
          /\ report[reportPath].state = "complete"
    BY <1>0, <1>past, <2>1 DEF PathsInv, Ending
  <2>3. CASE SkipRewrite \/ Rewrite
    <3>1. \A g \in Format : report[g].state = "complete" => report'[g].state = "complete"
      BY <1>0, <2>3 DEF SkipRewrite, Rewrite, outVars
    <3> QED
      BY <2>1, <2>2, <3>1 DEF PathsInv
  <2>4. CASE RewriteFails
    <3>1. <<"rewrite", "human">> \in Entries(issues') /\ fatal' # None
      BY <2>4, RewriteFailure
    <3> QED
      BY <2>1, <2>2, <3>1 DEF PathsInv, RewriteFailed, Ending
  <2> QED
    BY <1>3, <2>3, <2>4
<1>4. CASE CleanupNode \/ Exit
  <2>1. /\ pc \in Ending /\ pc' \in Ending
        /\ UNCHANGED <<sbom, sbomPath, report, reportPath, issues, fatal>>
    BY <1>4 DEF CleanupNode, Exit, outVars, Ending
  <2> QED
    BY <1>0, <1>past, <2>1 DEF PathsInv, RewriteFailed, Entries
<1>5. CASE Cancel \/ UNCHANGED vars
  <2>1. UNCHANGED <<pc, sbom, sbomPath, report, reportPath, issues, fatal>>
    BY <1>5 DEF Cancel, vars, outVars
  <2> QED
    BY <2>1 DEF PathsInv, RewriteFailed, Entries
<1> QED
  BY <1>1, <1>2, <1>3, <1>4, <1>5 DEF Next, Run, Terminated

(***************************************************************************)
(* The paths that Run returns name files it has written in full, however   *)
(* many outputs fail; a human report truncated by its rewrite is the       *)
(* exception, and makes the run fail.                                      *)
(***************************************************************************)
THEOREM PathsNameFiles == Spec => []PathsAreWritten
<1>1. Init => PathsInv
  BY DEF Init, PathsInv
<1>2. PathsInv => PathsAreWritten
  BY DEF PathsInv, PathsAreWritten, RewriteFailed
<1> QED
  BY <1>1, <1>2, PathsNext, TypeCorrect, PTL DEF Spec

-----------------------------------------------------------------------------
(***************************************************************************)
(* The inductive invariant: once a stage is over, what it has not          *)
(* completed has left an issue, a decision or a fatal error, and nothing   *)
(* else has.                                                               *)
(***************************************************************************)
Assembled == {"vulnscan", "rewrite"} \cup Format \cup Ending

SBOMIssue ==
  Issue("assembly") \in Entries(issues) \/ Issue("write-sbom") \in Entries(issues)

SBOMExplained ==
  (sbomPath /\ sbom = "complete") \/ (SBOMIssue /\ decisions # <<>>)

ReportFailed(f) == fatal # None /\ \E v \in Verb : <<v, f>> \in Entries(issues)

OutcomeInv ==
  \/ Rejected
  \/ /\ pc \in Early \cup {"extract"} => tree = ExtractionResult!None /\ decisions = <<>>
     /\ tree.err = "hard" => HasHardSecurityIncident
     /\ tree.err # "none" => decisions # <<>>
     /\ decisions # <<>> => tree.err # "none" \/ SBOMIssue
     /\ pc \in Assembled => SBOMExplained
     /\ \A f \in Format :
          pc \in Past(f) /\ Selected(f) => report[f].state = "complete" \/ ReportFailed(f)
     /\ pc = "done" => exitCode = ExitCode

(***************************************************************************)
(* Each stage keeps what is known of the outcome.                          *)
(***************************************************************************)
LEMMA OutcomeNext == OutcomeInv /\ TypeOK /\ [Next]_vars => OutcomeInv'
<1> SUFFICES ASSUME OutcomeInv, TypeOK, [Next]_vars PROVE OutcomeInv'
  OBVIOUS
<1>a. CASE Rejected
  BY <1>a, RejectedStays DEF OutcomeInv
<1>b. CASE ~Rejected
  <2>inv. /\ pc \in Early \cup {"extract"} => tree = ExtractionResult!None /\ decisions = <<>>
          /\ tree.err = "hard" => HasHardSecurityIncident
          /\ tree.err # "none" => decisions # <<>>
          /\ decisions # <<>> => tree.err # "none" \/ SBOMIssue
          /\ pc \in Assembled => SBOMExplained
          /\ \A f \in Format : pc \in Past(f) /\ Selected(f) =>
               report[f].state = "complete" \/ ReportFailed(f)
          /\ pc = "done" => exitCode = ExitCode
    BY <1>b DEF OutcomeInv
  <2>type. /\ issues \in Seq(IssueSet) /\ decisions \in Seq(Decision)
           /\ report \in [Format -> [state : FileState, issues : Seq(IssueSet)]]
    BY DEF TypeOK
  <2>past. /\ \A f \in Format : Past(f) \cap {"validate", "hash", "sandbox", "extract", "scan",
                                              "assemble", "vulnscan", "human", f} = {}
           /\ \A f, g \in Format : After(f) \in Past(g) => f = g \/ f \in Past(g)
           /\ \A f \in Format : "rewrite" \in Past(f) /\ Ending \subseteq Past(f)
    BY DEF Past, Ending, Format, After
  <2>1. CASE Reject
    BY <2>1 DEF Reject, OutcomeInv, Rejected, Started
  <2>2. CASE Accept \/ ResolveSandbox
    <3>1. /\ pc \in Early /\ pc' \in Early \cup {"extract"}
          /\ UNCHANGED <<tree, decisions>>
      BY <2>2 DEF Accept, ResolveSandbox, Early
    <3>2. pc' \notin Assembled /\ \A f \in Format : pc' \notin Past(f)
      BY <2>past, <3>1 DEF Assembled, Early, Format, Ending
    <3> QED
      BY <2>inv, <3>1, <3>2
      DEF OutcomeInv, Assembled, Ending, ExtractionResult!None
  <2>3. CASE Extract
    <3>1. /\ pc = "extract" /\ pc' = "scan"
          /\ decisions = <<>>
      BY <2>inv, <2>3 DEF Extract
    <3>2. \/ tree'.err = "none" /\ UNCHANGED decisions
          \/ tree'.err # "none" /\ decisions' = Evaluate("extraction", tree'.err)
      BY <2>3 DEF Extract
    <3>3. CASE tree'.err = "none" /\ UNCHANGED decisions
      BY <2>past, <3>1, <3>3 DEF OutcomeInv, Early, Assembled, Format, Ending
    <3>4. CASE tree'.err # "none" /\ decisions' = Evaluate("extraction", tree'.err)
      <4> DEFINE d == [trigger |-> IF tree'.err = "hard" THEN "hard-security"
                                   ELSE IF tree'.err = "limit" THEN "limit" ELSE "extraction",
                       action |-> IF tree'.err = "hard" \/ policy = "strict"
                                  THEN "abort" ELSE "skip"]
      <4>1. d \in Decision
        BY DEF Decision
      <4>2. decisions' = Append(decisions, d)
        BY <3>4 DEF Evaluate
      <4>3. tree'.err = "hard" => d.trigger = "hard-security"
        OBVIOUS
      <4> HIDE DEF d
      <4>4. d \in Entries(decisions')
        BY <2>type, <4>1, <4>2, AppendGrows
      <4>5. decisions' # <<>>
        BY <4>4 DEF Entries
      <4>6. tree'.err = "hard" => HasHardSecurityIncident'
        BY <4>3, <4>4 DEF HasHardSecurityIncident
      <4> QED
        BY <2>past, <3>1, <3>4, <4>5, <4>6
        DEF OutcomeInv, Early, Assembled, Format, Ending
    <3> QED
      BY <3>2, <3>3, <3>4
  <2>4. CASE ScanAll
    <3>1. /\ pc = "scan" /\ pc' = "assemble" /\ UNCHANGED <<tree, decisions, issues>>
      BY <2>4 DEF ScanAll
    <3> QED
      BY <2>inv, <2>past, <3>1
      DEF OutcomeInv, Early, Assembled, Format, Ending, HasHardSecurityIncident, SBOMIssue
  <2>5. CASE AssembleFails \/ WriteFails
    <3>1. /\ pc' = "vulnscan" /\ UNCHANGED tree
          /\ \E stage \in {"assembly", "write-sbom"} :
               /\ issues' = Append(issues, Issue(stage))
               /\ decisions' = Evaluate(stage, "other")
      BY <2>5 DEF AssembleFails, WriteFails
    <3>2. PICK stage \in {"assembly", "write-sbom"} :
            /\ issues' = Append(issues, Issue(stage))
            /\ decisions' = Evaluate(stage, "other")
      BY <3>1
    <3> DEFINE d == [trigger |-> stage,
                     action |-> IF policy = "strict" THEN "abort" ELSE "skip"]
    <3>3. d \in Decision /\ decisions' = Append(decisions, d)
      BY <3>2 DEF Decision, Evaluate
    <3> HIDE DEF d
    <3>4. Entries(decisions) \subseteq Entries(decisions') /\ d \in Entries(decisions')
      BY <2>type, <3>3, AppendGrows
    <3>5. decisions' # <<>>
      BY <3>4 DEF Entries
    <3>6. Issue(stage) \in Entries(issues')
      BY <2>type, <3>2, AppendGrows, IssuesTyped DEF Stage
    <3>7. SBOMIssue'
      BY <3>2, <3>6 DEF SBOMIssue
    <3>8. tree.err = "hard" => HasHardSecurityIncident'
      BY <2>inv, <3>4 DEF HasHardSecurityIncident
    <3> QED
      BY <2>past, <3>1, <3>5, <3>7, <3>8 DEF OutcomeInv, SBOMExplained, Early
  <2>6. CASE WriteSBOM
    <3>1. /\ pc' = "vulnscan" /\ sbomPath' /\ sbom' = "complete"
          /\ UNCHANGED <<tree, decisions, issues>>
      BY <2>6 DEF WriteSBOM
    <3> QED
      BY <2>inv, <2>past, <3>1
      DEF OutcomeInv, SBOMExplained, Early, HasHardSecurityIncident, SBOMIssue
  <2>7. CASE VulnScan
    <3>1. /\ pc = "vulnscan" /\ pc' = "human"
          /\ UNCHANGED <<tree, decisions, sbom, sbomPath>>
      BY <2>7 DEF VulnScan, outVars
    <3>2. Entries(issues) \subseteq Entries(issues')
      <4> DEFINE x == Issue("vulnscan")
      <4>1. x \in IssueSet
        BY IssuesTyped DEF Stage
      <4>2. \E n \in 0..MaxVulnErrors : issues' = issues \o [i \in 1..n |-> x]
        BY <2>7 DEF VulnScan
      <4> HIDE DEF x
      <4>3. PICK n \in 0..MaxVulnErrors : issues' = issues \o [i \in 1..n |-> x]
        BY <4>2
      <4>4. [i \in 1..n |-> x] \in Seq(IssueSet)
        BY <4>1, <4>3, PipelineAssumption, IssueSequences
      <4> QED
        BY <2>type, <4>3, <4>4, EntriesGrow
    <3> QED
      BY <2>inv, <2>past, <3>1, <3>2
      DEF OutcomeInv, SBOMExplained, Early, Assembled, HasHardSecurityIncident, SBOMIssue
  <2>8. ASSUME NEW f \in Format, Report(f)
        PROVE  OutcomeInv'
    <3>1. /\ pc = f /\ pc' = After(f)
          /\ UNCHANGED <<mode, tree, decisions, sbom, sbomPath>>
      BY <2>8 DEF Report, Skip, CreateFails, GenerateOrCloseFails, Written, outVars
    <3>2. pc \in Assembled /\ pc' \notin Early \cup {"extract", "done"}
      BY <3>1 DEF Assembled, Format, After, Early
    <3>3. Entries(issues) \subseteq Entries(issues') /\ (fatal # None => fatal' # None)
      <4>1. CASE Skip(f) \/ Written(f)
        BY <4>1 DEF Skip, Written
      <4>2. CASE CreateFails(f) \/ GenerateOrCloseFails(f)
        BY <4>2, ReportFailure
      <4> QED
        BY <2>8, <4>1, <4>2 DEF Report
    <3>4. \A g \in Format \ {f} : report'[g] = report[g]
      BY <2>8, <2>type DEF Report, Skip, CreateFails, GenerateOrCloseFails, Written, outVars
    <3>5. Selected(f) => report'[f].state = "complete" \/ ReportFailed(f)'
      <4>1. CASE Skip(f)
        BY <4>1 DEF Skip
      <4>2. CASE Written(f)
        BY <2>type, <4>2 DEF Written
      <4>3. CASE CreateFails(f) \/ GenerateOrCloseFails(f)
        BY <4>3, ReportFailure DEF ReportFailed
      <4> QED
        BY <2>8, <4>1, <4>2, <4>3 DEF Report
    <3>6. \A g \in Format : pc' \in Past(g) /\ Selected(g)' =>
            report'[g].state = "complete" \/ ReportFailed(g)'
      <4> TAKE g \in Format
      <4>1. Selected(g)' <=> Selected(g)
        BY <3>1 DEF Selected
      <4>2. CASE g = f
        BY <3>5, <4>1, <4>2
      <4>3. CASE g # f
        BY <2>inv, <2>past, <3>1, <3>3, <3>4, <4>1, <4>3 DEF ReportFailed
      <4> QED
        BY <4>2, <4>3
    <3>7. SBOMExplained' /\ (SBOMIssue => SBOMIssue')
      BY <2>inv, <3>1, <3>2, <3>3 DEF SBOMExplained, SBOMIssue
    <3> QED
      BY <2>inv, <3>1, <3>2, <3>6, <3>7 DEF OutcomeInv, HasHardSecurityIncident
  <2>9. CASE SkipRewrite \/ Rewrite \/ RewriteFails
    <3>1. /\ pc = "rewrite" /\ pc' = "cleanup"
          /\ UNCHANGED <<mode, tree, decisions, sbom, sbomPath>>
      BY <2>9 DEF SkipRewrite, Rewrite, RewriteFails, outVars
    <3>2. pc \in Assembled /\ pc' \notin Early \cup {"extract", "done"}
      BY <3>1 DEF Assembled, Early
    <3>3. Entries(issues) \subseteq Entries(issues') /\ (fatal # None => fatal' # None)
      <4>1. CASE SkipRewrite \/ Rewrite
        BY <4>1 DEF SkipRewrite, Rewrite
      <4>2. CASE RewriteFails
        BY <4>2, RewriteFailure
      <4> QED
        BY <2>9, <4>1, <4>2
    <3>4. \A g \in Format :
            \/ report[g].state = "complete" => report'[g].state = "complete"
            \/ ReportFailed(g)'
      <4>1. CASE SkipRewrite \/ Rewrite
        <5>1. \/ UNCHANGED report
              \/ report' = [report EXCEPT !["human"] =
                              [state |-> "complete", issues |-> issues]]
          BY <4>1 DEF SkipRewrite, Rewrite, outVars
        <5>2. \A g \in Format : report[g].state = "complete" => report'[g].state = "complete"
          BY <2>type, <5>1
        <5> QED
          BY <5>2
      <4>2. CASE RewriteFails
        <5>1. \A g \in Format \ {"human"} : report'[g] = report[g]
          <6>1. \/ UNCHANGED report
                \/ report' = [report EXCEPT !["human"] =
                                [state |-> "partial", issues |-> issues]]
            BY <4>2 DEF RewriteFails
          <6> QED
            BY <2>type, <6>1
        <5>2. ReportFailed("human")'
          BY <4>2, RewriteFailure DEF ReportFailed, Verb
        <5> QED
          BY <5>1, <5>2
      <4> QED
        BY <2>9, <4>1, <4>2
    <3>5. \A g \in Format : pc' \in Past(g) /\ Selected(g)' =>
            report'[g].state = "complete" \/ ReportFailed(g)'
      <4> TAKE g \in Format
      <4>1. Selected(g)' <=> Selected(g)
        BY <3>1 DEF Selected
      <4> QED
        BY <2>inv, <2>past, <3>1, <3>3, <3>4, <4>1 DEF ReportFailed
    <3>6. SBOMExplained' /\ (SBOMIssue => SBOMIssue')
      BY <2>inv, <3>1, <3>2, <3>3 DEF SBOMExplained, SBOMIssue
    <3> QED
      BY <2>inv, <3>1, <3>2, <3>5, <3>6 DEF OutcomeInv, HasHardSecurityIncident
  <2>10. CASE CleanupNode \/ Exit \/ Cancel \/ UNCHANGED vars
    <3>1. /\ UNCHANGED <<mode, tree, scans, decisions, issues, fatal, sbom, sbomPath, report>>
          /\ pc' = pc \/ (pc \in Ending /\ pc' \in Ending)
      BY <2>10 DEF CleanupNode, Exit, Cancel, vars, outVars, Ending
    <3>2. ExitCode' = ExitCode
      BY <3>1 DEF ExitCode, HasHardSecurityIncident, HasSkip, HasAbort, TreeIncomplete
    <3>3. pc' = "done" => exitCode' = ExitCode'
      <4>1. CASE CleanupNode
        BY <4>1 DEF CleanupNode
      <4>2. CASE Exit
        BY <3>2, <4>2 DEF Exit
      <4>3. CASE Cancel \/ UNCHANGED vars
        BY <2>inv, <3>2, <4>3 DEF Cancel, vars
      <4> QED
        BY <2>10, <4>1, <4>2, <4>3
    <3>4. \A f \in Format : Selected(f)' <=> Selected(f)
      BY <3>1 DEF Selected
    <3>5. pc' \in Assembled => pc \in Assembled
      BY <3>1 DEF Assembled
    <3>6. pc' \in Early \cup {"extract"} => pc \in Early \cup {"extract"}
      BY <3>1 DEF Ending, Early
    <3>7. \A f \in Format : pc' \in Past(f) => pc \in Past(f)
      BY <2>past, <3>1
    <3> QED
      BY <2>inv, <3>1, <3>3, <3>4, <3>5, <3>6, <3>7
      DEF OutcomeInv, HasHardSecurityIncident, SBOMIssue, SBOMExplained, ReportFailed
  <2> QED
    BY <2>1, <2>2, <2>3, <2>4, <2>5, <2>6, <2>7, <2>8, <2>9, <2>10
    DEF Next, Run, Terminated
<1> QED
  BY <1>a, <1>b

(***************************************************************************)
(* OutcomeInv holds in every reachable state.                              *)
(***************************************************************************)
LEMMA OutcomeInvariant == Spec => []OutcomeInv
<1>1. Init => OutcomeInv
  BY DEF Init, OutcomeInv, Assembled, Ending, Format, Past, ExtractionResult!None
<1> QED
  BY <1>1, OutcomeNext, TypeCorrect, PTL DEF Spec

(***************************************************************************)
(* A hard security event never suppresses an output by itself, and shows   *)
(* in the exit code (DESIGN.md 6.3).                                       *)
(***************************************************************************)
THEOREM SecurityFinalized == Spec => []HardSecurityFinalized
<1>1. OutcomeInv /\ TypeOK => HardSecurityFinalized
  <2> SUFFICES ASSUME OutcomeInv, TypeOK, Ended, HardEvent
               PROVE  /\ exitCode = 2
                      /\ sbom # "complete" =>
                           \E i \in Entries(issues) : i \in {Issue("assembly"), Issue("write-sbom")}
                      /\ \A f \in Format : Selected(f) /\ report[f].state # "complete" =>
                           \E i \in Entries(issues) : i \in Verb \X {f}
    BY DEF HardSecurityFinalized
  <2>1. ~Rejected /\ pc = "done"
    BY DEF Ended, Rejected
  <2>2. "done" \in Assembled /\ \A f \in Format : "done" \in Past(f)
    BY DEF Assembled, Ending, Past
  <2>3. exitCode = 2
    BY <2>1 DEF OutcomeInv, HardEvent, ExitCode
  <2>4. sbom # "complete" => SBOMIssue
    BY <2>1, <2>2 DEF OutcomeInv, SBOMExplained
  <2>5. \A f \in Format : Selected(f) /\ report[f].state # "complete" => ReportFailed(f)
    BY <2>1, <2>2 DEF OutcomeInv
  <2> QED
    BY <2>3, <2>4, <2>5 DEF SBOMIssue, ReportFailed
<1> QED
  BY <1>1, OutcomeInvariant, TypeCorrect, PTL

(***************************************************************************)
(* A scan target can only be without a result in a run that was cancelled. *)
(***************************************************************************)
MissingInv == scans.missing => cancelled

(***************************************************************************)
(* Each stage keeps MissingInv.                                            *)
(***************************************************************************)
LEMMA MissingNext == MissingInv /\ [Next]_vars => MissingInv'
<1> SUFFICES ASSUME MissingInv, [Next]_vars PROVE MissingInv'
  OBVIOUS
<1> USE DEF MissingInv
<1>1. CASE ScanAll
  BY <1>1 DEF ScanAll, ScanResult!Outcome
<1>2. CASE Cancel \/ UNCHANGED vars
  BY <1>2 DEF Cancel, vars
<1>3. CASE \/ Reject \/ Accept \/ ResolveSandbox \/ Extract \/ AssembleFails \/ WriteFails
           \/ WriteSBOM \/ VulnScan \/ SkipRewrite \/ Rewrite \/ RewriteFails
           \/ CleanupNode \/ Exit
  BY <1>3 DEF Reject, Accept, ResolveSandbox, Extract, AssembleFails, WriteFails,
              WriteSBOM, VulnScan, SkipRewrite, Rewrite, RewriteFails, CleanupNode, Exit
<1>4. ASSUME NEW f \in Format, Report(f)
      PROVE  MissingInv'
  BY <1>4 DEF Report, Skip, CreateFails, GenerateOrCloseFails, Written
<1> QED
  BY <1>1, <1>2, <1>3, <1>4 DEF Next, Run, Terminated

(***************************************************************************)
(* Exit code 0 is only given to a run in which nothing failed and no       *)
(* output is missing, and in which every scan target has a result unless   *)
(* the run was cancelled; and any other code has a cause (MODULE_GUIDE.md  *)
(* 3.11 and 3.12).                                                         *)
(***************************************************************************)
THEOREM SuccessJustified == Spec => []SuccessIsComplete
<1>1. OutcomeInv /\ FatalInv /\ MissingInv /\ TypeOK => SuccessIsComplete
  <2> SUFFICES ASSUME OutcomeInv, FatalInv, MissingInv, TypeOK, Ended
               PROVE  SuccessIsComplete
    BY DEF SuccessIsComplete
  <2>1. ~Rejected /\ pc = "done"
    BY DEF Ended, Rejected
  <2>2. "done" \in Assembled /\ \A f \in Format : "done" \in Past(f)
    BY DEF Assembled, Ending, Past
  <2>inv. /\ exitCode = ExitCode
          /\ tree.err # "none" => decisions # <<>>
          /\ decisions # <<>> => tree.err # "none" \/ SBOMIssue
          /\ SBOMExplained
          /\ \A f \in Format : Selected(f) => report[f].state = "complete" \/ ReportFailed(f)
    BY <2>1, <2>2 DEF OutcomeInv
  <2>3. CASE exitCode = 0
    <3>1. /\ fatal = None /\ ~tree.blocked /\ ~HasSkip /\ ~HasAbort
          /\ ~tree.failed /\ ~tree.skipped /\ ~scans.failed
      BY <2>inv, <2>3 DEF ExitCode, TreeIncomplete
    <3>2. decisions = <<>>
      <4>1. SUFFICES ASSUME decisions # <<>> PROVE FALSE
        OBVIOUS
      <4>2. decisions \in Seq(Decision)
        BY DEF TypeOK
      <4>3. 1 \in DOMAIN decisions /\ decisions[1] \in Decision
        BY <4>1, <4>2, LenProperties, EmptySeq, ElementOfSeq
      <4>4. decisions[1] \in Entries(decisions)
        BY <4>3 DEF Entries
      <4>5. decisions[1].action \in {"abort", "skip"}
        BY <4>3 DEF Decision
      <4> QED
        BY <3>1, <4>4, <4>5 DEF HasSkip, HasAbort
    <3>3. tree = ExtractionResult!None
      <4>1. tree \in ExtractionResult!Outcome
        BY DEF TypeOK
      <4>2. tree.err = "none"
        BY <2>inv, <3>2
      <4> QED
        BY <3>1, <4>1, <4>2
        DEF ExtractionResult!Outcome, ExtractionResult!None, ExtractionResult!Err
    <3>4. sbomPath /\ sbom = "complete"
      BY <2>inv, <3>2 DEF SBOMExplained
    <3>5. \A f \in Format : Selected(f) => report[f].state = "complete"
      BY <2>inv, <3>1 DEF ReportFailed
    <3> QED
      BY <2>3, <3>1, <3>2, <3>3, <3>4, <3>5 DEF SuccessIsComplete, MissingInv
  <2>4. CASE exitCode # 0
    <3>1. \/ fatal # None \/ decisions # <<>>
          \/ tree.blocked \/ TreeIncomplete \/ scans.failed
      <4>1. HasHardSecurityIncident \/ HasSkip \/ HasAbort => decisions # <<>>
        BY DEF HasHardSecurityIncident, HasSkip, HasAbort, Entries
      <4> QED
        BY <2>inv, <2>4, <4>1 DEF ExitCode
    <3>2. fatal # None => \E i \in Entries(issues) : OutputFailure(i)
      <4>1. FatalMatches(issues, fatal)
        BY <2>1 DEF FatalInv
      <4> QED
        BY <4>1 DEF FatalMatches, Entries
    <3>3. decisions # <<>> =>
            \/ tree.err # "none"
            \/ \E i \in Entries(issues) : OutputFailure(i) \/ i = Issue("assembly")
      BY <2>inv DEF SBOMIssue, OutputFailure, Issue
    <3> QED
      BY <2>4, <3>1, <3>2, <3>3 DEF SuccessIsComplete
  <2> QED
    BY <2>3, <2>4
<1>2. Init => MissingInv
  BY DEF Init, MissingInv
<1> QED
  BY <1>1, <1>2, MissingNext, OutcomeInvariant, FatalInvariant, TypeCorrect, PTL DEF Spec

-----------------------------------------------------------------------------
(***************************************************************************)
(* The inductive invariant: until the rewrite the human report's issues    *)
(* are a beginning of the run's, and humanCount says how long it is.       *)
(***************************************************************************)
HumanWritten == report["human"].state = "complete"

IsBeginning(s, t) == \E r \in Seq(IssueSet) : t = s \o r

HumanInv ==
  /\ pc # "done" => exitCode = 0
  /\ Rejected => ~HumanWritten
  /\ ~Rejected /\ tree.err # "none" => issues # <<>>
  /\ pc \in Early \cup {"extract", "scan", "assemble", "vulnscan", "human"} =>
       humanCount = 0 /\ ~HumanWritten
  /\ pc \in Past("human") \ Ending =>
       /\ HumanWritten <=> humanCount > 0
       /\ HumanWritten => /\ humanCount = Len(report["human"].issues) + 1
                      /\ IsBeginning(report["human"].issues, issues)
  /\ pc \in Ending /\ HumanWritten =>
       \/ <<"rewrite", "human">> \in Entries(issues)
       \/ report["human"].issues = issues

(***************************************************************************)
(* A beginning stays one when issues are added.                            *)
(***************************************************************************)
LEMMA BeginningGrows ==
  ASSUME NEW s \in Seq(IssueSet), NEW t \in Seq(IssueSet), NEW r \in Seq(IssueSet),
         IsBeginning(s, t)
  PROVE  IsBeginning(s, t \o r)
<1>1. PICK q \in Seq(IssueSet) : t = s \o q
  BY DEF IsBeginning
<1>2. q \o r \in Seq(IssueSet) /\ t \o r = s \o (q \o r)
  BY <1>1, ConcatAssociative, ConcatProperties
<1> QED
  BY <1>2 DEF IsBeginning

(***************************************************************************)
(* A beginning that is not shorter is the whole: what NeedsRewrite tests.  *)
(***************************************************************************)
LEMMA WholeBeginning ==
  ASSUME NEW s \in Seq(IssueSet), NEW t \in Seq(IssueSet),
         IsBeginning(s, t), Len(t) <= Len(s)
  PROVE  s = t
<1>1. PICK r \in Seq(IssueSet) : t = s \o r
  BY DEF IsBeginning
<1>2. Len(t) = Len(s) + Len(r) /\ Len(s) \in Nat /\ Len(r) \in Nat
  BY <1>1, ConcatProperties, LenProperties
<1>3. Len(r) = 0
  BY <1>2
<1>4. r = <<>>
  BY <1>3, EmptySeq
<1> QED
  BY <1>1, <1>4, ConcatEmptySeq

(***************************************************************************)
(* Issues that contain others are not none.                                *)
(***************************************************************************)
LEMMA StillIssues ==
  ASSUME NEW s \in Seq(IssueSet), NEW t \in Seq(IssueSet), s # <<>>,
         Entries(s) \subseteq Entries(t)
  PROVE  t # <<>>
<1>1. Len(s) \in Nat /\ Len(s) # 0 /\ DOMAIN s = 1..Len(s)
  BY EmptySeq, LenProperties
<1>2. 1 \in DOMAIN s
  BY <1>1
<1>3. s[1] \in Entries(t)
  BY <1>2 DEF Entries
<1>4. PICK i \in DOMAIN t : t[i] = s[1]
  BY <1>3 DEF Entries
<1> QED
  BY <1>4

(***************************************************************************)
(* What a failing report adds.                                             *)
(***************************************************************************)
LEMMA FailureSequence ==
  ASSUME TypeOK, NEW f \in Format, CreateFails(f) \/ GenerateOrCloseFails(f)
  PROVE  \E new \in Seq(IssueSet) : issues' = issues \o new
<1> DEFINE k == <<"create", f>>
           w == <<"write", f>>
           c == <<"close", f>>
<1>1. k \in IssueSet /\ w \in IssueSet /\ c \in IssueSet
  BY IssuesTyped DEF Verb
<1>2. PICK new \in {<<k>>, <<w>>, <<c>>, <<c, w>>} : AddFailures(new)
  BY DEF CreateFails, GenerateOrCloseFails
<1> HIDE DEF k, w, c
<1>3. new = <<k>> \/ new = <<w>> \/ new = <<c>> \/ new = <<c, w>>
  BY <1>2
<1>4. new \in Seq(IssueSet)
  BY <1>1, <1>3, IssueSequences
<1> QED
  BY <1>2, <1>4 DEF AddFailures

(***************************************************************************)
(* Each stage keeps what is known of the human report.                     *)
(***************************************************************************)
LEMMA HumanNext ==
  HumanInv /\ OutcomeInv /\ FatalInv /\ TypeOK /\ [Next]_vars => HumanInv'
<1> SUFFICES ASSUME HumanInv, OutcomeInv, FatalInv, TypeOK, [Next]_vars PROVE HumanInv'
  OBVIOUS
<1>inv. /\ pc # "done" => exitCode = 0
        /\ Rejected => ~HumanWritten
        /\ ~Rejected /\ tree.err # "none" => issues # <<>>
        /\ pc \in Early \cup {"extract", "scan", "assemble", "vulnscan", "human"} =>
             humanCount = 0 /\ ~HumanWritten
        /\ pc \in Past("human") \ Ending =>
             /\ HumanWritten <=> humanCount > 0
             /\ HumanWritten => /\ humanCount = Len(report["human"].issues) + 1
                                /\ IsBeginning(report["human"].issues, issues)
        /\ pc \in Ending /\ HumanWritten =>
             \/ <<"rewrite", "human">> \in Entries(issues)
             \/ report["human"].issues = issues
  BY DEF HumanInv
<1>type. /\ issues \in Seq(IssueSet) /\ humanCount \in Nat
         /\ report \in [Format -> [state : FileState, issues : Seq(IssueSet)]]
         /\ report["human"].issues \in Seq(IssueSet)
  BY DEF TypeOK, Format
<1>pcs. /\ Past("human") = {"machine", "html", "sarif", "rewrite"} \cup Ending
        /\ Ending = {"cleanup", "exit", "done"}
        /\ Early = {"validate", "hash", "sandbox"}
  BY DEF Past, Ending, Early
<1>1. CASE Reject
  <2>1. /\ pc \in Early /\ pc' = "done" /\ Rejected'
        /\ UNCHANGED report
    BY <1>1 DEF Reject, outVars, Early, Rejected, Started
  <2>2. ~HumanWritten'
    BY <1>inv, <2>1 DEF HumanWritten
  <2> QED
    BY <1>pcs, <2>1, <2>2 DEF HumanInv
<1>2. CASE \/ Accept \/ ResolveSandbox \/ Extract \/ ScanAll \/ AssembleFails \/ WriteFails
           \/ WriteSBOM \/ VulnScan
  <2>1. /\ pc \in Early \cup {"extract", "scan", "assemble", "vulnscan"}
        /\ pc' \in Early \cup {"extract", "scan", "assemble", "vulnscan", "human"}
        /\ UNCHANGED <<exitCode, humanCount, report>>
    BY <1>2 DEF Accept, ResolveSandbox, Extract, ScanAll, AssembleFails, WriteFails,
                WriteSBOM, VulnScan, outVars, Early
  <2>2. pc # "done" /\ pc' # "done" /\ pc' \notin Past("human")
    BY <1>pcs, <2>1
  <2>3. ~Rejected
    BY <2>2 DEF Rejected
  <2>4. tree'.err # "none" => issues' # <<>>
    <3>1. CASE Accept \/ ResolveSandbox
      <4>1. tree = ExtractionResult!None /\ UNCHANGED tree
        BY <2>3, <3>1 DEF Accept, ResolveSandbox, OutcomeInv, Early
      <4> QED
        BY <4>1 DEF ExtractionResult!None
    <3>2. CASE Extract
      <4>1. tree'.err = "none" \/ issues' = Append(issues, Issue("extract"))
        BY <3>2 DEF Extract
      <4> QED
        BY <1>type, <4>1, IssuesTyped, AppendProperties DEF Stage
    <3>3. CASE ScanAll \/ WriteSBOM
      BY <1>inv, <2>3, <3>3 DEF ScanAll, WriteSBOM
    <3>4. CASE AssembleFails \/ WriteFails
      <4>1. \E stage \in Stage : issues' = Append(issues, Issue(stage))
        BY <3>4 DEF AssembleFails, WriteFails, Stage
      <4> QED
        BY <1>type, <4>1, IssuesTyped, AppendProperties
    <3>5. CASE VulnScan
      <4> DEFINE x == Issue("vulnscan")
      <4>1. x \in IssueSet /\ UNCHANGED tree
        BY <3>5, IssuesTyped DEF VulnScan, Stage
      <4>2. \E n \in 0..MaxVulnErrors : issues' = issues \o [j \in 1..n |-> x]
        BY <3>5 DEF VulnScan
      <4> HIDE DEF x
      <4>3. PICK n \in 0..MaxVulnErrors : issues' = issues \o [j \in 1..n |-> x]
        BY <4>2
      <4>4. [j \in 1..n |-> x] \in Seq(IssueSet)
        BY <4>1, <4>3, PipelineAssumption, IssueSequences
      <4>5. Entries(issues) \subseteq Entries(issues')
        BY <1>type, <4>3, <4>4, EntriesGrow
      <4>6. issues' \in Seq(IssueSet)
        BY <1>type, <4>3, <4>4, ConcatProperties
      <4> QED
        BY <1>inv, <1>type, <2>3, <4>1, <4>5, <4>6, StillIssues
    <3> QED
      BY <1>2, <3>1, <3>2, <3>3, <3>4, <3>5
  <2>5. HumanWritten' <=> HumanWritten
    BY <2>1 DEF HumanWritten
  <2>6. exitCode' = 0 /\ humanCount' = 0 /\ ~HumanWritten' /\ pc' \notin Ending
    BY <1>inv, <1>pcs, <2>1, <2>2, <2>5
  <2>7. ~Rejected'
    BY <2>2 DEF Rejected
  <2> QED
    BY <2>2, <2>4, <2>6, <2>7 DEF HumanInv
<1>3. ASSUME NEW f \in Format, Report(f)
      PROVE  HumanInv'
  <2>1. /\ pc = f /\ pc' = After(f) /\ UNCHANGED <<exitCode, tree>>
    BY <1>3 DEF Report, Skip, CreateFails, GenerateOrCloseFails, Written
  <2>2. /\ pc \notin Ending /\ pc' \in Past("human") \ Ending
        /\ pc' \notin Early \cup {"extract", "scan", "assemble", "vulnscan", "human"}
        /\ f # "human" => pc \in Past("human") \ Ending
    BY <1>pcs, <2>1 DEF Format, After
  <2>3. exitCode' = 0 /\ pc' # "done" /\ ~Rejected' /\ ~Rejected
    BY <1>inv, <1>pcs, <2>1, <2>2 DEF Rejected
  <2>4. \E new \in Seq(IssueSet) : issues' = issues \o new
    <3>1. CASE Skip(f) \/ Written(f)
      <4>1. issues' = issues \o <<>>
        BY <1>type, <3>1, ConcatEmptySeq DEF Skip, Written
      <4> QED
        BY <4>1, IssueSequences
    <3>2. CASE CreateFails(f) \/ GenerateOrCloseFails(f)
      BY <3>2, FailureSequence
    <3> QED
      BY <1>3, <3>1, <3>2 DEF Report
  <2>5. PICK new \in Seq(IssueSet) : issues' = issues \o new
    BY <2>4
  <2>6. tree'.err # "none" => issues' # <<>>
    <3>1. Entries(issues) \subseteq Entries(issues')
      BY <1>type, <2>5, EntriesGrow
    <3>2. issues' \in Seq(IssueSet)
      BY <1>type, <2>5, ConcatProperties
    <3> QED
      BY <1>inv, <1>type, <2>1, <2>3, <3>1, <3>2, StillIssues
  <2>7. /\ HumanWritten' <=> humanCount' > 0
        /\ HumanWritten' => /\ humanCount' = Len(report'["human"].issues) + 1
                            /\ IsBeginning(report'["human"].issues, issues')
    <3>1. CASE f = "human" /\ Written(f)
      <4>1. /\ report'["human"].state = "complete" /\ report'["human"].issues = issues
            /\ humanCount' = Len(issues) + 1 /\ issues' = issues
        BY <1>type, <3>1 DEF Written, Format
      <4>2. IsBeginning(issues, issues)
        BY <1>type, IssueSequences, ConcatEmptySeq DEF IsBeginning
      <4>3. humanCount' > 0
        BY <1>type, <4>1, LenProperties
      <4> QED
        BY <4>1, <4>2, <4>3 DEF HumanWritten
    <3>2. CASE f = "human" /\ ~Written(f)
      <4>1. humanCount' = humanCount /\ report'["human"].state # "complete"
        <5>1. CASE Skip(f) \/ CreateFails(f)
          BY <1>inv, <2>1, <3>2, <5>1 DEF Skip, CreateFails, outVars, HumanWritten
        <5>2. CASE GenerateOrCloseFails(f)
          BY <1>type, <3>2, <5>2 DEF GenerateOrCloseFails, Format
        <5> QED
          BY <1>3, <3>2, <5>1, <5>2 DEF Report
      <4>2. humanCount' = 0
        BY <1>inv, <2>1, <3>2, <4>1
      <4> QED
        BY <4>1, <4>2 DEF HumanWritten
    <3>3. CASE f # "human"
      <4>1. humanCount' = humanCount /\ report'["human"] = report["human"]
        <5>1. CASE Skip(f) \/ CreateFails(f)
          BY <5>1 DEF Skip, CreateFails, outVars
        <5>2. CASE GenerateOrCloseFails(f) \/ Written(f)
          BY <1>type, <3>3, <5>2 DEF GenerateOrCloseFails, Written, Format
        <5> QED
          BY <1>3, <5>1, <5>2 DEF Report
      <4>2. /\ HumanWritten <=> humanCount > 0
            /\ HumanWritten => /\ humanCount = Len(report["human"].issues) + 1
                               /\ IsBeginning(report["human"].issues, issues)
        BY <1>inv, <2>2, <3>3
      <4>3. HumanWritten => IsBeginning(report["human"].issues, issues')
        BY <1>type, <2>5, <4>2, BeginningGrows
      <4> QED
        BY <4>1, <4>2, <4>3 DEF HumanWritten
    <3> QED
      BY <3>1, <3>2, <3>3
  <2> QED
    BY <2>2, <2>3, <2>6, <2>7 DEF HumanInv
<1>4. CASE SkipRewrite \/ Rewrite \/ RewriteFails
  <2>1. /\ pc = "rewrite" /\ pc' = "cleanup" /\ UNCHANGED <<exitCode, tree>>
    BY <1>4 DEF SkipRewrite, Rewrite, RewriteFails
  <2>2. /\ exitCode' = 0 /\ ~Rejected /\ ~Rejected' /\ pc \in Past("human") \ Ending
        /\ pc' \in Ending
        /\ pc' \notin Early \cup {"extract", "scan", "assemble", "vulnscan", "human"}
    BY <1>inv, <1>pcs, <2>1 DEF Rejected
  <2>3. tree'.err # "none" => issues' # <<>>
    <3>1. Entries(issues) \subseteq Entries(issues')
      BY <1>4, RewriteFailure DEF SkipRewrite, Rewrite
    <3>2. issues' \in Seq(IssueSet)
      BY TypeNext DEF TypeOK
    <3> QED
      BY <1>inv, <1>type, <2>1, <2>2, <3>1, <3>2, StillIssues
  <2>4. HumanWritten' =>
          \/ <<"rewrite", "human">> \in Entries(issues')
          \/ report'["human"].issues = issues'
    <3>1. CASE SkipRewrite
      <4>1. ~(humanCount > 0 /\ Len(issues) + 1 > humanCount) /\ UNCHANGED <<report, issues>>
        BY <3>1 DEF SkipRewrite, NeedsRewrite, outVars
      <4>2. ASSUME HumanWritten
            PROVE  report["human"].issues = issues
        <5>1. /\ humanCount > 0 /\ humanCount = Len(report["human"].issues) + 1
              /\ IsBeginning(report["human"].issues, issues)
          BY <1>inv, <2>2, <4>2
        <5>2. Len(issues) \in Nat /\ Len(report["human"].issues) \in Nat
          BY <1>type, LenProperties
        <5>3. Len(issues) <= Len(report["human"].issues)
          BY <4>1, <5>1, <5>2
        <5> QED
          BY <1>type, <5>1, <5>3, WholeBeginning
      <4> QED
        BY <4>1, <4>2 DEF HumanWritten
    <3>2. CASE Rewrite
      BY <1>type, <3>2 DEF Rewrite, Format
    <3>3. CASE RewriteFails
      BY <3>3, RewriteFailure
    <3> QED
      BY <1>4, <3>1, <3>2, <3>3
  <2>5. pc' # "done" /\ pc' \notin Past("human") \ Ending
    BY <2>1, <2>2
  <2> QED
    BY <2>2, <2>3, <2>4, <2>5 DEF HumanInv
<1>5. CASE CleanupNode \/ Exit
  <2>1. /\ pc \in {"cleanup", "exit"} /\ pc' \in Ending
        /\ pc' # "done" => exitCode' = exitCode
        /\ UNCHANGED <<tree, issues, report, fatal>>
    BY <1>5 DEF CleanupNode, Exit, outVars, Ending
  <2>2. pc # "done" /\ pc \in Ending
    BY <1>pcs, <2>1
  <2>3. /\ ~Rejected /\ ~Rejected'
        /\ tree.err # "none" => issues # <<>>
    <3>1. ~Rejected
      BY <2>2 DEF Rejected
    <3>2. FatalMatches(issues, fatal)
      BY <3>1 DEF FatalInv
    <3>3. Started
      BY <3>2 DEF FatalMatches, IsFirst, OutputFailure, Started, None, Issue, Verb
    <3>4. Started'
      BY <2>1, <3>3 DEF Started
    <3> QED
      BY <1>inv, <3>1, <3>4 DEF Rejected
  <2>4. HumanWritten' <=> HumanWritten
    BY <2>1 DEF HumanWritten
  <2>5. pc' \notin Early \cup {"extract", "scan", "assemble", "vulnscan", "human"}
    BY <1>pcs, <2>1
  <2>6. HumanWritten' =>
          \/ <<"rewrite", "human">> \in Entries(issues')
          \/ report'["human"].issues = issues'
    BY <1>inv, <2>1, <2>2, <2>4
  <2>7. pc' # "done" => exitCode' = 0
    BY <1>inv, <2>1, <2>2
  <2> QED
    BY <2>1, <2>3, <2>5, <2>6, <2>7 DEF HumanInv
<1>6. CASE Cancel \/ UNCHANGED vars
  <2>1. UNCHANGED <<pc, exitCode, tree, issues, report, humanCount, fatal>>
    BY <1>6 DEF Cancel, vars, outVars
  <2> QED
    BY <1>inv, <2>1
    DEF HumanInv, HumanWritten, Rejected, Started, IsBeginning, Entries
<1> QED
  BY <1>1, <1>2, <1>3, <1>4, <1>5, <1>6 DEF Next, Run, Terminated

(***************************************************************************)
(* A table prints a source's entries in full unless it has no row left.    *)
(***************************************************************************)
LEMMA TableFull ==
  ASSUME TypeOK, NEW s \in Seq(IssueSet)
  PROVE  /\ \/ PrintedRows(s).pipeline = Len(s)
            \/ PrintedRows(s).extraction + PrintedRows(s).pipeline = MaxRows
         /\ PrintedRows(s) = [extraction |-> 0, pipeline |-> 0, scan |-> 0]
              => s = <<>> /\ ~tree.failed /\ ~tree.blocked /\ ~scans.failed
<1> DEFINE e == ProcessingEntries(s)
           x == Fitting(e.extraction, MaxRows)
           p == Fitting(e.pipeline, MaxRows - x)
           c == Fitting(e.scan, MaxRows - x - p)
<1>1. /\ MaxRows \in Nat \ {0} /\ NodeEntries \in Nat \ {0} /\ ScanEntries \in Nat \ {0}
      /\ Len(s) \in Nat
  BY PipelineAssumption, LenProperties
<1>2. /\ e.extraction = IF tree.failed \/ tree.blocked THEN NodeEntries ELSE 0
      /\ e.pipeline = Len(s)
      /\ e.scan = IF scans.failed THEN ScanEntries ELSE 0
  BY DEF ProcessingEntries
<1>3. PrintedRows(s) = [extraction |-> x, pipeline |-> p, scan |-> c]
  BY DEF PrintedRows
<1>4. /\ e.extraction \in Nat /\ e.pipeline \in Nat /\ e.scan \in Nat
  BY <1>1, <1>2
<1> HIDE DEF e
<1>5. x \in Nat /\ x <= MaxRows /\ (x = 0 => e.extraction = 0)
  BY <1>1, <1>4 DEF Fitting
<1>6. /\ p \in Nat /\ x + p <= MaxRows
      /\ p = e.pipeline \/ x + p = MaxRows
  BY <1>1, <1>4, <1>5 DEF Fitting
<1>7. c = Fitting(e.scan, MaxRows - x - p)
  OBVIOUS
<1> HIDE DEF x, p, c
<1>8. ASSUME x = 0, p = 0, c = 0
      PROVE  e.pipeline = 0 /\ e.scan = 0
  <2>1. MaxRows - x - p = MaxRows
    BY <1>1, <1>8
  <2>2. c = Fitting(e.scan, MaxRows)
    BY <1>7, <2>1
  <2> QED
    BY <1>1, <1>4, <1>6, <1>8, <2>2 DEF Fitting
<1>9. ASSUME x = 0, p = 0, c = 0
      PROVE  s = <<>> /\ ~tree.failed /\ ~tree.blocked /\ ~scans.failed
  <2>1. e.extraction = 0 /\ e.pipeline = 0 /\ e.scan = 0
    BY <1>5, <1>8, <1>9
  <2>2. Len(s) = 0 /\ ~tree.failed /\ ~tree.blocked /\ ~scans.failed
    BY <1>1, <1>2, <2>1
  <2> QED
    BY <2>2, EmptySeq
<1> QED
  BY <1>2, <1>3, <1>6, <1>9

(***************************************************************************)
(* The human report that survives counts every issue of the run and shows  *)
(* each unless its table is full, and it accounts for an exit code that is *)
(* not 0; a rewrite that failed and nodes that were only skipped are the   *)
(* exceptions.                                                             *)
(***************************************************************************)
THEOREM HumanReportComplete == Spec => []HumanReportCurrent
<1>1. Init => HumanInv
  BY DEF Init, HumanInv, HumanWritten, Rejected, Past, Ending, Format,
         ExtractionResult!None
<1>2. HumanInv /\ OutcomeInv /\ FatalInv /\ TypeOK => HumanReportCurrent
  <2> SUFFICES ASSUME HumanInv, OutcomeInv, FatalInv, TypeOK,
                      pc \in Ending, HumanWritten,
                      <<"rewrite", "human">> \notin Entries(issues)
               PROVE  LET printed == PrintedRows(report["human"].issues)
                      IN  /\ report["human"].issues = issues
                          /\ \/ printed.pipeline = Len(issues)
                             \/ printed.extraction + printed.pipeline = MaxRows
                          /\ exitCode # 0
                             /\ printed = [extraction |-> 0, pipeline |-> 0, scan |-> 0]
                               => tree.skipped
    BY DEF HumanReportCurrent, Ending, HumanWritten
  <2>1. report["human"].issues = issues /\ ~Rejected
    BY DEF HumanInv
  <2>2. issues \in Seq(IssueSet)
    BY DEF TypeOK
  <2>3. ASSUME exitCode # 0,
               PrintedRows(issues) = [extraction |-> 0, pipeline |-> 0, scan |-> 0]
        PROVE  tree.skipped
    <3>1. issues = <<>> /\ ~tree.failed /\ ~tree.blocked /\ ~scans.failed
      BY <2>2, <2>3, TableFull
    <3>2. pc = "done" /\ exitCode = ExitCode
      BY <2>1, <2>3 DEF HumanInv, OutcomeInv
    <3>3. Entries(issues) = {} /\ fatal = None
      <4>1. FatalMatches(issues, fatal) /\ DOMAIN issues = {}
        BY <2>1, <3>1 DEF FatalInv
      <4> QED
        BY <4>1 DEF FatalMatches, Entries
    <3>4. decisions = <<>>
      BY <2>1, <3>1, <3>3 DEF HumanInv, OutcomeInv, SBOMIssue
    <3>5. ~HasHardSecurityIncident /\ ~HasSkip /\ ~HasAbort
      BY <3>4 DEF HasHardSecurityIncident, HasSkip, HasAbort, Entries
    <3> QED
      BY <2>3, <3>1, <3>2, <3>3, <3>5 DEF ExitCode, TreeIncomplete
  <2>4. \/ PrintedRows(issues).pipeline = Len(issues)
        \/ PrintedRows(issues).extraction + PrintedRows(issues).pipeline = MaxRows
    BY <2>2, TableFull
  <2> QED
    BY <2>1, <2>3, <2>4
<1> QED
  BY <1>1, <1>2, HumanNext, OutcomeInvariant, FatalInvariant, TypeCorrect, PTL DEF Spec
=============================================================================
