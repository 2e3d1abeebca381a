-------------------------- MODULE ExtractionProofs --------------------------
(***************************************************************************)
(* For any delivery, any nesting and any behaviour of the tools: no        *)
(* temporary directory is lost, shared or left behind, no extracted file   *)
(* is lost, a rejected output is never walked, each password is tried, and *)
(* violations travel as the policy says.                                   *)
(***************************************************************************)
EXTENDS Extraction, FiniteSetTheorems, TLAPS

(***************************************************************************)
(* extractRecursive(cur) before its walk: cur has no children yet.         *)
(***************************************************************************)
Working == pc \in {"visit", "attempt", "run", "validate", "handled"}

Running == pc \notin {"done", "cleaned"}

(***************************************************************************)
(* The open calls form one chain of parent links that ends in cur.         *)
(***************************************************************************)
CallStack ==
  /\ Running => call[cur] = "open"
  /\ ~Running => cur = Root
  /\ parent[Root] = NoArtifact
  /\ \A a \in Artifact : call[a] = "open" /\ a # Root =>
       parent[a] \in Artifact /\ call[parent[a]] = "open"
  /\ \A a \in Artifact : parent[a] = cur => call[a] # "open"
  /\ \A a, b \in Artifact :
       call[a] = "open" /\ call[b] = "open" /\ a # Root /\ parent[a] = parent[b] => a = b

(***************************************************************************)
(* What no walk has reached is untouched, and only a node on the stack has *)
(* entries left to visit.                                                  *)
(***************************************************************************)
Untouched ==
  /\ \A a \in Artifact : call[a] = "idle" => parent[a] = NoArtifact /\ dir[a] = NoDir
  /\ \A a \in Artifact \ {Root} : parent[a] = NoArtifact => call[a] = "idle"
  /\ \A a \in Artifact : unread[a] # {} => call[a] = "open" /\ (a = cur => pc = "walk")
  /\ \A a \in Artifact : parent[a] \in Artifact => call[parent[a]] # "idle"
  /\ Working => \A a \in Artifact : parent[a] # cur

(***************************************************************************)
(* A file is below one directory at most, and a file that was visited is   *)
(* below the directory of its parent.                                      *)
(***************************************************************************)
FilesPlaced ==
  pc # "cleaned" =>
    /\ \A d \in Dir : d \notin disk \/ d = tmp => files[d] = {}
    /\ \A d, e \in Dir : d # e => files[d] \cap files[e] = {}
    /\ \A d \in Dir : Root \notin files[d]
    /\ \A a \in Artifact : parent[a] \in Artifact =>
         dir[parent[a]] # NoDir /\ a \in files[dir[parent[a]]]
    /\ \A a \in Artifact : \A c \in unread[a] :
         dir[a] # NoDir /\ c \in files[dir[a]] /\ call[c] = "idle"
    /\ \A d \in Dir : \A a \in files[d] : call[a] # "idle" =>
         parent[a] \in Artifact /\ dir[parent[a]] = d

(***************************************************************************)
(* Every directory belongs to the attempt or to one node, which the        *)
(* orchestrator can still reach or which is being worked on.               *)
(***************************************************************************)
DirsOwned ==
  pc # "cleaned" =>
    /\ tmp # NoDir <=> pc \in {"run", "validate"}
    /\ tmp # NoDir => tmp \in disk
    /\ \A d \in disk : d # tmp => \E n \in Node : dir[n] = d
    /\ \A n \in Node : dir[n] # NoDir =>
         n \in Tracked /\ dir[n] \in disk /\ dir[n] # tmp
    /\ \A m, n \in Node : dir[m] = dir[n] /\ dir[m] # NoDir => m = n

(***************************************************************************)
(* Which nodes have a directory at which point.                            *)
(***************************************************************************)
DirsTimely ==
  /\ \A n \in Node : dir[n] # NoDir => status[n] \in {"extracted", "blocked"}
  /\ pc = "visit" => dir[cur] = NoDir
  /\ pc = "walk" => dir[cur] # NoDir
  /\ pc \in {"attempt", "run", "validate"} => dir[target] = NoDir
  /\ pc = "handled" =>
       /\ err # "none" => dir[target] = NoDir
       /\ err = "none" => (status[target] = "extracted" <=> dir[target] # NoDir)
  /\ target = InnerNode => pc \in {"attempt", "run", "validate", "handled"} /\ dir[cur] # NoDir
  /\ dir[InnerNode] # NoDir => pc = "handled" /\ target = InnerNode /\ err = "none"

(***************************************************************************)
(* A node whose output was rejected is on its way out of extractRecursive. *)
(***************************************************************************)
RejectedLeaves ==
  \A a \in rejected :
    /\ call[a] # "idle"
    /\ call[a] = "open" => a = cur /\ (pc = "return" \/ (pc = "handled" /\ err = "hard"))
    /\ \A c \in Artifact : parent[c] # a

(***************************************************************************)
(* Under the partial policy a call about to return a violation has walked  *)
(* nothing.                                                                *)
(***************************************************************************)
ViolatorsChildless ==
  policy = "partial" /\ pc = "return" /\ err \in {"hard", "limit"} =>
    \A c \in Artifact : parent[c] # cur

(***************************************************************************)
(* Whatever gets an output directory passed the depth test.                *)
(***************************************************************************)
DepthTested == pc \in {"attempt", "run", "validate", "handled"} => depth[cur] <= MaxDepth

IInv ==
  /\ TypeOK
  /\ CallStack
  /\ Untouched
  /\ FilesPlaced
  /\ DirsOwned
  /\ DirsTimely

-----------------------------------------------------------------------------
USE ExtractionAssumption
  DEF IInv, Working, Running, nodeVars, diskVars, toolVars, callVars, Node, Leave,
      EndLoop, RemoveTmp, ResumeParent, LeafStatus, Handler, Status, Err

(***************************************************************************)
(* Extract starts with one open call and no directory, file or child.      *)
(***************************************************************************)
LEMMA InitIInv == Init => IInv
<1> SUFFICES ASSUME Init PROVE IInv
  OBVIOUS
<1> USE DEF Init
<1>1. TypeOK
  BY DEF TypeOK
<1>2. CallStack
  BY DEF CallStack
<1>3. Untouched
  BY DEF Untouched
<1>4. FilesPlaced
  BY DEF FilesPlaced
<1>5. DirsOwned
  BY DEF DirsOwned, Tracked
<1>6. DirsTimely
  BY DEF DirsTimely
<1> QED
  BY <1>1, <1>2, <1>3, <1>4, <1>5, <1>6

(***************************************************************************)
(* extractRecursive looks at a file and selects a routine, or returns.     *)
(***************************************************************************)
LEMMA VisitIInv ==
  ASSUME IInv, UNCHANGED policy,
         \/ ExceedDepth
         \/ \E s \in LeafStatus : VisitLeaf(s)
         \/ \E h \in Handler : BeginExtraction(h)
  PROVE  IInv'
<1>1. TypeOK'
  <2>1. CASE ExceedDepth
    BY <2>1 DEF TypeOK, ExceedDepth
  <2>2. ASSUME NEW s \in LeafStatus, VisitLeaf(s) PROVE TypeOK'
    BY <2>2 DEF TypeOK, VisitLeaf
  <2>3. ASSUME NEW h \in Handler, BeginExtraction(h) PROVE TypeOK'
    BY <2>3 DEF TypeOK, BeginExtraction
  <2> QED
    BY <2>1, <2>2, <2>3
<1> USE DEF ExceedDepth, VisitLeaf, BeginExtraction
<1>2. CallStack'
  BY DEF TypeOK, CallStack
<1>3. Untouched'
  BY DEF TypeOK, CallStack, Untouched
<1>4. FilesPlaced'
  BY DEF TypeOK, CallStack, Untouched, FilesPlaced, DirsOwned, DirsTimely,
  Fresh
<1>5. DirsOwned'
  BY DEF TypeOK, CallStack, Untouched, FilesPlaced, DirsOwned, DirsTimely,
  Tracked
<1>6. DirsTimely'
  BY DEF TypeOK, CallStack, Untouched, FilesPlaced, DirsTimely
<1> QED
  BY <1>1, <1>2, <1>3, <1>4, <1>5, <1>6

(***************************************************************************)
(* A password attempt begins, or cannot begin.                             *)
(***************************************************************************)
LEMMA AttemptIInv ==
  ASSUME IInv, UNCHANGED policy,
         \/ ToolAbsent
         \/ MkdirTempFails
         \/ StartAttempt
  PROVE  IInv'
<1>0. disk # Dir => UnusedDir \in Dir /\ UnusedDir \notin disk
  BY DEF TypeOK, UnusedDir
<1>1. TypeOK'
  <2>1. CASE ToolAbsent
    BY <2>1 DEF TypeOK, ToolAbsent
  <2>2. CASE MkdirTempFails
    BY <2>2 DEF TypeOK, MkdirTempFails
  <2>3. CASE StartAttempt
    BY <1>0, <2>3 DEF TypeOK, StartAttempt
  <2> QED
    BY <2>1, <2>2, <2>3
<1> USE <1>0 DEF ToolAbsent, MkdirTempFails, StartAttempt
<1>2. CallStack'
  BY DEF TypeOK, CallStack
<1>3. Untouched'
  BY DEF TypeOK, CallStack, Untouched
<1>4. FilesPlaced'
  BY DEF TypeOK, CallStack, Untouched, FilesPlaced, DirsOwned, DirsTimely,
  Fresh
<1>5. DirsOwned'
  BY DEF TypeOK, CallStack, Untouched, FilesPlaced, DirsOwned, DirsTimely,
  Tracked
<1>6. DirsTimely'
  BY DEF TypeOK, CallStack, Untouched, FilesPlaced, DirsTimely
<1> QED
  BY <1>1, <1>2, <1>3, <1>4, <1>5, <1>6

(***************************************************************************)
(* The tool ends, its output is rejected, or the deadline passes.          *)
(***************************************************************************)
LEMMA RunIInv ==
  ASSUME IInv, UNCHANGED policy,
         \/ RunSucceeds
         \/ RunFails
         \/ \E e \in {"hard", "limit", "other"} : RejectOutput(e)
         \/ Expire
  PROVE  IInv'
<1>1. TypeOK'
  <2>1. CASE RunSucceeds
    BY <2>1 DEF TypeOK, RunSucceeds
  <2>2. CASE RunFails
    BY <2>2 DEF TypeOK, RunFails
  <2>3. CASE \E e \in {"hard", "limit", "other"} : RejectOutput(e)
    BY <2>3 DEF TypeOK, RejectOutput
  <2>4. CASE Expire
    BY <2>4 DEF TypeOK, Expire
  <2> QED
    BY <2>1, <2>2, <2>3, <2>4
<1> USE DEF RunSucceeds, RunFails, RejectOutput, Expire
<1>2. CallStack'
  BY DEF TypeOK, CallStack
<1>3. Untouched'
  BY DEF TypeOK, CallStack, Untouched
<1>4. FilesPlaced'
  BY DEF TypeOK, CallStack, Untouched, FilesPlaced, DirsOwned, DirsTimely,
  Fresh
<1>5. DirsOwned'
  BY DEF TypeOK, CallStack, Untouched, FilesPlaced, DirsOwned, DirsTimely,
  Tracked
<1>6. DirsTimely'
  BY DEF TypeOK, CallStack, Untouched, FilesPlaced, DirsTimely
<1> QED
  BY <1>1, <1>2, <1>3, <1>4, <1>5, <1>6

(***************************************************************************)
(* The tool loop is over: classification, flattening, or the walk.         *)
(***************************************************************************)
LEMMA HandledIInv ==
  ASSUME IInv, UNCHANGED policy,
         \/ Classify
         \/ BeginFlatten
         \/ FlattenFails
         \/ EnterDir
         \/ NothingExtracted
  PROVE  IInv'
<1>1. TypeOK'
  <2>1. CASE Classify
    BY <2>1 DEF TypeOK, DirsTimely, Classify
  <2>2. CASE BeginFlatten
    BY <2>2 DEF TypeOK, DirsTimely, BeginFlatten
  <2>3. CASE FlattenFails
    BY <2>3 DEF TypeOK, DirsTimely, FlattenFails
  <2>4. CASE EnterDir
    BY <2>4 DEF TypeOK, DirsTimely, EnterDir
  <2>5. CASE NothingExtracted
    BY <2>5 DEF TypeOK, DirsTimely, NothingExtracted
  <2> QED
    BY <2>1, <2>2, <2>3, <2>4, <2>5
<1> USE DEF Classify, BeginFlatten, FlattenFails, EnterDir, NothingExtracted
<1>2. CallStack'
  BY DEF TypeOK, CallStack
<1>3. Untouched'
  BY DEF TypeOK, CallStack, Untouched
<1>4. FilesPlaced'
  BY DEF TypeOK, CallStack, Untouched, FilesPlaced, DirsOwned, DirsTimely,
  Fresh
<1>5. DirsOwned'
  BY DEF TypeOK, CallStack, Untouched, FilesPlaced, DirsOwned, DirsTimely,
  Tracked
<1>6. DirsTimely'
  BY DEF TypeOK, CallStack, Untouched, FilesPlaced, DirsTimely
<1> QED
  BY <1>1, <1>2, <1>3, <1>4, <1>5, <1>6

(***************************************************************************)
(* A walk ends.                                                            *)
(***************************************************************************)
LEMMA EndWalkIInv ==
  ASSUME IInv, UNCHANGED policy,
         \/ ReadDirFails
         \/ WalkDone
  PROVE  IInv'
<1>1. TypeOK'
  BY DEF TypeOK, ReadDirFails, WalkDone
<1> USE DEF ReadDirFails, WalkDone
<1>2. CallStack'
  BY DEF TypeOK, CallStack
<1>3. Untouched'
  BY DEF TypeOK, CallStack, Untouched
<1>4. FilesPlaced'
  BY DEF TypeOK, CallStack, Untouched, FilesPlaced, DirsOwned, DirsTimely,
  Fresh
<1>5. DirsOwned'
  BY DEF TypeOK, CallStack, Untouched, FilesPlaced, DirsOwned, DirsTimely,
  Tracked
<1>6. DirsTimely'
  BY DEF TypeOK, CallStack, Untouched, FilesPlaced, DirsTimely
<1> QED
  BY <1>1, <1>2, <1>3, <1>4, <1>5, <1>6

(***************************************************************************)
(* A call returns to the walk of its parent; a node that has a directory   *)
(* is kept in the tree.                                                    *)
(***************************************************************************)
LEMMA ReturnIInv ==
  ASSUME IInv, UNCHANGED policy,
         \/ ReturnViolation
         \/ ReturnOther
  PROVE  IInv'
<1>1. TypeOK'
  <2>1. CASE ReturnViolation
    BY <2>1 DEF TypeOK, CallStack, ReturnViolation
  <2>2. CASE ReturnOther
    BY <2>2 DEF TypeOK, CallStack, ReturnOther
  <2> QED
    BY <2>1, <2>2
<1> USE DEF ReturnViolation, ReturnOther
<1>2. CallStack'
  BY DEF TypeOK, CallStack
<1>3. Untouched'
  BY DEF TypeOK, CallStack, Untouched
<1>4. FilesPlaced'
  BY DEF TypeOK, CallStack, Untouched, FilesPlaced, DirsOwned, DirsTimely,
  Fresh
<1>5. DirsOwned'
  BY DEF TypeOK, CallStack, Untouched, FilesPlaced, DirsOwned, DirsTimely,
  Tracked
<1>6. DirsTimely'
  BY DEF TypeOK, CallStack, Untouched, FilesPlaced, DirsTimely
<1> QED
  BY <1>1, <1>2, <1>3, <1>4, <1>5, <1>6

(***************************************************************************)
(* The call for the delivery returns, and the tree is cleaned up.          *)
(***************************************************************************)
LEMMA EndIInv ==
  ASSUME IInv, UNCHANGED policy,
         \/ ReturnRoot
         \/ CleanupNode
         \/ UNCHANGED vars
  PROVE  IInv'
<1>1. TypeOK'
  <2>1. CASE ReturnRoot
    BY <2>1 DEF TypeOK, ReturnRoot
  <2>2. CASE CleanupNode
    BY <2>2 DEF TypeOK, CleanupNode
  <2>3. CASE UNCHANGED vars
    BY <2>3 DEF TypeOK, vars
  <2> QED
    BY <2>1, <2>2, <2>3
<1> USE DEF ReturnRoot, CleanupNode, vars
<1>2. CallStack'
  BY DEF TypeOK, CallStack
<1>3. Untouched'
  BY DEF TypeOK, CallStack, Untouched
<1>4. FilesPlaced'
  BY DEF TypeOK, CallStack, Untouched, FilesPlaced, DirsOwned, DirsTimely,
  Fresh
<1>5. DirsOwned'
  BY DEF TypeOK, CallStack, Untouched, FilesPlaced, DirsOwned, DirsTimely,
  Tracked
<1>6. DirsTimely'
  BY DEF TypeOK, CallStack, Untouched, FilesPlaced, DirsTimely
<1> QED
  BY <1>1, <1>2, <1>3, <1>4, <1>5, <1>6

(***************************************************************************)
(* The output of the attempt, with the fresh files in it, becomes the      *)
(* target's.                                                               *)
(***************************************************************************)
LEMMA AcceptOutputIInv == IInv /\ AcceptOutput /\ UNCHANGED policy => IInv'
<1> SUFFICES ASSUME IInv, AcceptOutput, UNCHANGED policy PROVE IInv'
  OBVIOUS
<1>1. PICK S \in SUBSET Fresh : files' = [files EXCEPT ![tmp] = S]
  BY DEF AcceptOutput
<1>2. /\ tmp \in Dir /\ tmp \in disk /\ target \in Node /\ dir[target] = NoDir
      /\ S \subseteq Artifact /\ Root \notin S
      /\ \A a \in S : call[a] = "idle" /\ \A d \in disk : a \notin files[d]
  <2>1. tmp \in Dir /\ tmp \in disk /\ target \in Node /\ dir[target] = NoDir
    BY DEF AcceptOutput, TypeOK, DirsOwned, DirsTimely
  <2>2. \A a \in S : a \in Artifact \ {Root} /\ parent[a] = NoArtifact
                     /\ \A d \in disk : a \notin files[d]
    BY DEF Fresh
  <2> QED
    BY <2>1, <2>2 DEF Untouched
<1>3. \A d \in Dir : files'[d] = IF d = tmp THEN S ELSE files[d]
  BY <1>1, <1>2 DEF TypeOK
<1>4. \A n \in Node : dir'[n] = IF n = target THEN tmp ELSE dir[n]
  BY <1>2 DEF AcceptOutput, TypeOK
<1>5. TypeOK'
  BY <1>1, <1>2 DEF AcceptOutput, TypeOK
<1> USE DEF AcceptOutput
<1>6. CallStack'
  BY DEF TypeOK, CallStack
<1>7. Untouched'
  BY <1>4 DEF TypeOK, CallStack, Untouched
<1>8. FilesPlaced'
  BY <1>2, <1>3, <1>4
     DEF TypeOK, CallStack, Untouched, FilesPlaced, DirsOwned, DirsTimely
<1>9. DirsOwned'
  BY <1>2, <1>4 DEF TypeOK, CallStack, DirsOwned, DirsTimely, Tracked
<1>10. DirsTimely'
  BY <1>2, <1>4 DEF TypeOK, CallStack, DirsTimely
<1> QED
  BY <1>5, <1>6, <1>7, <1>8, <1>9, <1>10

(***************************************************************************)
(* The intermediate directory of a compressed TAR is replaced.             *)
(***************************************************************************)
LEMMA AdoptInnerIInv == IInv /\ AdoptInner /\ UNCHANGED policy => IInv'
<1> SUFFICES ASSUME IInv, AdoptInner, UNCHANGED policy PROVE IInv'
  OBVIOUS
<1>1. /\ dir[cur] \in Dir /\ dir[InnerNode] \in Dir /\ dir[cur] # dir[InnerNode]
      /\ tmp = NoDir
  BY DEF AdoptInner, TypeOK, DirsOwned, DirsTimely
<1>2. \A n \in Node : dir'[n] = IF n = cur THEN dir[InnerNode]
                                ELSE IF n = InnerNode THEN NoDir ELSE dir[n]
  BY DEF AdoptInner, TypeOK
<1>3. \A d \in Dir : files'[d] = IF d = dir[cur] THEN {} ELSE files[d]
  BY <1>1 DEF AdoptInner, TypeOK
<1>4. TypeOK'
  BY <1>1 DEF AdoptInner, TypeOK
<1> USE DEF AdoptInner
<1>5. CallStack'
  BY DEF TypeOK, CallStack
<1>6. Untouched'
  BY <1>2 DEF TypeOK, CallStack, Untouched
<1>7. FilesPlaced'
  BY <1>1, <1>2, <1>3
     DEF TypeOK, CallStack, Untouched, FilesPlaced, DirsOwned, DirsTimely
<1>8. DirsOwned'
  <2>1. \A n \in Node : dir'[n] # NoDir =>
          n \in Tracked' /\ dir'[n] \in disk' /\ dir'[n] # tmp'
    BY <1>1, <1>2 DEF TypeOK, CallStack, DirsOwned, Tracked
  <2>2. \A d \in disk' : d # tmp' => \E n \in Node : dir'[n] = d
    BY <1>1, <1>2 DEF TypeOK, DirsOwned
  <2>3. \A m, n \in Node : dir'[m] = dir'[n] /\ dir'[m] # NoDir => m = n
    BY <1>1, <1>2 DEF TypeOK, DirsOwned
  <2> QED
    BY <1>1, <2>1, <2>2, <2>3 DEF DirsOwned
<1>9. DirsTimely'
  BY <1>1, <1>2 DEF TypeOK, CallStack, DirsTimely
<1> QED
  BY <1>4, <1>5, <1>6, <1>7, <1>8, <1>9

(***************************************************************************)
(* The walk of cur calls extractRecursive on a file no walk has reached.   *)
(***************************************************************************)
LEMMA DescendIInv == IInv /\ Descend /\ UNCHANGED policy => IInv'
<1> SUFFICES ASSUME IInv, Descend, UNCHANGED policy PROVE IInv'
  OBVIOUS
<1>1. PICK c \in unread[cur] :
        /\ parent' = [parent EXCEPT ![c] = cur]
        /\ depth' = [depth EXCEPT ![c] = depth[cur] + 1]
        /\ call' = [call EXCEPT ![c] = "open"]
        /\ unread' = [unread EXCEPT ![cur] = @ \ {c}]
        /\ cur' = c
        /\ target' = c
  BY DEF Descend
<1>2. /\ c \in Artifact /\ c # cur /\ c # Root /\ call[c] = "idle"
      /\ dir[c] = NoDir /\ parent[c] = NoArtifact /\ unread[c] = {}
      /\ dir[cur] # NoDir /\ c \in files[dir[cur]]
      /\ \A a \in Artifact : parent[a] # c
  BY DEF Descend, TypeOK, CallStack, Untouched, FilesPlaced
<1>3. \A a \in Artifact : parent'[a] = (IF a = c THEN cur ELSE parent[a])
                         /\ call'[a] = (IF a = c THEN "open" ELSE call[a])
                         /\ unread'[a] = (IF a = cur THEN unread[a] \ {c} ELSE unread[a])
  BY <1>1, <1>2 DEF TypeOK
<1>4. TypeOK'
  BY <1>1, <1>2 DEF Descend, TypeOK
<1> USE DEF Descend
<1>5. CallStack'
  BY <1>1, <1>2, <1>3 DEF TypeOK, CallStack
<1>6. Untouched'
  BY <1>1, <1>2, <1>3 DEF TypeOK, CallStack, Untouched
<1>7. FilesPlaced'
  BY <1>1, <1>2, <1>3
     DEF TypeOK, CallStack, Untouched, FilesPlaced, DirsOwned, Tracked
<1>8. DirsOwned'
  BY <1>1, <1>2, <1>3 DEF TypeOK, CallStack, DirsOwned, Tracked
<1>9. DirsTimely'
  BY <1>1, <1>2 DEF TypeOK, CallStack, DirsTimely
<1> QED
  BY <1>4, <1>5, <1>6, <1>7, <1>8, <1>9

(***************************************************************************)
(* No step of the traversal, the tool loops or the cleanup breaks the      *)
(* invariant.                                                              *)
(***************************************************************************)
LEMMA StepIInv == IInv /\ [Next]_vars => IInv'
  BY VisitIInv, AttemptIInv, RunIInv, AcceptOutputIInv, HandledIInv, AdoptInnerIInv,
     EndWalkIInv, DescendIInv, ReturnIInv, EndIInv
     DEF Next, Step, Terminated, vars

(***************************************************************************)
(* The inductive invariant holds in every reachable state of Extract.      *)
(***************************************************************************)
LEMMA InductiveInvariant == Spec => []IInv
  BY InitIInv, StepIInv, PTL DEF Spec

-----------------------------------------------------------------------------
(***************************************************************************)
(* Every variable keeps its type.                                          *)
(***************************************************************************)
THEOREM TypeCorrect == Spec => []TypeOK
<1>1. IInv => TypeOK
  OBVIOUS
<1> QED
  BY <1>1, InductiveInvariant, PTL

(***************************************************************************)
(* Until the cleanup, each temporary directory belongs to the running      *)
(* attempt or is the ExtractedDir of exactly one node that is on the call  *)
(* stack or in the tree, and no ExtractedDir is gone or shared.            *)
(***************************************************************************)
THEOREM DirectoriesAccounted == Spec => []DirsAccounted
<1>1. IInv => DirsAccounted
  <2> SUFFICES ASSUME IInv, pc # "cleaned" PROVE DirsAccounted
    BY DEF DirsAccounted
  <2>1. \A n \in Node : dir[n] # NoDir => dir[n] \in Owned /\ n \in Tracked
    BY DEF DirsOwned, Owned
  <2>2. Tracked \subseteq Node
    BY DEF TypeOK, Tracked
  <2>3. \A d \in Owned : d \in disk /\ d # tmp
    BY <2>2 DEF DirsOwned, Owned
  <2>4. disk = Owned \cup ({tmp} \ {NoDir})
    BY <2>1, <2>3 DEF TypeOK, DirsOwned
  <2>5. tmp \notin Owned
    BY <2>3
  <2>6. \A m, n \in Tracked : dir[m] = dir[n] /\ dir[m] # NoDir => m = n
    BY <2>2 DEF DirsOwned
  <2> QED
    BY <2>4, <2>5, <2>6 DEF DirsAccounted
<1> QED
  BY <1>1, InductiveInvariant, PTL

(***************************************************************************)
(* No artifact whose output was rejected as a hard violation is ever       *)
(* descended into.                                                         *)
(***************************************************************************)
THEOREM RejectedStayClosed == Spec => []RejectedNeverWalked
<1>1. Init => RejectedLeaves
  BY DEF Init, RejectedLeaves
<1>2. ASSUME IInv, RejectedLeaves, [Next]_vars PROVE RejectedLeaves'
  <2> USE <1>2 DEF RejectedLeaves
  <2>1. CASE UNCHANGED <<call, cur, parent, rejected, pc, err>>
    BY <2>1
  <2>2. ASSUME NEW e \in {"hard", "limit", "other"}, RejectOutput(e)
        PROVE  RejectedLeaves'
    BY <2>2 DEF RejectOutput, TypeOK, CallStack, Untouched
  <2>3. CASE Descend
    <3>1. PICK c \in unread[cur] :
            /\ parent' = [parent EXCEPT ![c] = cur]
            /\ call' = [call EXCEPT ![c] = "open"]
            /\ cur' = c
      BY <2>3 DEF Descend
    <3>2. c \in Artifact /\ call[c] = "idle" /\ cur \notin rejected /\ pc # "cleaned"
      BY <2>3 DEF Descend, TypeOK, CallStack, FilesPlaced
    <3>3. \A a \in rejected : a # c /\ call[a] # "open"
      BY <2>3, <3>2 DEF Descend
    <3> QED
      BY <2>3, <3>1, <3>2, <3>3 DEF Descend, TypeOK
  <2>4. CASE ReturnViolation \/ ReturnOther
    <3>1. cur \in Artifact /\ parent[cur] \in Artifact /\ parent[cur] \notin rejected
      BY <2>4 DEF ReturnViolation, ReturnOther, TypeOK, CallStack
    <3>2. /\ call' = [call EXCEPT ![cur] = err]
          /\ UNCHANGED <<parent, rejected>>
          /\ err # "open" /\ err # "idle"
      BY <2>4 DEF ReturnViolation, ReturnOther, TypeOK
    <3> QED
      BY <3>1, <3>2 DEF TypeOK
  <2>5. CASE ReturnRoot
    BY <2>5 DEF ReturnRoot, TypeOK
  <2>6. CASE UNCHANGED <<call, cur, parent, rejected>> /\ Working /\ pc' = "return"
    BY <2>6
  <2>7. CASE /\ UNCHANGED <<call, cur, parent, rejected>>
             /\ pc \notin {"return"} /\ (pc = "handled" => err # "hard")
    BY <2>7
  <2>8. CASE CleanupNode
    BY <2>8 DEF CleanupNode, CallStack
  <2> QED
    BY <2>1, <2>2, <2>3, <2>4, <2>5, <2>6, <2>7, <2>8
       DEF Next, Step, Terminated, vars, nodeVars, ExceedDepth, VisitLeaf,
           BeginExtraction, ToolAbsent, MkdirTempFails, StartAttempt, RunSucceeds,
           RunFails, AcceptOutput, Expire, Classify, BeginFlatten, FlattenFails,
           AdoptInner, EnterDir, NothingExtracted, ReadDirFails, WalkDone
<1>3. Spec => []RejectedLeaves
  BY <1>1, <1>2, InductiveInvariant, PTL DEF Spec
<1>4. RejectedLeaves => RejectedNeverWalked
  BY DEF RejectedLeaves, RejectedNeverWalked
<1> QED
  BY <1>3, <1>4, PTL

(***************************************************************************)
(* Strict policy: after the first violation a call returns, nothing is     *)
(* identified or extracted any more.                                       *)
(***************************************************************************)
THEOREM StrictOnlyUnwinds == Spec => []StrictStops
<1>1. Init => StrictStops
  BY DEF Init, StrictStops
<1>2. ASSUME IInv, StrictStops, [Next]_vars PROVE StrictStops'
  <2>0. UNCHANGED policy
    BY <1>2 DEF Next, vars
  <2> USE <1>2, <2>0 DEF StrictStops
  <2>1. CASE UNCHANGED call /\ pc \notin {"return", "done", "cleaned"}
    BY <2>1
  <2>2. CASE Descend
    BY <2>2 DEF Descend, TypeOK
  <2>3. CASE ReturnViolation
    BY <2>3 DEF ReturnViolation
  <2>4. CASE ReturnOther
    BY <2>4 DEF ReturnOther, TypeOK
  <2>5. CASE ReturnRoot
    BY <2>5 DEF ReturnRoot, TypeOK
  <2>6. CASE CleanupNode \/ UNCHANGED vars
    BY <2>6 DEF CleanupNode, vars
  <2> QED
    BY <2>1, <2>2, <2>3, <2>4, <2>5, <2>6
       DEF Next, Step, Terminated, ExceedDepth, VisitLeaf,
           BeginExtraction, ToolAbsent, MkdirTempFails, StartAttempt, RunSucceeds,
           RunFails, AcceptOutput, RejectOutput, Expire, Classify, BeginFlatten,
           FlattenFails, AdoptInner, EnterDir, NothingExtracted, ReadDirFails, WalkDone
<1> QED
  BY <1>1, <1>2, InductiveInvariant, PTL DEF Spec

(***************************************************************************)
(* Partial policy: a call returns a violation only if it walked nothing.   *)
(***************************************************************************)
LEMMA ViolationsIsolated == Spec => [](PartialIsolates /\ ViolatorsChildless)
<1> DEFINE Isolated == PartialIsolates /\ ViolatorsChildless
<1>1. Init => Isolated
  BY DEF Init, PartialIsolates, ViolatorsChildless
<1>2. ASSUME IInv, Isolated, [Next]_vars PROVE Isolated'
  <2>0. UNCHANGED policy
    BY <1>2 DEF Next, vars
  <2> USE <1>2, <2>0 DEF PartialIsolates, ViolatorsChildless
  <2>1. CASE UNCHANGED <<call, parent>> /\ (pc' # "return" \/ err' \notin {"hard", "limit"})
    BY <2>1
  <2>2. CASE UNCHANGED <<call, parent, cur>> /\ Working
    BY <2>2 DEF Untouched
  <2>3. CASE Descend
    BY <2>3 DEF Descend, TypeOK, CallStack
  <2>4. CASE ReturnViolation \/ ReturnOther
    BY <2>4 DEF ReturnViolation, ReturnOther, TypeOK
  <2>5. CASE ReturnRoot
    BY <2>5 DEF ReturnRoot, TypeOK
  <2>6. CASE UNCHANGED vars
    BY <2>6 DEF vars
  <2> QED
    BY <2>1, <2>2, <2>3, <2>4, <2>5, <2>6
       DEF Next, Step, Terminated, ExceedDepth, VisitLeaf,
           BeginExtraction, ToolAbsent, MkdirTempFails, StartAttempt, RunSucceeds,
           RunFails, AcceptOutput, RejectOutput, Expire, Classify, BeginFlatten,
           FlattenFails, AdoptInner, EnterDir, NothingExtracted, ReadDirFails, WalkDone,
           CleanupNode
<1> QED
  BY <1>1, <1>2, InductiveInvariant, PTL DEF Spec

(***************************************************************************)
(* Partial policy: a violation never leaves the call it arose in, so that  *)
(* no walked file is given up for the violation of another.                *)
(***************************************************************************)
THEOREM PartialContains == Spec => []PartialIsolates
<1>1. PartialIsolates /\ ViolatorsChildless => PartialIsolates
  OBVIOUS
<1> QED
  BY <1>1, ViolationsIsolated, PTL

(***************************************************************************)
(* The depth grows by one from a node to the files in it, and no node      *)
(* below MaxDepth has an output directory.                                 *)
(***************************************************************************)
THEOREM DepthsBounded == Spec => []DepthBound
<1> DEFINE Bounded == DepthBound /\ DepthTested
<1>1. Init => Bounded
  BY DEF Init, DepthBound, DepthTested
<1>2. ASSUME IInv, Bounded, [Next]_vars PROVE Bounded'
  <2> USE <1>2 DEF DepthBound, DepthTested
  <2>1. CASE Descend
    <3>1. PICK c \in unread[cur] :
            /\ parent' = [parent EXCEPT ![c] = cur]
            /\ depth' = [depth EXCEPT ![c] = depth[cur] + 1]
            /\ cur' = c
      BY <2>1 DEF Descend
    <3>2. /\ c \in Artifact /\ c # cur /\ cur \in Artifact /\ dir[c] = NoDir
          /\ \A a \in Artifact : parent[a] # c
      BY <2>1 DEF Descend, TypeOK, CallStack, Untouched, FilesPlaced
    <3> QED
      BY <2>1, <3>1, <3>2 DEF Descend, TypeOK
  <2>2. CASE UNCHANGED <<depth, parent, dir, cur>> /\ (pc' \notin {"attempt", "run", "validate", "handled"} \/ depth[cur] <= MaxDepth)
    BY <2>2
  <2>3. CASE StartAttempt
    BY <2>3 DEF StartAttempt, TypeOK
  <2>4. CASE AcceptOutput
    BY <2>4 DEF AcceptOutput, TypeOK
  <2>5. CASE AdoptInner
    BY <2>5 DEF AdoptInner, TypeOK
  <2>6. CASE ReturnViolation \/ ReturnOther
    BY <2>6 DEF ReturnViolation, ReturnOther
  <2>7. CASE UNCHANGED vars
    BY <2>7 DEF vars
  <2> QED
    BY <2>1, <2>2, <2>3, <2>4, <2>5, <2>6, <2>7
       DEF Next, Step, Terminated, ExceedDepth, VisitLeaf,
           BeginExtraction, ToolAbsent, MkdirTempFails, RunSucceeds,
           RunFails, RejectOutput, Expire, Classify, BeginFlatten,
           FlattenFails, EnterDir, NothingExtracted, ReadDirFails, WalkDone,
           ReturnRoot, CleanupNode
<1>3. Bounded => DepthBound
  OBVIOUS
<1> QED
  BY <1>1, <1>2, <1>3, InductiveInvariant, PTL DEF Spec

-----------------------------------------------------------------------------
(***************************************************************************)
(* A tool loop that is still running has candidates left.                  *)
(***************************************************************************)
CandidatesLeft == pc \in {"attempt", "run", "validate"} => attempt < Candidates(handler)

(***************************************************************************)
(* A tool loop that ends without an error and without an extraction has    *)
(* tried every password, for any number of them.                           *)
(***************************************************************************)
THEOREM EveryCandidateTried == Spec => []AllCandidatesTried
<1> DEFINE Tried == AllCandidatesTried /\ CandidatesLeft
<1>1. Init => Tried
  BY DEF Init, AllCandidatesTried, CandidatesLeft
<1>2. ASSUME IInv, Tried, [Next]_vars PROVE Tried'
  <2>0. \A h \in Handler : Candidates(h) \in Nat \ {0}
    BY DEF Candidates
  <2> USE <1>2, <2>0 DEF AllCandidatesTried, CandidatesLeft
  <2>1. CASE pc' \notin {"attempt", "run", "validate", "handled"}
    BY <2>1
  <2>2. ASSUME NEW h \in Handler, BeginExtraction(h) PROVE Tried'
    BY <2>2 DEF BeginExtraction
  <2>3. CASE BeginFlatten
    BY <2>3 DEF BeginFlatten, TypeOK
  <2>4. CASE RunFails
    BY <2>4 DEF RunFails, TypeOK
  <2>5. CASE ToolAbsent
    BY <2>5 DEF ToolAbsent, TypeOK
  <2>6. CASE StartAttempt \/ RunSucceeds
    BY <2>6 DEF StartAttempt, RunSucceeds
  <2>7. CASE pc' = "handled" /\ err' # "none"
    BY <2>7
  <2>8. CASE AcceptOutput
    BY <2>8 DEF AcceptOutput, TypeOK
  <2>9. CASE Expire \/ UNCHANGED vars
    BY <2>9 DEF Expire, vars
  <2> QED
    BY <2>1, <2>2, <2>3, <2>4, <2>5, <2>6, <2>7, <2>8, <2>9
       DEF Next, Step, Terminated, ExceedDepth, VisitLeaf, MkdirTempFails,
           RejectOutput, Classify, FlattenFails, AdoptInner, EnterDir,
           NothingExtracted, ReadDirFails, Descend, WalkDone, ReturnViolation,
           ReturnOther, ReturnRoot, CleanupNode
<1>3. Tried => AllCandidatesTried
  OBVIOUS
<1> QED
  BY <1>1, <1>2, <1>3, InductiveInvariant, PTL DEF Spec

(***************************************************************************)
(* The violation that a may be blocked for.                                *)
(***************************************************************************)
HasCause(a) == IF policy = "partial" THEN a \in rejected ELSE Below(a) \cap rejected # {}

(***************************************************************************)
(* A hard error in flight comes from a rejected output: the one of the     *)
(* node itself or, under the strict policy, one below it.                  *)
(***************************************************************************)
HardHasCause ==
  /\ pc = "handled" /\ err = "hard" => cur \in rejected
  /\ pc = "return" /\ err = "hard" => HasCause(cur)

(***************************************************************************)
(* An artifact is below itself, and what is below a child is below its     *)
(* parent.                                                                 *)
(***************************************************************************)
LEMMA BelowParent ==
  ASSUME NEW a \in Artifact
  PROVE  /\ a \in Below(a)
         /\ parent[a] \in Artifact => Below(a) \subseteq Below(parent[a])
BY DEF Below

(***************************************************************************)
(* A walk that reaches another artifact leaves nothing less below any.     *)
(***************************************************************************)
LEMMA BelowGrows ==
  ASSUME TypeOK, NEW c \in Artifact, parent[c] = NoArtifact,
         NEW p, parent' = [parent EXCEPT ![c] = p]
  PROVE  \A a \in Artifact : Below(a) \subseteq Below(a)'
<1> SUFFICES ASSUME NEW a \in Artifact, NEW b \in Below(a), NEW S \in SUBSET Artifact,
                    a \in S, \A d \in Artifact : parent'[d] \in S => d \in S
             PROVE  b \in S
  BY DEF Below
<1>1. NoArtifact \notin S
  BY ExtractionAssumption
<1>2. ASSUME NEW d \in Artifact, parent[d] \in S PROVE d \in S
  <2>1. d # c
    BY <1>1, <1>2
  <2>2. parent'[d] = parent[d]
    BY <2>1 DEF TypeOK
  <2> QED
    BY <1>2, <2>2
<1> QED
  BY <1>2 DEF Below

(***************************************************************************)
(* A blocked node had a violation of its own or, under the strict policy   *)
(* only, one below it, however many levels the error has passed.           *)
(***************************************************************************)
THEOREM BlockedForCause == Spec => []BlockedHasCause
<1> DEFINE Caused == (\A a \in Artifact : status[a] = "blocked" => HasCause(a)) /\ HardHasCause
<1>1. Init => Caused
  BY DEF Init, HardHasCause
<1>2. ASSUME IInv, Caused, [Next]_vars PROVE Caused'
  <2>0. UNCHANGED policy
    BY <1>2 DEF Next, vars
  <2> USE <1>2, <2>0 DEF HardHasCause
  <2>a. ASSUME UNCHANGED parent, rejected \subseteq rejected'
        PROVE  \A a \in Artifact : HasCause(a) => HasCause(a)'
    <3>1. \A a \in Artifact : Below(a)' = Below(a)
      BY <2>a DEF Below
    <3> QED
      BY <2>a, <3>1 DEF HasCause
  <2>b. ASSUME UNCHANGED <<parent, cur>>, rejected \subseteq rejected',
               \A a \in Artifact : status'[a] = "blocked" => status[a] = "blocked",
               pc' \in {"handled", "return"} /\ err' = "hard" =>
                 pc' = pc /\ err' = err
        PROVE  Caused'
    BY <2>a, <2>b DEF TypeOK
  <2>c. \A a \in Artifact : a \in rejected => HasCause(a)
    BY BelowParent DEF HasCause
  <2>2. ASSUME NEW e \in {"hard", "limit", "other"}, RejectOutput(e) PROVE Caused'
    <3>1. /\ UNCHANGED <<status, parent, cur>> /\ pc' = "handled"
          /\ rejected' = IF e = "hard" THEN rejected \cup {cur} ELSE rejected
          /\ err' = e
      BY <2>2 DEF RejectOutput, EndLoop, nodeVars, callVars
    <3> QED
      BY <2>a, <3>1
  <2>3. CASE Classify
    <3>1. UNCHANGED <<parent, rejected, cur>> /\ pc' = "return" /\ pc = "handled"
      BY <2>3 DEF Classify, Leave, callVars
    <3>2. err' = "hard" => err = "hard"
      BY <2>3 DEF Classify, Leave
    <3>3. \A a \in Artifact : status'[a] = "blocked" => status[a] = "blocked" \/ (a = cur /\ err' = "hard")
      BY <2>3 DEF Classify, Leave, TypeOK
    <3> QED
      BY <2>a, <2>c, <3>1, <3>2, <3>3 DEF TypeOK
  <2>4. CASE FlattenFails
    <3>1. UNCHANGED <<status, parent, rejected, cur, err>> /\ pc' = "return" /\ pc = "handled"
      BY <2>4 DEF FlattenFails, Leave, nodeVars, callVars
    <3> QED
      BY <2>a, <2>c, <3>1 DEF TypeOK
  <2>5. CASE ReturnViolation
    <3>1. /\ UNCHANGED <<parent, rejected>> /\ cur' = parent[cur] /\ parent[cur] \in Artifact
          /\ pc = "return"
          /\ pc' = "return" => policy # "partial" /\ err' = err
          /\ pc' \in {"return", "walk"}
      BY <2>5 DEF ReturnViolation, ResumeParent, TypeOK, CallStack
    <3>2. \A a \in Artifact : status'[a] = "blocked" => status[a] = "blocked" \/ (a = cur /\ err = "hard")
      BY <2>5 DEF ReturnViolation, TypeOK
    <3>3. HasCause(cur) /\ policy # "partial" => HasCause(parent[cur])
      BY <3>1, BelowParent DEF HasCause, TypeOK
    <3> QED
      BY <2>a, <3>1, <3>2, <3>3 DEF TypeOK
  <2>6. CASE ReturnOther
    <3>1. UNCHANGED <<status, parent, rejected>> /\ pc' = "walk"
      BY <2>6 DEF ReturnOther, ResumeParent
    <3> QED
      BY <2>a, <3>1
  <2>7. CASE Descend
    <3>1. PICK c \in unread[cur] : parent' = [parent EXCEPT ![c] = cur]
      BY <2>7 DEF Descend
    <3>2. c \in Artifact /\ parent[c] = NoArtifact
      BY <2>7, <3>1 DEF Descend, TypeOK, CallStack, Untouched, FilesPlaced
    <3>3. \A a \in Artifact : Below(a) \subseteq Below(a)'
      BY <3>1, <3>2, BelowGrows
    <3>4. UNCHANGED <<status, rejected>> /\ pc' = "visit"
      BY <2>7 DEF Descend
    <3> QED
      BY <3>3, <3>4 DEF HasCause
  <2>8. CASE ToolAbsent \/ MkdirTempFails \/ StartAttempt \/ RunFails \/ AcceptOutput
    <3>1. \A a \in Artifact : status'[a] = "blocked" => status[a] = "blocked"
      BY <2>8 DEF ToolAbsent, MkdirTempFails, StartAttempt, RunFails, AcceptOutput, TypeOK
    <3>2. UNCHANGED <<parent, rejected, cur>> /\ (pc' = "handled" => err' # "hard") /\ pc' # "return"
      BY <2>8 DEF ToolAbsent, MkdirTempFails, StartAttempt, RunFails, AcceptOutput,
                  EndLoop, callVars
    <3> QED
      BY <2>b, <3>1, <3>2
  <2>9. CASE ExceedDepth \/ \E s \in LeafStatus : VisitLeaf(s)
    <3>1. \A a \in Artifact : status'[a] = "blocked" => status[a] = "blocked"
      BY <2>9 DEF ExceedDepth, VisitLeaf, LeafStatus, TypeOK
    <3>2. UNCHANGED <<parent, rejected, cur>> /\ err' # "hard"
      BY <2>9 DEF ExceedDepth, VisitLeaf, Leave, callVars
    <3> QED
      BY <2>b, <3>1, <3>2
  <2>10. CASE BeginFlatten
    <3>1. \A a \in Artifact : status'[a] = "blocked" => status[a] = "blocked"
      BY <2>10 DEF BeginFlatten, TypeOK
    <3> QED
      BY <2>10, <2>b, <3>1 DEF BeginFlatten, callVars
  <2>11. CASE \/ RunSucceeds \/ AdoptInner \/ EnterDir
              \/ NothingExtracted \/ ReadDirFails \/ WalkDone \/ ReturnRoot
              \/ CleanupNode \/ Expire \/ \E h \in Handler : BeginExtraction(h)
    BY <2>11, <2>b DEF BeginExtraction, RunSucceeds, AdoptInner, EnterDir, NothingExtracted,
                 ReadDirFails, WalkDone, ReturnRoot, CleanupNode, Expire, Leave,
                 nodeVars, callVars
  <2>12. CASE UNCHANGED vars
    BY <2>12, <2>b DEF vars, nodeVars, callVars
  <2> QED
    BY <2>2, <2>3, <2>4, <2>5, <2>6, <2>7, <2>8, <2>9, <2>10, <2>11, <2>12
       DEF Next, Step, Terminated
<1>3. Caused => BlockedHasCause
  BY DEF BlockedHasCause, HasCause
<1> QED
  BY <1>1, <1>2, <1>3, InductiveInvariant, PTL DEF Spec

-----------------------------------------------------------------------------
(***************************************************************************)
(* Every nonempty set of numbers has a least element.  The library states  *)
(* it with an operator parameter; this form follows from the well-founded  *)
(* strict inclusion of the intervals 1..m.                                 *)
(***************************************************************************)
LEMMA LeastNumber ==
  ASSUME NEW T, T \subseteq Nat, T # {}
  PROVE  \E m \in T : \A k \in T : m <= k
<1> DEFINE U == {1..m : m \in T}
           S == Nat
<1>0. U # {}
  OBVIOUS
<1>1. U \subseteq FiniteSubsetsOf(S)
  BY FS_Interval DEF FiniteSubsetsOf
<1>2. PICK x \in U : \A y \in U : ~ (<<y, x>> \in StrictSubsetOrdering(S))
  <2> HIDE DEF U, S
  <2> QED
    BY <1>0, <1>1, FS_StrictSubsetOrderingWellFounded, WFMin
<1>3. PICK m \in T : x = 1..m
  BY <1>2
<1>4. ASSUME NEW k \in T, k < m PROVE FALSE
  <2>1. 1..k \in U /\ 1..k \subseteq 1..m /\ 1..k # 1..m
    BY <1>4
  <2>2. <<1..k, 1..m>> \in StrictSubsetOrdering(S)
    BY <2>1 DEF StrictSubsetOrdering
  <2> QED
    BY <2>1, <2>2, <1>2, <1>3
<1> QED
  BY <1>4

(***************************************************************************)
(* The depth argument shows that the parent links have no cycle: a set of  *)
(* artifacts has one whose parent is outside of the set.                   *)
(***************************************************************************)
LEMMA Topmost ==
  ASSUME TypeOK, DepthBound, NEW S, S \subseteq Artifact, S # {}
  PROVE  \E a \in S : parent[a] \notin S
<1> DEFINE T == {depth[a] : a \in S}
<1>1. T \subseteq Nat /\ T # {}
  BY DEF TypeOK
<1>2. PICK m \in T : \A k \in T : m <= k
  <2> HIDE DEF T
  <2> QED
    BY <1>1, LeastNumber
<1>3. PICK a \in S : depth[a] = m
  BY <1>2
<1>4. parent[a] \notin S
  <2> SUFFICES ASSUME parent[a] \in S PROVE FALSE
    OBVIOUS
  <2>1. depth[parent[a]] \in T /\ depth[a] = depth[parent[a]] + 1
    BY DEF TypeOK, DepthBound
  <2>2. m <= depth[parent[a]] /\ m \in Nat /\ depth[parent[a]] \in Nat
    <3> HIDE DEF T
    <3> QED
      BY <1>1, <1>2, <2>1
  <2> QED
    BY <1>3, <2>1, <2>2
<1> QED
  BY <1>4

(***************************************************************************)
(* A call that has returned is final, and the parent of an attached node   *)
(* will be attached in its turn: it still is on the stack, or is attached, *)
(* or is the delivery.                                                     *)
(***************************************************************************)
TreeGrows ==
  /\ ~Running => call[Root] # "open"
  /\ \A a \in attached \cup filtered : call[a] \notin {"idle", "open"}
  /\ \A a \in attached :
       /\ parent[a] \in Artifact
       /\ parent[a] = Root \/ parent[a] \in attached \/ call[parent[a]] = "open"

(***************************************************************************)
(* A node with children has a directory, so a return attaches it.          *)
(***************************************************************************)
LEMMA TreeGrowing == Spec => []TreeGrows
<1>1. Init => TreeGrows
  BY DEF Init, TreeGrows
<1>2. ASSUME IInv, TreeGrows, [Next]_vars PROVE TreeGrows'
  <2> USE <1>2 DEF TreeGrows
  <2>1. CASE Running' /\ UNCHANGED <<call, parent, attached, filtered>>
    BY <2>1
  <2>2. CASE Descend
    <3>1. PICK c \in unread[cur] :
            /\ parent' = [parent EXCEPT ![c] = cur]
            /\ call' = [call EXCEPT ![c] = "open"]
      BY <2>2 DEF Descend
    <3>2. c \in Artifact /\ call[c] = "idle"
      BY <2>2 DEF Descend, TypeOK, FilesPlaced
    <3>3. UNCHANGED <<attached, filtered>> /\ Running'
      BY <2>2 DEF Descend
    <3> QED
      BY <3>1, <3>2, <3>3 DEF TypeOK
  <2>3. CASE ReturnViolation \/ ReturnOther
    <3>1. /\ call' = [call EXCEPT ![cur] = err] /\ err \notin {"idle", "open"}
          /\ parent' = parent /\ Running' /\ cur # Root /\ cur \in Artifact
      BY <2>3 DEF ReturnViolation, ReturnOther, TypeOK
    <3>2. /\ attached \subseteq attached'
          /\ attached' \subseteq attached \cup {cur}
          /\ filtered' \subseteq filtered \cup {cur}
      BY <2>3 DEF ReturnViolation, ReturnOther
    <3>3. parent[cur] \in Artifact /\ call[cur] = "open" /\ call[parent[cur]] = "open"
          /\ parent[cur] # cur
      BY <3>1, <2>3 DEF ReturnViolation, ReturnOther, CallStack, TypeOK
    <3>4. ASSUME NEW a \in attached, parent[a] = cur PROVE cur \in attached'
      <4>1. a \in Artifact /\ pc # "cleaned"
        BY <2>3 DEF TypeOK, ReturnViolation, ReturnOther
      <4>2. dir[cur] # NoDir /\ HasChildren(cur)
        BY <3>1, <3>4, <4>1 DEF FilesPlaced, HasChildren
      <4>3. status[cur] \in {"extracted", "blocked"}
        BY <3>1, <4>2 DEF DirsTimely
      <4> QED
        BY <2>3, <4>2, <4>3 DEF ReturnViolation, ReturnOther
    <3>5. \A a \in attached' \cup filtered' : call'[a] \notin {"idle", "open"}
      BY <3>1, <3>2 DEF TypeOK
    <3>6. ASSUME NEW a \in attached'
          PROVE  /\ parent'[a] \in Artifact
                 /\ parent'[a] = Root \/ parent'[a] \in attached' \/ call'[parent'[a]] = "open"
      <4>1. CASE a = cur
        BY <3>1, <3>3, <4>1 DEF TypeOK
      <4>2. CASE a # cur
        BY <3>1, <3>2, <3>4, <4>2 DEF TypeOK
      <4> QED
        BY <4>1, <4>2
    <3> QED
      BY <3>1, <3>5, <3>6
  <2>4. CASE ReturnRoot
    BY <2>4 DEF ReturnRoot, TypeOK
  <2>5. CASE CleanupNode \/ UNCHANGED vars
    BY <2>5 DEF CleanupNode, vars
  <2> QED
    BY <2>1, <2>2, <2>3, <2>4, <2>5
       DEF Next, Step, Terminated, ExceedDepth, VisitLeaf, BeginExtraction, ToolAbsent,
           MkdirTempFails, StartAttempt, RunSucceeds, RunFails, AcceptOutput, RejectOutput,
           Expire, Classify, BeginFlatten, FlattenFails, AdoptInner, EnterDir,
           NothingExtracted, ReadDirFails, WalkDone
<1> QED
  BY <1>1, <1>2, InductiveInvariant, PTL DEF Spec

(***************************************************************************)
(* When Extract has returned, no call is open.                             *)
(***************************************************************************)
LEMMA AllReturned ==
  ASSUME IInv, DepthBound, TreeGrows, ~Running, NEW a \in Artifact
  PROVE  call[a] # "open"
<1> DEFINE S == {b \in Artifact : call[b] = "open"}
<1> SUFFICES ASSUME S # {} PROVE FALSE
  OBVIOUS
<1>1. PICK b \in S : parent[b] \notin S
  <2>1. S \subseteq Artifact
    OBVIOUS
  <2> HIDE DEF S
  <2> QED
    BY <2>1, Topmost
<1>2. b = Root
  BY <1>1 DEF CallStack
<1> QED
  BY <1>1, <1>2 DEF TreeGrows

(***************************************************************************)
(* What CleanupNode and the reports reach through Children is then all     *)
(* that was attached.                                                      *)
(***************************************************************************)
LEMMA TreeComplete ==
  ASSUME IInv, DepthBound, TreeGrows, ~Running
  PROVE  attached \cup {Root} \subseteq InTree
<1> SUFFICES ASSUME NEW S \in SUBSET Artifact, Root \in S,
                    \A b \in attached : parent[b] \in S => b \in S
             PROVE  attached \subseteq S
  BY DEF InTree, TypeOK
<1> DEFINE U == attached \ S
<1> SUFFICES ASSUME U # {} PROVE FALSE
  OBVIOUS
<1>1. PICK a \in U : parent[a] \notin U
  <2>1. U \subseteq Artifact
    BY DEF TypeOK
  <2> HIDE DEF U
  <2> QED
    BY <2>1, Topmost
<1>2. parent[a] \in Artifact /\ call[parent[a]] # "open"
  BY <1>1, AllReturned DEF TreeGrows
<1>3. parent[a] \in S
  BY <1>1, <1>2 DEF TreeGrows
<1> QED
  BY <1>1, <1>3

(***************************************************************************)
(* CleanupNode, which only follows Children from the root, removes every   *)
(* temporary directory of the run, on every path and for any tree.         *)
(***************************************************************************)
THEOREM EverythingCleanedUp == Spec => []CleanedUp
<1>1. Init => CleanedUp
  BY DEF Init, CleanedUp
<1>2. ASSUME IInv, DepthBound, TreeGrows, CleanedUp, [Next]_vars PROVE CleanedUp'
  <2> USE <1>2 DEF CleanedUp
  <2>1. CASE CleanupNode
    <3>1. pc = "done" /\ ~Running
      BY <2>1 DEF CleanupNode
    <3>2. ASSUME NEW d \in disk PROVE \E a \in InTree : dir[a] = d
      <4>1. tmp = NoDir /\ d # tmp
        BY <3>1 DEF DirsOwned, TypeOK
      <4>2. PICK n \in Node : dir[n] = d
        BY <3>1, <4>1 DEF DirsOwned
      <4>3. n \in Tracked /\ n # InnerNode
        BY <3>1, <4>1, <4>2 DEF DirsOwned, DirsTimely
      <4>4. n \in attached \cup {Root}
        BY <3>1, <4>3, AllReturned DEF Tracked
      <4> QED
        BY <3>1, <4>2, <4>4, TreeComplete
    <3> QED
      BY <2>1, <3>2 DEF CleanupNode
  <2>2. CASE pc' # "cleaned" \/ UNCHANGED vars
    BY <2>2 DEF vars
  <2> QED
    BY <2>1, <2>2
       DEF Next, Step, Terminated, ExceedDepth, VisitLeaf, BeginExtraction, ToolAbsent,
           MkdirTempFails, StartAttempt, RunSucceeds, RunFails, AcceptOutput, RejectOutput,
           Expire, Classify, BeginFlatten, FlattenFails, AdoptInner, EnterDir,
           NothingExtracted, ReadDirFails, Descend, WalkDone, ReturnViolation,
           ReturnOther, ReturnRoot
<1> QED
  BY <1>1, <1>2, InductiveInvariant, DepthsBounded, TreeGrowing, PTL DEF Spec

-----------------------------------------------------------------------------
(***************************************************************************)
(* Only a file that extractRecursive left without a tool run is skipped or *)
(* filtered; a filtered one returns no error.                              *)
(***************************************************************************)
StatusTimely ==
  /\ \A a \in Artifact : call[a] = "idle" => status[a] = "pending"
  /\ pc = "visit" => status[cur] = "pending"
  /\ pc \in {"attempt", "run", "validate", "handled"} =>
       status[cur] \notin {"skipped", "filtered"}
  /\ pc = "return" /\ status[cur] = "filtered" => err = "none"
  /\ pc = "return" /\ status[cur] = "skipped" => err \in {"none", "limit"}

(***************************************************************************)
(* The statuses of the traversal are set where the comment above says.     *)
(***************************************************************************)
LEMMA StatusesTimely == Spec => []StatusTimely
<1>1. Init => StatusTimely
  BY DEF Init, StatusTimely
<1>2. ASSUME IInv, StatusTimely, [Next]_vars PROVE StatusTimely'
  <2> USE <1>2 DEF StatusTimely
  <2>1. CASE ExceedDepth \/ (\E s \in LeafStatus : VisitLeaf(s))
    BY <2>1 DEF ExceedDepth, VisitLeaf, TypeOK, CallStack
  <2>2. CASE \E h \in Handler : BeginExtraction(h)
    BY <2>2 DEF BeginExtraction
  <2>3. CASE ToolAbsent \/ MkdirTempFails \/ StartAttempt \/ RunFails \/ AcceptOutput
    BY <2>3 DEF ToolAbsent, MkdirTempFails, StartAttempt, RunFails, AcceptOutput, TypeOK,
                CallStack
  <2>4. CASE RunSucceeds \/ Expire \/ \E e \in {"hard", "limit", "other"} : RejectOutput(e)
    BY <2>4 DEF RunSucceeds, Expire, RejectOutput
  <2>5. CASE Classify
    BY <2>5 DEF Classify, TypeOK, CallStack
  <2>6. CASE BeginFlatten \/ FlattenFails
    BY <2>6 DEF BeginFlatten, FlattenFails, TypeOK
  <2>7. CASE AdoptInner \/ EnterDir
    BY <2>7 DEF AdoptInner, EnterDir
  <2>8. CASE NothingExtracted
    BY <2>8 DEF NothingExtracted
  <2>9. CASE ReadDirFails \/ WalkDone
    BY <2>9 DEF ReadDirFails, WalkDone, DirsTimely, TypeOK
  <2>10. CASE Descend
    <3>1. PICK c \in unread[cur] :
            /\ call' = [call EXCEPT ![c] = "open"]
            /\ cur' = c
      BY <2>10 DEF Descend
    <3>2. c \in Artifact /\ call[c] = "idle"
      BY <2>10 DEF Descend, TypeOK, FilesPlaced
    <3> QED
      BY <2>10, <3>1, <3>2 DEF Descend, TypeOK
  <2>11. CASE ReturnViolation \/ ReturnOther
    <3>1. /\ cur \in Artifact /\ parent[cur] \in Artifact /\ parent[cur] # cur
          /\ dir[parent[cur]] # NoDir
      BY <2>11 DEF ReturnViolation, ReturnOther, TypeOK, CallStack, FilesPlaced
    <3>2. status[parent[cur]] \in {"extracted", "blocked"}
      BY <3>1 DEF DirsTimely
    <3>3. /\ call' = [call EXCEPT ![cur] = err] /\ err # "idle"
          /\ cur' = parent[cur]
          /\ pc' \in {"walk", "return"}
          /\ status' = [status EXCEPT ![cur] = "blocked"] \/ status' = status
      BY <2>11 DEF ReturnViolation, ReturnOther, TypeOK
    <3>4. call[cur] = "open"
      BY <2>11 DEF ReturnViolation, ReturnOther, CallStack
    <3> QED
      BY <3>1, <3>2, <3>3, <3>4 DEF TypeOK
  <2>12. CASE ReturnRoot
    BY <2>12 DEF ReturnRoot, TypeOK
  <2>13. CASE CleanupNode \/ UNCHANGED vars
    BY <2>13 DEF CleanupNode, vars
  <2> QED
    BY <2>1, <2>2, <2>3, <2>4, <2>5, <2>6, <2>7, <2>8, <2>9, <2>10, <2>11, <2>12, <2>13
       DEF Next, Step, Terminated
<1> QED
  BY <1>1, <1>2, InductiveInvariant, PTL DEF Spec

(***************************************************************************)
(* What the return of c leaves behind: c is in the tree, in the            *)
(* extension-filter record, or skipped without an error.                   *)
(***************************************************************************)
Settled(c) ==
  /\ c \notin attached => status[c] \in {"skipped", "filtered"} /\ call[c] = "none"
  /\ c \in filtered <=> status[c] = "filtered"

(***************************************************************************)
(* The walk of a has overlooked nothing: each file of the directory is     *)
(* still to be visited, is being visited, or is settled.                   *)
(***************************************************************************)
Overseen(a) ==
  \A c \in files[dir[a]] :
    \/ c \in unread[a]
    \/ /\ parent[c] = a
       /\ call[c] # "idle"
       /\ call[c] # "open" => Settled(c)

(***************************************************************************)
(* So it is for every walk on the stack, except for one that was abandoned *)
(* with an error and for the calls such an error unwinds.                  *)
(***************************************************************************)
WalksOversee ==
  \A a \in Artifact :
    /\ call[a] = "open" /\ dir[a] # NoDir
    /\ a = cur => pc = "walk" \/ (pc = "return" /\ err = "none")
    => Overseen(a)

LostNothing == NothingLost /\ WalksOversee

(***************************************************************************)
(* A call that has returned is never entered again: its node, its          *)
(* directory and its place in the tree stay as they are.                   *)
(***************************************************************************)
Frozen(c) ==
  /\ call'[c] = call[c]
  /\ parent'[c] = parent[c]
  /\ status'[c] = status[c]
  /\ c \in attached' <=> c \in attached
  /\ c \in filtered' <=> c \in filtered

(***************************************************************************)
(* The steps change the node of cur, and Descend one that is idle.         *)
(***************************************************************************)
LEMMA ReturnedFrozen ==
  ASSUME IInv, [Next]_vars, NEW c \in Artifact, call[c] \notin {"idle", "open"}
  PROVE  Frozen(c)
<1>1. Running => c # cur
  BY DEF CallStack
<1> USE DEF Frozen
<1>2. CASE Descend
  <2>1. PICK d \in unread[cur] :
          /\ parent' = [parent EXCEPT ![d] = cur]
          /\ call' = [call EXCEPT ![d] = "open"]
    BY <1>2 DEF Descend
  <2>2. d # c
    BY <1>2, <2>1 DEF Descend, TypeOK, FilesPlaced
  <2> QED
    BY <1>2, <2>1, <2>2 DEF Descend, TypeOK
<1>3. CASE ReturnViolation \/ ReturnOther
  <2>1. c # cur
    BY <1>1, <1>3 DEF ReturnViolation, ReturnOther
  <2>2. /\ call' = [call EXCEPT ![cur] = err] /\ parent' = parent
        /\ status' = [status EXCEPT ![cur] = "blocked"] \/ status' = status
        /\ attached \subseteq attached' /\ attached' \subseteq attached \cup {cur}
        /\ filtered \subseteq filtered' /\ filtered' \subseteq filtered \cup {cur}
    BY <1>3 DEF ReturnViolation, ReturnOther
  <2> QED
    BY <2>1, <2>2 DEF TypeOK
<1>4. CASE ReturnRoot
  BY <1>1, <1>4 DEF ReturnRoot, TypeOK
<1>5. CASE /\ UNCHANGED <<call, parent, attached, filtered>> /\ Running
           /\ \/ status' = status
              \/ \E n \in {cur, target, InnerNode}, s \in Status : status' = [status EXCEPT ![n] = s]
  <2>1. c # cur /\ c # target /\ c # InnerNode
    BY <1>1, <1>5 DEF TypeOK
  <2> QED
    BY <1>5, <2>1 DEF TypeOK
<1>6. CASE CleanupNode \/ UNCHANGED vars
  BY <1>6 DEF CleanupNode, vars
<1>7. CASE Classify
  BY <1>1, <1>7 DEF Classify, TypeOK
<1> QED
  BY <1>2, <1>3, <1>4, <1>5, <1>6, <1>7
     DEF Next, Step, Terminated, ExceedDepth, VisitLeaf, BeginExtraction, ToolAbsent,
         MkdirTempFails, StartAttempt, RunSucceeds, RunFails, AcceptOutput, RejectOutput,
         Expire, BeginFlatten, FlattenFails, AdoptInner, EnterDir,
         NothingExtracted, ReadDirFails, WalkDone

(***************************************************************************)
(* So do the directory of a node that is not being worked on and the files *)
(* below it.                                                               *)
(***************************************************************************)
LEMMA DirFrozen ==
  ASSUME IInv, [Next]_vars, NEW a \in Artifact, a # cur \/ ~Working
  PROVE  dir'[a] = dir[a] /\ (dir[a] # NoDir => files'[dir[a]] = files[dir[a]])
<1>1. CASE UNCHANGED <<dir, files>>
  BY <1>1
<1>2. CASE StartAttempt
  BY <1>2 DEF StartAttempt, TypeOK
<1>3. CASE AcceptOutput
  <2>1. a # target /\ dir[a] # tmp
    BY <1>3 DEF AcceptOutput, TypeOK, DirsOwned
  <2> QED
    BY <1>3, <2>1 DEF AcceptOutput, TypeOK
<1>4. CASE AdoptInner
  <2>1. a # cur /\ a # InnerNode
    BY <1>4 DEF AdoptInner
  <2>2. dir[a] # NoDir => dir[a] # dir[cur]
    BY <1>4, <2>1 DEF AdoptInner, TypeOK, DirsOwned
  <2> QED
    BY <1>4, <2>1, <2>2 DEF AdoptInner, TypeOK
<1> QED
  BY <1>1, <1>2, <1>3, <1>4
     DEF Next, Step, Terminated, vars, ExceedDepth, VisitLeaf, BeginExtraction, ToolAbsent,
         MkdirTempFails, RunSucceeds, RunFails, RejectOutput, Expire, Classify,
         BeginFlatten, FlattenFails, EnterDir, NothingExtracted, ReadDirFails, Descend,
         WalkDone, ReturnViolation, ReturnOther, ReturnRoot, CleanupNode

(***************************************************************************)
(* A walk other than cur's own is not disturbed by a step that leaves the  *)
(* calls alone.                                                            *)
(***************************************************************************)
LEMMA OverseenElsewhere ==
  ASSUME IInv, [Next]_vars, UNCHANGED <<call, parent>>,
         NEW a \in Artifact, a # cur \/ ~Working, unread'[a] = unread[a],
         dir[a] # NoDir, Overseen(a)
  PROVE  Overseen(a)'
<1> SUFFICES ASSUME NEW c \in files[dir[a]]
             PROVE  \/ c \in unread[a]
                    \/ /\ parent[c] = a
                       /\ call[c] # "idle"
                       /\ call[c] # "open" => Settled(c)'
  BY DirFrozen DEF Overseen
<1>1. c \in Artifact
  BY DEF TypeOK
<1>2. CASE c \in unread[a]
  BY <1>2
<1>3. CASE parent[c] = a /\ call[c] # "idle" /\ (call[c] # "open" => Settled(c))
  <2>1. call[c] # "open" => Frozen(c)
    BY <1>1, <1>3, ReturnedFrozen
  <2> QED
    BY <1>3, <2>1 DEF Frozen, Settled
<1> QED
  BY <1>2, <1>3 DEF Overseen

(***************************************************************************)
(* The walk of cur opens the next file.                                    *)
(***************************************************************************)
LEMMA DescendOversees ==
  IInv /\ WalksOversee /\ Descend /\ [Next]_vars => WalksOversee'
<1> SUFFICES ASSUME IInv, WalksOversee, Descend, [Next]_vars,
                    NEW a \in Artifact, call'[a] = "open", dir'[a] # NoDir, a # cur',
                    NEW f \in files'[dir'[a]], f \notin unread'[a]
             PROVE  /\ parent'[f] = a
                    /\ call'[f] # "idle"
                    /\ call'[f] # "open" => Settled(f)'
  BY DEF WalksOversee, Overseen, Descend
<1>1. PICK c \in unread[cur] :
        /\ parent' = [parent EXCEPT ![c] = cur]
        /\ call' = [call EXCEPT ![c] = "open"]
        /\ unread' = [unread EXCEPT ![cur] = @ \ {c}]
        /\ cur' = c
  BY DEF Descend
<1>2. c \in Artifact /\ call[c] = "idle" /\ cur \in Artifact
  BY DEF Descend, TypeOK, FilesPlaced
<1>3. a # c /\ call[a] = "open" /\ dir[a] # NoDir /\ dir'[a] = dir[a]
      /\ f \in files[dir[a]] /\ f \in Artifact
  BY <1>1, <1>2 DEF Descend, TypeOK
<1>4. Overseen(a)
  BY <1>3 DEF WalksOversee, Descend
<1>5. CASE f \in unread[a]
  BY <1>1, <1>2, <1>5 DEF TypeOK
<1>6. CASE f \notin unread[a]
  <2>1. parent[f] = a /\ call[f] # "idle" /\ f # c
    BY <1>2, <1>3, <1>4, <1>6 DEF Overseen
  <2>2. call[f] # "open" => Settled(f) /\ Frozen(f)
    BY <1>3, <1>4, <1>6, <2>1, ReturnedFrozen DEF Overseen
  <2> QED
    BY <1>1, <1>2, <1>3, <2>1, <2>2 DEF Frozen, Settled, TypeOK
<1> QED
  BY <1>5, <1>6

(***************************************************************************)
(* A call returns: its own file is settled, and the walk of its parent     *)
(* resumes unless the error makes it return too.                           *)
(***************************************************************************)
LEMMA ReturnOversees ==
  ASSUME IInv, StatusTimely, TreeGrows, WalksOversee, [Next]_vars,
         ReturnViolation \/ ReturnOther
  PROVE  WalksOversee'
<1>1. /\ call' = [call EXCEPT ![cur] = err] /\ err \notin {"idle", "open"}
      /\ cur' = parent[cur] /\ cur \in Artifact
      /\ UNCHANGED <<parent, dir, files>> /\ pc = "return"
  BY DEF ReturnViolation, ReturnOther, TypeOK
<1>2. parent[cur] \in Artifact /\ parent[cur] # cur /\ call[cur] = "open"
  BY DEF ReturnViolation, ReturnOther, CallStack, TypeOK
<1>3. ASSUME NEW c \in Artifact, c = cur PROVE Settled(c)'
  <2>1. c \notin filtered
    BY <1>2, <1>3 DEF TreeGrows
  <2>2. CASE ReturnViolation
    BY <1>1, <1>3, <2>1, <2>2 DEF Settled, ReturnViolation, StatusTimely, TypeOK
  <2>3. CASE ReturnOther
    BY <1>1, <1>3, <2>1, <2>3 DEF Settled, ReturnOther, StatusTimely, TypeOK
  <2> QED
    BY <2>2, <2>3
<1> SUFFICES ASSUME NEW a \in Artifact, call'[a] = "open", dir'[a] # NoDir,
                    a = parent[cur] => pc' = "walk" \/ (pc' = "return" /\ err' = "none"),
                    NEW f \in files'[dir'[a]], f \notin unread'[a]
             PROVE  /\ parent'[f] = a
                    /\ call'[f] # "idle"
                    /\ call'[f] # "open" => Settled(f)'
  BY <1>1 DEF WalksOversee, Overseen
<1>4. a # cur /\ call[a] = "open" /\ dir[a] # NoDir /\ f \in files[dir[a]] /\ f \in Artifact
  BY <1>1 DEF TypeOK
<1>5. unread'[a] = unread[a]
  BY <1>1, <1>2, <1>4 DEF ReturnViolation, ReturnOther, TypeOK
<1>6. parent[f] = a /\ call[f] # "idle" /\ (call[f] # "open" => Settled(f))
  BY <1>4, <1>5 DEF WalksOversee, Overseen
<1>7. CASE f = cur
  BY <1>1, <1>3, <1>4, <1>6, <1>7 DEF TypeOK
<1>8. CASE f # cur
  <2>1. call[f] # "open" => Frozen(f)
    BY <1>4, <1>6, ReturnedFrozen
  <2> QED
    BY <1>1, <1>4, <1>6, <1>8, <2>1 DEF Frozen, Settled, TypeOK
<1> QED
  BY <1>7, <1>8

(***************************************************************************)
(* Every step keeps an eye on the walks.                                   *)
(***************************************************************************)
LEMMA StepOversees ==
  ASSUME IInv, StatusTimely, TreeGrows, WalksOversee, [Next]_vars
  PROVE  WalksOversee'
<1>1. CASE Descend
  BY <1>1, DescendOversees
<1>2. CASE ReturnViolation \/ ReturnOther
  BY <1>2, ReturnOversees
<1>3. CASE EnterDir \/ AdoptInner
  <2> SUFFICES ASSUME NEW a \in Artifact, call'[a] = "open", dir'[a] # NoDir
               PROVE  Overseen(a)'
    BY DEF WalksOversee
  <2>1. CASE a = cur
    <3>1. unread'[cur] = files'[dir'[cur]]
      <4>1. CASE EnterDir
        BY <4>1 DEF EnterDir, TypeOK
      <4>2. CASE AdoptInner
        <5>1. dir[InnerNode] \in Dir /\ dir[InnerNode] # dir[cur]
          BY <4>2 DEF AdoptInner, TypeOK, DirsOwned, DirsTimely
        <5> QED
          BY <4>2, <5>1 DEF AdoptInner, TypeOK
      <4> QED
        BY <1>3, <4>1, <4>2
    <3> QED
      BY <2>1, <3>1 DEF Overseen
  <2>2. CASE a # cur
    <3>1. UNCHANGED <<call, parent>> /\ unread'[a] = unread[a] /\ dir'[a] = dir[a]
      BY <1>3, <2>2, DirFrozen DEF EnterDir, AdoptInner, TypeOK
    <3>2. Overseen(a) /\ dir[a] # NoDir
      BY <2>2, <3>1 DEF WalksOversee
    <3> QED
      BY <2>2, <3>1, <3>2, OverseenElsewhere
  <2> QED
    BY <2>1, <2>2
<1>4. CASE ReturnRoot
  <2>1. UNCHANGED <<dir, files, unread, parent, status, attached, filtered>>
        /\ cur = Root /\ call' = [call EXCEPT ![Root] = err] /\ err \notin {"open", "idle"}
        /\ Running
    BY <1>4 DEF ReturnRoot, TypeOK
  <2> SUFFICES ASSUME NEW a \in Artifact, call'[a] = "open", dir[a] # NoDir,
                      NEW f \in files[dir[a]], f \notin unread[a]
               PROVE  /\ parent[f] = a
                      /\ call'[f] # "idle"
                      /\ call'[f] # "open" => Settled(f)'
    BY <2>1 DEF WalksOversee, Overseen
  <2>2. a # cur /\ call[a] = "open" /\ f \in Artifact
    BY <2>1 DEF TypeOK
  <2>3. parent[f] = a /\ call[f] # "idle" /\ (call[f] # "open" => Settled(f))
    BY <2>2 DEF WalksOversee, Overseen
  <2>4. f # Root
    BY <2>2, <2>3 DEF CallStack
  <2> QED
    BY <2>1, <2>2, <2>3, <2>4 DEF Settled, TypeOK
<1>5. CASE \/ \E s \in LeafStatus : VisitLeaf(s)
           \/ \E h \in Handler : BeginExtraction(h)
           \/ ExceedDepth \/ ToolAbsent \/ MkdirTempFails \/ StartAttempt \/ RunSucceeds
           \/ RunFails \/ AcceptOutput \/ Expire \/ Classify \/ BeginFlatten
           \/ FlattenFails \/ NothingExtracted \/ ReadDirFails \/ WalkDone \/ CleanupNode
           \/ \E e \in {"hard", "limit", "other"} : RejectOutput(e)
           \/ UNCHANGED vars
  <2>1. /\ UNCHANGED <<call, parent, cur>>
        /\ \A a \in Artifact : a # cur => unread'[a] = unread[a]
    BY <1>5 DEF ExceedDepth, VisitLeaf, BeginExtraction, ToolAbsent, MkdirTempFails,
         StartAttempt, RunSucceeds, RunFails, AcceptOutput, RejectOutput, Expire,
         Classify, BeginFlatten, FlattenFails, NothingExtracted, ReadDirFails, WalkDone,
         CleanupNode, vars, TypeOK
  <2>2. ASSUME pc' = "walk" \/ (pc' = "return" /\ err' = "none"), dir'[cur] # NoDir,
               call[cur] = "open"
        PROVE  /\ unread'[cur] = unread[cur] /\ dir[cur] # NoDir /\ ~Working
               /\ pc = "walk" \/ (pc = "return" /\ err = "none")
    BY <1>5, <2>2 DEF ExceedDepth, VisitLeaf, BeginExtraction, ToolAbsent, MkdirTempFails,
         StartAttempt, RunSucceeds, RunFails, AcceptOutput, RejectOutput, Expire,
         Classify, BeginFlatten, FlattenFails, NothingExtracted, ReadDirFails, WalkDone,
         CleanupNode, vars, TypeOK, DirsTimely
  <2> SUFFICES ASSUME NEW a \in Artifact, call[a] = "open", dir'[a] # NoDir,
                      a = cur => pc' = "walk" \/ (pc' = "return" /\ err' = "none")
               PROVE  Overseen(a)'
    BY <2>1 DEF WalksOversee
  <2>3. CASE a = cur
    <3>1. Overseen(a) /\ dir[a] # NoDir /\ unread'[a] = unread[a] /\ ~Working
      BY <2>2, <2>3 DEF WalksOversee
    <3> QED
      BY <2>1, <3>1, OverseenElsewhere
  <2>4. CASE a # cur
    <3>1. dir[a] # NoDir
      BY <2>4, DirFrozen
    <3>2. Overseen(a)
      BY <2>4, <3>1 DEF WalksOversee
    <3> QED
      BY <2>1, <2>4, <3>1, <3>2, OverseenElsewhere
  <2> QED
    BY <2>3, <2>4
<1> QED
  BY <1>1, <1>2, <1>3, <1>4, <1>5 DEF Next, Step, Terminated

(***************************************************************************)
(* A call that returned nil has handled every file of its directory.       *)
(***************************************************************************)
THEOREM NoFileLost == Spec => []NothingLost
<1>1. Init => LostNothing
  BY DEF Init, LostNothing, NothingLost, WalksOversee
<1>2. ASSUME IInv, StatusTimely, TreeGrows, LostNothing, [Next]_vars
      PROVE  LostNothing'
  <2>1. WalksOversee'
    BY <1>2, StepOversees DEF LostNothing
  <2>2. NothingLost'
    <3> SUFFICES ASSUME NEW a \in Artifact, call'[a] = "none", dir'[a] # NoDir,
                        NEW c \in files'[dir'[a]]
                 PROVE  /\ parent'[c] = a
                        /\ call'[c] \notin {"idle", "open"}
                        /\ Settled(c)'
      BY DEF NothingLost, Settled
    <3>1. CASE call[a] = "none"
      <4>1. a # cur \/ ~Working
        BY <1>2, <3>1 DEF CallStack
      <4>2. dir'[a] = dir[a] /\ c \in files[dir[a]] /\ c \in Artifact
        BY <1>2, <4>1, DirFrozen DEF TypeOK
      <4>3. /\ parent[c] = a
            /\ call[c] \notin {"idle", "open"}
            /\ Settled(c)
        BY <1>2, <3>1, <4>2 DEF LostNothing, NothingLost, Settled
      <4>4. Frozen(c)
        BY <1>2, <4>2, <4>3, ReturnedFrozen
      <4> QED
        BY <4>3, <4>4 DEF Frozen, Settled
    <3>2. CASE call[a] # "none"
      <4>1. /\ a = cur /\ pc = "return" /\ err = "none" /\ call[cur] = "open"
            /\ dir'[a] = dir[a] /\ files' = files
        <5>1. CASE Descend
          BY <3>2, <5>1 DEF Descend, TypeOK
        <5>2. CASE ReturnViolation \/ ReturnOther \/ ReturnRoot
          BY <1>2, <3>2, <5>2 DEF ReturnViolation, ReturnOther, ReturnRoot, TypeOK, CallStack
        <5>3. CASE call' = call
          BY <3>2, <5>3
        <5> QED
          BY <1>2, <5>1, <5>2, <5>3
             DEF Next, Step, Terminated, vars, ExceedDepth, VisitLeaf, BeginExtraction,
                 ToolAbsent, MkdirTempFails, StartAttempt, RunSucceeds, RunFails,
                 AcceptOutput, RejectOutput, Expire, Classify, BeginFlatten, FlattenFails,
                 AdoptInner, EnterDir, NothingExtracted, ReadDirFails, WalkDone, CleanupNode
      <4>2. unread[cur] = {} /\ c \in Artifact /\ c \in files[dir[cur]] /\ dir[cur] # NoDir
        BY <1>2, <4>1 DEF Untouched, TypeOK
      <4>3. parent[c] = cur /\ call[c] # "idle" /\ (call[c] # "open" => Settled(c))
        BY <1>2, <4>1, <4>2 DEF LostNothing, WalksOversee, Overseen
      <4>4. call[c] # "open"
        BY <1>2, <4>2, <4>3 DEF CallStack
      <4>5. Frozen(c)
        BY <1>2, <4>2, <4>3, <4>4, ReturnedFrozen
      <4> QED
        BY <4>1, <4>3, <4>4, <4>5 DEF Frozen, Settled
    <3> QED
      BY <3>1, <3>2
  <2> QED
    BY <2>1, <2>2 DEF LostNothing
<1>3. LostNothing => NothingLost
  BY DEF LostNothing
<1> QED
  BY <1>1, <1>2, <1>3, InductiveInvariant, StatusesTimely, TreeGrowing, PTL DEF Spec

-----------------------------------------------------------------------------
(***************************************************************************)
(* Strict policy: as soon as a node is blocked, the goroutine unwinds with *)
(* the violation and returns it.                                           *)
(***************************************************************************)
HardUnwinds ==
  policy = "strict" /\ (\E a \in Artifact : status[a] = "blocked")
    => pc \in {"return", "done", "cleaned"} /\ err = "hard"

(***************************************************************************)
(* How the node looks whose call is about to return an error; while its    *)
(* inner TAR is extracted, the node of a compressed TAR is left alone.     *)
(***************************************************************************)
ReturnShape ==
  /\ depth[Root] = 0
  /\ target = InnerNode => status[cur] = "extracted"
  /\ pc = "return" /\ err = "deadline" =>
       status[cur] = "extracted" /\ \A c \in Artifact : parent[c] # cur
  /\ pc = "return" /\ policy = "partial" /\ err = "hard" =>
       status[cur] \in {"blocked", "extracted"}
  /\ pc = "return" /\ policy = "partial" /\ err = "limit" =>
       \/ status[cur] \in {"failed", "extracted"}
       \/ status[cur] = "skipped" /\ depth[cur] > MaxDepth

(***************************************************************************)
(* The classification, the flattening and the depth test leave the node    *)
(* so; a parent that resumes has no error or, under the strict policy, a   *)
(* violation.                                                              *)
(***************************************************************************)
LEMMA ReturnsShaped == Spec => [](HardUnwinds /\ ReturnShape)
<1>1. Init => HardUnwinds /\ ReturnShape
  BY DEF Init, HardUnwinds, ReturnShape
<1>2. ASSUME IInv, HardUnwinds, [Next]_vars PROVE HardUnwinds'
  <2>0. UNCHANGED policy
    BY <1>2 DEF Next, vars
  <2> USE <1>2, <2>0 DEF HardUnwinds
  <2>1. CASE pc \notin {"return", "done", "cleaned"}
    <3>1. ASSUME NEW a \in Artifact, status'[a] = "blocked", policy = "strict"
          PROVE  pc' = "return" /\ err' = "hard"
      <4>1. status[a] # "blocked"
        BY <2>1, <3>1
      <4>2. Classify
        BY <2>1, <3>1, <4>1
           DEF Next, Step, Terminated, vars, ExceedDepth, VisitLeaf, BeginExtraction,
               ToolAbsent, MkdirTempFails, StartAttempt, RunSucceeds, RunFails,
               AcceptOutput, RejectOutput, Expire, BeginFlatten, FlattenFails, AdoptInner,
               EnterDir, NothingExtracted, ReadDirFails, Descend, WalkDone,
               ReturnViolation, ReturnOther, ReturnRoot, CleanupNode, TypeOK
      <4> QED
        BY <3>1, <4>1, <4>2 DEF Classify, TypeOK
    <3> QED
      BY <3>1
  <2>2. CASE ReturnViolation
    BY <2>2 DEF ReturnViolation, TypeOK
  <2>3. CASE ReturnOther
    BY <2>3 DEF ReturnOther
  <2>4. CASE ReturnRoot \/ CleanupNode \/ UNCHANGED vars
    BY <2>4 DEF ReturnRoot, CleanupNode, vars
  <2> QED
    BY <2>1, <2>2, <2>3, <2>4
       DEF Next, Step, Terminated, ExceedDepth, VisitLeaf, BeginExtraction, ToolAbsent,
           MkdirTempFails, StartAttempt, RunSucceeds, RunFails, AcceptOutput, RejectOutput,
           Expire, Classify, BeginFlatten, FlattenFails, AdoptInner, EnterDir,
           NothingExtracted, ReadDirFails, Descend, WalkDone
<1>3. ASSUME IInv, ReturnShape, [Next]_vars PROVE ReturnShape'
  <2>0. UNCHANGED policy
    BY <1>3 DEF Next, vars
  <2> USE <1>3, <2>0 DEF ReturnShape
  <2>0a. target \in {cur, InnerNode} /\ cur \in Artifact /\ cur # InnerNode
    BY DEF TypeOK
  <2>1. CASE Descend
    <3>1. PICK c \in unread[cur] : depth' = [depth EXCEPT ![c] = depth[cur] + 1] /\ target' = c
      BY <2>1 DEF Descend
    <3>2. c # Root /\ c # InnerNode
      BY <2>1 DEF Descend, FilesPlaced, TypeOK
    <3> QED
      BY <2>1, <3>1, <3>2 DEF Descend, TypeOK
  <2>2. CASE /\ depth' = depth /\ (pc' # "return" \/ err' \notin {"hard", "limit", "deadline"})
             /\ UNCHANGED <<target, cur>>
             /\ \/ status' = status
                \/ \E s \in Status : status' = [status EXCEPT ![target] = s]
    <3>1. CASE status' = status
      BY <2>2, <3>1
    <3>2. CASE target = InnerNode
      <4>1. status'[cur] = status[cur]
        BY <2>0a, <2>2, <3>2 DEF TypeOK
      <4> QED
        BY <2>2, <3>2, <4>1
    <3>3. CASE target = cur
      BY <2>0a, <2>2, <3>3
    <3> QED
      BY <2>0a, <3>1, <3>2, <3>3, <2>2
  <2>3. CASE ExceedDepth
    BY <2>3 DEF ExceedDepth, TypeOK, DirsTimely
  <2>4. CASE Classify
    BY <2>4 DEF Classify, TypeOK
  <2>5. CASE FlattenFails
    <3>1. UNCHANGED <<cur, status, parent, depth>> /\ target' = cur /\ pc = "handled"
      BY <2>5 DEF FlattenFails
    <3>2. status[cur] = "extracted"
      BY <2>5 DEF FlattenFails
    <3>3. \A c \in Artifact : parent[c] # cur
      BY <3>1 DEF Untouched
    <3> QED
      BY <2>0a, <3>1, <3>2, <3>3
  <2>6. CASE ReturnViolation \/ ReturnOther
    <3>1. parent[cur] \in Artifact
      BY <2>0a, <2>6 DEF ReturnViolation, ReturnOther, CallStack
    <3> QED
      BY <2>6, <3>1 DEF ReturnViolation, ReturnOther, TypeOK
  <2>7. CASE BeginFlatten
    BY <2>0a, <2>7 DEF BeginFlatten, TypeOK
  <2>8. CASE \/ AdoptInner \/ EnterDir \/ (\E s \in LeafStatus : VisitLeaf(s))
             \/ \E h \in Handler : BeginExtraction(h)
    BY <2>0a, <2>8 DEF AdoptInner, EnterDir, VisitLeaf, BeginExtraction, DirsTimely
  <2>9. CASE UNCHANGED vars
    BY <2>9 DEF vars
  <2> QED
    BY <2>1, <2>2, <2>3, <2>4, <2>5, <2>6, <2>7, <2>8, <2>9
       DEF Next, Step, Terminated, ToolAbsent,
           MkdirTempFails, StartAttempt, RunSucceeds, RunFails, AcceptOutput, RejectOutput,
           Expire, NothingExtracted, ReadDirFails, WalkDone, ReturnRoot, CleanupNode
<1> QED
  BY <1>1, <1>2, <1>3, InductiveInvariant, PTL DEF Spec

(***************************************************************************)
(* Without children of its own the delivery is the whole tree.             *)
(***************************************************************************)
LEMMA ChildlessTree ==
  ASSUME TypeOK, \A c \in Artifact : parent[c] # Root
  PROVE  InTree \subseteq {Root}
<1>1. {Root} \in SUBSET Artifact /\ Root \in {Root}
  OBVIOUS
<1>2. \A b \in attached : parent[b] \in {Root} => b \in {Root}
  BY DEF TypeOK
<1> QED
  BY <1>1, <1>2 DEF InTree

(***************************************************************************)
(* What the delivery's call returns, with the tree it returns it with, is  *)
(* an outcome the contract allows.                                         *)
(***************************************************************************)
LEMMA OutcomeAllowed ==
  ASSUME IInv, HardUnwinds, ReturnShape, ViolatorsChildless, pc = "return", cur = Root
  PROVE  [err |-> err, failed |-> TreeFailed, skipped |-> TreeSkipped,
          blocked |-> TreeBlocked] \in Contract!Outcome
<1>1. /\ policy \in {"strict", "partial"} /\ err \in Err
      /\ TreeFailed \in BOOLEAN /\ TreeSkipped \in BOOLEAN /\ TreeBlocked \in BOOLEAN
  BY DEF TypeOK, TreeFailed, TreeSkipped, TreeBlocked
<1>2. ASSUME policy = "strict", err # "hard" PROVE ~TreeBlocked
  BY <1>2 DEF HardUnwinds, TreeBlocked, InTree
<1>3. ASSUME \A c \in Artifact : parent[c] # Root, status[Root] \notin {"toolMissing", "filtered"}
      PROVE  /\ TreeFailed => status[Root] = "failed"
             /\ TreeSkipped => status[Root] = "skipped"
             /\ TreeBlocked => status[Root] = "blocked"
  <2>1. InTree \subseteq {Root}
    BY <1>3, ChildlessTree
  <2> QED
    BY <1>3, <2>1 DEF TreeFailed, TreeSkipped, TreeBlocked
<1>4. ASSUME policy = "partial", err = "hard" PROVE ~TreeFailed /\ ~TreeSkipped
  <2>1. \A c \in Artifact : parent[c] # Root
    BY <1>4 DEF ViolatorsChildless
  <2>2. status[Root] \in {"blocked", "extracted"}
    BY <1>4 DEF ReturnShape
  <2> QED
    BY <1>3, <2>1, <2>2
<1>5. ASSUME policy = "partial", err = "limit" PROVE ~TreeSkipped /\ ~TreeBlocked
  <2>1. \A c \in Artifact : parent[c] # Root
    BY <1>5 DEF ViolatorsChildless
  <2>2. status[Root] \in {"failed", "extracted"}
    BY <1>5 DEF ReturnShape
  <2> QED
    BY <1>3, <2>1, <2>2
<1>6. ASSUME err = "deadline" PROVE ~TreeFailed /\ ~TreeSkipped /\ ~TreeBlocked
  BY <1>3, <1>6 DEF ReturnShape
<1> QED
  BY <1>1, <1>2, <1>4, <1>5, <1>6 DEF Contract!Outcome, Contract!Err

(***************************************************************************)
(* Before Extract has returned, the caller sees no outcome; afterwards it  *)
(* sees the one of the tree.                                               *)
(***************************************************************************)
Shown == [err |-> IF Returned THEN err ELSE "none",
          failed |-> Returned /\ TreeFailed,
          skipped |-> Returned /\ TreeSkipped,
          blocked |-> Returned /\ TreeBlocked]

ShownWhenReturned ==
  /\ Returned \in BOOLEAN
  /\ ~Returned => Shown = Contract!None
  /\ Returned => Shown = [err |-> err, failed |-> TreeFailed, skipped |-> TreeSkipped,
                         blocked |-> TreeBlocked]

(***************************************************************************)
(* The record the contract's `outcome` stands for, field by field.         *)
(***************************************************************************)
LEMMA ShownOutcome == ShownWhenReturned
<1>1. /\ TreeFailed \in BOOLEAN /\ TreeSkipped \in BOOLEAN /\ TreeBlocked \in BOOLEAN
      /\ Returned \in BOOLEAN
  BY DEF TreeFailed, TreeSkipped, TreeBlocked, Returned
<1>2. ASSUME ~Returned PROVE Shown = Contract!None
  <2>1. /\ (Returned /\ TreeFailed) = FALSE
        /\ (Returned /\ TreeSkipped) = FALSE
        /\ (Returned /\ TreeBlocked) = FALSE
    BY <1>2
  <2> QED
    BY <1>2, <2>1 DEF Shown, Contract!None
<1>3. ASSUME Returned
      PROVE  Shown = [err |-> err, failed |-> TreeFailed, skipped |-> TreeSkipped,
                      blocked |-> TreeBlocked]
  <2>1. /\ (Returned /\ TreeFailed) = TreeFailed
        /\ (Returned /\ TreeSkipped) = TreeSkipped
        /\ (Returned /\ TreeBlocked) = TreeBlocked
    BY <1>1, <1>3
  <2> QED
    BY <1>3, <2>1 DEF Shown
<1> QED
  BY <1>1, <1>2, <1>3 DEF ShownWhenReturned

(***************************************************************************)
(* Extract implements the safety part of its contract with the             *)
(* orchestrator: it returns at most once, with an error and a tree in a    *)
(* combination the contract allows, and the tree is final from then on.    *)
(***************************************************************************)
THEOREM ExtractImplementsContract == Spec => Contract!SafeSpec
<1>1. Init => Contract!Init
  <2> SUFFICES ASSUME Init PROVE Contract!Init
    OBVIOUS
  <2>1. ~Returned
    BY DEF Init, Returned
  <2>2. policy \in {"strict", "partial"}
    BY DEF Init
  <2> QED
    BY <2>1, <2>2, ShownOutcome DEF Contract!Init, ShownWhenReturned, Shown
<1>2. ASSUME IInv, HardUnwinds /\ ReturnShape, PartialIsolates /\ ViolatorsChildless,
             ShownWhenReturned, ShownWhenReturned', [Next]_vars
      PROVE  [Contract!Return]_(Contract!vars)
  <2> USE <1>2
  <2>1. UNCHANGED policy
    BY DEF Next, vars
  <2>2. Contract!vars = <<policy, Returned, Shown>> /\ Contract!vars' = <<policy, Returned, Shown>>'
    BY DEF Contract!vars, Shown
  <2>3. CASE ~Returned /\ ~Returned'
    <3>1. Returned' = Returned /\ Shown' = Shown
      BY <2>3 DEF ShownWhenReturned, Contract!None
    <3> QED
      BY <2>1, <2>2, <3>1
  <2>4. CASE ReturnRoot
    <3>1. UNCHANGED <<status, attached, parent, err>> /\ pc = "return" /\ cur = Root
          /\ ~Returned /\ Returned'
      BY <2>4 DEF ReturnRoot, Returned
    <3>2. UNCHANGED <<TreeFailed, TreeSkipped, TreeBlocked>>
      BY <3>1 DEF TreeFailed, TreeSkipped, TreeBlocked, InTree
    <3>3. Shown' \in Contract!Outcome
      BY <3>1, <3>2, OutcomeAllowed DEF ShownWhenReturned
    <3>4. Returned' = TRUE
      BY <3>1 DEF ShownWhenReturned
    <3> QED
      BY <2>1, <3>1, <3>3, <3>4 DEF Contract!Return, Shown
  <2>5. CASE Returned
    <3>1. UNCHANGED <<status, attached, parent, err>> /\ Returned'
      BY <2>5
         DEF Returned, Next, Step, Terminated, vars, ExceedDepth, VisitLeaf,
             BeginExtraction, ToolAbsent, MkdirTempFails, StartAttempt, RunSucceeds,
             RunFails, AcceptOutput, RejectOutput, Expire, Classify, BeginFlatten,
             FlattenFails, AdoptInner, EnterDir, NothingExtracted, ReadDirFails, Descend,
             WalkDone, ReturnViolation, ReturnOther, ReturnRoot, CleanupNode
    <3>2. UNCHANGED <<TreeFailed, TreeSkipped, TreeBlocked>>
      BY <3>1 DEF TreeFailed, TreeSkipped, TreeBlocked, InTree
    <3>3. Returned' = Returned /\ Shown' = Shown
      BY <2>5, <3>1, <3>2 DEF ShownWhenReturned
    <3> QED
      BY <2>1, <2>2, <3>3
  <2>6. ReturnRoot \/ Returned \/ ~Returned'
    BY DEF Returned, Next, Step, Terminated, vars, ExceedDepth, VisitLeaf,
             BeginExtraction, ToolAbsent, MkdirTempFails, StartAttempt, RunSucceeds,
             RunFails, AcceptOutput, RejectOutput, Expire, Classify, BeginFlatten,
             FlattenFails, AdoptInner, EnterDir, NothingExtracted, ReadDirFails, Descend,
             WalkDone, ReturnViolation, ReturnOther, CleanupNode
  <2> QED
    BY <2>3, <2>4, <2>5, <2>6
<1>3. []ShownWhenReturned
  BY ShownOutcome, PTL
<1> QED
  BY <1>1, <1>2, <1>3, InductiveInvariant, ReturnsShaped, ViolationsIsolated, PTL
     DEF Spec, Contract!SafeSpec

-----------------------------------------------------------------------------
(***************************************************************************)
(* extractRecursive is called at most once for a file: once a call has     *)
(* returned, no later step of the traversal, in whichever branch of the    *)
(* tree, changes its node or its place in the tree.  Only CleanupNode      *)
(* removes its directory.                                                  *)
(***************************************************************************)
ReturnedIsFinal ==
  [][\A c \in Artifact : call[c] \notin {"idle", "open"} => Frozen(c)]_vars

THEOREM ReturnedStays == Spec => ReturnedIsFinal
<1>1. IInv /\ [Next]_vars =>
        [\A c \in Artifact : call[c] \notin {"idle", "open"} => Frozen(c)]_vars
  BY ReturnedFrozen
<1> QED
  BY <1>1, InductiveInvariant, PTL DEF Spec, ReturnedIsFinal
=============================================================================
