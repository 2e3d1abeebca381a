----------------------------- MODULE Extraction -----------------------------
(***************************************************************************)
(* The recursive extraction of package extract: extractRecursive and       *)
(* recurseIntoDir (extract_flow.go) over the external-tool loops of        *)
(* extract_external.go, up to the CleanupNode call of the orchestrator.    *)
(*                                                                         *)
(* The traversal is one goroutine; its call stack is the chain of `parent` *)
(* links from `cur` to Root, and call[a] is the state of the call          *)
(* extractRecursive(a).  What an archive holds, what a file is identified  *)
(* as and how a tool run ends are chosen by the environment.  The          *)
(* per-extraction deadline (extractCtx) may fire between any two steps of  *)
(* an extraction.  The names, sizes and subdirectories of the files are    *)
(* abstracted: os.ReadDir's order is any order, and a nested directory     *)
(* that cannot be read is a walk that fails at any point.                  *)
(***************************************************************************)
EXTENDS Naturals, FiniteSets

CONSTANTS Artifact,     \* the files that can occur: the delivery and what archives hold
          Root,         \* the delivery itself
          NoArtifact,   \* the parent of a file no walk has reached
          InnerNode,    \* the throw-away node of flattenCompressedTAR
          Dir,          \* names os.MkdirTemp can return
          NoDir,        \* ExtractedDir = ""
          MaxDepth,     \* cfg.Limits.MaxDepth
          Passwords,    \* len(cfg.Passwords)
          Tools         \* the external tools on PATH

ASSUME ExtractionAssumption ==
  /\ Root \in Artifact
  /\ NoArtifact \notin Artifact
  /\ InnerNode \notin Artifact
  /\ NoDir \notin Dir
  /\ MaxDepth \in Nat \ {0}
  /\ Passwords \in Nat
  /\ Tools \subseteq {"7z", "unshield", "unsquashfs"}

VARIABLES
  policy,     \* cfg.PolicyMode, which no step changes
  status,     \* node.Status of every artifact, and of InnerNode
  dir,        \* node.ExtractedDir
  parent,     \* the node whose directory walk reached the artifact
  depth,      \* the depth argument of extractRecursive
  call,       \* "idle", "open", or the error extractRecursive returned
  attached,   \* artifacts appended to their parent's Children
  filtered,   \* artifacts recorded in a parent's ExtensionFilteredPaths
  unread,     \* the entries a walk has still to visit
  disk,       \* the temporary directories that exist
  files,      \* the files below each of them
  tmp,        \* outDir of the running attempt
  cur,        \* the artifact whose extractRecursive call is executing
  target,     \* the node the tool loop fills in: cur or InnerNode
  handler,    \* the extraction routine the format selected
  attempt,    \* index of the password candidate being tried
  expired,    \* extractCtx is past its deadline
  pc,         \* where the goroutine is
  err,        \* the error value in flight
  rejected    \* history: artifacts whose output held a hard violation

nodeVars == <<status, dir, parent, depth, attached, filtered>>
diskVars == <<disk, files, tmp>>
toolVars == <<target, handler, attempt, expired>>
callVars == <<call, unread, cur>>
vars == <<policy, nodeVars, diskVars, toolVars, callVars, pc, err, rejected>>

Node == Artifact \cup {InnerNode}

(***************************************************************************)
(* "filtered" is StatusSkipped with the "extension filter:" detail that    *)
(* recurseIntoDir tests.                                                   *)
(***************************************************************************)
Status == {"pending", "native", "extracted", "skipped", "filtered",
           "failed", "blocked", "toolMissing"}

(***************************************************************************)
(* HardSecurityError, ResourceLimitError, context.DeadlineExceeded, and    *)
(* any other error value.                                                  *)
(***************************************************************************)
Err == {"none", "hard", "limit", "deadline", "other"}

Handler == {"archive", "compressedTAR", "installShield", "squashfs"}

LeafStatus == {"failed", "filtered", "native", "skipped", "toolMissing"}

Tool(h) == IF h = "installShield" THEN "unshield"
           ELSE IF h = "squashfs" /\ "unsquashfs" \in Tools THEN "unsquashfs"
           ELSE "7z"

(***************************************************************************)
(* The attempt without a password comes first; Squashfs has no other.      *)
(***************************************************************************)
Candidates(h) == IF h = "squashfs" THEN 1 ELSE 1 + Passwords

Fresh == {a \in Artifact \ {Root} :
            parent[a] = NoArtifact /\ \A d \in disk : a \notin files[d]}

-----------------------------------------------------------------------------
Init ==
  /\ policy \in {"strict", "partial"}
  /\ status = [n \in Node |-> "pending"]
  /\ dir = [n \in Node |-> NoDir]
  /\ parent = [a \in Artifact |-> NoArtifact]
  /\ depth = [a \in Artifact |-> 0]
  /\ call = [a \in Artifact |-> IF a = Root THEN "open" ELSE "idle"]
  /\ attached = {}
  /\ filtered = {}
  /\ unread = [a \in Artifact |-> {}]
  /\ disk = {}
  /\ files = [d \in Dir |-> {}]
  /\ tmp = NoDir
  /\ cur = Root
  /\ target = Root
  /\ handler = "archive"
  /\ attempt = 0
  /\ expired = FALSE
  /\ pc = "visit"
  /\ err = "none"
  /\ rejected = {}

(***************************************************************************)
(* extractRecursive returns e.  The deferred cancel ends extractCtx.       *)
(***************************************************************************)
Leave(e) ==
  /\ pc' = "return"
  /\ err' = e
  /\ expired' = FALSE

(***************************************************************************)
(* The depth limit is tested before the file is looked at, so it also      *)
(* strikes a plain file.                                                   *)
(***************************************************************************)
ExceedDepth ==
  /\ pc = "visit"
  /\ depth[cur] > MaxDepth
  /\ status' = [status EXCEPT ![cur] = "skipped"]
  /\ Leave("limit")
  /\ UNCHANGED <<dir, parent, depth, attached, filtered, diskVars, target,
                 handler, attempt, callVars, rejected>>

(***************************************************************************)
(* Every outcome that needs no tool: identification failed, the extension  *)
(* is filtered, Syft reads the format itself, the format is unknown, or    *)
(* it is an AppImage.                                                      *)
(***************************************************************************)
VisitLeaf(s) ==
  /\ pc = "visit"
  /\ depth[cur] <= MaxDepth
  /\ status' = [status EXCEPT ![cur] = s]
  /\ Leave("none")
  /\ UNCHANGED <<dir, parent, depth, attached, filtered, diskVars, target,
                 handler, attempt, callVars, rejected>>

\* Mutant of BeginExtraction: the depth test is off by one.
BeginExtractionTooDeep(h) ==
  /\ pc = "visit"
  /\ depth[cur] <= MaxDepth + 1
  /\ handler' = h
  /\ target' = cur
  /\ attempt' = 0
  /\ expired' = FALSE
  /\ pc' = "attempt"
  /\ UNCHANGED <<nodeVars, diskVars, callVars, err, rejected>>

(***************************************************************************)
(* The format selects an extraction routine and its deadline starts.       *)
(***************************************************************************)
BeginExtraction(h) ==
  /\ pc = "visit"
  /\ depth[cur] <= MaxDepth
  /\ handler' = h
  /\ target' = cur
  /\ attempt' = 0
  /\ expired' = FALSE
  /\ pc' = "attempt"
  /\ UNCHANGED <<nodeVars, diskVars, callVars, err, rejected>>

(***************************************************************************)
(* The tool loop ends and hands e back to extractRecursive.                *)
(***************************************************************************)
EndLoop(e) ==
  /\ pc' = "handled"
  /\ err' = e
  /\ UNCHANGED <<toolVars, callVars>>

ToolAbsent ==
  /\ pc = "attempt"
  /\ Tool(handler) \notin Tools
  /\ status' = [status EXCEPT ![target] = "toolMissing"]
  /\ EndLoop("none")
  /\ UNCHANGED <<dir, parent, depth, attached, filtered, diskVars, rejected>>

MkdirTempFails ==
  /\ pc = "attempt"
  /\ Tool(handler) \in Tools
  /\ status' = [status EXCEPT ![target] = "pending"]
  /\ EndLoop("other")
  /\ UNCHANGED <<dir, parent, depth, attached, filtered, diskVars, rejected>>

(***************************************************************************)
(* os.MkdirTemp returns a name that does not exist; nothing depends on     *)
(* which one.                                                              *)
(***************************************************************************)
UnusedDir == CHOOSE d \in Dir : d \notin disk

(***************************************************************************)
(* The head of the candidate loop: the node is reset and the attempt gets  *)
(* an output directory of its own.                                         *)
(***************************************************************************)
StartAttempt ==
  /\ pc = "attempt"
  /\ Tool(handler) \in Tools
  /\ disk # Dir
  /\ tmp' = UnusedDir
  /\ disk' = disk \cup {UnusedDir}
  /\ status' = [status EXCEPT ![target] = "pending"]
  /\ dir' = [dir EXCEPT ![target] = NoDir]
  /\ pc' = "run"
  /\ UNCHANGED <<parent, depth, attached, filtered, files, toolVars, callVars,
                 err, rejected>>

\* Mutant of RemoveTmp: os.RemoveAll(outDir) is missing.
RemoveTmpLeaks ==
  /\ UNCHANGED disk
  /\ tmp' = NoDir
  /\ UNCHANGED files

RemoveTmp ==
  /\ disk' = disk \ {tmp}
  /\ tmp' = NoDir
  /\ UNCHANGED files

(***************************************************************************)
(* A run that is not over at the deadline is killed, so a run succeeds     *)
(* only before it.                                                         *)
(***************************************************************************)
RunSucceeds ==
  /\ pc = "run"
  /\ ~expired
  /\ pc' = "validate"
  /\ UNCHANGED <<nodeVars, diskVars, toolVars, callVars, err, rejected>>

DeadlineReported == expired /\ Tool(handler) # "unsquashfs"

\* Mutant of RunFails: the same candidate is tried again.
RunFailsRepeats ==
  /\ pc = "run"
  /\ RemoveTmp
  /\ status' = [status EXCEPT ![target] = "failed"]
  /\ IF ~DeadlineReported /\ attempt + 1 < Candidates(handler)
     THEN /\ attempt' = attempt
          /\ pc' = "attempt"
          /\ UNCHANGED <<target, handler, expired, callVars, err>>
     ELSE EndLoop(IF DeadlineReported THEN "deadline" ELSE "none")
  /\ UNCHANGED <<dir, parent, depth, attached, filtered, rejected>>

\* Mutant of RunFails: the first failure ends the loop.
RunFailsGivesUp ==
  /\ pc = "run"
  /\ RemoveTmp
  /\ status' = [status EXCEPT ![target] = "failed"]
  /\ IF FALSE
     THEN /\ attempt' = attempt + 1
          /\ pc' = "attempt"
          /\ UNCHANGED <<target, handler, expired, callVars, err>>
     ELSE EndLoop(IF DeadlineReported THEN "deadline" ELSE "none")
  /\ UNCHANGED <<dir, parent, depth, attached, filtered, rejected>>

(***************************************************************************)
(* A failed run removes its directory.  The 7-Zip and unshield loops       *)
(* return on a deadline and otherwise go on to the next candidate; the     *)
(* unsquashfs routine looks at neither.                                    *)
(***************************************************************************)
RunFails ==
  /\ pc = "run"
  /\ RemoveTmp
  /\ status' = [status EXCEPT ![target] = "failed"]
  /\ IF ~DeadlineReported /\ attempt + 1 < Candidates(handler)
     THEN /\ attempt' = attempt + 1
          /\ pc' = "attempt"
          /\ UNCHANGED <<target, handler, expired, callVars, err>>
     ELSE EndLoop(IF DeadlineReported THEN "deadline" ELSE "none")
  /\ UNCHANGED <<dir, parent, depth, attached, filtered, rejected>>

(***************************************************************************)
(* finalizeExternalExtraction: ValidatePostExtraction and                  *)
(* summarizeExtractedDir accept the output, and the directory, with the    *)
(* files S in it, becomes the node's.                                      *)
(***************************************************************************)
AcceptOutput ==
  /\ pc = "validate"
  /\ \E S \in SUBSET Fresh : files' = [files EXCEPT ![tmp] = S]
  /\ dir' = [dir EXCEPT ![target] = tmp]
  /\ status' = [status EXCEPT ![target] = "extracted"]
  /\ tmp' = NoDir
  /\ EndLoop("none")
  /\ UNCHANGED <<parent, depth, attached, filtered, disk, rejected>>

\* Mutant of RejectOutput: a rejected output leads to the next password.
RejectOutputRetries(e) ==
  /\ pc = "validate"
  /\ RemoveTmp
  /\ rejected' = IF e = "hard" THEN rejected \cup {cur} ELSE rejected
  /\ IF attempt + 1 < Candidates(handler)
     THEN /\ attempt' = attempt + 1
          /\ pc' = "attempt"
          /\ UNCHANGED <<target, handler, expired, callVars, err>>
     ELSE EndLoop(e)
  /\ UNCHANGED nodeVars

(***************************************************************************)
(* They reject it: a symlink or special file, a resource limit, or a file  *)
(* the walk cannot read.                                                   *)
(***************************************************************************)
RejectOutput(e) ==
  /\ pc = "validate"
  /\ RemoveTmp
  /\ rejected' = IF e = "hard" THEN rejected \cup {cur} ELSE rejected
  /\ EndLoop(e)
  /\ UNCHANGED nodeVars

Expire ==
  /\ pc \in {"attempt", "run", "validate", "handled"}
  /\ ~expired
  /\ expired' = TRUE
  /\ UNCHANGED <<nodeVars, diskVars, target, handler, attempt, callVars, pc,
                 err, rejected>>

\* Mutant of Classify: a resource limit blocks the node.
ClassifyBlocksLimits ==
  /\ pc = "handled"
  /\ target = cur
  /\ err # "none"
  /\ LET class == IF expired THEN "limit"
                  ELSE IF err \in {"hard", "limit"} THEN err ELSE "none"
     IN  /\ status' = [status EXCEPT ![cur] =
                         IF class \in {"hard", "limit"} THEN "blocked"
                         ELSE IF class = "limit" \/ @ = "pending" THEN "failed"
                         ELSE @]
         /\ Leave(class)
  /\ UNCHANGED <<dir, parent, depth, attached, filtered, diskVars, target,
                 handler, attempt, callVars, rejected>>

(***************************************************************************)
(* The error classification at the end of extractRecursive: an expired     *)
(* deadline first, whatever the error was.                                 *)
(***************************************************************************)
Classify ==
  /\ pc = "handled"
  /\ target = cur
  /\ err # "none"
  /\ LET class == IF expired THEN "limit"
                  ELSE IF err \in {"hard", "limit"} THEN err ELSE "none"
     IN  /\ status' = [status EXCEPT ![cur] =
                         IF class = "hard" THEN "blocked"
                         ELSE IF class = "limit" \/ @ = "pending" THEN "failed"
                         ELSE @]
         /\ Leave(class)
  /\ UNCHANGED <<dir, parent, depth, attached, filtered, diskVars, target,
                 handler, attempt, callVars, rejected>>

(***************************************************************************)
(* flattenCompressedTAR: the output is one .tar file, which is extracted   *)
(* in turn, under the same deadline, into a node of its own.               *)
(***************************************************************************)
BeginFlatten ==
  /\ pc = "handled"
  /\ target = cur
  /\ err = "none"
  /\ handler = "compressedTAR"
  /\ status[cur] = "extracted"
  /\ Cardinality(files[dir[cur]]) = 1
  /\ target' = InnerNode
  /\ status' = [status EXCEPT ![InnerNode] = "pending"]
  /\ attempt' = 0
  /\ pc' = "attempt"
  /\ UNCHANGED <<dir, parent, depth, attached, filtered, diskVars, handler,
                 expired, callVars, err, rejected>>

(***************************************************************************)
(* An error of the inner extraction leaves extractRecursive at once, past  *)
(* the classification.                                                     *)
(***************************************************************************)
FlattenFails ==
  /\ pc = "handled"
  /\ target = InnerNode
  /\ err # "none"
  /\ target' = cur
  /\ Leave(err)
  /\ UNCHANGED <<nodeVars, diskVars, handler, attempt, callVars, rejected>>

\* Mutant of AdoptInner: os.RemoveAll(oldDir) is missing.
AdoptInnerKeepsOuter ==
  /\ pc = "handled"
  /\ target = InnerNode
  /\ err = "none"
  /\ status[InnerNode] = "extracted"
  /\ UNCHANGED disk
  /\ files' = [files EXCEPT ![dir[cur]] = {}]
  /\ dir' = [dir EXCEPT ![cur] = dir[InnerNode], ![InnerNode] = NoDir]
  /\ unread' = [unread EXCEPT ![cur] = files[dir[InnerNode]]]
  /\ target' = cur
  /\ expired' = FALSE
  /\ pc' = "walk"
  /\ UNCHANGED <<status, parent, depth, attached, filtered, tmp, handler,
                 attempt, call, cur, err, rejected>>

(***************************************************************************)
(* The inner output replaces the intermediate directory.                   *)
(***************************************************************************)
AdoptInner ==
  /\ pc = "handled"
  /\ target = InnerNode
  /\ err = "none"
  /\ status[InnerNode] = "extracted"
  /\ disk' = disk \ {dir[cur]}
  /\ files' = [files EXCEPT ![dir[cur]] = {}]
  /\ dir' = [dir EXCEPT ![cur] = dir[InnerNode], ![InnerNode] = NoDir]
  /\ unread' = [unread EXCEPT ![cur] = files[dir[InnerNode]]]
  /\ target' = cur
  /\ expired' = FALSE
  /\ pc' = "walk"
  /\ UNCHANGED <<status, parent, depth, attached, filtered, tmp, handler,
                 attempt, call, cur, err, rejected>>

(***************************************************************************)
(* recurseIntoDir opens the node's directory, if it has one.               *)
(***************************************************************************)
EnterDir ==
  /\ pc = "handled"
  /\ err = "none"
  /\ target = InnerNode => status[InnerNode] # "extracted"
  /\ dir[cur] # NoDir
  /\ unread' = [unread EXCEPT ![cur] = files[dir[cur]]]
  /\ target' = cur
  /\ expired' = FALSE
  /\ pc' = "walk"
  /\ UNCHANGED <<nodeVars, diskVars, handler, attempt, call, cur, err, rejected>>

NothingExtracted ==
  /\ pc = "handled"
  /\ err = "none"
  /\ target = cur
  /\ dir[cur] = NoDir
  /\ Leave("none")
  /\ UNCHANGED <<nodeVars, diskVars, target, handler, attempt, callVars, rejected>>

-----------------------------------------------------------------------------
(***************************************************************************)
(* recurseIntoDir on the directory of cur.                                 *)
(***************************************************************************)
ReadDirFails ==
  /\ pc = "walk"
  /\ unread' = [unread EXCEPT ![cur] = {}]
  /\ Leave("other")
  /\ UNCHANGED <<nodeVars, diskVars, target, handler, attempt, call, cur, rejected>>

Descend ==
  /\ pc = "walk"
  /\ \E c \in unread[cur] :
       /\ parent' = [parent EXCEPT ![c] = cur]
       /\ depth' = [depth EXCEPT ![c] = depth[cur] + 1]
       /\ call' = [call EXCEPT ![c] = "open"]
       /\ unread' = [unread EXCEPT ![cur] = @ \ {c}]
       /\ cur' = c
       /\ target' = c
  /\ pc' = "visit"
  /\ UNCHANGED <<status, dir, attached, filtered, diskVars, handler, attempt,
                 expired, err, rejected>>

WalkDone ==
  /\ pc = "walk"
  /\ unread[cur] = {}
  /\ Leave("none")
  /\ UNCHANGED <<nodeVars, diskVars, target, handler, attempt, callVars, rejected>>

(***************************************************************************)
(* extractRecursive(cur) has returned err to the walk of its parent.       *)
(***************************************************************************)
HasChildren(a) == \E c \in attached : parent[c] = a

ResumeParent(e) ==
  /\ call' = [call EXCEPT ![cur] = err]
  /\ cur' = parent[cur]
  /\ target' = parent[cur]
  /\ pc' = IF e = "none" THEN "walk" ELSE "return"
  /\ err' = e
  /\ unread' = IF e = "none" THEN unread ELSE [unread EXCEPT ![parent[cur]] = {}]
  /\ UNCHANGED <<dir, parent, depth, diskVars, handler, attempt, expired, rejected>>

\* Mutant of ReturnViolation: the strict policy is not looked at.
ReturnViolationContinues ==
  /\ pc = "return"
  /\ cur # Root
  /\ err \in {"hard", "limit"}
  /\ status' = IF err = "hard" THEN [status EXCEPT ![cur] = "blocked"] ELSE status
  /\ attached' = attached \cup {cur}
  /\ UNCHANGED filtered
  /\ ResumeParent("none")

\* Mutant of ReturnViolation: the partial policy is not looked at.
ReturnViolationSpreads ==
  /\ pc = "return"
  /\ cur # Root
  /\ err \in {"hard", "limit"}
  /\ status' = IF err = "hard" THEN [status EXCEPT ![cur] = "blocked"] ELSE status
  /\ attached' = attached \cup {cur}
  /\ UNCHANGED filtered
  /\ ResumeParent(err)

(***************************************************************************)
(* A security or limit error: the child is kept in the tree, and the walk  *)
(* continues under the partial policy and returns under the strict one.    *)
(***************************************************************************)
ReturnViolation ==
  /\ pc = "return"
  /\ cur # Root
  /\ err \in {"hard", "limit"}
  /\ status' = IF err = "hard" THEN [status EXCEPT ![cur] = "blocked"] ELSE status
  /\ attached' = attached \cup {cur}
  /\ UNCHANGED filtered
  /\ ResumeParent(IF policy = "partial" THEN "none" ELSE err)

\* Mutant of ReturnOther: failed children are not attached.
ReturnOtherDropsFailed ==
  /\ pc = "return"
  /\ cur # Root
  /\ err \notin {"hard", "limit"}
  /\ filtered' = IF status[cur] = "filtered" THEN filtered \cup {cur} ELSE filtered
  /\ attached' = IF status[cur] \in {"filtered", "failed"}
                     \/ (status[cur] = "skipped" /\ ~HasChildren(cur))
                 THEN attached ELSE attached \cup {cur}
  /\ UNCHANGED status
  /\ ResumeParent("none")

(***************************************************************************)
(* No error, or one of neither type, which the walk ignores.               *)
(***************************************************************************)
ReturnOther ==
  /\ pc = "return"
  /\ cur # Root
  /\ err \notin {"hard", "limit"}
  /\ filtered' = IF status[cur] = "filtered" THEN filtered \cup {cur} ELSE filtered
  /\ attached' = IF status[cur] = "filtered"
                     \/ (status[cur] = "skipped" /\ ~HasChildren(cur))
                 THEN attached ELSE attached \cup {cur}
  /\ UNCHANGED status
  /\ ResumeParent("none")

(***************************************************************************)
(* Extract returns the root node with the error.                           *)
(***************************************************************************)
ReturnRoot ==
  /\ pc = "return"
  /\ cur = Root
  /\ call' = [call EXCEPT ![Root] = err]
  /\ pc' = "done"
  /\ UNCHANGED <<nodeVars, diskVars, toolVars, unread, cur, err, rejected>>

(***************************************************************************)
(* The nodes that CleanupNode and the reports reach from the root through  *)
(* Children: the least set that holds Root and is closed under attachment. *)
(***************************************************************************)
InTree ==
  {a \in Artifact :
     \A S \in SUBSET Artifact :
       (Root \in S /\ \A b \in attached : parent[b] \in S => b \in S) => a \in S}

CleanupNode ==
  /\ pc = "done"
  /\ disk' = disk \ {dir[a] : a \in InTree}
  /\ pc' = "cleaned"
  /\ UNCHANGED <<nodeVars, files, tmp, toolVars, callVars, err, rejected>>

Terminated == pc = "cleaned" /\ UNCHANGED vars

Step ==
  \/ ExceedDepth
  \/ \E s \in LeafStatus : VisitLeaf(s)
  \/ \E h \in Handler : BeginExtraction(h)
  \/ ToolAbsent
  \/ MkdirTempFails
  \/ StartAttempt
  \/ RunSucceeds
  \/ RunFails
  \/ AcceptOutput
  \/ \E e \in {"hard", "limit", "other"} : RejectOutput(e)
  \/ Classify
  \/ BeginFlatten
  \/ FlattenFails
  \/ AdoptInner
  \/ EnterDir
  \/ NothingExtracted
  \/ ReadDirFails
  \/ Descend
  \/ WalkDone
  \/ ReturnViolation
  \/ ReturnOther
  \/ ReturnRoot
  \/ CleanupNode

Next == (Step \/ Expire \/ Terminated) /\ UNCHANGED policy

Spec == Init /\ [][Next]_vars

(***************************************************************************)
(* The goroutine runs on, and a tool run ends, at its deadline at the      *)
(* latest; the deadline itself may never fire.                             *)
(***************************************************************************)
FairSpec == Spec /\ WF_vars(Step /\ UNCHANGED policy)
-----------------------------------------------------------------------------
(***************************************************************************)
(* Every variable holds a value of its type.                               *)
(***************************************************************************)
TypeOK ==
  /\ policy \in {"strict", "partial"}
  /\ status \in [Node -> Status]
  /\ dir \in [Node -> Dir \cup {NoDir}]
  /\ parent \in [Artifact -> Artifact \cup {NoArtifact}]
  /\ depth \in [Artifact -> Nat]
  /\ call \in [Artifact -> {"idle", "open"} \cup Err]
  /\ attached \subseteq Artifact
  /\ filtered \subseteq Artifact
  /\ unread \in [Artifact -> SUBSET Artifact]
  /\ disk \subseteq Dir
  /\ files \in [Dir -> SUBSET Artifact]
  /\ tmp \in Dir \cup {NoDir}
  /\ cur \in Artifact
  /\ target \in {cur, InnerNode}
  /\ handler \in Handler
  /\ attempt \in Nat
  /\ expired \in BOOLEAN
  /\ pc \in {"visit", "attempt", "run", "validate", "handled", "walk",
             "return", "done", "cleaned"}
  /\ err \in Err
  /\ rejected \subseteq Artifact

(***************************************************************************)
(* No temporary directory is lost or shared: each one that exists belongs  *)
(* to the running attempt or is the ExtractedDir of exactly one node that  *)
(* is on the call stack or in the tree, and every ExtractedDir still       *)
(* exists.  Failed attempts, rejected outputs, flattening and abandoned    *)
(* walks each have a path on which a directory could be dropped.           *)
(***************************************************************************)
Tracked == {a \in Artifact : call[a] = "open"} \cup attached \cup {Root, InnerNode}

Owned == {dir[n] : n \in Tracked} \ {NoDir}

DirsAccounted ==
  pc # "cleaned" =>
    /\ disk = Owned \cup ({tmp} \ {NoDir})
    /\ tmp \notin Owned
    /\ \A m, n \in Tracked : dir[m] = dir[n] /\ dir[m] # NoDir => m = n

(***************************************************************************)
(* CleanupNode, which only follows Children from the root, finds every     *)
(* temporary directory of the run.                                         *)
(***************************************************************************)
CleanedUp == pc = "cleaned" => disk = {}

(***************************************************************************)
(* Strict policy: once any call has returned a security or limit error,    *)
(* the goroutine only unwinds with such an error; no further file is       *)
(* identified and no further tool runs.                                    *)
(***************************************************************************)
StrictStops ==
  policy = "strict" /\ (\E a \in Artifact : call[a] \in {"hard", "limit"})
    => pc \in {"return", "done", "cleaned"} /\ err \in {"hard", "limit"}

(***************************************************************************)
(* Partial policy: a violation stays with the artifact that caused it; a   *)
(* call returns one only if it walked none of its own files, so it never   *)
(* spreads to an ancestor and a sibling is never given up.                 *)
(***************************************************************************)
PartialIsolates ==
  policy = "partial" =>
    \A a, c \in Artifact : call[a] \in {"hard", "limit"} => parent[c] # a

(***************************************************************************)
(* A call that returned nil has handled every file of its directory: each  *)
(* is in the tree, in the extension-filter record, or a skipped file that  *)
(* no limit was involved in.                                               *)
(***************************************************************************)
NothingLost ==
  \A a \in Artifact :
    call[a] = "none" /\ dir[a] # NoDir =>
      \A c \in files[dir[a]] :
        /\ parent[c] = a
        /\ call[c] \notin {"idle", "open"}
        /\ c \notin attached => /\ status[c] \in {"skipped", "filtered"}
                                /\ call[c] = "none"
        /\ c \in filtered <=> status[c] = "filtered"

(***************************************************************************)
(* An artifact whose materialized output held a symlink or special file is *)
(* never descended into, on any path: not after a later password attempt,  *)
(* not as the inner TAR of a compressed TAR.                               *)
(***************************************************************************)
RejectedNeverWalked == \A a \in rejected, c \in Artifact : parent[c] # a

(***************************************************************************)
(* The artifact a and all that was reached through it, at any depth: the   *)
(* least set that holds a and, with a node, the files its walk reached.    *)
(***************************************************************************)
Below(a) ==
  {c \in Artifact :
     \A S \in SUBSET Artifact :
       (a \in S /\ \A b \in Artifact : parent[b] \in S => b \in S) => c \in S}

(***************************************************************************)
(* No node is reported security-blocked for what happened elsewhere: under *)
(* the partial policy its own output held the violation, and under the     *)
(* strict policy its own or that of an artifact below it, never that of a  *)
(* sibling or of a node above it.                                          *)
(***************************************************************************)
BlockedHasCause ==
  \A a \in Artifact : status[a] = "blocked" =>
    IF policy = "partial" THEN a \in rejected ELSE Below(a) \cap rejected # {}

(***************************************************************************)
(* A tool loop that ends without an error and without an extraction has    *)
(* tried every password candidate, the attempt without one included.       *)
(***************************************************************************)
AllCandidatesTried ==
  pc = "handled" /\ err = "none" /\ status[target] = "failed"
    => attempt + 1 = Candidates(handler)

(***************************************************************************)
(* The depth argument follows the tree, and nothing below MaxDepth is      *)
(* extracted.                                                              *)
(***************************************************************************)
DepthBound ==
  \A a \in Artifact :
    /\ parent[a] # NoArtifact => depth[a] = depth[parent[a]] + 1
    /\ dir[a] # NoDir => depth[a] <= MaxDepth

(***************************************************************************)
(* Every run of Extract returns and is cleaned up, whatever the tools do.  *)
(***************************************************************************)
Terminates == <>(pc = "cleaned")

(***************************************************************************)
(* treeHasIncomplete and treeHasHardSecurity of the orchestrator, and the  *)
(* counters of collectExtractionStats, as far as they are zero or not.     *)
(***************************************************************************)
TreeFailed == \E a \in InTree : status[a] \in {"failed", "toolMissing"}

TreeSkipped == \E a \in InTree : status[a] \in {"skipped", "filtered"}

TreeBlocked == \E a \in InTree : status[a] = "blocked"

Returned == pc \in {"done", "cleaned"}

Contract ==
  INSTANCE ExtractionContract
    WITH policy <- policy,
         returned <- Returned,
         outcome <- [err |-> IF Returned THEN err ELSE "none",
                     failed |-> Returned /\ TreeFailed,
                     skipped |-> Returned /\ TreeSkipped,
                     blocked |-> Returned /\ TreeBlocked]

(***************************************************************************)
(* Extract returns, whatever the tools do, and with no combination of      *)
(* error and tree that the orchestrator does not expect; in particular a   *)
(* blocked node never goes without a security error under the strict       *)
(* policy.                                                                 *)
(***************************************************************************)
ImplementsContract == Contract!Spec

-----------------------------------------------------------------------------
(***************************************************************************)
(* What the documentation says and the code does not do.                   *)
(*                                                                         *)
(* safeguard.go:5: "Hard security violations discovered by safeguard are   *)
(* never overridable."  A violation found in an output that was accepted   *)
(* from the tool must show in the result.                                  *)
(***************************************************************************)
HardSecurityNeverMasked ==
  Returned /\ rejected # {} => err = "hard" \/ TreeBlocked

(***************************************************************************)
(* MODULE_GUIDE.md section 8, exit code 0: "all subtrees fully processed". *)
(* A result without error, incomplete or blocked node has visited every    *)
(* file of every extracted directory.                                      *)
(***************************************************************************)
FullyProcessed ==
  Returned /\ err = "none" /\ ~TreeFailed /\ ~TreeSkipped /\ ~TreeBlocked =>
    \A a \in InTree :
      dir[a] # NoDir => \A c \in files[dir[a]] : call[c] # "idle"
=============================================================================
