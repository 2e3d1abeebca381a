-------------------------------- MODULE Scan --------------------------------
(***************************************************************************)
(* Package scan: ScanAll hands the scan targets to a pool of workers in    *)
(* two batches, extracted directories first (parallelScanIndices), moves   *)
(* the packages that belong to Syft-native files from the directories'     *)
(* results to the files' own (reuseSyftNativeResultsFromExtractedScans),   *)
(* and scans only the files this leaves unresolved.                        *)
(*                                                                         *)
(* Modelled: the buffered work channel, the workers' select between it and *)
(* ctx.Done, the mutex around syft.GetSource, the result slots, and the    *)
(* cancellation of ctx (Ctrl-C) at any moment.  A package is an abstract   *)
(* value; which directory's scan can report it and which native file its   *)
(* locations match are given by FoundIn and Owner.  The order of the tasks *)
(* in the channel is abstracted, so the channel is a set.                  *)
(***************************************************************************)
EXTENDS Naturals, FiniteSets

CONSTANTS Extracted,  \* targets whose node is StatusExtracted
          Native,     \* targets whose node is StatusSyftNative
          Worker,     \* the goroutines, max(1, cfg.ParallelScanners) of them
          Package,    \* what Syft can report below the extracted directories
          FoundIn,    \* the directory that holds the package
          Owner,      \* the native file matchPackageToSyftNativeNode finds
          NoOwner,    \* ... or "" when no location matches
          NoTask, NoWorker

ASSUME ScanAssumption ==
  /\ Extracted \cap Native = {}
  /\ IsFiniteSet(Extracted \cup Native)
  /\ Extracted \cup Native # {}
  /\ Worker # {}
  /\ NoTask \notin Extracted \cup Native
  /\ NoWorker \notin Worker
  /\ NoOwner \notin Native
  /\ FoundIn \in [Package -> Extracted]
  /\ Owner \in [Package -> Native \cup {NoOwner}]

VARIABLES
  phase,      \* which part of ScanAll is running
  batch,      \* the indices given to parallelScanIndices
  unsent,     \* tasks the sender has still to put into workQueue
  queue,      \* tasks in workQueue
  closed,     \* workQueue is closed
  at,         \* where each worker is
  task,       \* the task it works on
  mu,         \* the holder of syftGetSourceMu
  result,     \* ScanResult: "empty" (as collectScanTargets left it), "ok", "error"
  pkgs,       \* ScanResult.syftPackages, and with it the BOM
  found,      \* history: what the scan of a directory reported
  cancelled   \* ctx is cancelled

poolVars == <<unsent, queue, closed, at, task, mu>>
slotVars == <<result, pkgs, found>>
vars == <<phase, batch, poolVars, slotVars, cancelled>>

Target == Extracted \cup Native

(***************************************************************************)
(* Syft on a directory reports packages of the files in it; on a single    *)
(* file it reports at least those it would attribute to it in a directory. *)
(***************************************************************************)
Reportable(t) ==
  IF t \in Extracted THEN SUBSET {p \in Package : FoundIn[p] = t}
                     ELSE {{p \in Package : Owner[p] = t}}

(***************************************************************************)
(* parallelScanIndices starts: numWorkers goroutines and an empty channel. *)
(***************************************************************************)
Init ==
  /\ phase = IF Extracted # {} THEN "extracted" ELSE "native"
  /\ batch = IF Extracted # {} THEN Extracted ELSE Native
  /\ unsent = batch
  /\ queue = {}
  /\ closed = FALSE
  /\ at = [w \in Worker |-> "select"]
  /\ task = [w \in Worker |-> NoTask]
  /\ mu = NoWorker
  /\ result = [t \in Target |-> "empty"]
  /\ pkgs = [t \in Target |-> {}]
  /\ found = [t \in Target |-> {}]
  /\ cancelled = FALSE

-----------------------------------------------------------------------------
(***************************************************************************)
(* The calling goroutine sends every index and closes the channel.  The    *)
(* channel holds the whole batch, so that a send never waits for a worker. *)
(***************************************************************************)
Capacity == Cardinality(batch)

Send ==
  /\ Cardinality(queue) < Capacity
  /\ \E t \in unsent :
       /\ unsent' = unsent \ {t}
       /\ queue' = queue \cup {t}
  /\ UNCHANGED <<phase, batch, closed, at, task, mu, slotVars, cancelled>>

Close ==
  /\ phase \in {"extracted", "native"}
  /\ unsent = {}
  /\ ~closed
  /\ closed' = TRUE
  /\ UNCHANGED <<phase, batch, unsent, queue, at, task, mu, slotVars, cancelled>>

\* Mutant of Take: the task stays in the channel.
TakeKeepsTask(w) ==
  /\ at[w] = "select"
  /\ \E t \in queue :
       /\ queue' = queue
       /\ task' = [task EXCEPT ![w] = t]
  /\ at' = [at EXCEPT ![w] = "stat"]
  /\ UNCHANGED <<phase, batch, unsent, closed, mu, slotVars, cancelled>>

(***************************************************************************)
(* The worker's select.  With a task ready and ctx done Go takes either    *)
(* branch.                                                                 *)
(***************************************************************************)
Take(w) ==
  /\ at[w] = "select"
  /\ \E t \in queue :
       /\ queue' = queue \ {t}
       /\ task' = [task EXCEPT ![w] = t]
  /\ at' = [at EXCEPT ![w] = "stat"]
  /\ UNCHANGED <<phase, batch, unsent, closed, mu, slotVars, cancelled>>

\* Mutant of Exit: the closed channel is not noticed.
ExitOnCancelOnly(w) ==
  /\ at[w] = "select"
  /\ cancelled
  /\ at' = [at EXCEPT ![w] = "exited"]
  /\ UNCHANGED <<phase, batch, unsent, queue, closed, task, mu, slotVars,
                 cancelled>>

\* Mutant of Exit: an empty channel counts as closed.
ExitWhenEmpty(w) ==
  /\ at[w] = "select"
  /\ cancelled \/ queue = {}
  /\ at' = [at EXCEPT ![w] = "exited"]
  /\ UNCHANGED <<phase, batch, unsent, queue, closed, task, mu, slotVars,
                 cancelled>>

Exit(w) ==
  /\ at[w] = "select"
  /\ cancelled \/ (closed /\ queue = {})
  /\ at' = [at EXCEPT ![w] = "exited"]
  /\ UNCHANGED <<phase, batch, unsent, queue, closed, task, mu, slotVars,
                 cancelled>>

(***************************************************************************)
(* scanNode.  Every error return leaves Error set and no BOM.              *)
(***************************************************************************)
Finish(w) ==
  /\ at' = [at EXCEPT ![w] = "select"]
  /\ task' = [task EXCEPT ![w] = NoTask]

Fail(w) ==
  /\ at[w] \in {"stat", "source", "catalog"}
  /\ result' = [result EXCEPT ![task[w]] = "error"]
  /\ mu' = IF at[w] = "source" THEN NoWorker ELSE mu
  /\ Finish(w)
  /\ UNCHANGED <<phase, batch, unsent, queue, closed, pkgs, found, cancelled>>

\* Mutant of LockSource: the mutex is not awaited.
LockSourceUnlocked(w) ==
  /\ at[w] = "stat"
  /\ mu' = w
  /\ at' = [at EXCEPT ![w] = "source"]
  /\ UNCHANGED <<phase, batch, unsent, queue, closed, task, slotVars, cancelled>>

LockSource(w) ==
  /\ at[w] = "stat"
  /\ mu = NoWorker
  /\ mu' = w
  /\ at' = [at EXCEPT ![w] = "source"]
  /\ UNCHANGED <<phase, batch, unsent, queue, closed, task, slotVars, cancelled>>

GotSource(w) ==
  /\ at[w] = "source"
  /\ mu' = NoWorker
  /\ at' = [at EXCEPT ![w] = "catalog"]
  /\ UNCHANGED <<phase, batch, unsent, queue, closed, task, slotVars, cancelled>>

Succeed(w) ==
  /\ at[w] = "catalog"
  /\ result' = [result EXCEPT ![task[w]] = "ok"]
  /\ \E S \in Reportable(task[w]) :
       /\ pkgs' = [pkgs EXCEPT ![task[w]] = S]
       /\ found' = [found EXCEPT ![task[w]] = S]
  /\ Finish(w)
  /\ UNCHANGED <<phase, batch, unsent, queue, closed, mu, cancelled>>

\* Mutant of Joined: one worker's return is enough.
JoinedEarly ==
  /\ unsent = {}
  /\ closed
  /\ \E w \in Worker : at[w] = "exited"

(***************************************************************************)
(* wg.Wait returns when every worker has.                                  *)
(***************************************************************************)
Joined ==
  /\ unsent = {}
  /\ closed
  /\ \A w \in Worker : at[w] = "exited"

\* Mutant of StartBatch: reused native files are scanned again.
StartBatchAll(next, tasks) ==
  /\ phase' = next
  /\ batch' = Native
  /\ unsent' = Native
  /\ queue' = {}
  /\ closed' = FALSE
  /\ at' = [w \in Worker |-> "select"]
  /\ task' = [w \in Worker |-> NoTask]
  /\ UNCHANGED <<mu, cancelled>>

StartBatch(next, tasks) ==
  /\ phase' = next
  /\ batch' = tasks
  /\ unsent' = tasks
  /\ queue' = {}
  /\ closed' = FALSE
  /\ at' = [w \in Worker |-> "select"]
  /\ task' = [w \in Worker |-> NoTask]
  /\ UNCHANGED <<mu, cancelled>>

EndScan ==
  /\ phase' = "done"
  /\ UNCHANGED <<batch, poolVars, cancelled>>

(***************************************************************************)
(* A directory gives packages away if its scan succeeded and reported one  *)
(* that a native file owns.                                                *)
(***************************************************************************)
Giver == {e \in Extracted : result[e] = "ok" /\ \E p \in pkgs[e] : Owner[p] # NoOwner}

Assigned(n) == {p \in UNION {pkgs[e] : e \in Giver} : Owner[p] = n}

\* Mutant of Filter: a giver keeps no package.
FilterDropsAll(givers) ==
  [t \in Target |-> IF t \in givers THEN {}
                                    ELSE pkgs[t]]

Filter(givers) ==
  [t \in Target |-> IF t \in givers THEN {p \in pkgs[t] : Owner[p] = NoOwner}
                                    ELSE pkgs[t]]

(***************************************************************************)
(* Every giver's BOM is rebuilt without the packages it gives away.  A     *)
(* native file is reused if it is assigned a package and its own BOM can   *)
(* be built; the others are scanned directly.                              *)
(***************************************************************************)
Reuse ==
  /\ phase = "extracted"
  /\ Joined
  /\ Native # {}
  /\ \E reused \in SUBSET {n \in Native : Assigned(n) # {}} :
       /\ pkgs' = [t \in Target |-> IF t \in reused THEN Assigned(t)
                                                    ELSE Filter(Giver)[t]]
       /\ result' = [t \in Target |-> IF t \in reused THEN "ok" ELSE result[t]]
       /\ IF reused = Native THEN EndScan
                             ELSE StartBatch("native", Native \ reused)
  /\ UNCHANGED found

(***************************************************************************)
(* The BOM of one giver, which keeps some packages, cannot be rebuilt: the *)
(* function returns an error, the givers before it stay filtered, and      *)
(* every native file is scanned.                                           *)
(***************************************************************************)
ReuseFails ==
  /\ phase = "extracted"
  /\ Joined
  /\ Native # {}
  /\ \E before \in SUBSET Giver :
       /\ \E e \in Giver \ before : Filter(Giver)[e] # {}
       /\ pkgs' = Filter(before)
  /\ StartBatch("native", Native)
  /\ UNCHANGED <<result, found>>

Return ==
  /\ phase = "native" \/ (phase = "extracted" /\ Native = {})
  /\ Joined
  /\ EndScan
  /\ UNCHANGED slotVars

Cancel ==
  /\ phase # "done"
  /\ ~cancelled
  /\ cancelled' = TRUE
  /\ UNCHANGED <<phase, batch, poolVars, slotVars>>

Terminated == phase = "done" /\ UNCHANGED vars

Work(w) ==
  \/ Take(w)
  \/ Exit(w)
  \/ Fail(w)
  \/ LockSource(w)
  \/ GotSource(w)
  \/ Succeed(w)

Main == Send \/ Close \/ Reuse \/ ReuseFails \/ Return

Next == Main \/ (\E w \in Worker : Work(w)) \/ Cancel \/ Terminated

Spec == Init /\ [][Next]_vars

(***************************************************************************)
(* Every goroutine that can run does, and a Syft call ends.  Acquiring the *)
(* mutex needs strong fairness: Go's sync.Mutex does not starve a waiter.  *)
(***************************************************************************)
FairSpec ==
  /\ Spec
  /\ WF_vars(Main)
  /\ \A w \in Worker : WF_vars(Work(w)) /\ SF_vars(LockSource(w))

-----------------------------------------------------------------------------
(***************************************************************************)
(* Every variable holds a value of its type.                               *)
(***************************************************************************)
TypeOK ==
  /\ phase \in {"extracted", "native", "done"}
  /\ batch \subseteq Target
  /\ unsent \subseteq batch
  /\ queue \subseteq batch
  /\ closed \in BOOLEAN
  /\ at \in [Worker -> {"select", "stat", "source", "catalog", "exited"}]
  /\ task \in [Worker -> Target \cup {NoTask}]
  /\ mu \in Worker \cup {NoWorker}
  /\ result \in [Target -> {"empty", "ok", "error"}]
  /\ pkgs \in [Target -> SUBSET Package]
  /\ found \in [Target -> SUBSET Package]
  /\ cancelled \in BOOLEAN

(***************************************************************************)
(* Result slots are written without a lock: parallelScanIndices relies on  *)
(* a slot belonging to one worker at a time, and to none once it is        *)
(* filled.                                                                 *)
(***************************************************************************)
SlotOwnership ==
  \A w \in Worker :
    task[w] # NoTask =>
      /\ result[task[w]] = "empty"
      /\ task[w] \notin unsent \cup queue
      /\ \A v \in Worker : task[v] = task[w] => v = w

(***************************************************************************)
(* syft.GetSource touches global state and must not run twice at a time,   *)
(* in particular not after an error return of a scan that held the mutex.  *)
(***************************************************************************)
SourceExclusive ==
  \A v, w \in Worker : at[v] = "source" /\ at[w] = "source" => v = w

(***************************************************************************)
(* No native file is scanned before the directory batch is over: reuse     *)
(* reads the directories' results without synchronisation.                 *)
(***************************************************************************)
PhaseBarrier ==
  \A w \in Worker : task[w] \in Native =>
    \A e \in Extracted : e \notin unsent \cup queue /\ (result[e] # "empty" \/ cancelled)

(***************************************************************************)
(* Without a cancellation every target has been scanned or reused at the   *)
(* end: no task is lost between the sender, the channel, the workers and   *)
(* the reuse bookkeeping.                                                  *)
(***************************************************************************)
Complete ==
  phase = "done" /\ ~cancelled => \A t \in Target : result[t] # "empty"

(***************************************************************************)
(* A package that a directory scan reported is in some result at the end,  *)
(* unless the native file it was moved to failed, or was left out by a     *)
(* cancellation.                                                           *)
(***************************************************************************)
NoPackageLost ==
  phase = "done" =>
    \A e \in Extracted : \A p \in found[e] :
      \/ \E t \in Target : p \in pkgs[t]
      \/ /\ Owner[p] \in Native
         /\ result[Owner[p]] = "error" \/ (result[Owner[p]] = "empty" /\ cancelled)

(***************************************************************************)
(* A native file whose packages were reused is not scanned again, and a    *)
(* filled slot only ever changes by giving packages away.                  *)
(***************************************************************************)
FilledOnce ==
  [][\A t \in Target :
       result[t] # "empty" =>
         /\ result'[t] = result[t]
         /\ pkgs'[t] \subseteq pkgs[t]
         /\ pkgs'[t] # pkgs[t] => \A p \in pkgs[t] \ pkgs'[t] : Owner[p] \in Native]_vars

(***************************************************************************)
(* ScanAll keeps the promise the orchestrator builds on: it returns, for   *)
(* no interleaving of cancellation, sender and workers leaves a goroutine  *)
(* waiting for another, and a target is left without a result only if the  *)
(* run was cancelled.                                                      *)
(***************************************************************************)
Contract ==
  INSTANCE ScanContract
    WITH returned <- phase = "done",
         outcome <- [failed |-> phase = "done" /\ \E t \in Target : result[t] = "error",
                     missing |-> phase = "done" /\ \E t \in Target : result[t] = "empty"]

ImplementsContract == Contract!Spec
=============================================================================
