----------------------------- MODULE ScanProofs -----------------------------
(***************************************************************************)
(* For any number of workers and targets: the ownership of the result      *)
(* slots, the exclusion around syft.GetSource, the barrier between the two *)
(* batches, the completeness of the results, and that a package given to a *)
(* native file is not lost.                                                *)
(***************************************************************************)
EXTENDS Scan, TLAPS

Held == {task[w] : w \in Worker} \ {NoTask}

(***************************************************************************)
(* A task of the batch is in one place at a time, and its slot is empty    *)
(* until a worker is done with it.                                         *)
(***************************************************************************)
TasksPlaced ==
  /\ unsent \cap queue = {}
  /\ \A w \in Worker : task[w] # NoTask => task[w] \in batch \ (unsent \cup queue)
  /\ \A v, w \in Worker : task[v] = task[w] /\ task[v] # NoTask => v = w
  /\ \A t \in unsent \cup queue : result[t] = "empty"
  /\ \A w \in Worker : task[w] # NoTask => result[task[w]] = "empty"

(***************************************************************************)
(* A worker holds a task exactly while it scans, and the mutex exactly     *)
(* while it is in syft.GetSource.                                          *)
(***************************************************************************)
WorkersConsistent ==
  \A w \in Worker :
    /\ at[w] \in {"stat", "source", "catalog"} <=> task[w] # NoTask
    /\ at[w] = "source" <=> mu = w

(***************************************************************************)
(* No task of the batch is forgotten, and a worker gives up only when      *)
(* nothing is left to do or the run is cancelled.                          *)
(***************************************************************************)
BatchCovered ==
  /\ \A t \in batch : t \in unsent \cup queue \cup Held \/ result[t] # "empty"
  /\ closed => unsent = {}
  /\ \A w \in Worker : at[w] = "exited" => cancelled \/ (closed /\ queue = {})

(***************************************************************************)
(* What the batches before the current one have left behind.               *)
(***************************************************************************)
PhaseHistory ==
  /\ phase = "extracted" =>
       /\ batch = Extracted
       /\ \A n \in Native : result[n] = "empty"
  /\ phase = "native" =>
       /\ batch \subseteq Native
       /\ \A n \in Native \ batch : result[n] = "ok"
       /\ \A e \in Extracted : result[e] # "empty" \/ cancelled
  /\ phase = "done" =>
       /\ \A w \in Worker : at[w] = "exited"
       /\ ~cancelled => \A t \in Target : result[t] # "empty"

IInv == TypeOK /\ TasksPlaced /\ WorkersConsistent /\ BatchCovered /\ PhaseHistory

-----------------------------------------------------------------------------
(***************************************************************************)
(* parallelScanIndices has put nothing anywhere yet.                       *)
(***************************************************************************)
LEMMA InitIInv == Init => IInv
<1> SUFFICES ASSUME Init PROVE IInv
  OBVIOUS
<1> USE ScanAssumption DEF Init, Target
<1>1. TypeOK
  BY DEF TypeOK
<1>2. TasksPlaced
  BY DEF TasksPlaced
<1>3. WorkersConsistent
  BY DEF WorkersConsistent
<1>4. BatchCovered
  BY DEF BatchCovered
<1>5. PhaseHistory
  BY DEF PhaseHistory
<1> QED
  BY <1>1, <1>2, <1>3, <1>4, <1>5 DEF IInv

(***************************************************************************)
(* The sender moves a task from unsent to the channel, or closes it.       *)
(***************************************************************************)
LEMMA SendIInv == IInv /\ Send => IInv'
<1> SUFFICES ASSUME IInv, Send PROVE IInv'
  OBVIOUS
<1> USE DEF IInv, Send, slotVars
<1>1. TypeOK'
  BY DEF TypeOK
<1>2. TasksPlaced'
  BY DEF TypeOK, TasksPlaced
<1>3. WorkersConsistent'
  BY DEF WorkersConsistent
<1>4. BatchCovered'
  BY DEF TypeOK, BatchCovered, Held
<1>5. PhaseHistory'
  BY DEF PhaseHistory
<1> QED
  BY <1>1, <1>2, <1>3, <1>4, <1>5

(***************************************************************************)
(* Closing the channel moves no task.                                      *)
(***************************************************************************)
LEMMA CloseIInv == IInv /\ Close => IInv'
<1> SUFFICES ASSUME IInv, Close PROVE IInv'
  OBVIOUS
<1> USE DEF IInv, Close, slotVars
<1>1. TypeOK'
  BY DEF TypeOK
<1>2. TasksPlaced'
  BY DEF TasksPlaced
<1>3. WorkersConsistent'
  BY DEF WorkersConsistent
<1>4. BatchCovered'
  BY DEF BatchCovered, Held
<1>5. PhaseHistory'
  BY DEF PhaseHistory
<1> QED
  BY <1>1, <1>2, <1>3, <1>4, <1>5

(***************************************************************************)
(* A worker receives a task, or leaves its loop.                           *)
(***************************************************************************)
LEMMA TakeIInv == ASSUME NEW w \in Worker PROVE IInv /\ Take(w) => IInv'
<1> SUFFICES ASSUME IInv, Take(w) PROVE IInv'
  OBVIOUS
<1> USE ScanAssumption DEF IInv, Take, slotVars
<1>1. PICK t \in queue : queue' = queue \ {t} /\ task' = [task EXCEPT ![w] = t]
  OBVIOUS
<1>2. t \in Target /\ t # NoTask /\ task[w] = NoTask
  BY <1>1 DEF TypeOK, Target, WorkersConsistent
<1>3. TypeOK'
  BY <1>1, <1>2 DEF TypeOK
<1>4. TasksPlaced'
  BY <1>1, <1>2 DEF TypeOK, TasksPlaced
<1>5. WorkersConsistent'
  BY <1>1, <1>2 DEF TypeOK, WorkersConsistent
<1>6. BatchCovered'
  <2>1. Held' = Held \cup {t}
    BY <1>1, <1>2 DEF TypeOK, Held
  <2> QED
    BY <1>1, <1>2, <2>1 DEF TypeOK, BatchCovered
<1>7. PhaseHistory'
  BY <1>1 DEF TypeOK, PhaseHistory
<1> QED
  BY <1>3, <1>4, <1>5, <1>6, <1>7

(***************************************************************************)
(* A worker leaves its loop without a task: if ctx is not cancelled, the   *)
(* channel is closed and drained by then.                                  *)
(***************************************************************************)
LEMMA ExitIInv == ASSUME NEW w \in Worker PROVE IInv /\ Exit(w) => IInv'
<1> SUFFICES ASSUME IInv, Exit(w) PROVE IInv'
  OBVIOUS
<1> USE DEF IInv, Exit, slotVars
<1>1. TypeOK'
  BY DEF TypeOK
<1>2. TasksPlaced'
  BY DEF TasksPlaced
<1>3. WorkersConsistent'
  BY DEF TypeOK, WorkersConsistent
<1>4. BatchCovered'
  BY DEF TypeOK, BatchCovered, Held
<1>5. PhaseHistory'
  BY DEF TypeOK, PhaseHistory
<1> QED
  BY <1>1, <1>2, <1>3, <1>4, <1>5

(***************************************************************************)
(* scanNode takes the mutex, and gives it back with the source.            *)
(***************************************************************************)
LEMMA LockSourceIInv == ASSUME NEW w \in Worker PROVE IInv /\ LockSource(w) => IInv'
<1> SUFFICES ASSUME IInv, LockSource(w) PROVE IInv'
  OBVIOUS
<1> USE ScanAssumption DEF IInv, LockSource, slotVars
<1>1. TypeOK'
  BY DEF TypeOK
<1>2. TasksPlaced'
  BY DEF TasksPlaced
<1>3. WorkersConsistent'
  BY DEF TypeOK, WorkersConsistent
<1>4. BatchCovered'
  BY DEF TypeOK, BatchCovered, Held
<1>5. PhaseHistory'
  BY DEF TypeOK, PhaseHistory
<1> QED
  BY <1>1, <1>2, <1>3, <1>4, <1>5

(***************************************************************************)
(* Releasing the mutex after syft.GetSource.                               *)
(***************************************************************************)
LEMMA GotSourceIInv == ASSUME NEW w \in Worker PROVE IInv /\ GotSource(w) => IInv'
<1> SUFFICES ASSUME IInv, GotSource(w) PROVE IInv'
  OBVIOUS
<1> USE ScanAssumption DEF IInv, GotSource, slotVars
<1>1. TypeOK'
  BY DEF TypeOK
<1>2. TasksPlaced'
  BY DEF TasksPlaced
<1>3. WorkersConsistent'
  BY DEF TypeOK, WorkersConsistent
<1>4. BatchCovered'
  BY DEF TypeOK, BatchCovered, Held
<1>5. PhaseHistory'
  BY DEF TypeOK, PhaseHistory
<1> QED
  BY <1>1, <1>2, <1>3, <1>4, <1>5

(***************************************************************************)
(* A scan that ends fills the slot of the task and drops the task.         *)
(***************************************************************************)
LEMMA FinishIInv ==
  ASSUME NEW w \in Worker, NEW r \in {"ok", "error"},
         IInv,
         at[w] \in {"stat", "source", "catalog"},
         result' = [result EXCEPT ![task[w]] = r],
         pkgs' \in [Target -> SUBSET Package],
         found' \in [Target -> SUBSET Package],
         mu' = IF at[w] = "source" THEN NoWorker ELSE mu,
         Finish(w),
         UNCHANGED <<phase, batch, unsent, queue, closed, cancelled>>
  PROVE  IInv'
<1> USE ScanAssumption DEF IInv, Finish
<1>1. task[w] # NoTask /\ task[w] \in Target /\ task[w] \in batch \ (unsent \cup queue)
  BY DEF TypeOK, TasksPlaced, WorkersConsistent
<1>2. TypeOK'
  BY <1>1 DEF TypeOK
<1>3. TasksPlaced'
  BY <1>1 DEF TypeOK, TasksPlaced
<1>4. WorkersConsistent'
  BY <1>1 DEF TypeOK, WorkersConsistent
<1>5. BatchCovered'
  <2>1. Held' = Held \ {task[w]}
    BY <1>1 DEF TypeOK, TasksPlaced, Held
  <2> QED
    BY <1>1, <2>1 DEF TypeOK, BatchCovered, Target
<1>6. PhaseHistory'
  BY <1>1 DEF TypeOK, PhaseHistory, Target
<1> QED
  BY <1>2, <1>3, <1>4, <1>5, <1>6

(***************************************************************************)
(* An error return of scanNode fills the slot of the worker's own task and *)
(* releases the mutex if the worker held it.                               *)
(***************************************************************************)
LEMMA FailIInv == ASSUME NEW w \in Worker PROVE IInv /\ Fail(w) => IInv'
<1> SUFFICES ASSUME IInv, Fail(w) PROVE IInv'
  OBVIOUS
<1>1. pkgs' \in [Target -> SUBSET Package] /\ found' \in [Target -> SUBSET Package]
  BY DEF IInv, TypeOK, Fail
<1> QED
  BY <1>1, FinishIInv DEF Fail

(***************************************************************************)
(* A completed scan fills the slot of the worker's own task.               *)
(***************************************************************************)
LEMMA SucceedIInv == ASSUME NEW w \in Worker PROVE IInv /\ Succeed(w) => IInv'
<1> SUFFICES ASSUME IInv, Succeed(w) PROVE IInv'
  OBVIOUS
<1>1. Reportable(task[w]) \subseteq SUBSET Package
  BY DEF Reportable
<1>2. pkgs' \in [Target -> SUBSET Package] /\ found' \in [Target -> SUBSET Package]
  BY <1>1 DEF IInv, TypeOK, Succeed
<1>3. mu' = IF at[w] = "source" THEN NoWorker ELSE mu
  BY DEF Succeed
<1> QED
  BY <1>2, <1>3, FinishIInv DEF Succeed

-----------------------------------------------------------------------------
(***************************************************************************)
(* When all workers have returned, no task is left in their hands; without *)
(* a cancellation every task of the batch has a result.                    *)
(***************************************************************************)
LEMMA JoinedEmpty ==
  ASSUME IInv, Joined
  PROVE  /\ \A w \in Worker : task[w] = NoTask /\ mu # w
         /\ mu = NoWorker
         /\ ~cancelled => \A t \in batch : result[t] # "empty"
<1>1. \A w \in Worker : task[w] = NoTask /\ mu # w
  BY DEF IInv, Joined, TypeOK, WorkersConsistent
<1>2. mu = NoWorker
  BY <1>1 DEF IInv, TypeOK
<1>3. ~cancelled => queue = {}
  BY ScanAssumption DEF IInv, Joined, BatchCovered
<1>4. Held = {}
  BY <1>1 DEF Held
<1> QED
  BY <1>1, <1>2, <1>3, <1>4 DEF IInv, Joined, BatchCovered

(***************************************************************************)
(* The second batch starts with clean workers, provided that its slots are *)
(* empty and those of the other native files are filled.                   *)
(***************************************************************************)
LEMMA NativeBatchIInv ==
  ASSUME NEW N \in SUBSET Native,
         IInv, Joined,
         phase = "extracted",
         \A t \in N : result'[t] = "empty",
         \A n \in Native \ N : result'[n] = "ok",
         \A e \in Extracted : result'[e] = result[e],
         result' \in [Target -> {"empty", "ok", "error"}],
         pkgs' \in [Target -> SUBSET Package],
         found' = found,
         StartBatch("native", N)
  PROVE  IInv'
<1> USE ScanAssumption DEF StartBatch
<1>1. TypeOK'
  BY DEF IInv, TypeOK, Target
<1>2. TasksPlaced'
  BY DEF TasksPlaced
<1>3. WorkersConsistent'
  BY JoinedEmpty DEF WorkersConsistent
<1>4. BatchCovered'
  BY DEF BatchCovered
<1>5. PhaseHistory'
  BY JoinedEmpty DEF IInv, PhaseHistory, Target
<1> QED
  BY <1>1, <1>2, <1>3, <1>4, <1>5 DEF IInv

(***************************************************************************)
(* ScanAll ends with the pool as wg.Wait left it.  A slot that was filled  *)
(* stays filled.                                                           *)
(***************************************************************************)
LEMMA EndScanIInv ==
  ASSUME IInv, Joined, EndScan,
         result' \in [Target -> {"empty", "ok", "error"}],
         \A t \in Target : result[t] # "empty" => result'[t] # "empty",
         ~cancelled => \A t \in Target \ batch : result'[t] # "empty",
         pkgs' \in [Target -> SUBSET Package],
         found' = found,
         unsent = {}, \A t \in queue : result'[t] = "empty"
  PROVE  IInv'
<1> USE DEF EndScan, poolVars
<1>1. TypeOK'
  BY DEF IInv, TypeOK
<1>2. TasksPlaced'
  BY JoinedEmpty DEF IInv, TasksPlaced
<1>3. WorkersConsistent'
  BY DEF IInv, WorkersConsistent
<1>4. BatchCovered'
  BY DEF IInv, BatchCovered, Held, TypeOK
<1>5. PhaseHistory'
  BY JoinedEmpty DEF PhaseHistory, Joined, IInv, TypeOK
<1> QED
  BY <1>1, <1>2, <1>3, <1>4, <1>5 DEF IInv

(***************************************************************************)
(* Reuse fills the slots of native files, which no worker has touched yet, *)
(* and filters those of the directories.                                   *)
(***************************************************************************)
LEMMA ReuseIInv == IInv /\ Reuse => IInv'
<1> SUFFICES ASSUME IInv, Reuse PROVE IInv'
  OBVIOUS
<1> USE ScanAssumption
<1>1. /\ phase = "extracted" /\ Joined /\ found' = found
      /\ batch = Extracted /\ \A n \in Native : result[n] = "empty"
  BY DEF IInv, PhaseHistory, Reuse
<1>2. PICK reused \in SUBSET Native :
        /\ pkgs' = [t \in Target |-> IF t \in reused THEN Assigned(t)
                                                     ELSE Filter(Giver)[t]]
        /\ result' = [t \in Target |-> IF t \in reused THEN "ok" ELSE result[t]]
        /\ IF reused = Native THEN EndScan
                              ELSE StartBatch("native", Native \ reused)
  BY DEF Reuse
<1>3. \A t \in Target : Assigned(t) \subseteq Package /\ Filter(Giver)[t] \subseteq Package
  <2>1. Giver \subseteq Target
    BY DEF Giver, Target
  <2> QED
    BY <2>1 DEF IInv, TypeOK, Assigned, Filter
<1>4. pkgs' \in [Target -> SUBSET Package]
  BY <1>2, <1>3
<1>5. result' \in [Target -> {"empty", "ok", "error"}]
  BY <1>2 DEF IInv, TypeOK
<1>6. CASE reused = Native
  <2>1. \A t \in queue : result'[t] = "empty"
    BY <1>1, <1>2 DEF IInv, TypeOK, TasksPlaced, Target
  <2>2. \A t \in Target \ batch : result'[t] # "empty"
    BY <1>1, <1>2, <1>6 DEF Target
  <2>3. \A t \in Target : result[t] # "empty" => result'[t] # "empty"
    BY <1>2
  <2> QED
    BY <1>1, <1>2, <1>4, <1>5, <1>6, <2>1, <2>2, <2>3, EndScanIInv DEF Joined
<1>7. CASE reused # Native
  <2> DEFINE N == Native \ reused
  <2>1. /\ \A t \in N : result'[t] = "empty"
        /\ \A n \in Native \ N : result'[n] = "ok"
        /\ \A e \in Extracted : result'[e] = result[e]
    BY <1>1, <1>2 DEF Target
  <2> QED
    BY <1>1, <1>2, <1>4, <1>5, <1>7, <2>1, NativeBatchIInv
<1> QED
  BY <1>6, <1>7

(***************************************************************************)
(* A failed reuse starts the native batch with every native file, whose    *)
(* slots are still empty.                                                  *)
(***************************************************************************)
LEMMA ReuseFailsIInv == IInv /\ ReuseFails => IInv'
<1> SUFFICES ASSUME IInv, ReuseFails PROVE IInv'
  OBVIOUS
<1>1. /\ phase = "extracted" /\ Joined /\ found' = found /\ result' = result
      /\ StartBatch("native", Native) /\ \A n \in Native : result[n] = "empty"
  BY DEF IInv, PhaseHistory, ReuseFails
<1>2. pkgs' \in [Target -> SUBSET Package]
  BY DEF IInv, TypeOK, ReuseFails, Filter
<1>3. result' \in [Target -> {"empty", "ok", "error"}]
  BY <1>1 DEF IInv, TypeOK
<1> QED
  BY <1>1, <1>2, <1>3, NativeBatchIInv

(***************************************************************************)
(* The last batch has been joined, so ScanAll returns without a task in    *)
(* flight.                                                                 *)
(***************************************************************************)
LEMMA ReturnIInv == IInv /\ Return => IInv'
<1> SUFFICES ASSUME IInv, Return PROVE IInv'
  OBVIOUS
<1>1. Joined /\ EndScan /\ result' = result /\ pkgs' = pkgs /\ found' = found
  BY DEF Return, slotVars
<1>2. ~cancelled => \A t \in Target \ batch : result'[t] # "empty"
  BY <1>1 DEF Return, IInv, PhaseHistory, Target
<1> QED
  BY <1>1, <1>2, EndScanIInv DEF IInv, TypeOK, TasksPlaced, Joined

(***************************************************************************)
(* A cancellation changes no task, slot or worker.                         *)
(***************************************************************************)
LEMMA CancelIInv == IInv /\ (Cancel \/ UNCHANGED vars) => IInv'
<1> SUFFICES ASSUME IInv, Cancel \/ UNCHANGED vars PROVE IInv'
  OBVIOUS
<1> USE DEF IInv, Cancel, vars, poolVars, slotVars
<1>1. TypeOK'
  BY DEF TypeOK
<1>2. TasksPlaced'
  BY DEF TasksPlaced
<1>3. WorkersConsistent'
  BY DEF WorkersConsistent
<1>4. BatchCovered'
  BY DEF BatchCovered, Held
<1>5. PhaseHistory'
  BY DEF PhaseHistory
<1> QED
  BY <1>1, <1>2, <1>3, <1>4, <1>5

-----------------------------------------------------------------------------
(***************************************************************************)
(* No step of the sender, a worker, the reuse or the environment breaks    *)
(* the invariant.                                                          *)
(***************************************************************************)
LEMMA StepIInv == IInv /\ [Next]_vars => IInv'
  BY SendIInv, CloseIInv, TakeIInv, ExitIInv, FailIInv, LockSourceIInv,
     GotSourceIInv, SucceedIInv, ReuseIInv, ReuseFailsIInv, ReturnIInv, CancelIInv
     DEF Next, Main, Work, Terminated

(***************************************************************************)
(* The inductive invariant holds in every reachable state of ScanAll.      *)
(***************************************************************************)
LEMMA InductiveInvariant == Spec => []IInv
  BY InitIInv, StepIInv, PTL DEF Spec

(***************************************************************************)
(* Every variable keeps its type, for any pool and any targets.            *)
(***************************************************************************)
THEOREM TypeCorrect == Spec => []TypeOK
<1>1. IInv => TypeOK
  BY DEF IInv
<1> QED
  BY <1>1, InductiveInvariant, PTL

(***************************************************************************)
(* Two workers never work on, or write to, the same result slot, and never *)
(* fill one twice, although the slots are written without a lock.          *)
(***************************************************************************)
THEOREM SlotsOwned == Spec => []SlotOwnership
<1>1. IInv => SlotOwnership
  BY DEF IInv, TasksPlaced, SlotOwnership
<1> QED
  BY <1>1, InductiveInvariant, PTL

(***************************************************************************)
(* syft.GetSource never runs twice at a time, however many workers there   *)
(* are and however they fail.                                              *)
(***************************************************************************)
THEOREM SourcesExclusive == Spec => []SourceExclusive
<1>1. IInv => SourceExclusive
  BY DEF IInv, WorkersConsistent, SourceExclusive
<1> QED
  BY <1>1, InductiveInvariant, PTL

(***************************************************************************)
(* No native file is scanned while a directory of the first batch is still *)
(* to be scanned.                                                          *)
(***************************************************************************)
THEOREM BatchesSeparated == Spec => []PhaseBarrier
<1>1. IInv => PhaseBarrier
  <2> SUFFICES ASSUME IInv, NEW w \in Worker, task[w] \in Native, NEW e \in Extracted
               PROVE  e \notin unsent \cup queue /\ (result[e] # "empty" \/ cancelled)
    BY DEF PhaseBarrier
  <2>1. task[w] # NoTask /\ task[w] \in batch
    BY ScanAssumption DEF IInv, TasksPlaced
  <2>2. phase = "native"
    BY <2>1, ScanAssumption DEF IInv, TypeOK, PhaseHistory, WorkersConsistent
  <2> QED
    BY <2>2, ScanAssumption DEF IInv, TypeOK, PhaseHistory
<1> QED
  BY <1>1, InductiveInvariant, PTL

(***************************************************************************)
(* A ScanAll that nobody cancelled returns with an outcome for every       *)
(* target.                                                                 *)
(***************************************************************************)
THEOREM ScanComplete == Spec => []Complete
<1>1. IInv => Complete
  BY DEF IInv, PhaseHistory, Complete
<1> QED
  BY <1>1, InductiveInvariant, PTL

-----------------------------------------------------------------------------
(***************************************************************************)
(* A filled slot only ever changes by giving packages of native files      *)
(* away: no second scan overwrites it, and reuse drops nothing else.       *)
(***************************************************************************)
THEOREM SlotsFilledOnce == Spec => FilledOnce
<1> DEFINE Kept(t) ==
      result[t] # "empty" =>
        /\ result'[t] = result[t]
        /\ pkgs'[t] \subseteq pkgs[t]
        /\ pkgs'[t] # pkgs[t] => \A p \in pkgs[t] \ pkgs'[t] : Owner[p] \in Native
<1>1. ASSUME IInv, [Next]_vars, NEW t \in Target PROVE Kept(t)
  <2> USE <1>1, ScanAssumption
  <2>1. CASE UNCHANGED <<result, pkgs>>
    BY <2>1
  <2>2. ASSUME NEW w \in Worker, Fail(w) \/ Succeed(w) PROVE Kept(t)
    <3>1. result[task[w]] = "empty" /\ task[w] \in Target
      BY <2>2 DEF IInv, TypeOK, TasksPlaced, WorkersConsistent, Fail, Succeed
    <3>2. t # task[w] => result'[t] = result[t] /\ pkgs'[t] = pkgs[t]
      BY <2>2 DEF Fail, Succeed, IInv, TypeOK
    <3> QED
      BY <3>1, <3>2
  <2>3. ASSUME NEW G \in SUBSET Giver, pkgs'[t] = Filter(G)[t], result'[t] = result[t]
        PROVE Kept(t)
    <3>1. pkgs[t] \subseteq Package
      BY DEF IInv, TypeOK
    <3>2. \A p \in pkgs[t] \ pkgs'[t] : Owner[p] \in Native
      BY <2>3, <3>1 DEF Filter
    <3> QED
      BY <2>3, <3>2 DEF Filter
  <2>4. CASE Reuse
    <3>1. PICK reused \in SUBSET Native :
            /\ pkgs' = [u \in Target |-> IF u \in reused THEN Assigned(u)
                                                         ELSE Filter(Giver)[u]]
            /\ result' = [u \in Target |-> IF u \in reused THEN "ok" ELSE result[u]]
      BY <2>4 DEF Reuse
    <3>2. t \in reused => result[t] = "empty"
      BY <2>4 DEF Reuse, IInv, PhaseHistory
    <3>3. t \notin reused => pkgs'[t] = Filter(Giver)[t] /\ result'[t] = result[t]
      BY <3>1
    <3> QED
      BY <2>3, <3>2, <3>3
  <2>5. CASE ReuseFails
    BY <2>3, <2>5 DEF ReuseFails
  <2> QED
    BY <2>1, <2>2, <2>4, <2>5
       DEF Next, Main, Work, Terminated, vars, slotVars, Send, Close, Take, Exit,
           LockSource, GotSource, Return, Cancel
<1>2. IInv /\ [Next]_vars => [\A t \in Target : Kept(t)]_vars
  BY <1>1
<1> QED
  BY <1>2, InductiveInvariant, PTL DEF Spec, FilledOnce

(***************************************************************************)
(* ScanAll implements the safety part of its contract with the             *)
(* orchestrator: every step is a cancellation, the return, or invisible,   *)
(* and the result has a gap only if the run was cancelled.                 *)
(***************************************************************************)
THEOREM ScanImplementsContract ==
  Spec => Contract!Init /\ [][Contract!Cancel \/ Contract!Return]_(Contract!vars)
<1> USE ScanAssumption DEF Contract!vars
<1>1. Init => Contract!Init
  BY DEF Init, Contract!Init
<1>2. ASSUME IInv, IInv', [Next]_vars
      PROVE  [Contract!Cancel \/ Contract!Return]_(Contract!vars)
  <2> USE <1>2
  <2>1. CASE phase # "done" /\ phase' # "done" /\ ~Cancel
    <3>1. cancelled' = cancelled
      BY <2>1 DEF Next, Main, Work, Terminated, vars, poolVars, slotVars, Send, Close,
                  Take, Exit, Fail, Finish, LockSource, GotSource, Succeed, Reuse,
                  ReuseFails, Return, StartBatch, EndScan
    <3> QED
      BY <2>1, <3>1
  <2>2. CASE Cancel
    BY <2>2 DEF Cancel, Contract!Cancel, slotVars
  <2>3. CASE phase = "done"
    <3>1. UNCHANGED <<phase, result, cancelled>>
      BY <2>3 DEF Next, Main, Work, Terminated, vars, poolVars, slotVars, Send, Close,
                  Take, Exit, Fail, Finish, LockSource, GotSource, Succeed, Reuse,
                  ReuseFails, Return, Cancel, IInv, TypeOK, TasksPlaced,
                  WorkersConsistent, PhaseHistory
    <3> QED
      BY <3>1
  <2>4. CASE phase # "done" /\ phase' = "done" /\ ~Cancel
    <3>1. cancelled' = cancelled
      BY <2>4 DEF Next, Main, Work, Terminated, vars, poolVars, slotVars, Send, Close,
                  Take, Exit, Fail, Finish, LockSource, GotSource, Succeed, Reuse,
                  ReuseFails, Return, StartBatch, EndScan
    <3>2. (\E t \in Target : result'[t] = "empty") => cancelled
      BY <2>4, <3>1 DEF IInv, PhaseHistory
    <3> QED
      BY <2>4, <3>1, <3>2 DEF Contract!Return, Contract!Outcome
  <2> QED
    BY <2>1, <2>2, <2>3, <2>4
<1> QED
  BY <1>1, <1>2, InductiveInvariant, PTL DEF Spec

(***************************************************************************)
(* While the directories are scanned, a result holds what the scan         *)
(* reported; afterwards a reported package is with its directory or has    *)
(* moved to the native file that owns it, as soon as that has a result.    *)
(***************************************************************************)
PackagesFollowed ==
  \A e \in Extracted :
    /\ result[e] # "ok" => found[e] = {}
    /\ phase = "extracted" => pkgs[e] = found[e]
    /\ \A p \in found[e] :
         \/ p \in pkgs[e]
         \/ /\ Owner[p] \in Native
            /\ result[Owner[p]] = "ok" => p \in pkgs[Owner[p]]

(***************************************************************************)
(* Packages move in the reuse step only, and a native file that is scanned *)
(* directly reports those it owns.                                         *)
(***************************************************************************)
LEMMA StepFollowed ==
  ASSUME IInv, PackagesFollowed, [Next]_vars
  PROVE  PackagesFollowed'
<1> USE ScanAssumption DEF PackagesFollowed, Target
<1>1. CASE UNCHANGED <<phase, slotVars>>
  BY <1>1 DEF slotVars
<1>2. ASSUME NEW w \in Worker, Fail(w) PROVE PackagesFollowed'
  <2>1. task[w] \in Target /\ result[task[w]] = "empty"
    BY <1>2 DEF Fail, IInv, TypeOK, TasksPlaced, WorkersConsistent
  <2> QED
    BY <1>2, <2>1 DEF Fail, IInv, TypeOK
<1>3. ASSUME NEW w \in Worker, Succeed(w) PROVE PackagesFollowed'
  <2>1. task[w] \in Target /\ result[task[w]] = "empty" /\ task[w] \in batch
    BY <1>3 DEF Succeed, IInv, TypeOK, TasksPlaced, WorkersConsistent
  <2>2. PICK S \in Reportable(task[w]) :
          /\ pkgs' = [pkgs EXCEPT ![task[w]] = S]
          /\ found' = [found EXCEPT ![task[w]] = S]
    BY <1>3 DEF Succeed
  <2>3. result' = [result EXCEPT ![task[w]] = "ok"] /\ phase' = phase
    BY <1>3 DEF Succeed
  <2>4. CASE task[w] \in Extracted
    BY <2>1, <2>2, <2>3, <2>4 DEF IInv, TypeOK
  <2>5. CASE task[w] \notin Extracted
    <3>1. S = {p \in Package : Owner[p] = task[w]}
      BY <2>2, <2>5 DEF Reportable
    <3>2. phase # "extracted"
      BY <2>1, <2>5 DEF IInv, PhaseHistory
    <3>3. \A e \in Extracted : found'[e] = found[e] /\ pkgs'[e] = pkgs[e] /\ result'[e] = result[e]
      BY <2>1, <2>2, <2>3, <2>5 DEF IInv, TypeOK
    <3>4. \A e \in Extracted : \A p \in found[e] :
             p \in Package /\ (Owner[p] \in Native /\ Owner[p] # task[w] =>
               result'[Owner[p]] = result[Owner[p]] /\ pkgs'[Owner[p]] = pkgs[Owner[p]])
      BY <2>1, <2>2, <2>3 DEF IInv, TypeOK
    <3>5. pkgs'[task[w]] = S
      BY <2>1, <2>2 DEF IInv, TypeOK
    <3> QED
      BY <2>3, <3>1, <3>2, <3>3, <3>4, <3>5
  <2> QED
    BY <2>4, <2>5
<1>4. CASE Reuse
  <2>1. PICK reused \in SUBSET {n \in Native : Assigned(n) # {}} :
          /\ pkgs' = [t \in Target |-> IF t \in reused THEN Assigned(t) ELSE Filter(Giver)[t]]
          /\ result' = [t \in Target |-> IF t \in reused THEN "ok" ELSE result[t]]
          /\ IF reused = Native THEN EndScan ELSE StartBatch("native", Native \ reused)
    BY <1>4, Zenon DEF Reuse, Target
  <2>2. found' = found /\ phase = "extracted" /\ phase' # "extracted"
    BY <1>4 DEF Reuse, EndScan, StartBatch
  <2>3. ASSUME NEW e \in Extracted
        PROVE  /\ e \notin reused /\ result'[e] = result[e]
               /\ pkgs'[e] = IF e \in Giver THEN {p \in pkgs[e] : Owner[p] = NoOwner} ELSE pkgs[e]
    BY <2>1 DEF Filter
  <2>4. ASSUME NEW e \in Extracted, NEW p \in found[e], p \notin pkgs'[e]
        PROVE  /\ Owner[p] \in Native
               /\ result'[Owner[p]] = "ok" => p \in pkgs'[Owner[p]]
    <3>0. p \in pkgs[e] /\ p \in Package
      BY <2>2 DEF IInv, TypeOK
    <3>1. e \in Giver /\ Owner[p] \in Native
      <4>1. pkgs'[e] = IF e \in Giver THEN {q \in pkgs[e] : Owner[q] = NoOwner} ELSE pkgs[e]
        BY <2>3
      <4>2. e \in Giver /\ Owner[p] # NoOwner
        BY <2>4, <3>0, <4>1
      <4> QED
        BY <3>0, <4>2
    <3>2. p \in Assigned(Owner[p])
      BY <3>0, <3>1 DEF Assigned
    <3>3. result[Owner[p]] = "empty"
      BY <2>2, <3>1 DEF IInv, PhaseHistory
    <3> QED
      BY <2>1, <3>1, <3>2, <3>3
  <2> QED
    BY <2>2, <2>3, <2>4
<1>5. CASE ReuseFails
  <2>1. PICK before \in SUBSET Giver : pkgs' = Filter(before)
    BY <1>5 DEF ReuseFails
  <2>2. found' = found /\ result' = result /\ phase = "extracted" /\ phase' # "extracted"
    BY <1>5 DEF ReuseFails, StartBatch
  <2>3. ASSUME NEW e \in Extracted, NEW p \in found[e], p \notin pkgs'[e]
        PROVE  Owner[p] \in Native /\ result[Owner[p]] # "ok"
    <3>1. p \in pkgs[e] /\ p \in Package /\ Owner[p] # NoOwner
      BY <2>1, <2>2, <2>3 DEF IInv, TypeOK, Filter
    <3> QED
      BY <2>2, <3>1 DEF IInv, PhaseHistory
  <2> QED
    BY <2>2, <2>3
<1>6. CASE Return
  BY <1>6 DEF Return, EndScan, slotVars
<1> QED
  BY <1>1, <1>2, <1>3, <1>4, <1>5, <1>6
     DEF Next, Main, Work, Terminated, vars, Send, Close, Take, Exit, LockSource,
         GotSource, Cancel

(***************************************************************************)
(* A package that a directory scan reported is in some result at the end,  *)
(* unless the scan of the native file it was moved to failed, or a         *)
(* cancellation left that file out.                                        *)
(***************************************************************************)
THEOREM NoReportedPackageLost == Spec => []NoPackageLost
<1>1. Init => PackagesFollowed
  BY ScanAssumption DEF Init, PackagesFollowed, Target
<1>2. IInv /\ PackagesFollowed => NoPackageLost
  <2> SUFFICES ASSUME IInv, PackagesFollowed, phase = "done",
                      NEW e \in Extracted, NEW p \in found[e],
                      \A t \in Target : p \notin pkgs[t]
               PROVE  /\ Owner[p] \in Native
                      /\ result[Owner[p]] = "error" \/ (result[Owner[p]] = "empty" /\ cancelled)
    BY DEF NoPackageLost
  <2>1. Owner[p] \in Native /\ result[Owner[p]] # "ok"
    BY DEF PackagesFollowed, Target
  <2>2. result[Owner[p]] \in {"empty", "error"}
    BY <2>1 DEF IInv, TypeOK, Target
  <2>3. result[Owner[p]] = "empty" => cancelled
    BY <2>1 DEF IInv, PhaseHistory, Target
  <2> QED
    BY <2>1, <2>2, <2>3
<1> QED
  BY <1>1, <1>2, StepFollowed, InductiveInvariant, PTL DEF Spec
=============================================================================
