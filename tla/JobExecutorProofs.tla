------------------------- MODULE JobExecutorProofs --------------------------
(***************************************************************************)
(* Proofs about JobExecutor: it implements JobStore, so the store's        *)
(* theorems hold of it, and a cancellation it accepted is never followed   *)
(* by success.                                                             *)
(***************************************************************************)
EXTENDS JobExecutor, JobStoreProofs

(* A worker outside its loop's head has a job, and so has a Cancel request *)
(* that has read a status.                                                 *)
AtRest   == {"idle", "exited"}
Bound(ws) == IF worker[ws].pc \in AtRest THEN worker[ws].job = 0
                                         ELSE worker[ws].job \in JobIds
Locals == [pc: Stages, job: 0..MaxJobs, errs: SUBSET Causes, recovered: BOOLEAN]
Owned == /\ worker \in [Workspaces -> Locals]
         /\ canceler.seen # "none" => canceler.job \in JobIds
         /\ \A ws \in Workspaces : Bound(ws)

LEMMA OwnedInit == ExecInit => Owned
BY JobStoreAssumption
   DEF ExecInit, Owned, Bound, Idle, NoCancel, AtRest, Stages, Locals

(* Every step of a worker is a step of the store or leaves it alone.       *)
LEMMA WorkerStep ==
  ASSUME NEW ws \in Workspaces, RunWorkspace(ws), Owned
  PROVE  UNCHANGED vars \/ MarkUnavailable \/ \E j \in JobIds : Run(j) \/ Settle(j)
<1> DEFINE j == Job_(ws)
<1>0. worker[ws].pc \notin AtRest => j \in JobIds
  BY DEF Owned, Bound, Job_
<1>1. CASE \E i \in JobIds : ClaimWorkspaceJob(ws, i) \/ ClaimDenied(ws, i)
  BY <1>1 DEF ClaimWorkspaceJob, ClaimDenied, Run, vars
<1>2. CASE RejectQueued(ws)
  BY <1>0, <1>2 DEF RejectQueued, FinishQueued, At, AtRest, Settle, vars
<1>3. CASE WorkerExits(ws)
  BY <1>3 DEF WorkerExits
<1>4. ASSUME NEW from \in {"succeeded", "failed", "interrupted", "closing"},
             NEW target \in Terminal, NEW comp \in BOOLEAN,
             Transition(ws, from, target, comp)
      PROVE  Settle(j) /\ j \in JobIds
  BY <1>0, <1>4 DEF Transition, At, AtRest, Settle
<1>5. CASE FinishSucceeded(ws) \/ FinishFailed(ws) \/ FinishInterrupted(ws)
  BY ZenonT(60), <1>4, <1>5 DEF FinishSucceeded, FinishFailed, FinishInterrupted,
                    AppendTerminal, Terminal
<1>6. CASE FinishCanceled(ws)
  <2>1. CASE At(ws, "acknowledging") /\ AcknowledgeCompensation(Job_(ws))
    BY <1>0, <2>1 DEF At, AtRest, Settle
  <2> QED
    BY ZenonT(60), <1>4, <1>6, <2>1 DEF FinishCanceled, CheckCompensation, AppendTerminal,
       Terminal
<1>7. CASE \/ CheckWorkspaceExecution(ws) \/ AppendStarted(ws)
           \/ RegisterRunning(ws) \/ CompleteRunning(ws)
           \/ \E result \in Results, cut \in BOOLEAN : OperationReturns(ws, result, cut)
  BY <1>7 DEF CheckWorkspaceExecution, AppendStarted, RegisterRunning,
              CompleteRunning, OperationReturns
<1> QED
  BY ZenonT(60), <1>1, <1>2, <1>3, <1>5, <1>6, <1>7 DEF RunWorkspace, Execute

LEMMA ExecStep == Owned /\ [ExecNext]_allVars => [Next]_vars
<1> SUFFICES ASSUME Owned, [ExecNext]_allVars PROVE [Next]_vars
  OBVIOUS
<1>1. CASE \E ws \in Workspaces : RunWorkspace(ws)
  BY <1>1, WorkerStep DEF Next
<1>2. CASE \E ws \in Workspaces : SinkFails(ws) \/ WriteFails(ws)
  BY <1>2 DEF SinkFails, WriteFails
<1>3. CASE \E i \in JobIds : Submit(i)
  BY ZenonT(60), <1>3 DEF Submit, Next, Admit
<1>4. CASE \E i \in JobIds : CancelReads(i) \/ Revoke(i)
  BY <1>4 DEF CancelReads, Revoke
<1>5. CASE CancelQueued
  <2>1. canceler.job \in JobIds
    BY <1>5 DEF CancelQueued, Owned
  <2> QED
    BY <1>5, <2>1 DEF CancelQueued, FinishQueued, Next, Settle
<1>6. CASE CancelRunning \/ Stop \/ UNCHANGED allVars
  BY <1>6 DEF CancelRunning, Stop, allVars
<1>7. CASE ProcessEnds \/ Restart \/ StoreFails
  BY <1>7 DEF ProcessEnds, Restart, StoreFails, Next
<1> QED
  BY ZenonT(60), <1>1, <1>2, <1>3, <1>4, <1>5, <1>6, <1>7 DEF ExecNext

(* A worker that changes its own locals keeps Owned if they stay bound.    *)
LEMMA OwnedAfter ==
  ASSUME Owned, NEW ws \in Workspaces, NEW w \in Locals,
         worker' = [worker EXCEPT ![ws] = w], canceler' = canceler,
         IF w.pc \in AtRest THEN w.job = 0 ELSE w.job \in JobIds
  PROVE  Owned'
BY DEF Owned, Bound

LEMMA OwnedIdle ==
  ASSUME Owned, NEW ws \in Workspaces, GoIdle(ws), canceler' = canceler
  PROVE  Owned'
<1>1. Idle \in Locals /\ Idle.pc \in AtRest /\ Idle.job = 0
  BY JobStoreAssumption DEF Idle, Locals, Stages, AtRest
<1> QED
  BY ZenonT(60), <1>1, OwnedAfter DEF GoIdle

LEMMA OwnedGoTo ==
  ASSUME Owned, NEW ws \in Workspaces, NEW pc \in Stages \ AtRest,
         worker[ws].pc \notin AtRest, canceler' = canceler, GoTo(ws, pc)
  PROVE  Owned'
<1> DEFINE old == worker[ws]
           w == [old EXCEPT !.pc = pc]
<1>1. old \in Locals /\ old.job \in JobIds
  BY DEF Owned, Bound
<1>2. w \in Locals /\ w.pc = pc /\ w.job = old.job
  BY <1>1 DEF Locals
<1>3. worker' = [worker EXCEPT ![ws] = w]
  BY DEF Owned, GoTo
<1> HIDE DEF w, old
<1> QED
  BY ZenonT(60), <1>1, <1>2, <1>3, OwnedAfter

LEMMA OwnedClaim ==
  ASSUME Owned, NEW ws \in Workspaces, NEW j \in JobIds,
         NEW pc \in {"claimed", "rejecting"}, canceler' = canceler,
         worker' = [worker EXCEPT ![ws] = [Idle EXCEPT !.pc = pc, !.job = j]]
  PROVE  Owned'
<1> DEFINE w == [Idle EXCEPT !.pc = pc, !.job = j]
<1>0. Idle \in Locals
  BY JobStoreAssumption DEF Idle, Locals, Stages
<1>1. j \in 0..MaxJobs /\ pc \in Stages /\ pc \notin AtRest
  BY JobStoreAssumption DEF JobIds, Stages, AtRest
<1>2. w \in Locals /\ w.pc = pc /\ w.job = j
  BY ZenonT(60), <1>0, <1>1 DEF Locals
<1> HIDE DEF w
<1>3. worker' = [worker EXCEPT ![ws] = w]
  BY DEF w
<1> QED
  BY ZenonT(60), <1>1, <1>2, <1>3, OwnedAfter

LEMMA OwnedExecute ==
  ASSUME Owned, NEW ws \in Workspaces, Execute(ws)
  PROVE  Owned'
<1> DEFINE old == worker[ws]
<1>0. /\ old \in Locals /\ worker \in [Workspaces -> Locals]
      /\ old.pc \notin AtRest => old.job \in JobIds
  BY DEF Owned, Bound
<1>1. CASE CheckWorkspaceExecution(ws)
  <2>0. old.pc \notin AtRest /\ canceler' = canceler
    BY <1>1 DEF CheckWorkspaceExecution, At, AtRest
  <2>1. CASE Job_(ws) \in revoked
    <3> DEFINE w == [old EXCEPT !.pc = "failing", !.errs = {"error"}]
    <3>1. w \in Locals /\ w.pc = "failing" /\ w.job = old.job
      BY ZenonT(60), <1>0 DEF Locals, Stages, Causes
    <3>2. worker' = [worker EXCEPT ![ws] = w]
      BY <1>0, <1>1, <2>1 DEF CheckWorkspaceExecution
    <3> HIDE DEF w
    <3> QED
      BY ZenonT(60), <1>0, <2>0, <3>1, <3>2, OwnedAfter DEF AtRest
  <2>2. CASE Job_(ws) \notin revoked /\ stopping
    BY ZenonT(60), <1>0, <1>1, <2>0, <2>2, OwnedIdle DEF CheckWorkspaceExecution, GoIdle
  <2>3. CASE Job_(ws) \notin revoked /\ ~stopping
    <3>1. GoTo(ws, "starting")
      BY <1>0, <1>1, <2>3 DEF CheckWorkspaceExecution, GoTo
    <3> QED
      BY <2>0, <3>1, OwnedGoTo DEF Stages, AtRest
  <2> QED
    BY <2>1, <2>2, <2>3
<1>2. CASE AppendStarted(ws)
  BY <1>2, OwnedIdle, OwnedGoTo DEF AppendStarted, At, AtRest, Stages
<1>3. CASE RegisterRunning(ws)
  BY <1>3, OwnedGoTo DEF RegisterRunning, At, AtRest, Stages
<1>4. ASSUME NEW result \in Results, NEW cut \in BOOLEAN,
             OperationReturns(ws, result, cut)
      PROVE  Owned'
  <2> DEFINE errs == old.errs \cup result
             w == [old EXCEPT !.pc = "completing", !.errs = errs]
  <2>0. errs \in SUBSET Causes
    BY <1>0 DEF Results, Causes, Locals
  <2> HIDE DEF errs
  <2>1. w \in Locals /\ w.pc = "completing" /\ w.job = old.job
    BY ZenonT(60), <1>0, <2>0 DEF Locals, Stages
  <2>2. worker' = [worker EXCEPT ![ws] = w]
    BY ZenonT(60), <1>0, <1>4 DEF OperationReturns, errs
  <2>3. old.pc \notin AtRest /\ canceler' = canceler
    BY <1>4 DEF OperationReturns, At, AtRest
  <2> HIDE DEF w
  <2> QED
    BY ZenonT(60), <1>0, <2>1, <2>2, <2>3, OwnedAfter DEF AtRest
<1>5. CASE CompleteRunning(ws)
  <2> DEFINE errs == IF old.errs = {} /\ (Job_(ws) \in ctxDone \/ stopping)
                     THEN {"canceled"} ELSE old.errs
             path == IF stopping THEN "interrupting"
                     ELSE IF "canceled" \in errs THEN "canceling"
                     ELSE IF errs # {} THEN "failing" ELSE "succeeding"
             w == [old EXCEPT !.pc = path, !.errs = errs]
  <2>0. errs \in SUBSET Causes /\ path \in Stages \ AtRest
    BY <1>0 DEF Causes, Locals, Stages, AtRest
  <2>2. worker' = [worker EXCEPT ![ws] = w]
    BY ZenonT(60), <1>0, <1>5 DEF CompleteRunning
  <2> HIDE DEF errs, path
  <2>1. w \in Locals /\ w.pc = path /\ w.job = old.job
    BY ZenonT(60), <1>0, <2>0 DEF Locals
  <2>3. old.pc \notin AtRest /\ canceler' = canceler
    BY <1>5 DEF CompleteRunning, At, AtRest
  <2> HIDE DEF w
  <2> QED
    BY ZenonT(60), <1>0, <2>0, <2>1, <2>2, <2>3, OwnedAfter
<1>6. ASSUME NEW from \in Stages \ AtRest, NEW to \in Stages \ AtRest,
             NEW kind, AppendTerminal(ws, from, kind, to)
      PROVE  Owned'
  BY ZenonT(60), <1>6, OwnedGoTo DEF AppendTerminal, At
<1>7. ASSUME NEW from \in Stages \ AtRest, NEW target, NEW comp,
             Transition(ws, from, target, comp)
      PROVE  Owned'
  BY ZenonT(60), <1>7, OwnedGoTo, OwnedIdle DEF Transition, At, Stages, AtRest
<1>8. CASE CheckCompensation(ws)
  <2>1. PICK ok \in BOOLEAN :
          worker' = [worker EXCEPT ![ws].pc = "checked", ![ws].recovered = ok]
    BY ZenonT(60), <1>8 DEF CheckCompensation
  <2> DEFINE w == [old EXCEPT !.pc = "checked", !.recovered = ok]
  <2>2. w \in Locals /\ w.pc = "checked" /\ w.job = old.job
    BY ZenonT(60), <1>0 DEF Locals, Stages
  <2>3. worker' = [worker EXCEPT ![ws] = w]
    BY ZenonT(60), <1>0, <2>1
  <2>4. old.pc \notin AtRest /\ canceler' = canceler
    BY <1>8 DEF CheckCompensation, At, AtRest
  <2> HIDE DEF w
  <2> QED
    BY ZenonT(60), <1>0, <2>2, <2>3, <2>4, OwnedAfter DEF AtRest
<1>9. CASE /\ At(ws, "acknowledging") /\ GoIdle(ws)
           /\ canceler' = canceler
  BY <1>9, OwnedIdle
<1>10. {"succeeding", "succeeded", "failing", "failed", "interrupting",
        "interrupted", "checked", "canceled", "closing"} \subseteq Stages \ AtRest
  BY DEF Stages, AtRest
<1> QED
  BY ZenonT(60), <1>1, <1>2, <1>3, <1>4, <1>5, <1>6, <1>7, <1>8, <1>9, <1>10
     DEF Execute, FinishSucceeded, FinishFailed, FinishInterrupted, FinishCanceled

LEMMA OwnedStep == Owned /\ [ExecNext]_allVars => Owned'
<1> SUFFICES ASSUME Owned, [ExecNext]_allVars PROVE Owned'
  OBVIOUS
<1>1. ASSUME NEW ws \in Workspaces, RunWorkspace(ws) PROVE Owned'
  <2>1. CASE \E j \in JobIds : ClaimWorkspaceJob(ws, j) \/ ClaimDenied(ws, j)
    BY ZenonT(60), <2>1, OwnedClaim DEF ClaimWorkspaceJob, ClaimDenied
  <2>2. CASE RejectQueued(ws)
    BY <2>2, OwnedIdle DEF RejectQueued
  <2>3. CASE WorkerExits(ws)
    BY <2>3 DEF WorkerExits, GoTo, At, Owned, Bound, Locals, Stages, AtRest
  <2> QED
    BY ZenonT(60), <1>1, <2>1, <2>2, <2>3, OwnedExecute DEF RunWorkspace
<1>2. ASSUME NEW ws \in Workspaces, SinkFails(ws) PROVE Owned'
  <2> DEFINE old == worker[ws]
             cause == IF Job_(ws) \in ctxDone \/ stopping THEN "canceled" ELSE "error"
             w == [old EXCEPT !.errs = {cause}]
  <2>0. /\ old \in Locals /\ worker \in [Workspaces -> Locals]
        /\ old.pc = "operating" /\ canceler' = canceler
        /\ old.job \in JobIds
    BY <1>2 DEF Owned, Bound, SinkFails, At, AtRest
  <2>1. {cause} \in SUBSET Causes
    BY DEF Causes
  <2>2. worker' = [worker EXCEPT ![ws] = w]
    BY <1>2, <2>0 DEF SinkFails
  <2> HIDE DEF cause
  <2>3. w \in Locals /\ w.pc = old.pc /\ w.job = old.job
    BY <2>0, <2>1 DEF Locals
  <2> HIDE DEF w
  <2> QED
    BY ZenonT(60), <2>0, <2>2, <2>3, OwnedAfter DEF AtRest
<1>3. ASSUME NEW ws \in Workspaces, WriteFails(ws) PROVE Owned'
  BY <1>3, OwnedIdle DEF WriteFails
<1>4. CASE \E j \in JobIds : Submit(j) \/ Revoke(j)
  BY ZenonT(60), <1>4 DEF Submit, Revoke, execVars, Owned, Bound
<1>5. CASE \E j \in JobIds : CancelReads(j)
  BY <1>5 DEF CancelReads, Owned, Bound
<1>6. CASE CancelQueued \/ CancelRunning
  BY <1>6 DEF CancelQueued, CancelRunning, NoCancel, Owned, Bound
<1>7. CASE Stop \/ Restart \/ StoreFails \/ UNCHANGED allVars
  BY <1>7 DEF Stop, Restart, StoreFails, allVars, execVars, Owned, Bound
<1>8. CASE ProcessEnds
  <2>1. Idle \in Locals /\ Idle.pc \in AtRest /\ Idle.job = 0
    BY JobStoreAssumption DEF Idle, Locals, Stages, AtRest
  <2> HIDE DEF Idle
  <2> QED
    BY <1>8, <2>1 DEF ProcessEnds, NoCancel, Owned, Bound
<1> QED
  BY ZenonT(60), <1>1, <1>2, <1>3, <1>4, <1>5, <1>6, <1>7, <1>8 DEF ExecNext

(* The executor implements the store: under every fault, each of its steps *)
(* is a store operation or leaves the job table alone.                     *)
THEOREM ExecutorRefinesStore == ExecSpec => Spec
<1>1. ExecInit => Init
  BY DEF ExecInit
<1> QED
  BY <1>1, OwnedInit, OwnedStep, ExecStep, PTL DEF ExecSpec, Spec

(* So no interleaving of workers, cancellations, shutdowns and crashes     *)
(* runs two mutating jobs of one workspace together.                       *)
THEOREM ExecutorOneMutator == ExecSpec => []OneMutatorPerWorkspace
BY ExecutorRefinesStore, OneMutator, PTL

-----------------------------------------------------------------------------
(* Accepted cancellations.  A job that left the queue never returns to it, *)
(* and a job keeps its workspace, so no two workers hold one job.  A job   *)
(* in the cancel map is operating or completing; once its cancellation is  *)
(* accepted, whoever holds it sees a canceled context before it chooses    *)
(* its terminal path.                                                      *)
Left(j) == jobs[j].status \notin {"absent", "queued"}
Unregistered == {"claimed", "starting", "registering"}
Succeeding   == {"succeeding", "succeeded"}

Holds(ws) ==
  LET j == worker[ws].job
  IN  j \in JobIds =>
        /\ jobs[j].ws = ws /\ jobs[j].status # "absent"
        /\ worker[ws].pc # "rejecting" => Left(j)
        /\ j \in running => worker[ws].pc \in {"operating", "completing"}
        /\ j \in accepted =>
             /\ worker[ws].pc \notin Unregistered \cup Succeeding
             /\ worker[ws].pc \in {"operating", "completing"} => j \in ctxDone

CancelInv ==
  /\ TypeOK /\ Owned
  /\ \A ws \in Workspaces : Holds(ws)
  /\ \A j \in running : j \in JobIds /\ Left(j)
  /\ \A j \in accepted : j \in JobIds /\ Left(j)
  /\ AcceptedCancelNeverSucceeds

LEMMA StableJob ==
  ASSUME TypeOK, [Next]_vars, NEW j \in JobIds, jobs[j].status # "absent"
  PROVE  /\ jobs'[j].ws = jobs[j].ws /\ jobs'[j].status # "absent"
         /\ Left(j) => Left(j)'
<1>1. ASSUME NEW i \in JobIds, Added(i) \/ Settled(i)
      PROVE  /\ jobs'[j].ws = jobs[j].ws /\ jobs'[j].status # "absent"
             /\ Left(j) => Left(j)'
  BY <1>1 DEF Added, Settled, TypeOK, Left, Terminal
<1>2. ASSUME NEW i \in JobIds, Start(i)
      PROVE  /\ jobs'[j].ws = jobs[j].ws /\ jobs'[j].status # "absent"
             /\ Left(j) => Left(j)'
  <2>1. jobs[i] \in Job
    BY DEF TypeOK
  <2>2. jobs' = [jobs EXCEPT ![i] = [jobs[i] EXCEPT !.status = "running",
                                                   !.started = TRUE]]
    BY ZenonT(60), <1>2 DEF Start, TypeOK
  <2> QED
    BY <2>1, <2>2 DEF TypeOK, Left, Job
<1>3. CASE RecoverInterruptedJobsObserved
  <2>1. jobs'[j] = IF j \in Running THEN Interrupted(jobs[j]) ELSE jobs[j]
    BY <1>3 DEF RecoverInterruptedJobsObserved
  <2>2. jobs[j] \in Job
    BY DEF TypeOK
  <2> QED
    BY <2>1, <2>2, InterruptedType DEF Left
<1>4. CASE Untouched
  BY <1>4 DEF Untouched, Left
<1> QED
  BY ZenonT(60), <1>1, <1>2, <1>3, <1>4, StepShape

(* What a worker holds survives a step that leaves the worker alone and    *)
(* neither registers nor cancels its job, nor forgets that it is canceled. *)
LEMMA HoldsStays ==
  ASSUME CancelInv, [Next]_vars, NEW ws \in Workspaces,
         worker'[ws] = worker[ws],
         worker[ws].job \in running' => worker[ws].job \in running,
         worker[ws].job \in accepted' => worker[ws].job \in accepted,
         worker[ws].job \in ctxDone => worker[ws].job \in ctxDone'
  PROVE  Holds(ws)'
<1> DEFINE j == worker[ws].job
<1> SUFFICES ASSUME j \in JobIds PROVE Holds(ws)'
  BY DEF Holds
<1>1. Holds(ws) /\ TypeOK
  BY ZenonT(60) DEF CancelInv
<1>2. /\ jobs'[j].ws = jobs[j].ws /\ jobs'[j].status # "absent"
      /\ Left(j) => Left(j)'
  BY ZenonT(60), <1>1, StableJob DEF Holds
<1> QED
  BY <1>1, <1>2 DEF Holds

(* It survives a move between stages that are not in the cancel map.       *)
LEMMA HoldsMoves ==
  ASSUME CancelInv, [Next]_vars, NEW ws \in Workspaces,
         worker'[ws].job = worker[ws].job,
         worker[ws].pc \notin {"rejecting", "operating", "completing"},
         worker'[ws].pc \notin {"operating", "completing"},
         worker'[ws].pc \in Unregistered \cup Succeeding =>
           worker[ws].pc \in Unregistered \cup Succeeding,
         running' = running, accepted' = accepted
  PROVE  Holds(ws)'
<1> DEFINE j == worker[ws].job
<1> SUFFICES ASSUME j \in JobIds PROVE Holds(ws)'
  BY DEF Holds
<1>1. Holds(ws) /\ TypeOK
  BY ZenonT(60) DEF CancelInv
<1>2. /\ jobs'[j].ws = jobs[j].ws /\ jobs'[j].status # "absent"
      /\ Left(j) => Left(j)'
  BY ZenonT(60), <1>1, StableJob DEF Holds
<1> QED
  BY ZenonT(60), <1>1, <1>2 DEF Holds

LEMMA HoldsIdle ==
  ASSUME NEW ws \in Workspaces, GoIdle(ws), Owned
  PROVE  Holds(ws)'
<1>1. worker'[ws].job = 0
  BY DEF GoIdle, Owned, Idle
<1> QED
  BY <1>1 DEF Holds, JobIds

(* The sets of jobs that left the queue keep their members.                *)
LEMMA LeftStays ==
  ASSUME CancelInv, [Next]_vars
  PROVE  \A j \in running \cup accepted : j \in JobIds /\ Left(j)'
<1> TAKE j \in running \cup accepted
<1>1. j \in JobIds /\ Left(j) /\ TypeOK
  BY DEF CancelInv
<1> QED
  BY <1>1, StableJob DEF Left

(* An idle worker holds no job.                                            *)
LEMMA IdleIsNoJob == Idle.job \notin JobIds
BY DEF Idle, JobIds

(* The parts that do not depend on which worker moved.                     *)
LEMMA CancelInvFrom ==
  ASSUME CancelInv, [ExecNext]_allVars,
         running' \subseteq running, accepted' = accepted,
         \A ws \in Workspaces : Holds(ws)', AcceptedCancelNeverSucceeds'
  PROVE  CancelInv'
<1>1. [Next]_vars
  BY ExecStep DEF CancelInv
<1>2. TypeOK' /\ Owned'
  BY ZenonT(60), <1>1, TypeStep, OwnedStep DEF CancelInv
<1> QED
  BY <1>1, <1>2, LeftStays DEF CancelInv

LEMMA HoldsOthers ==
  ASSUME CancelInv, [Next]_vars, NEW ws \in Workspaces, NEW w,
         worker' = [worker EXCEPT ![ws] = w], running' = running,
         accepted' = accepted, ctxDone \subseteq ctxDone'
  PROVE  \A v \in Workspaces \ {ws} : Holds(v)'
<1> TAKE v \in Workspaces \ {ws}
<1>1. worker'[v] = worker[v]
  BY ZenonT(60) DEF CancelInv, Owned
<1> QED
  BY <1>1, HoldsStays

(* How the store operations of a worker change the status of a job.        *)
LEMMA StatusAfter ==
  ASSUME TypeOK, NEW j \in JobIds
  PROVE  /\ \A target, comp : TransitionObserved(j, target, comp, None) =>
              /\ jobs'[j].status = target
              /\ \A i \in JobIds \ {j} : jobs'[i] = jobs[i]
         /\ \A target : FinishQueuedObserved(j, target) =>
              /\ jobs[j].status = "queued" /\ jobs'[j].status = target
              /\ \A i \in JobIds \ {j} : jobs'[i] = jobs[i]
         /\ AcknowledgeCompensation(j) =>
              \A i \in JobIds : jobs'[i].status = jobs[i].status
         /\ Start(j) =>
              /\ jobs[j].status = "queued" /\ jobs'[j].status = "running"
              /\ jobs'[j].ws = jobs[j].ws
              /\ \A i \in JobIds \ {j} : jobs'[i] = jobs[i]
<1>0. jobs \in [JobIds -> Job] /\ jobs[j] \in Job
  BY DEF TypeOK
<1>1. ASSUME NEW target, NEW comp, TransitionObserved(j, target, comp, None)
      PROVE  /\ jobs'[j].status = target
             /\ \A i \in JobIds \ {j} : jobs'[i] = jobs[i]
  BY <1>0, <1>1 DEF TransitionObserved, Finish, Job
<1>2. ASSUME NEW target, FinishQueuedObserved(j, target)
      PROVE  /\ jobs[j].status = "queued" /\ jobs'[j].status = target
             /\ \A i \in JobIds \ {j} : jobs'[i] = jobs[i]
  BY <1>0, <1>2 DEF FinishQueuedObserved, Finish, Job
<1>3. ASSUME AcknowledgeCompensation(j)
      PROVE  \A i \in JobIds : jobs'[i].status = jobs[i].status
  BY <1>0, <1>3 DEF AcknowledgeCompensation, Finish, Job
<1>4. ASSUME Start(j)
      PROVE  /\ jobs[j].status = "queued" /\ jobs'[j].status = "running"
             /\ jobs'[j].ws = jobs[j].ws
             /\ \A i \in JobIds \ {j} : jobs'[i] = jobs[i]
  <2>1. jobs' = [jobs EXCEPT ![j] = [jobs[j] EXCEPT !.status = "running",
                                                   !.started = TRUE]]
    BY ZenonT(60), <1>0, <1>4 DEF Start
  <2> QED
    BY <1>0, <1>4, <2>1 DEF Start, Job
<1> QED
  BY ZenonT(60), <1>1, <1>2, <1>3, <1>4

(* A worker that takes a job or gives one back.                            *)
LEMMA CancelClaim ==
  ASSUME CancelInv, [ExecNext]_allVars, NEW ws \in Workspaces,
         NEW j \in JobIds, ClaimWorkspaceJob(ws, j) \/ ClaimDenied(ws, j)
  PROVE  CancelInv'
<1>0. /\ [Next]_vars /\ TypeOK
      /\ running' = running /\ accepted' = accepted /\ ctxDone' = ctxDone
  BY ExecStep DEF CancelInv, ClaimWorkspaceJob, ClaimDenied
<1>1. /\ j \in Claimable(ws) /\ jobs[j].ws = ws /\ jobs[j].status = "queued"
      /\ j \notin running /\ j \notin accepted
  BY DEF ClaimWorkspaceJob, ClaimDenied, ClaimNextObserved, Claimable, Queued,
         Has, CancelInv, Left
<1>2. PICK pc \in {"claimed", "rejecting"} :
        /\ worker' = [worker EXCEPT ![ws] = [Idle EXCEPT !.pc = pc, !.job = j]]
        /\ pc = "claimed" => Start(j)
        /\ pc = "rejecting" => UNCHANGED vars
  BY DEF ClaimWorkspaceJob, ClaimDenied, ClaimNextObserved
<1>3. worker'[ws].job = j /\ worker'[ws].pc = pc
  BY <1>2 DEF CancelInv, Owned, Idle
<1>4. /\ jobs'[j].ws = ws /\ jobs'[j].status # "absent"
      /\ pc = "claimed" => Left(j)'
      /\ \A i \in JobIds : jobs'[i].status = "succeeded" =>
                           jobs[i].status = "succeeded"
  BY <1>0, <1>1, <1>2, StatusAfter DEF Left, vars
<1>5. Holds(ws)'
  BY <1>0, <1>1, <1>2, <1>3, <1>4 DEF Holds
<1>6. \A v \in Workspaces : Holds(v)'
  BY ZenonT(60), <1>0, <1>2, <1>5, HoldsOthers
<1>7. AcceptedCancelNeverSucceeds'
  BY <1>0, <1>4 DEF AcceptedCancelNeverSucceeds, CancelInv
<1> QED
  BY <1>0, <1>6, <1>7, CancelInvFrom

LEMMA CancelGiveBack ==
  ASSUME CancelInv, [ExecNext]_allVars, NEW ws \in Workspaces, GoIdle(ws),
         running' = running, accepted' = accepted, ctxDone' = ctxDone,
         AcceptedCancelNeverSucceeds'
  PROVE  CancelInv'
<1>1. Holds(ws)'
  BY HoldsIdle DEF CancelInv
<1>2. \A v \in Workspaces : Holds(v)'
  BY ZenonT(60), <1>1, ExecStep, HoldsOthers DEF GoIdle, CancelInv
<1> QED
  BY <1>2, CancelInvFrom

LEMMA CancelMove ==
  ASSUME CancelInv, [ExecNext]_allVars, NEW ws \in Workspaces, NEW w,
         worker' = [worker EXCEPT ![ws] = w], w.job = worker[ws].job,
         worker[ws].pc \notin {"rejecting", "operating", "completing"},
         w.pc \notin {"operating", "completing"},
         w.pc \in Unregistered \cup Succeeding =>
           worker[ws].pc \in Unregistered \cup Succeeding,
         running' = running, accepted' = accepted, ctxDone' = ctxDone,
         AcceptedCancelNeverSucceeds'
  PROVE  CancelInv'
<1>0. [Next]_vars /\ worker'[ws] = w
  BY ExecStep DEF CancelInv, Owned
<1>1. Holds(ws)'
  BY <1>0, HoldsMoves
<1>2. \A v \in Workspaces : Holds(v)'
  BY ZenonT(60), <1>0, <1>1, HoldsOthers
<1> QED
  BY <1>2, CancelInvFrom

LEMMA CancelGoTo ==
  ASSUME CancelInv, [ExecNext]_allVars, NEW ws \in Workspaces, NEW pc,
         GoTo(ws, pc),
         worker[ws].pc \notin {"rejecting", "operating", "completing"},
         pc \notin {"operating", "completing"},
         pc \in Unregistered \cup Succeeding =>
           worker[ws].pc \in Unregistered \cup Succeeding,
         running' = running, accepted' = accepted, ctxDone' = ctxDone,
         AcceptedCancelNeverSucceeds'
  PROVE  CancelInv'
<1> DEFINE w == [worker[ws] EXCEPT !.pc = pc]
<1>1. worker' = [worker EXCEPT ![ws] = w]
  BY DEF GoTo, CancelInv, Owned
<1>2. w.pc = pc /\ w.job = worker[ws].job
  BY DEF CancelInv, Owned, Locals
<1> HIDE DEF w
<1> QED
  BY ZenonT(60), <1>1, <1>2, CancelMove

(* The stages inside the cancel map.                                       *)
LEMMA CancelRegister ==
  ASSUME CancelInv, [ExecNext]_allVars, NEW ws \in Workspaces,
         RegisterRunning(ws)
  PROVE  CancelInv'
<1> DEFINE j == worker[ws].job
<1>0. /\ [Next]_vars /\ TypeOK /\ Owned /\ UNCHANGED vars
      /\ accepted' = accepted /\ ctxDone' = ctxDone
      /\ running' = running \cup {j}
      /\ worker[ws].pc = "registering"
  BY ExecStep DEF CancelInv, RegisterRunning, At, Job_
<1>1. worker'[ws].pc = "operating" /\ worker'[ws].job = j
  BY DEF RegisterRunning, GoTo, CancelInv, Owned, Locals
<1>2. j \in JobIds /\ Holds(ws)
  BY ZenonT(60), <1>0 DEF CancelInv, Owned, Bound, AtRest
<1>3. jobs[j].ws = ws /\ Left(j) /\ j \notin accepted
  BY ZenonT(60), <1>0, <1>2 DEF Holds, Unregistered
<1>4. Holds(ws)'
  BY ZenonT(60), <1>0, <1>1, <1>2, <1>3 DEF Holds, Left, vars, Unregistered, Succeeding
<1>5. ASSUME NEW v \in Workspaces \ {ws} PROVE Holds(v)'
  <2>1. worker'[v] = worker[v]
    BY ZenonT(60), <1>0 DEF RegisterRunning, GoTo, Owned
  <2>2. worker[v].job # j
    BY <1>2, <1>3 DEF CancelInv, Holds
  <2> QED
    BY ZenonT(60), <1>0, <2>1, <2>2, HoldsStays
<1>6. TypeOK' /\ Owned'
  BY ZenonT(60), <1>0, TypeStep, OwnedStep
<1>7. \A i \in running' \cup accepted' : i \in JobIds /\ Left(i)'
  BY ZenonT(60), <1>0, <1>2, <1>3 DEF CancelInv, Left, vars
<1> QED
  BY <1>0, <1>4, <1>5, <1>6, <1>7
     DEF CancelInv, AcceptedCancelNeverSucceeds, vars

LEMMA CancelOperate ==
  ASSUME CancelInv, [ExecNext]_allVars, NEW ws \in Workspaces,
         \/ SinkFails(ws)
         \/ \E result \in Results, cut \in BOOLEAN : OperationReturns(ws, result, cut)
  PROVE  CancelInv'
<1> DEFINE j == worker[ws].job
<1>0. /\ [Next]_vars /\ TypeOK /\ Owned /\ UNCHANGED vars
      /\ accepted' = accepted /\ running' = running
      /\ ctxDone \subseteq ctxDone' /\ worker[ws].pc = "operating"
  BY ZenonT(60), ExecStep DEF CancelInv, SinkFails, OperationReturns, At
<1>a. \E pc \in {"operating", "completing"} : \E errs :
        worker' = [worker EXCEPT ![ws] = [worker[ws] EXCEPT !.pc = pc, !.errs = errs]]
  <2>1. CASE SinkFails(ws)
    <3> DEFINE e == IF Job_(ws) \in ctxDone \/ stopping THEN "canceled" ELSE "error"
    <3>1. worker' = [worker EXCEPT ![ws] = [worker[ws] EXCEPT !.errs = {e}]]
      BY <2>1 DEF SinkFails, CancelInv, Owned
    <3> HIDE DEF e
    <3>2. [worker[ws] EXCEPT !.errs = {e}]
            = [worker[ws] EXCEPT !.pc = "operating", !.errs = {e}]
      BY ZenonT(60), <1>0 DEF Owned, Locals
    <3> QED
      BY ZenonT(60), <3>1, <3>2
  <2>2. ASSUME NEW result \in Results, NEW cut \in BOOLEAN,
               OperationReturns(ws, result, cut)
        PROVE  worker' = [worker EXCEPT ![ws] = [worker[ws] EXCEPT
                 !.pc = "completing", !.errs = worker[ws].errs \cup result]]
    BY ZenonT(60), <2>2 DEF OperationReturns, CancelInv, Owned
  <2> QED
    BY ZenonT(60), <2>1, <2>2
<1>b. PICK pc \in {"operating", "completing"} : \E errs :
        worker' = [worker EXCEPT ![ws] = [worker[ws] EXCEPT !.pc = pc, !.errs = errs]]
  BY ZenonT(60), <1>a
<1>1. PICK errs :
        worker' = [worker EXCEPT ![ws] = [worker[ws] EXCEPT !.pc = pc, !.errs = errs]]
  BY ZenonT(60), <1>b
<1> DEFINE w == [worker[ws] EXCEPT !.pc = pc, !.errs = errs]
<1>2. w.pc = pc /\ w.job = j
  BY <1>0 DEF Owned, Locals
<1>3. worker' = [worker EXCEPT ![ws] = w]
  BY <1>1
<1> HIDE DEF w
<1>4. worker'[ws].pc = pc /\ worker'[ws].job = j
  BY ZenonT(60), <1>0, <1>2, <1>3 DEF Owned
<1>5. Holds(ws)
  BY ZenonT(60) DEF CancelInv
<1>6. Holds(ws)'
  BY ZenonT(60), <1>0, <1>4, <1>5 DEF Holds, Left, vars, Unregistered, Succeeding
<1>7. \A v \in Workspaces : Holds(v)'
  BY ZenonT(60), <1>0, <1>3, <1>6, HoldsOthers
<1>8. AcceptedCancelNeverSucceeds'
  BY <1>0 DEF CancelInv, AcceptedCancelNeverSucceeds, vars
<1> QED
  BY ZenonT(60), <1>0, <1>7, <1>8, CancelInvFrom

(* completeRunning takes the job out of the map; an accepted cancellation  *)
(* has left it a canceled context, so the path taken is not success.       *)
LEMMA CancelComplete ==
  ASSUME CancelInv, [ExecNext]_allVars, NEW ws \in Workspaces,
         CompleteRunning(ws)
  PROVE  CancelInv'
<1> DEFINE j == worker[ws].job
           old == worker[ws]
           errs == IF old.errs = {} /\ (j \in ctxDone \/ stopping)
                   THEN {"canceled"} ELSE old.errs
           path == IF stopping THEN "interrupting"
                   ELSE IF "canceled" \in errs THEN "canceling"
                   ELSE IF errs # {} THEN "failing" ELSE "succeeding"
           w == [old EXCEPT !.pc = path, !.errs = errs]
<1>0. /\ [Next]_vars /\ TypeOK /\ Owned /\ UNCHANGED vars
      /\ accepted' = accepted /\ ctxDone' = ctxDone
      /\ running' = running \ {j} /\ old.pc = "completing"
  BY ExecStep DEF CancelInv, CompleteRunning, At, Job_
<1>1. worker' = [worker EXCEPT ![ws] = w]
  BY ZenonT(60), <1>0 DEF CompleteRunning, Owned, Job_
<1>2. /\ path \in {"interrupting", "canceling", "failing", "succeeding"}
      /\ j \in ctxDone => path # "succeeding"
  OBVIOUS
<1> HIDE DEF path, errs
<1>3. w.pc = path /\ w.job = j
  BY <1>0 DEF Owned, Locals
<1> HIDE DEF w
<1>4. worker'[ws].pc = path /\ worker'[ws].job = j
  BY <1>0, <1>1, <1>3 DEF Owned
<1>5. Holds(ws)
  BY DEF CancelInv
<1>6. Holds(ws)'
  BY <1>0, <1>2, <1>4, <1>5 DEF Holds, Left, vars, Unregistered, Succeeding
<1>7. \A v \in Workspaces \ {ws} : Holds(v)'
  <2> TAKE v \in Workspaces \ {ws}
  <2>1. worker'[v] = worker[v]
    BY ZenonT(60), <1>0, <1>1 DEF Owned
  <2> QED
    BY ZenonT(60), <1>0, <2>1, HoldsStays
<1>8. AcceptedCancelNeverSucceeds'
  BY ZenonT(60), <1>0 DEF CancelInv, AcceptedCancelNeverSucceeds, vars
<1> QED
  BY <1>0, <1>6, <1>7, <1>8, CancelInvFrom

LEMMA CancelExecute ==
  ASSUME CancelInv, [ExecNext]_allVars, NEW ws \in Workspaces, Execute(ws)
  PROVE  CancelInv'
<1> DEFINE j == worker[ws].job
<1>0. /\ TypeOK /\ Owned /\ Holds(ws) /\ AcceptedCancelNeverSucceeds
      /\ worker[ws].pc \notin AtRest => j \in JobIds
      /\ UNCHANGED vars /\ accepted' = accepted => AcceptedCancelNeverSucceeds'
  BY DEF CancelInv, Owned, Bound, AcceptedCancelNeverSucceeds, vars
<1>1. CASE CheckWorkspaceExecution(ws)
  <2> DEFINE revokedW == [worker[ws] EXCEPT !.pc = "failing", !.errs = {"error"}]
             startW   == [worker[ws] EXCEPT !.pc = "starting"]
  <2>0. /\ UNCHANGED <<running, accepted, ctxDone>> /\ AcceptedCancelNeverSucceeds'
        /\ worker[ws].pc = "claimed"
    BY <1>0, <1>1 DEF CheckWorkspaceExecution, At
  <2>1. /\ revokedW.pc = "failing" /\ revokedW.job = j
        /\ startW.pc = "starting" /\ startW.job = j
    BY <1>0 DEF Owned, Locals
  <2>2. \/ worker' = [worker EXCEPT ![ws] = revokedW]
        \/ worker' = [worker EXCEPT ![ws] = startW]
        \/ GoIdle(ws)
    BY ZenonT(60), <1>0, <1>1 DEF CheckWorkspaceExecution, GoIdle, Owned
  <2> HIDE DEF revokedW, startW
  <2> QED
    BY ZenonT(60), <2>0, <2>1, <2>2, CancelMove, CancelGiveBack DEF Unregistered, Succeeding
<1>2. CASE AppendStarted(ws)
  BY <1>0, <1>2, CancelGoTo, CancelGiveBack
     DEF AppendStarted, At, Unregistered, Succeeding
<1>3. ASSUME NEW from \in {"succeeding", "failing", "interrupting", "checked",
                           "canceled"},
             NEW to \in {"succeeded", "failed", "interrupted", "canceled",
                         "closing"},
             NEW kind, to = "succeeded" => from = "succeeding",
             AppendTerminal(ws, from, kind, to)
      PROVE  CancelInv'
  BY <1>0, <1>3, CancelGoTo DEF AppendTerminal, At, Unregistered, Succeeding
<1>4. ASSUME NEW from \in {"succeeded", "failed", "interrupted", "closing"},
             NEW target \in Terminal, NEW comp \in BOOLEAN,
             target = "succeeded" => from = "succeeded",
             Transition(ws, from, target, comp)
      PROVE  CancelInv'
  <2>1. /\ worker[ws].pc = from /\ j \in JobIds
        /\ UNCHANGED <<running, accepted, ctxDone>>
        /\ TransitionObserved(j, target, comp, None)
        /\ GoTo(ws, "acknowledging") \/ GoIdle(ws)
    BY ZenonT(60), <1>0, <1>4 DEF Transition, At, AtRest, Job_
  <2>2. /\ jobs'[j].status = target
        /\ \A i \in JobIds \ {j} : jobs'[i] = jobs[i]
    BY ZenonT(60), <1>0, <2>1, StatusAfter
  <2>3. j \in accepted => target # "succeeded"
    BY ZenonT(60), <1>0, <1>4, <2>1 DEF Holds, Succeeding
  <2>4. AcceptedCancelNeverSucceeds'
    <3> SUFFICES ASSUME NEW i \in accepted PROVE jobs'[i].status # "succeeded"
      BY ZenonT(60), <2>1 DEF AcceptedCancelNeverSucceeds
    <3>1. i \in JobIds /\ jobs[i].status # "succeeded"
      BY DEF CancelInv, AcceptedCancelNeverSucceeds
    <3> QED
      BY ZenonT(60), <2>2, <2>3, <3>1
  <2> QED
    BY <1>4, <2>1, <2>4, CancelGoTo, CancelGiveBack DEF Unregistered, Succeeding
<1>5. CASE CheckCompensation(ws)
  <2>1. PICK ok \in BOOLEAN :
          worker' = [worker EXCEPT ![ws].pc = "checked", ![ws].recovered = ok]
    BY ZenonT(60), <1>5 DEF CheckCompensation
  <2> DEFINE w == [worker[ws] EXCEPT !.pc = "checked", !.recovered = ok]
  <2>2. w.pc = "checked" /\ w.job = j
    BY <1>0 DEF Owned, Locals
  <2>3. worker' = [worker EXCEPT ![ws] = w]
    BY ZenonT(60), <1>0, <2>1 DEF Owned
  <2> HIDE DEF w
  <2> QED
    BY ZenonT(60), <1>0, <1>5, <2>2, <2>3, CancelMove
       DEF CheckCompensation, At, Unregistered, Succeeding
<1>6. CASE /\ At(ws, "acknowledging") /\ AcknowledgeCompensation(Job_(ws))
           /\ GoIdle(ws) /\ UNCHANGED <<running, ctxDone, accepted>>
  <2>1. \A i \in JobIds : jobs'[i].status = jobs[i].status
    BY <1>0, <1>6, StatusAfter DEF At, AtRest, Job_
  <2>2. AcceptedCancelNeverSucceeds'
    BY ZenonT(60), <1>0, <1>6, <2>1 DEF AcceptedCancelNeverSucceeds, CancelInv
  <2> QED
    BY <1>6, <2>2, CancelGiveBack
<1>7. CASE FinishSucceeded(ws)
  BY ZenonT(60), <1>3, <1>4, <1>7 DEF FinishSucceeded, Terminal
<1>8. CASE FinishFailed(ws)
  BY ZenonT(60), <1>3, <1>4, <1>8 DEF FinishFailed, Terminal
<1>9. CASE FinishInterrupted(ws)
  BY ZenonT(60), <1>3, <1>4, <1>9 DEF FinishInterrupted, Terminal
<1>10. CASE FinishCanceled(ws)
  BY ZenonT(60), <1>3, <1>4, <1>5, <1>6, <1>10 DEF FinishCanceled, Terminal
<1> QED
  BY ZenonT(60), <1>1, <1>2, <1>7, <1>8, <1>9, <1>10, CancelRegister, CancelOperate,
     CancelComplete DEF Execute

(* A step that leaves the workers, the map and the history alone.          *)
LEMMA CancelElsewhere ==
  ASSUME CancelInv, [ExecNext]_allVars,
         UNCHANGED <<worker, running, ctxDone, accepted>>,
         AcceptedCancelNeverSucceeds'
  PROVE  CancelInv'
<1>1. [Next]_vars
  BY ExecStep DEF CancelInv
<1>2. \A v \in Workspaces : Holds(v)'
  BY ZenonT(60), <1>1, HoldsStays
<1> QED
  BY <1>2, CancelInvFrom

LEMMA CancelAccepted ==
  ASSUME CancelInv, [ExecNext]_allVars, CancelRunning
  PROVE  CancelInv'
<1> DEFINE j == canceler.job
<1>0. /\ [Next]_vars /\ TypeOK /\ Owned /\ UNCHANGED <<vars, worker, running>>
      /\ AcceptedCancelNeverSucceeds
  BY ZenonT(60), ExecStep DEF CancelInv, CancelRunning
<1>1. CASE UNCHANGED <<ctxDone, accepted>>
  BY ZenonT(60), <1>0, <1>1, CancelElsewhere DEF AcceptedCancelNeverSucceeds, vars
<1>2. CASE /\ j \in running /\ AppendEvent(j, "cancel_requested")
           /\ ctxDone' = ctxDone \cup {j} /\ accepted' = accepted \cup {j}
  <2>1. j \in JobIds /\ Left(j) /\ jobs[j].status # "succeeded"
    BY ZenonT(60), <1>2 DEF CancelInv, AppendEvent
  <2>2. ASSUME NEW v \in Workspaces PROVE Holds(v)'
    <3>1. Holds(v)
      BY DEF CancelInv
    <3> QED
      BY ZenonT(60), <1>0, <1>2, <3>1 DEF Holds, Left, vars, Unregistered, Succeeding
  <2>3. TypeOK' /\ Owned'
    BY ZenonT(60), <1>0, TypeStep, OwnedStep
  <2>4. \A i \in running' \cup accepted' : i \in JobIds /\ Left(i)'
    BY ZenonT(60), <1>0, <1>2, <2>1 DEF CancelInv, Left, vars
  <2> QED
    BY ZenonT(60), <1>0, <1>2, <2>1, <2>2, <2>3, <2>4
       DEF CancelInv, AcceptedCancelNeverSucceeds, vars
<1> QED
  BY ZenonT(60), <1>1, <1>2 DEF CancelRunning

LEMMA CancelStep == CancelInv /\ [ExecNext]_allVars => CancelInv'
<1> SUFFICES ASSUME CancelInv, [ExecNext]_allVars PROVE CancelInv'
  OBVIOUS
<1>0. /\ [Next]_vars /\ TypeOK /\ Owned /\ AcceptedCancelNeverSucceeds
      /\ \A j \in accepted : j \in JobIds /\ Left(j)
      /\ jobs' = jobs /\ accepted' = accepted => AcceptedCancelNeverSucceeds'
      /\ UNCHANGED vars => jobs' = jobs
  BY ZenonT(60), ExecStep DEF CancelInv, AcceptedCancelNeverSucceeds, vars
<1>1. ASSUME NEW j \in JobIds, NEW target \in {"failed", "canceled"},
             FinishQueuedObserved(j, target), accepted' = accepted
      PROVE  AcceptedCancelNeverSucceeds'
  <2>1. /\ jobs[j].status = "queued" /\ jobs'[j].status = target
        /\ \A i \in JobIds \ {j} : jobs'[i] = jobs[i]
    BY ZenonT(60), <1>0, <1>1, StatusAfter
  <2> QED
    BY ZenonT(60), <1>0, <1>1, <2>1 DEF AcceptedCancelNeverSucceeds
<1>2. ASSUME NEW ws \in Workspaces, RejectQueued(ws) PROVE CancelInv'
  <2>1. /\ UNCHANGED <<running, accepted, ctxDone>> /\ GoIdle(ws)
        /\ worker[ws].job \in JobIds
        /\ jobs' = jobs \/ FinishQueuedObserved(worker[ws].job, "failed")
    BY ZenonT(60), <1>0, <1>2
       DEF RejectQueued, FinishQueued, MarkUnavailable, Owned, Bound, At, AtRest, Job_, vars
  <2> QED
    BY ZenonT(60), <1>0, <1>1, <2>1, CancelGiveBack
<1>3. ASSUME NEW ws \in Workspaces, WorkerExits(ws) PROVE CancelInv'
  BY ZenonT(60), <1>0, <1>3, CancelGoTo DEF WorkerExits, At, Unregistered, Succeeding
<1>4. ASSUME NEW ws \in Workspaces, WriteFails(ws) PROVE CancelInv'
  BY ZenonT(60), <1>0, <1>4, CancelGiveBack DEF WriteFails
<1>5. ASSUME NEW ws \in Workspaces,
             RunWorkspace(ws) \/ SinkFails(ws) \/ WriteFails(ws)
      PROVE  CancelInv'
  BY ZenonT(60), <1>2, <1>3, <1>4, <1>5, CancelClaim, CancelExecute, CancelOperate
     DEF RunWorkspace
<1>6. ASSUME NEW j \in JobIds, Submit(j) PROVE CancelInv'
  <2>1. PICK ws \in Workspaces : CreateOrGetObserved(j, ws, TRUE)
    BY ZenonT(60), <1>6 DEF Submit
  <2>2. jobs[j].status = "absent" /\ \A i \in JobIds \ {j} : jobs'[i] = jobs[i]
    BY <1>0, <2>1 DEF CreateOrGetObserved, AddJob, TypeOK
  <2>3. UNCHANGED <<worker, running, ctxDone, accepted>>
    BY <1>6 DEF Submit, execVars
  <2>4. AcceptedCancelNeverSucceeds'
    BY <1>0, <2>2, <2>3 DEF AcceptedCancelNeverSucceeds, Left
  <2> QED
    BY ZenonT(60), <2>3, <2>4, CancelElsewhere
<1>7. ASSUME NEW j \in JobIds, CancelReads(j) \/ Revoke(j) PROVE CancelInv'
  BY <1>0, <1>7, CancelElsewhere DEF CancelReads, Revoke
<1>8. CASE CancelQueued
  <2>1. /\ UNCHANGED <<worker, running, ctxDone, accepted>>
        /\ canceler.job \in JobIds
        /\ jobs' = jobs \/ FinishQueuedObserved(canceler.job, "canceled")
    BY ZenonT(60), <1>0, <1>8 DEF CancelQueued, FinishQueued, MarkUnavailable, Owned, vars
  <2> QED
    BY ZenonT(60), <1>0, <1>1, <2>1, CancelElsewhere
<1>9. CASE Stop \/ StoreFails \/ UNCHANGED allVars
  BY ZenonT(60), <1>0, <1>9, CancelElsewhere
     DEF Stop, StoreFails, MarkUnavailable, allVars, execVars
<1>10. CASE Restart
  <2>1. UNCHANGED <<worker, running, ctxDone, accepted>>
    BY ZenonT(60), <1>10 DEF Restart, execVars
  <2>2. CASE AcquireExecutionLease
    BY ZenonT(60), <1>0, <2>1, <2>2, CancelElsewhere
       DEF AcquireExecutionLease, AcceptedCancelNeverSucceeds
  <2>3. CASE RecoverInterruptedJobsObserved
    <3>1. \A i \in JobIds : jobs'[i].status \in {"interrupted", jobs[i].status}
      <4> TAKE i \in JobIds
      <4>1. jobs'[i] = IF i \in Running THEN Interrupted(jobs[i]) ELSE jobs[i]
        BY ZenonT(60), <2>3 DEF RecoverInterruptedJobsObserved
      <4>2. jobs[i] \in Job
        BY ZenonT(60), <1>0 DEF TypeOK
      <4> QED
        BY <4>1, <4>2, InterruptedType
    <3>2. AcceptedCancelNeverSucceeds'
      BY ZenonT(60), <1>0, <2>1, <3>1 DEF AcceptedCancelNeverSucceeds
    <3> QED
      BY ZenonT(60), <2>1, <3>2, CancelElsewhere
  <2> QED
    BY ZenonT(60), <1>10, <2>2, <2>3 DEF Restart
<1>11. CASE ProcessEnds
  <2>1. /\ running' = {} /\ accepted' = accepted /\ UNCHANGED jobs
        /\ \A ws \in Workspaces : worker'[ws] = Idle
    BY <1>11 DEF ProcessEnds, Crash
  <2>2. \A ws \in Workspaces : Holds(ws)'
    BY ZenonT(60), <2>1, IdleIsNoJob DEF Holds
  <2>3. AcceptedCancelNeverSucceeds'
    BY <1>0, <2>1 DEF AcceptedCancelNeverSucceeds
  <2> QED
    BY ZenonT(60), <2>1, <2>2, <2>3, CancelInvFrom
<1> QED
  BY ZenonT(60), <1>5, <1>6, <1>7, <1>8, <1>9, <1>10, <1>11, CancelAccepted DEF ExecNext

LEMMA CancelInit == ExecInit => CancelInv
<1> SUFFICES ASSUME ExecInit PROVE CancelInv
  OBVIOUS
<1>1. TypeOK /\ Owned
  BY ZenonT(60), InitType, OwnedInit DEF ExecInit
<1>2. \A ws \in Workspaces : Holds(ws)
  BY ZenonT(60), IdleIsNoJob DEF ExecInit, Holds
<1> QED
  BY ZenonT(60), <1>1, <1>2 DEF ExecInit, CancelInv, AcceptedCancelNeverSucceeds

(* An accepted cancellation is never followed by success, for any number   *)
(* of jobs and workspaces and under every fault: Cancel and                *)
(* completeRunning are ordered by runningMu.                               *)
THEOREM CancelNeverSucceeds == ExecSpec => []AcceptedCancelNeverSucceeds
<1>1. CancelInv => AcceptedCancelNeverSucceeds
  BY DEF CancelInv
<1> QED
  BY <1>1, CancelInit, CancelStep, PTL DEF ExecSpec
=============================================================================
