---------------------------- MODULE JobExecutor -----------------------------
(***************************************************************************)
(* jobexecutor.Executor on top of JobStore: one worker per workspace       *)
(* claims, runs and finishes mutating jobs; an operator cancels them; the  *)
(* daemon stops, crashes and restarts.  Every store operation is the       *)
(* action of JobStore it stands for, so a behaviour of this module is a    *)
(* behaviour of the store.                                                 *)
(*                                                                         *)
(* What an operation did to the host is whether it was cut short and       *)
(* nobody has recovered its workspace since, and whether its error says so.*)
(***************************************************************************)
EXTENDS JobStore, Sequences

CONSTANT Faults  \* which faults occur: subset of FaultKinds

FaultKinds == {"write",   \* a journal or audit write is refused
               "check",   \* CheckCompensation fails
               "timeout", \* an operation runs into its own deadline
               "revoke",  \* the actor of a queued job loses their rights
               "stop",    \* the daemon context ends (shutdown)
               "crash"}   \* the process dies

ASSUME ExecutorAssumption == Faults \subseteq FaultKinds

VARIABLES
  worker,    \* per workspace: the program counter and locals of execute
  running,   \* Executor.running: jobs registered at a safe cancel stage
  ctxDone,   \* jobs whose own context has been canceled
  stopping,  \* the daemon context is done
  canceler,  \* one Cancel request: its job and the status it read
  revoked,   \* jobs whose actor authorize now refuses
  events,    \* durable event kinds of each job
  accepted,  \* history: running jobs whose cancellation was accepted
  begun,     \* history: jobs in the order their operations were invoked
  halfDone   \* per job: its operation was cut short and is unrecovered

execVars == <<worker, running, ctxDone, stopping, canceler, revoked, events,
              accepted, begun, halfDone>>
allVars  == <<vars, execVars>>

Causes     == {"canceled", "deadline", "error"}
EventKinds == {"started", "cancel_requested", "compensation_checked",
               "succeeded", "failed", "canceled", "interrupted",
               "canceled_queued",  \* "canceled" with stage "queued" in its data
               "rejected"}
Harm       == {"no",
               "cut",     \* the error names the context that ended it
               "masked"}  \* the operation answered with an error of its own
Stages     == {"idle", "exited", "rejecting", "claimed", "starting",
               "registering", "operating", "completing", "succeeding",
               "succeeded", "failing", "failed", "interrupting",
               "interrupted", "canceling", "checked", "canceled", "closing",
               "acknowledging"}

Idle     == [pc |-> "idle", job |-> 0, errs |-> {}, recovered |-> FALSE]
NoCancel == [job |-> 0, seen |-> "none"]

ExecInit ==
  /\ Init
  /\ worker = [ws \in Workspaces |-> Idle]
  /\ running = {} /\ ctxDone = {} /\ stopping = FALSE
  /\ canceler = NoCancel /\ revoked = {}
  /\ events = [j \in JobIds |-> {}]
  /\ accepted = {} /\ begun = <<>>
  /\ halfDone = [j \in JobIds |-> "no"]

(* Workers go on when the store has failed; what they write is refused.    *)
Alive        == daemon \in {"up", "failed"}
At(ws, pc)   == Alive /\ worker[ws].pc = pc
Job_(ws)     == worker[ws].job
GoTo(ws, pc) == worker' = [worker EXCEPT ![ws].pc = pc]
GoIdle(ws)   == worker' = [worker EXCEPT ![ws] = Idle]

(* AppendEvent: a job that is already terminal refuses it.                 *)
AppendEvent(j, kind) ==
  /\ daemon = "up"
  /\ jobs[j].status \in {"queued", "running"}
  /\ events' = [events EXCEPT ![j] = @ \cup {kind}]

(* finishQueuedObserved appends the event and then the job in one write.   *)
(* A torn write keeps the event's line alone; the store has failed then.   *)
FinishQueued(j, target, kind) ==
  /\ jobs[j].status = "queued"
  /\ AppendEvent(j, kind)
  /\ \/ FinishQueuedObserved(j, target)
     \/ "write" \in Faults /\ MarkUnavailable

-----------------------------------------------------------------------------
(* runWorkspace and claimWorkspaceJob.                                     *)

(* ClaimNext's observer authorizes the actor before running is persisted.  *)
ClaimWorkspaceJob(ws, j) ==
  /\ At(ws, "idle") /\ ~stopping
  /\ j \notin revoked
  /\ ClaimNextObserved(ws, j)
  /\ worker' = [worker EXCEPT ![ws] = [Idle EXCEPT !.pc = "claimed", !.job = j]]
  /\ UNCHANGED <<running, ctxDone, stopping, canceler, revoked, events,
                 accepted, begun, halfDone>>

(* The observer refuses: canStart passed, nothing was written, and the job *)
(* is rejected in a second store operation.                                *)
ClaimDenied(ws, j) ==
  /\ At(ws, "idle") /\ daemon = "up" /\ ~stopping
  /\ j \in revoked \cap Claimable(ws)
  /\ \A k \in Claimable(ws) : j <= k
  /\ canStart(j)
  /\ worker' = [worker EXCEPT ![ws] = [Idle EXCEPT !.pc = "rejecting", !.job = j]]
  /\ UNCHANGED <<vars, running, ctxDone, stopping, canceler, revoked, events,
                 accepted, begun, halfDone>>

(* RejectQueuedObserved; a job that a Cancel finished first is left alone. *)
RejectQueued(ws) ==
  LET j == Job_(ws)
  IN  /\ At(ws, "rejecting")
      /\ \/ FinishQueued(j, "failed", "rejected")
         \/ jobs[j].status # "queued" /\ UNCHANGED <<vars, events>>
      /\ GoIdle(ws)
      /\ UNCHANGED <<running, ctxDone, stopping, canceler, revoked, accepted,
                     begun, halfDone>>

WorkerExits(ws) ==
  /\ At(ws, "idle") /\ stopping
  /\ GoTo(ws, "exited")
  /\ UNCHANGED <<vars, running, ctxDone, stopping, canceler, revoked, events,
                 accepted, begun, halfDone>>

-----------------------------------------------------------------------------
(* execute.                                                                *)

(* checkWorkspaceExecution: a revoked actor fails the job before anything  *)
(* runs; a shutdown leaves the job running for the next recovery.          *)
CheckWorkspaceExecution(ws) ==
  /\ At(ws, "claimed") /\ daemon = "up"
  /\ worker' = [worker EXCEPT ![ws] =
                  IF Job_(ws) \in revoked
                  THEN [@ EXCEPT !.pc = "failing", !.errs = {"error"}]
                  ELSE IF stopping THEN Idle ELSE [@ EXCEPT !.pc = "starting"]]
  /\ UNCHANGED <<vars, running, ctxDone, stopping, canceler, revoked, events,
                 accepted, begun, halfDone>>

AppendStarted(ws) ==
  /\ At(ws, "starting")
  /\ IF stopping THEN GoIdle(ws) /\ UNCHANGED events
                 ELSE GoTo(ws, "registering") /\ AppendEvent(Job_(ws), "started")
  /\ UNCHANGED <<vars, running, ctxDone, stopping, canceler, revoked, accepted,
                 begun, halfDone>>

(* The job enters the cancel map and its operation is invoked.             *)
RegisterRunning(ws) ==
  /\ At(ws, "registering")
  /\ running' = running \cup {Job_(ws)}
  /\ begun' = Append(begun, Job_(ws))
  /\ GoTo(ws, "operating")
  /\ UNCHANGED <<vars, ctxDone, stopping, canceler, revoked, events, accepted,
                 halfDone>>

(* durableEventSink.fail: a progress event cannot be persisted, because    *)
(* its context is done or the write is refused; the job's context ends.    *)
SinkFails(ws) ==
  LET j == Job_(ws)
      cause == IF j \in ctxDone \/ stopping THEN "canceled" ELSE "error"
  IN  /\ At(ws, "operating") /\ worker[ws].errs = {}
      /\ cause = "error" => "write" \in Faults
      /\ worker' = [worker EXCEPT ![ws].errs = {cause}]
      /\ ctxDone' = ctxDone \cup {j}
      /\ UNCHANGED <<vars, running, stopping, canceler, revoked, events,
                     accepted, begun, halfDone>>

(* The application service returns: with success, with an error of its     *)
(* own, or with the cause of a context that ended under it.  An operation  *)
(* that its context cut short may return either of the last two (a killed  *)
(* process, for one, is reported as a failed command).                     *)
OperationReturns(ws, result, cut) ==
  LET j    == Job_(ws)
      errs == worker[ws].errs \cup result
  IN  /\ At(ws, "operating")
      /\ "canceled" \in result => j \in ctxDone \/ stopping
      /\ cut => j \in ctxDone \/ stopping \/ "timeout" \in Faults
      /\ cut => result # {}
      /\ result \cap {"canceled", "deadline"} # {} => cut
      /\ worker' = [worker EXCEPT ![ws].pc = "completing", ![ws].errs = errs]
      /\ halfDone' = [halfDone EXCEPT ![j] =
                        IF ~cut THEN "no"
                        ELSE IF errs \cap {"canceled", "deadline"} # {} THEN "cut"
                        ELSE "masked"]
      /\ UNCHANGED <<vars, running, ctxDone, stopping, canceler, revoked,
                     events, accepted, begun>>

(* Mutant: the context is not looked at once the operation returned.       *)
CompleteRunningIgnoringContext(ws) ==
  LET errs == worker[ws].errs
      path == IF stopping THEN "interrupting"
              ELSE IF "canceled" \in errs THEN "canceling"
              ELSE IF errs # {} THEN "failing" ELSE "succeeding"
  IN  /\ At(ws, "completing")
      /\ running' = running \ {Job_(ws)}
      /\ worker' = [worker EXCEPT ![ws].pc = path]
      /\ UNCHANGED <<vars, ctxDone, stopping, canceler, revoked, events,
                     accepted, begun, halfDone>>

(* completeRunning, and the choice of the terminal path.                   *)
CompleteRunning(ws) ==
  LET j    == Job_(ws)
      errs == IF worker[ws].errs = {} /\ (j \in ctxDone \/ stopping)
              THEN {"canceled"} ELSE worker[ws].errs
      path == IF stopping THEN "interrupting"
              ELSE IF "canceled" \in errs THEN "canceling"
              ELSE IF errs # {} THEN "failing" ELSE "succeeding"
  IN  /\ At(ws, "completing")
      /\ running' = running \ {j}
      /\ worker' = [worker EXCEPT ![ws].pc = path, ![ws].errs = errs]
      /\ UNCHANGED <<vars, ctxDone, stopping, canceler, revoked, events,
                     accepted, begun, halfDone>>

-----------------------------------------------------------------------------
(* Terminal paths: each write is its own store operation, and a refused    *)
(* one leaves the job running for the next recovery.                       *)

AppendTerminal(ws, from, kind, to) ==
  /\ At(ws, from)
  /\ AppendEvent(Job_(ws), kind)
  /\ GoTo(ws, to)
  /\ UNCHANGED <<vars, running, ctxDone, stopping, canceler, revoked, accepted,
                 begun, halfDone>>

Transition(ws, from, target, comp) ==
  /\ At(ws, from)
  /\ TransitionObserved(Job_(ws), target, comp, None)
  /\ IF target = "canceled" /\ worker[ws].recovered
     THEN GoTo(ws, "acknowledging") ELSE GoIdle(ws)
  /\ UNCHANGED <<running, ctxDone, stopping, canceler, revoked, events,
                 accepted, begun, halfDone>>

(* Mutant: the success event is forgotten.                                 *)
FinishSucceededSilently(ws) == Transition(ws, "succeeding", "succeeded", FALSE)

FinishSucceeded(ws) ==
  \/ AppendTerminal(ws, "succeeding", "succeeded", "succeeded")
  \/ Transition(ws, "succeeded", "succeeded", FALSE)

(* Mutants: a timeout asks for no check; the state is never written.       *)
FinishFailedUnmarked(ws) ==
  \/ AppendTerminal(ws, "failing", "failed", "failed")
  \/ Transition(ws, "failed", "failed", FALSE)
FinishFailedEventOnly(ws) == AppendTerminal(ws, "failing", "failed", "idle")

FinishFailed(ws) ==
  \/ AppendTerminal(ws, "failing", "failed", "failed")
  \/ Transition(ws, "failed", "failed",
                worker[ws].errs \cap {"canceled", "deadline"} # {})

FinishInterrupted(ws) ==
  \/ AppendTerminal(ws, "interrupting", "interrupted", "interrupted")
  \/ Transition(ws, "interrupted", "interrupted", TRUE)

(* CheckCompensation takes the workspace's runtime lock, which recovers    *)
(* pending transactions; it runs while the job is still running.           *)
CheckCompensation(ws) ==
  /\ At(ws, "canceling")
  /\ \E ok \in {TRUE} \cup (IF "check" \in Faults THEN {FALSE} ELSE {}) :
       /\ worker' = [worker EXCEPT ![ws].pc = "checked", ![ws].recovered = ok]
       /\ halfDone' = [j \in JobIds |-> IF ok /\ jobs[j].ws = ws THEN "no"
                                                                ELSE halfDone[j]]
  /\ UNCHANGED <<vars, running, ctxDone, stopping, canceler, revoked, events,
                 accepted, begun>>

FinishCanceled(ws) ==
  \/ CheckCompensation(ws)
  \/ AppendTerminal(ws, "checked", "compensation_checked", "canceled")
  \/ AppendTerminal(ws, "canceled", "canceled", "closing")
  \/ Transition(ws, "closing", "canceled", TRUE)
  \/ /\ At(ws, "acknowledging")
     /\ AcknowledgeCompensation(Job_(ws))
     /\ GoIdle(ws)
     /\ UNCHANGED <<running, ctxDone, stopping, canceler, revoked, events,
                    accepted, begun, halfDone>>

WritingStages == Stages \ {"idle", "exited", "registering", "operating",
                           "completing", "canceling"}

(* An append fails: from now on the store refuses everything.              *)
StoreFails ==
  /\ "write" \in Faults
  /\ MarkUnavailable
  /\ UNCHANGED execVars

(* A write is refused, by the audit observer or because the store failed.  *)
WriteFails(ws) ==
  /\ "write" \in Faults
  /\ Alive /\ worker[ws].pc \in WritingStages
  /\ GoIdle(ws)
  /\ UNCHANGED <<vars, running, ctxDone, stopping, canceler, revoked, events,
                 accepted, begun, halfDone>>

-----------------------------------------------------------------------------
(* Cancel reads the job's status first and acts on it afterwards.          *)

CancelReads(j) ==
  /\ daemon = "up" /\ canceler = NoCancel
  /\ jobs[j].status \in {"queued", "running"}
  /\ canceler' = [job |-> j, seen |-> jobs[j].status]
  /\ UNCHANGED <<vars, worker, running, ctxDone, stopping, revoked, events,
                 accepted, begun, halfDone>>

(* Mutant: the status read before is trusted.                              *)
CancelQueuedStale ==
  LET j == canceler.job
  IN  /\ daemon = "up" /\ canceler.seen = "queued"
      /\ jobs' = [jobs EXCEPT ![j].status = "canceled"]
      /\ canceler' = NoCancel
      /\ UNCHANGED <<expired, daemon, lost, worker, running, ctxDone, stopping,
                     revoked, events, accepted, begun, halfDone>>

CancelQueued ==
  LET j == canceler.job
  IN  /\ Alive /\ canceler.seen = "queued"
      /\ \/ FinishQueued(j, "canceled", "canceled_queued")
         \/ /\ jobs[j].status # "queued" \/ "write" \in Faults
            /\ UNCHANGED <<vars, events>>
      /\ canceler' = NoCancel
      /\ UNCHANGED <<worker, running, ctxDone, stopping, revoked, accepted,
                     begun, halfDone>>

(* Under runningMu: the event is durable before the context is canceled.   *)
(* (Whether a failed append left its line is told apart for outcomes only.) *)
CancelRunning ==
  LET j == canceler.job
  IN  /\ Alive /\ canceler.seen = "running"
      /\ \/ /\ j \in running
            /\ AppendEvent(j, "cancel_requested")
            /\ ctxDone' = ctxDone \cup {j} /\ accepted' = accepted \cup {j}
         \/ /\ j \notin running \/ "write" \in Faults
            /\ UNCHANGED <<events, ctxDone, accepted>>
      /\ canceler' = NoCancel
      /\ UNCHANGED <<vars, worker, running, stopping, revoked, begun, halfDone>>

-----------------------------------------------------------------------------
(* The environment: requests, revocation, shutdown, crash and restart.     *)

Submit(j) ==
  /\ \E ws \in Workspaces : CreateOrGetObserved(j, ws, TRUE)
  /\ UNCHANGED execVars

Revoke(j) ==
  /\ "revoke" \in Faults
  /\ jobs[j].status \in {"queued", "running"} /\ j \notin revoked
  /\ revoked' = revoked \cup {j}
  /\ UNCHANGED <<vars, worker, running, ctxDone, stopping, canceler, events,
                 accepted, begun, halfDone>>

Stop ==
  /\ "stop" \in Faults /\ Alive /\ ~stopping
  /\ stopping' = TRUE
  /\ UNCHANGED <<vars, worker, running, ctxDone, canceler, revoked, events,
                 accepted, begun, halfDone>>

(* The process ends: after every worker returned, or at any moment.        *)
ProcessEnds ==
  /\ "crash" \in Faults \/ (stopping /\ \A ws \in Workspaces : worker[ws].pc = "exited")
  /\ Crash
  /\ halfDone' = [j \in JobIds |->
                    IF \E ws \in Workspaces : worker[ws].pc = "operating" /\ Job_(ws) = j
                    THEN "cut" ELSE halfDone[j]]
  /\ worker' = [ws \in Workspaces |-> Idle]
  /\ running' = {} /\ ctxDone' = {} /\ stopping' = FALSE /\ canceler' = NoCancel
  /\ UNCHANGED <<revoked, events, accepted, begun>>

Restart ==
  /\ AcquireExecutionLease \/ RecoverInterruptedJobsObserved
  /\ UNCHANGED execVars

Results == {{}, {"error"}, {"canceled"}}
           \cup (IF "timeout" \in Faults THEN {{"deadline"}} ELSE {})

Execute(ws) ==
  \/ CheckWorkspaceExecution(ws) \/ AppendStarted(ws) \/ RegisterRunning(ws)
  \/ \E result \in Results, cut \in BOOLEAN : OperationReturns(ws, result, cut)
  \/ CompleteRunning(ws)
  \/ FinishSucceeded(ws) \/ FinishFailed(ws) \/ FinishInterrupted(ws)
  \/ FinishCanceled(ws)

RunWorkspace(ws) ==
  \/ \E j \in JobIds : ClaimWorkspaceJob(ws, j) \/ ClaimDenied(ws, j)
  \/ RejectQueued(ws) \/ WorkerExits(ws) \/ Execute(ws)

ExecNext ==
  \/ \E ws \in Workspaces : RunWorkspace(ws) \/ SinkFails(ws) \/ WriteFails(ws)
  \/ \E j \in JobIds : Submit(j) \/ CancelReads(j) \/ Revoke(j)
  \/ CancelQueued \/ CancelRunning
  \/ StoreFails \/ Stop \/ ProcessEnds \/ Restart

(* A worker goroutine keeps running, an operation eventually returns, and  *)
(* a daemon that went down is started again by its service manager.        *)
Fairness == /\ \A ws \in Workspaces : WF_allVars(RunWorkspace(ws))
            /\ WF_allVars(Restart)

ExecSpec     == ExecInit /\ [][ExecNext]_allVars
FairExecSpec == ExecSpec /\ Fairness

-----------------------------------------------------------------------------
(* Properties.                                                             *)

(* The types of the executor's own state.                                  *)
ExecTypeOK ==
  /\ worker \in [Workspaces -> [pc: Stages, job: 0..MaxJobs,
                                errs: SUBSET Causes, recovered: BOOLEAN]]
  /\ running \subseteq JobIds /\ ctxDone \subseteq JobIds
  /\ stopping \in BOOLEAN /\ revoked \subseteq JobIds
  /\ canceler \in [job: 0..MaxJobs, seen: {"none", "queued", "running"}]
  /\ events \in [JobIds -> SUBSET EventKinds]
  /\ accepted \subseteq JobIds /\ begun \in Seq(JobIds)
  /\ halfDone \in [JobIds -> Harm]

(* A cancellation that was accepted while the job ran is never followed by *)
(* success: completeRunning and Cancel are ordered by runningMu, so the    *)
(* canceled context is seen by whichever comes second.                     *)
AcceptedCancelNeverSucceeds ==
  \A j \in accepted : jobs[j].status # "succeeded"

(* No operation is invoked twice, and the operations of a workspace are    *)
(* invoked in the order their jobs were created, across crashes, denied    *)
(* claims and abandoned jobs.                                              *)
OperationsOnceInOrder ==
  \A a, b \in DOMAIN begun :
    a < b /\ jobs[begun[a]].ws = jobs[begun[b]].ws => begun[a] < begun[b]

(* A finished job's event history names its outcome: what its execution    *)
(* came to, or why it never started.  The only other outcome it may name   *)
(* is a pre-execution one that a torn write left behind while the job      *)
(* stayed queued, and then ran after all; without refused writes there is  *)
(* none.  A job recovered as interrupted may have announced anything.      *)
OutcomeEvents == {"succeeded", "failed", "canceled", "interrupted",
                  "canceled_queued", "rejected"}
Torn == IF "write" \in Faults THEN {"canceled_queued", "rejected"} ELSE {}
Verdict(j) == IF jobs[j].started THEN jobs[j].status
              ELSE IF jobs[j].status = "failed" THEN "rejected"
              ELSE "canceled_queued"
EventsAgreeWithStatus ==
  \A j \in Created : jobs[j].status \in Terminal \ {"interrupted"} =>
    LET said == events[j] \cap OutcomeEvents
    IN  Verdict(j) \in said /\ said \subseteq {Verdict(j)} \cup Torn

(* An operation that was cut short keeps its workspace closed to mutating  *)
(* jobs until it is recovered: its own job is running or asks for a check, *)
(* whichever write of the terminal path was refused.  The one exception is *)
(* an operation that answered the end of its context with an error of its  *)
(* own: finishFailed takes it for any other failure.                       *)
HalfDoneIsFenced ==
  \A j \in JobIds : halfDone[j] # "no" =>
    \/ jobs[j].status = "running" /\ jobs[j].mutating
    \/ jobs[j].comp
    \/ halfDone[j] = "masked" /\ jobs[j].status = "failed"

(* Every submitted job is finished: no lost wake-up, no job forgotten      *)
(* between two writes, no worker waiting on another's workspace.           *)
JobsFinish ==
  \A j \in JobIds : jobs[j].status = "queued" ~> jobs[j].status \in Terminal

(* service-lifecycle.md: an accepted cancellation "runs a compensation     *)
(* check": by the time the job is over the check has run, or its marker    *)
(* still asks for one.                                                     *)
AcceptedCancelIsChecked ==
  \A j \in accepted : jobs[j].status \in Terminal =>
    "compensation_checked" \in events[j] \/ jobs[j].comp
=============================================================================
