------------------------------ MODULE JobStore ------------------------------
(***************************************************************************)
(* The logical state of consolejobs.Store and the operations that change   *)
(* it.  Every operation runs under the in-process gate and jobs.lock (see  *)
(* withState), so it is one atomic step here; what happens below that      *)
(* step (torn lines, cached handles, compaction) is module JobJournal.     *)
(*                                                                         *)
(* A job is numbered by its place in the order (CreatedAt, ID), the order  *)
(* in which ClaimNext and the action queue serve jobs.  Results, messages, *)
(* progress and revisions are left out: no property here tells them apart. *)
(***************************************************************************)
EXTENDS Naturals, FiniteSets

CONSTANTS
  MaxJobs,          \* bound: how many jobs are ever created
  Workspaces,       \* registered workspaces
  StepUps,          \* step-up proofs an operator may present with a plan
  Policies,         \* concurrency policies of the registered actions
  None,             \* "no step-up" / "no policy"
  MaxQueuedJobs,    \* Options.MaxQueuedJobs
  MaxRunningJobs    \* Options.MaxRunningJobs

ASSUME JobStoreAssumption ==
  /\ MaxJobs \in Nat /\ MaxQueuedJobs \in Nat /\ MaxRunningJobs \in Nat
  /\ Policies \subseteq {"coalesce", "reject", "queue"}
  /\ None \notin StepUps \cup Policies

VARIABLES
  jobs,     \* the job table: journal records folded into storeState.jobs
  expired,  \* plan jobs whose confirmation token has expired
  daemon,   \* "down", "leased" (execution lease held, not recovered), "up",
            \* "failed" (up, but its store refuses everything)
  lost      \* history: actions whose processes nobody proved stopped

vars == <<jobs, expired, daemon, lost>>

JobIds    == 1..MaxJobs
Terminal  == {"succeeded", "failed", "canceled", "interrupted"}
Statuses  == Terminal \cup {"absent", "queued", "running"}
LostCodes == {"execution_containment_lost", "daemon_restarted"}
Codes     == LostCodes \cup {"none", "error"}

Job == [status: Statuses, ws: Workspaces, mutating: BOOLEAN, action: BOOLEAN,
        policy: Policies \cup {None},  \* Action.Policy.Concurrency
        started: BOOLEAN,              \* StartedAt # nil
        comp: BOOLEAN,                 \* NeedsCompensationCheck
        code: Codes,                   \* Error.Code
        proof: BOOLEAN,                \* Result holds a confirmation binding
        planStepUp: StepUps \cup {None}, \* step-up bound in that result
        plan: 0..MaxJobs,              \* Request: plan whose token was spent
        stepUp: StepUps \cup {None},   \* Request: step-up that was spent
        cancel: BOOLEAN]               \* Action.Cancellation # nil

Has(status)  == {j \in JobIds : jobs[j].status \in status}
Running      == Has({"running"})
Queued       == Has({"queued"})
Created      == JobIds \ Has({"absent"})

NewJob(ws, mutating, action, policy) ==
  [status |-> "queued", ws |-> ws, mutating |-> mutating, action |-> action,
   policy |-> policy, started |-> FALSE, comp |-> FALSE, code |-> "none",
   proof |-> FALSE, planStepUp |-> None, plan |-> 0, stepUp |-> None,
   cancel |-> FALSE]

AbsentJob(ws) == [NewJob(ws, FALSE, FALSE, None) EXCEPT !.status = "absent"]

-----------------------------------------------------------------------------
(* Admission.                                                              *)

(* createOrGetPreparedWithJobHook past the idempotency lookup: the queue   *)
(* limit, then the job_created record.                                     *)
AddJob(j, job) ==
  /\ daemon = "up"
  /\ jobs[j].status = "absent"
  /\ \A k \in JobIds : k < j => jobs[k].status # "absent"
  /\ Cardinality(Queued) < MaxQueuedJobs
  /\ jobs' = [jobs EXCEPT ![j] = job]
  /\ UNCHANGED <<expired, daemon, lost>>

CreateOrGetObserved(j, ws, mutating) ==
  AddJob(j, NewJob(ws, mutating, FALSE, None))

(* Mutant: the token is not looked up among the unfinished jobs.            *)
ConfirmationValidUnfinishedUnchecked(p) ==
  /\ jobs[p].status = "succeeded" /\ jobs[p].proof
  /\ p \notin expired
  /\ \A k \in JobIds : jobs[k].plan # p \/ jobs[k].status = "queued"
  /\ jobs[p].planStepUp # None =>
       \A k \in JobIds : jobs[k].stepUp # jobs[p].planStepUp

(* validateConfirmationLocked: the plan succeeded, its binding matches, its *)
(* token is not expired, and no job has spent the token or the step-up.    *)
ConfirmationValid(p) ==
  /\ jobs[p].status = "succeeded" /\ jobs[p].proof
  /\ p \notin expired
  /\ \A k \in JobIds : jobs[k].plan # p
  /\ jobs[p].planStepUp # None =>
       \A k \in JobIds : jobs[k].stepUp # jobs[p].planStepUp

CreateOrGetConfirmedObserved(j, p) ==
  /\ ConfirmationValid(p)
  /\ AddJob(j, [NewJob(jobs[p].ws, TRUE, FALSE, None) EXCEPT
                  !.plan = p, !.stepUp = jobs[p].planStepUp])

(* Mutant: recovery's own code is forgotten.                               *)
BlockedByContainmentOnly(j) ==
  /\ jobs[j].action /\ jobs[j].status = "interrupted"
  /\ jobs[j].code = "execution_containment_lost"

(* actionExecutionBarrier: an interrupted action that says its processes   *)
(* may still run blocks every start and every new action.                  *)
BlockedBy(j) == /\ jobs[j].action /\ jobs[j].status = "interrupted"
                /\ jobs[j].code \in LostCodes
ExecutionBarrier == \E j \in JobIds : BlockedBy(j)

(* Unfinished actions with the same public request: name, workspace,       *)
(* mutating and policy are all inputs of actionRequestDigest; there is one *)
(* action name and one parameter value here.                               *)
InFlight(ws, mutating, policy) ==
  {k \in Queued \cup Running :
     /\ jobs[k].action /\ jobs[k].policy = policy
     /\ jobs[k].ws = ws /\ jobs[k].mutating = mutating}

(* CreateActionWithPolicyObserved, the branch that creates a job.  A reject *)
(* policy fails, and a coalesce policy joins the job, while an equal       *)
(* request is in flight.                                                   *)
CreateActionWithPolicyObserved(j, ws, mutating, policy) ==
  /\ ~ExecutionBarrier
  /\ policy # "queue" => InFlight(ws, mutating, policy) = {}
  /\ AddJob(j, NewJob(ws, mutating, TRUE, policy))

-----------------------------------------------------------------------------
(* Starting.                                                               *)

(* Mutant: only a running equal action holds a job back.                   *)
ActionQueueBarrierRunningOnly(j) ==
  /\ jobs[j].action /\ jobs[j].policy = "queue"
  /\ \E k \in InFlight(jobs[j].ws, jobs[j].mutating, "queue") \ {j} :
       jobs[k].status = "running"

ActionQueueBarrier(j) ==
  /\ jobs[j].action /\ jobs[j].policy = "queue"
  /\ \E k \in InFlight(jobs[j].ws, jobs[j].mutating, "queue") \ {j} :
       jobs[k].status = "running" \/ k < j

WorkspaceBusy(ws) ==
  \E k \in Running : jobs[k].ws = ws /\ jobs[k].mutating
CompensationRequired(ws) ==
  \E k \in JobIds : jobs[k].ws = ws /\ jobs[k].comp

(* Mutants: one check dropped, or the running limit off by one.            *)
canStartBesideMutator(j) ==
  /\ ~ExecutionBarrier /\ ~ActionQueueBarrier(j)
  /\ Cardinality(Running) < MaxRunningJobs
  /\ jobs[j].mutating => ~CompensationRequired(jobs[j].ws)
canStartUncompensated(j) ==
  /\ ~ExecutionBarrier /\ ~ActionQueueBarrier(j)
  /\ Cardinality(Running) < MaxRunningJobs
  /\ jobs[j].mutating => ~WorkspaceBusy(jobs[j].ws)
canStartOneTooMany(j) ==
  /\ ~ExecutionBarrier /\ ~ActionQueueBarrier(j)
  /\ Cardinality(Running) <= MaxRunningJobs
  /\ jobs[j].mutating =>
       ~WorkspaceBusy(jobs[j].ws) /\ ~CompensationRequired(jobs[j].ws)

canStart(j) ==
  /\ ~ExecutionBarrier
  /\ ~ActionQueueBarrier(j)
  /\ Cardinality(Running) < MaxRunningJobs
  /\ jobs[j].mutating =>
       ~WorkspaceBusy(jobs[j].ws) /\ ~CompensationRequired(jobs[j].ws)

Start(j) ==
  /\ daemon = "up"
  /\ jobs[j].status = "queued"
  /\ canStart(j)
  /\ jobs' = [jobs EXCEPT ![j].status = "running", ![j].started = TRUE]
  /\ UNCHANGED <<expired, daemon, lost>>

(* The plan route starts its own read-only job by identifier.              *)
StartObserved(j) == ~jobs[j].action /\ ~jobs[j].mutating /\ Start(j)

StartActionObserved(j) == jobs[j].action /\ Start(j)

(* The worker of a workspace starts its oldest queued mutating legacy job, *)
(* or nothing at all.                                                      *)
Claimable(ws) ==
  {j \in Queued : ~jobs[j].action /\ jobs[j].ws = ws /\ jobs[j].mutating}

ClaimNextObserved(ws, j) ==
  /\ j \in Claimable(ws)
  /\ \A k \in Claimable(ws) : j <= k
  /\ Start(j)

-----------------------------------------------------------------------------
(* Finishing.                                                              *)

Finish(j, job) ==
  /\ daemon = "up"
  /\ jobs' = [jobs EXCEPT ![j] = job]
  /\ UNCHANGED <<expired, daemon>>

(* TransitionObserved: running legacy job to a terminal status.  Only a    *)
(* succeeded plan carries a confirmation; an interrupted job is always     *)
(* marked for compensation, a failed or canceled one if its caller asks.   *)
TransitionObserved(j, target, comp, stepUp) ==
  /\ jobs[j].status = "running" /\ ~jobs[j].action
  /\ comp => target # "succeeded"
  /\ stepUp # None => target = "succeeded" /\ ~jobs[j].mutating
  /\ Finish(j, [jobs[j] EXCEPT
                  !.status = target,
                  !.comp = comp \/ target = "interrupted",
                  !.code = IF target = "succeeded" THEN "none" ELSE "error",
                  !.proof = target = "succeeded" /\ ~jobs[j].mutating,
                  !.planStepUp = stepUp])
  /\ UNCHANGED lost

(* finishQueuedObserved: a queued legacy job is canceled, or rejected as   *)
(* failed, without ever having started.                                    *)
FinishQueuedObserved(j, target) ==
  /\ jobs[j].status = "queued" /\ ~jobs[j].action
  /\ Finish(j, [jobs[j] EXCEPT !.status = target, !.code = "error"])
  /\ UNCHANGED lost

(* CancelQueuedActionObserved and RejectQueuedActionObserved.              *)
FinishQueuedAction(j, target) ==
  /\ jobs[j].status = "queued" /\ jobs[j].action
  /\ Finish(j, [jobs[j] EXCEPT !.status = target,
                  !.code = IF target = "failed" THEN "error" ELSE "none"])
  /\ UNCHANGED lost

RequestActionCancelObserved(j) ==
  /\ jobs[j].status = "running" /\ jobs[j].action /\ ~jobs[j].cancel
  /\ Finish(j, [jobs[j] EXCEPT !.cancel = TRUE])
  /\ UNCHANGED lost

(* actionJobAfterEvent for a running job and a terminal event.  A running  *)
(* action is canceled only with a persisted intent; a failed or unknown    *)
(* mutating action asks for compensation.                                  *)
ActionJobAfterEvent(job, target, code) ==
  [job EXCEPT !.status = target,
     !.code = IF target \in {"failed", "interrupted"} THEN code ELSE "none",
     !.comp = target \in {"failed", "interrupted"} /\ job.mutating]

(* Mutant: a running action is canceled without a persisted intent.        *)
CompleteActionUnasked(j, target, code) ==
  /\ jobs[j].status = "running" /\ jobs[j].action
  /\ code = "execution_containment_lost" => target = "interrupted"
  /\ Finish(j, ActionJobAfterEvent(jobs[j], target, code))
  /\ lost' = IF code = "execution_containment_lost" THEN lost \cup {j}
                                                    ELSE lost

CompleteActionObserved(j, target, code) ==
  /\ jobs[j].status = "running" /\ jobs[j].action
  /\ target = "canceled" => jobs[j].cancel
  /\ code = "execution_containment_lost" => target = "interrupted"
  /\ Finish(j, ActionJobAfterEvent(jobs[j], target, code))
  /\ lost' = IF code = "execution_containment_lost" THEN lost \cup {j}
                                                    ELSE lost

AcknowledgeCompensation(j) ==
  /\ jobs[j].comp /\ jobs[j].status \in Terminal \ {"succeeded"}
  /\ Finish(j, [jobs[j] EXCEPT !.comp = FALSE])
  /\ UNCHANGED lost

-----------------------------------------------------------------------------
(* The daemon that owns the store: anasd takes the execution lease, then   *)
(* recovers, and only then serves requests and runs executors.             *)

AcquireExecutionLease ==
  /\ daemon = "down" /\ daemon' = "leased"
  /\ UNCHANGED <<jobs, expired, lost>>

(* Mutant: recovery writes a status that validStatus does not know.        *)
InterruptedUnknownStatus(job) == [job EXCEPT !.status = "aborted"]

(* Mutant: recovery puts a running job back into the queue.                *)
InterruptedRequeued(job) == [job EXCEPT !.status = "queued"]

(* RecoverInterruptedJobsObserved, one journal write for all running jobs. *)
Interrupted(job) ==
  IF job.action THEN ActionJobAfterEvent(job, "interrupted", "daemon_restarted")
  ELSE [job EXCEPT !.status = "interrupted", !.code = "daemon_restarted",
                   !.comp = TRUE]

RecoverInterruptedJobsObserved ==
  /\ daemon = "leased" /\ daemon' = "up"
  /\ jobs' = [j \in JobIds |->
                IF j \in Running THEN Interrupted(jobs[j]) ELSE jobs[j]]
  /\ UNCHANGED <<expired, lost>>

(* The kernel drops the lease with the process; the processes an action    *)
(* started may live on.                                                    *)
Crash ==
  /\ daemon # "down" /\ daemon' = "down"
  /\ lost' = lost \cup {j \in Running : jobs[j].action}
  /\ UNCHANGED <<jobs, expired>>

(* markUnavailable: an append failed, and the daemon's store refuses every *)
(* operation until the daemon is started again.                            *)
MarkUnavailable ==
  /\ daemon = "up" /\ daemon' = "failed"
  /\ UNCHANGED <<jobs, expired, lost>>

(* The expiry of a token that is already spent changes nothing.            *)
ConfirmationExpires(p) ==
  /\ jobs[p].proof /\ p \notin expired
  /\ \A k \in JobIds : jobs[k].plan # p
  /\ expired' = expired \cup {p}
  /\ UNCHANGED <<jobs, daemon, lost>>

-----------------------------------------------------------------------------
Init ==
  /\ \E ws \in Workspaces : jobs = [j \in JobIds |-> AbsentJob(ws)]
  /\ expired = {} /\ daemon = "down" /\ lost = {}

Admit(j) ==
  \/ \E ws \in Workspaces, m \in BOOLEAN :
       \/ CreateOrGetObserved(j, ws, m)
       \/ \E policy \in Policies :
            CreateActionWithPolicyObserved(j, ws, m, policy)
  \/ \E p \in JobIds : CreateOrGetConfirmedObserved(j, p)

Run(j) ==
  \/ StartObserved(j)
  \/ StartActionObserved(j)
  \/ \E ws \in Workspaces : ClaimNextObserved(ws, j)

Settle(j) ==
  \/ \E target \in Terminal, comp \in BOOLEAN, s \in StepUps \cup {None} :
       TransitionObserved(j, target, comp, s)
  \/ \E target \in {"canceled", "failed"} :
       FinishQueuedObserved(j, target) \/ FinishQueuedAction(j, target)
  \/ \E target \in Terminal, code \in {"error", "execution_containment_lost"} :
       CompleteActionObserved(j, target, code)
  \/ RequestActionCancelObserved(j)
  \/ AcknowledgeCompensation(j)
  \/ ConfirmationExpires(j)

Next ==
  \/ \E j \in JobIds : Admit(j) \/ Run(j) \/ Settle(j)
  \/ AcquireExecutionLease
  \/ RecoverInterruptedJobsObserved
  \/ MarkUnavailable
  \/ Crash

Spec == Init /\ [][Next]_vars

-----------------------------------------------------------------------------
(* What recovery accepts.  Every update is applied to a copy of the state  *)
(* by the same code that replays the journal, and an update it refuses     *)
(* makes the store unavailable.                                            *)

(* validatePersistedJob, validateActionJob and validateActionControl.      *)
ValidPersistedJob(job) ==
  /\ job.status = "queued" => ~job.started
  /\ job.status = "running" => job.started
  /\ job.status = "succeeded" => job.code = "none"
  /\ job.status = "failed" => job.code # "none"
  /\ job.comp => job.status \in {"failed", "canceled", "interrupted"}
  /\ job.action =>
       /\ job.cancel => job.started
       /\ job.status \notin Terminal => job.code = "none" /\ ~job.comp
       /\ job.status \in Terminal /\ ~job.started =>
            ~job.comp /\ job.status \in {"canceled", "failed"}
       /\ job.status = "canceled" /\ job.started => job.cancel

SameImmutableJobFields(old, new) ==
  \A field \in {"ws", "mutating", "action", "policy", "plan", "stepUp"} :
    old[field] = new[field]

(* validPersistedJobUpdate and validActionJobUpdate.                       *)
ValidPersistedJobUpdate(old, new) ==
  CASE old.status = "queued" ->
         \/ new.status \in {"running", "canceled"}
         \/ new.status = "failed" /\ ~new.started /\ ~new.comp /\ ~new.proof
    [] old.status = "running" ->
         /\ new.started
         /\ \/ new.status = "running" /\ new.code = "none" /\ ~new.comp
            \/ new.status \in Terminal
         /\ old.cancel => new.cancel
    [] OTHER -> old.comp /\ new = [old EXCEPT !.comp = FALSE]

ValidWrite(old, new) ==
  /\ ValidPersistedJob(new)
  /\ IF old.status = "absent" THEN new.status = "queued"
     ELSE SameImmutableJobFields(old, new) /\ ValidPersistedJobUpdate(old, new)

-----------------------------------------------------------------------------
(* Properties.                                                             *)

(* The type of the job table.                                              *)
TypeOK ==
  /\ jobs \in [JobIds -> Job]
  /\ expired \subseteq JobIds /\ lost \subseteq JobIds
  /\ daemon \in {"down", "leased", "up", "failed"}

(* canStart is the only place that keeps two mutating jobs of a workspace  *)
(* apart; the three start paths, recovery and every finish path together   *)
(* never let two of them be running.                                       *)
OneMutatorPerWorkspace ==
  \A j, k \in Running :
    jobs[j].mutating /\ jobs[k].mutating /\ jobs[j].ws = jobs[k].ws => j = k

(* While a mutating job runs, no other mutating job of its workspace waits *)
(* for a compensation check: the marker is looked at only when a job       *)
(* starts, and must not appear afterwards.                                 *)
NoMutatorBesideCompensation ==
  \A j \in Running, k \in JobIds :
    jobs[j].mutating /\ jobs[k].mutating /\ jobs[k].comp => jobs[j].ws # jobs[k].ws

(* Options.MaxRunningJobs and MaxQueuedJobs hold across crashes and the    *)
(* different start paths.                                                  *)
WithinCapacity ==
  Cardinality(Running) <= MaxRunningJobs /\ Cardinality(Queued) <= MaxQueuedJobs

(* A confirmation token, and a step-up proof shared by several plans, is   *)
(* spent by at most one job for ever, and only by a job that follows the   *)
(* succeeded plan of its own workspace.                                    *)
ConfirmationSpentOnce ==
  \A j \in Created : jobs[j].plan # 0 =>
    /\ jobs[jobs[j].plan].status = "succeeded" /\ jobs[jobs[j].plan].proof
    /\ jobs[j].plan < j /\ jobs[jobs[j].plan].ws = jobs[j].ws
    /\ \A k \in Created \ {j} :
         /\ jobs[k].plan # jobs[j].plan
         /\ jobs[j].stepUp # None => jobs[k].stepUp # jobs[j].stepUp

(* Equal actions: at most one unfinished job under coalesce and reject; at *)
(* most one running, and none overtaken by a younger one, under queue.     *)
EqualActionsInOrder ==
  \A k \in JobIds : jobs[k].action =>
    LET equal == InFlight(jobs[k].ws, jobs[k].mutating, jobs[k].policy) \ {k}
    IN  /\ jobs[k].policy # "queue" /\ jobs[k].status \in {"queued", "running"}
             => equal = {}
        /\ jobs[k].policy = "queue" /\ jobs[k].started
             => \A j \in equal : j < k => jobs[k].status # "running"
                                       /\ jobs[j].started
        /\ jobs[k].policy = "queue" /\ jobs[k].status = "running"
             => equal \cap Running = {}

(* After an action lost its owner (a crash while it ran, or a terminal     *)
(* record saying containment was lost) no job of any workspace starts,     *)
(* whatever is acknowledged, canceled or restarted in between.             *)
NoStartBesideLostAction ==
  [][\A j \in JobIds : jobs[j].status # "running" /\ jobs'[j].status = "running"
       => lost = {}]_vars

(* No operation ever writes a record its own replay would refuse: such a   *)
(* record marks the store unavailable instead of changing the job.         *)
EveryWriteReplays ==
  [][\A j \in JobIds : jobs'[j] # jobs[j] => ValidWrite(jobs[j], jobs'[j])]_vars
=============================================================================
