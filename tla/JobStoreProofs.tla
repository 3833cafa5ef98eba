--------------------------- MODULE JobStoreProofs ---------------------------
(***************************************************************************)
(* Proofs about JobStore, for every number of jobs, workspaces and limits. *)
(*                                                                         *)
(* Every step changes the job table in one of four ways: it adds a job,    *)
(* starts one, settles one, or recovers them all.  Lemma StepShape says so *)
(* once, with what each way preserves; the invariants are then proved      *)
(* against the four shapes rather than against fifteen actions.            *)
(***************************************************************************)
EXTENDS JobStore, FiniteSetTheorems, TLAPS

(* What every stored job satisfies: replay accepts it, and a job that is   *)
(* not finished holds no confirmation yet.                                 *)
Sound(job) == /\ ValidPersistedJob(job)
              /\ job.status \in {"queued", "running"} => ~job.proof

(* What is left of admission when a job is written: an action found no     *)
(* equal request unless it may queue, and a spent plan was valid.          *)
Admissible(new) ==
  /\ new.action /\ new.policy # "queue"
       => InFlight(new.ws, new.mutating, new.policy) = {}
  /\ \/ new.plan = 0 /\ new.stepUp = None
     \/ /\ new.plan \in JobIds /\ ConfirmationValid(new.plan)
        /\ new.stepUp = jobs[new.plan].planStepUp
        /\ new.ws = jobs[new.plan].ws

(* A new job enters the table queued, after every older one, with nothing  *)
(* to compensate.                                                          *)
Added(j) ==
  \E new \in Job :
    /\ daemon = "up" /\ jobs[j].status = "absent"
    /\ \A k \in JobIds : k < j => jobs[k].status # "absent"
    /\ Cardinality(Queued) < MaxQueuedJobs
    /\ new.status = "queued" /\ ~new.comp /\ ~new.started
    /\ Sound(new) /\ Admissible(new)
    /\ jobs' = [jobs EXCEPT ![j] = new]
    /\ UNCHANGED <<daemon, lost>>

(* A job finishes, is marked for cancellation or is acknowledged.  What it *)
(* is does not change, a terminal status keeps its code, and only a        *)
(* running job can leave a compensation marker, on its way out.            *)
Settled(j) ==
  \E new \in Job :
    /\ daemon = "up" /\ daemon' = daemon
    /\ jobs[j].status # "absent"
    /\ new.ws = jobs[j].ws /\ new.mutating = jobs[j].mutating
    /\ new.action = jobs[j].action /\ new.policy = jobs[j].policy
    /\ new.plan = jobs[j].plan /\ new.stepUp = jobs[j].stepUp
    /\ new.started = jobs[j].started
    /\ Sound(jobs[j]) => Sound(new) /\ ValidWrite(jobs[j], new)
    /\ \/ new.status = jobs[j].status /\ new.code = jobs[j].code
          /\ (new.comp => jobs[j].comp) /\ new.proof = jobs[j].proof
       \/ jobs[j].status = "queued" /\ new.status \in Terminal
          /\ new.comp = jobs[j].comp
       \/ jobs[j].status = "running" /\ new.status \in Terminal
          /\ (new.comp => new.status # "succeeded")
    /\ jobs' = [jobs EXCEPT ![j] = new]
    /\ \/ lost' = lost
       \/ /\ lost' = lost \cup {j}
          /\ new.action /\ new.status = "interrupted" /\ new.code \in LostCodes

(* The job table does not change: the lease, a failed store, a crash, or   *)
(* an expired token.                                                       *)
Untouched ==
  /\ jobs' = jobs
  /\ \/ lost' = lost /\ daemon' = daemon
     \/ lost' = lost /\ daemon' \in {"leased", "failed"}
     \/ daemon' = "down" /\ lost' = lost \cup {j \in Running : jobs[j].action}

LEMMA NewJobType ==
  ASSUME NEW ws \in Workspaces, NEW m \in BOOLEAN, NEW a \in BOOLEAN,
         NEW p \in Policies \cup {None}
  PROVE  NewJob(ws, m, a, p) \in Job
BY JobStoreAssumption DEF NewJob, Job, Statuses, Codes

LEMMA AfterEventType ==
  ASSUME NEW job \in Job, NEW target \in Terminal, NEW code \in Codes
  PROVE  LET new == ActionJobAfterEvent(job, target, code)
         IN  /\ new \in Job /\ new.ws = job.ws /\ new.mutating = job.mutating
             /\ new.action = job.action /\ new.status = target
             /\ new.comp => target # "succeeded"
             /\ target = "interrupted" => new.code = code
             /\ new.policy = job.policy /\ new.plan = job.plan
             /\ new.stepUp = job.stepUp /\ new.started = job.started
             /\ /\ Sound(job) /\ job.action /\ job.status = "running"
                /\ target = "canceled" => job.cancel
                /\ code # "none"
                => Sound(new) /\ ValidWrite(job, new)
<1> DEFINE c == IF target \in {"failed", "interrupted"} THEN code ELSE "none"
           b == target \in {"failed", "interrupted"} /\ job.mutating
           new == [job EXCEPT !.status = target, !.code = c, !.comp = b]
<1>1. c \in Codes /\ b \in BOOLEAN /\ target \in Statuses
  BY DEF Codes, Statuses
<1>2. /\ target = "interrupted" => c = code
      /\ b => target # "succeeded"
  OBVIOUS
<1> HIDE DEF c, b
<1>3. new \in Job
  BY ZenonT(60), <1>1 DEF Job
<1>4. /\ new.ws = job.ws /\ new.mutating = job.mutating
      /\ new.action = job.action /\ new.status = target
      /\ new.comp = b /\ new.code = c
      /\ new.policy = job.policy /\ new.plan = job.plan
      /\ new.stepUp = job.stepUp /\ new.started = job.started
      /\ new.proof = job.proof /\ new.cancel = job.cancel
  BY DEF Job
<1>5. new = ActionJobAfterEvent(job, target, code)
  BY DEF c, b, ActionJobAfterEvent
<1>6. /\ target \in {"succeeded", "canceled"} => c = "none" /\ ~b
      /\ target = "failed" => c = code
  BY DEF c, b
<1> HIDE DEF new
<1>7. ASSUME Sound(job), job.action, job.status = "running",
             target = "canceled" => job.cancel, code # "none"
      PROVE  Sound(new) /\ ValidWrite(job, new)
  <2>1. job.started
    BY <1>7 DEF Sound, ValidPersistedJob
  <2>2. Sound(new)
    BY <1>4, <1>6, <1>7, <2>1 DEF Sound, ValidPersistedJob, Terminal
  <2>3. ValidPersistedJobUpdate(job, new)
    BY <1>4, <1>7, <2>1 DEF ValidPersistedJobUpdate
  <2> QED
    BY ZenonT(60), <1>4, <1>7, <2>2, <2>3 DEF Sound, ValidWrite, SameImmutableJobFields
<1> QED
  BY <1>2, <1>3, <1>4, <1>5, <1>7

LEMMA StartedType ==
  ASSUME NEW job \in Job
  PROVE  [job EXCEPT !.status = "running", !.started = TRUE] \in Job
<1>1. "running" \in Statuses
  BY DEF Statuses
<1> QED
  BY ZenonT(60), <1>1 DEF Job

LEMMA InitType == Init => TypeOK
<1> SUFFICES ASSUME Init PROVE TypeOK
  OBVIOUS
<1>1. PICK ws \in Workspaces : jobs = [j \in JobIds |-> AbsentJob(ws)]
  BY DEF Init
<1>2. NewJob(ws, FALSE, FALSE, None) \in Job
  BY ZenonT(60), NewJobType
<1>3. AbsentJob(ws) \in Job
  BY ZenonT(60), <1>2 DEF AbsentJob, Job, Statuses
<1> QED
  BY <1>1, <1>3 DEF Init, TypeOK

(* Every way of creating a job, started from a well-typed table.           *)
LEMMA AdmitShape ==
  ASSUME TypeOK, NEW j \in JobIds, Admit(j)
  PROVE  Added(j) /\ expired' = expired
<1>1. CASE \E ws \in Workspaces, m \in BOOLEAN : CreateOrGetObserved(j, ws, m)
  <2>1. PICK ws \in Workspaces, m \in BOOLEAN : CreateOrGetObserved(j, ws, m)
    BY <1>1
  <2> DEFINE new == NewJob(ws, m, FALSE, None)
  <2>a. new = NewJob(ws, m, FALSE, None)
    OBVIOUS
  <2>3. AddJob(j, new)
    BY ZenonT(60), <2>1 DEF CreateOrGetObserved
  <2> HIDE DEF new
  <2>2. /\ new \in Job /\ new.status = "queued" /\ ~new.comp
        /\ ~new.started /\ new.plan = 0 /\ new.stepUp = None
        /\ ~new.action /\ Sound(new)
    <3>1. new \in Job
      BY ZenonT(60), NewJobType DEF new
    <3> QED
      BY <3>1 DEF new, NewJob, Sound, ValidPersistedJob, Terminal
  <2>4. Admissible(new)
    BY <2>2 DEF Admissible
  <2> QED
    BY ZenonT(60), <2>2, <2>3, <2>4 DEF AddJob, Added
<1>2. CASE \E ws \in Workspaces, m \in BOOLEAN, policy \in Policies :
             CreateActionWithPolicyObserved(j, ws, m, policy)
  <2>1. PICK ws \in Workspaces, m \in BOOLEAN, policy \in Policies :
          CreateActionWithPolicyObserved(j, ws, m, policy)
    BY <1>2
  <2> DEFINE new == NewJob(ws, m, TRUE, policy)
  <2>a. new = NewJob(ws, m, TRUE, policy)
    OBVIOUS
  <2>3. /\ AddJob(j, new)
        /\ policy # "queue" => InFlight(ws, m, policy) = {}
    BY ZenonT(60), <2>1 DEF CreateActionWithPolicyObserved
  <2> HIDE DEF new
  <2>2. /\ new \in Job /\ new.status = "queued" /\ ~new.comp
        /\ ~new.started /\ new.plan = 0 /\ new.stepUp = None /\ Sound(new)
        /\ new.ws = ws /\ new.mutating = m /\ new.policy = policy
    <3>1. new \in Job
      BY ZenonT(60), NewJobType DEF new
    <3> QED
      BY <3>1 DEF new, NewJob, Sound, ValidPersistedJob, Terminal
  <2>4. Admissible(new)
    BY ZenonT(60), <2>2, <2>3 DEF Admissible
  <2> QED
    BY ZenonT(60), <2>2, <2>3, <2>4 DEF AddJob, Added
<1>3. CASE \E p \in JobIds : CreateOrGetConfirmedObserved(j, p)
  <2>1. PICK p \in JobIds : CreateOrGetConfirmedObserved(j, p)
    BY <1>3
  <2> DEFINE new == [NewJob(jobs[p].ws, TRUE, FALSE, None) EXCEPT
                       !.plan = p, !.stepUp = jobs[p].planStepUp]
  <2>2. jobs[p].ws \in Workspaces /\ jobs[p].planStepUp \in StepUps \cup {None}
    BY DEF TypeOK, Job
  <2> DEFINE fresh == NewJob(jobs[p].ws, TRUE, FALSE, None)
  <2>a. fresh = NewJob(jobs[p].ws, TRUE, FALSE, None)
    OBVIOUS
  <2>5. ConfirmationValid(p) /\ AddJob(j, new)
    BY <2>1 DEF CreateOrGetConfirmedObserved
  <2> HIDE DEF fresh
  <2>3. /\ fresh \in Job /\ fresh.status = "queued" /\ ~fresh.comp
        /\ ~fresh.started /\ ~fresh.action /\ fresh.ws = jobs[p].ws
        /\ Sound(fresh)
    <3>1. fresh \in Job
      BY ZenonT(60), <2>2, NewJobType DEF fresh
    <3> QED
      BY <3>1 DEF fresh, NewJob, Sound, ValidPersistedJob, Terminal
  <2>4. p \in 0..MaxJobs
    BY JobStoreAssumption DEF JobIds
  <2> DEFINE spent == [fresh EXCEPT !.plan = p, !.stepUp = jobs[p].planStepUp]
  <2>6. spent \in Job
    BY ZenonT(60), <2>2, <2>3, <2>4 DEF Job
  <2>7. /\ spent.status = "queued" /\ ~spent.comp /\ ~spent.started
        /\ ~spent.action /\ spent.ws = jobs[p].ws
        /\ spent.plan = p /\ spent.stepUp = jobs[p].planStepUp
    BY <2>3 DEF Job
  <2>8. spent.code = fresh.code /\ spent.proof = fresh.proof
    BY <2>3 DEF Job
  <2>9. spent = new
    BY DEF fresh
  <2> HIDE DEF spent, new
  <2>10. Sound(spent)
    BY <2>3, <2>7, <2>8 DEF Sound, ValidPersistedJob
  <2>11. Admissible(spent)
    BY <2>5, <2>7 DEF Admissible
  <2> QED
    BY ZenonT(60), <2>5, <2>6, <2>7, <2>9, <2>10, <2>11 DEF AddJob, Added
<1> QED
  BY <1>1, <1>2, <1>3 DEF Admit

LEMMA RunShape ==
  ASSUME NEW j \in JobIds, Run(j)
  PROVE  Start(j)
BY DEF Run, StartObserved, StartActionObserved, ClaimNextObserved

LEMMA SettleShape ==
  ASSUME TypeOK, NEW j \in JobIds, Settle(j)
  PROVE  \/ Settled(j) /\ expired' = expired
         \/ Untouched /\ daemon' = daemon /\ expired' = expired \cup {j}
<1> DEFINE job == jobs[j]
<1> job \in Job
  BY DEF TypeOK
<1>1. ASSUME NEW target \in Terminal, NEW comp \in BOOLEAN,
             NEW s \in StepUps \cup {None}, TransitionObserved(j, target, comp, s)
      PROVE  Settled(j) /\ expired' = expired
  <2> DEFINE new == [job EXCEPT
                  !.status = target,
                  !.comp = comp \/ target = "interrupted",
                  !.code = IF target = "succeeded" THEN "none" ELSE "error",
                  !.proof = target = "succeeded" /\ ~job.mutating,
                  !.planStepUp = s]
  <2>1. new \in Job
    <3> DEFINE c == comp \/ target = "interrupted"
               e == IF target = "succeeded" THEN "none" ELSE "error"
               p == target = "succeeded" /\ ~job.mutating
    <3>1. c \in BOOLEAN /\ e \in Codes /\ p \in BOOLEAN /\ target \in Statuses
      BY DEF Codes, Statuses
    <3> HIDE DEF c, e, p
    <3>2. [job EXCEPT !.status = target, !.comp = c, !.code = e, !.proof = p,
                      !.planStepUp = s] \in Job
      BY ZenonT(60), <3>1 DEF Job
    <3> QED
      BY <3>2 DEF c, e, p
  <2>2. /\ new.ws = job.ws /\ new.mutating = job.mutating
        /\ new.action = job.action /\ new.status = target
        /\ new.comp = (comp \/ target = "interrupted")
        /\ new.code = IF target = "succeeded" THEN "none" ELSE "error"
        /\ new.cancel = job.cancel
        /\ new.policy = job.policy /\ new.plan = job.plan
        /\ new.stepUp = job.stepUp /\ new.started = job.started
    BY DEF Job
  <2>a. /\ job.status = "running" /\ ~job.action
        /\ comp => target # "succeeded"
        /\ Finish(j, new) /\ lost' = lost
    BY <1>1 DEF TransitionObserved
  <2> HIDE DEF new
  <2>3. Sound(job) => Sound(new) /\ ValidWrite(job, new)
    BY <2>a, <2>2 DEF Sound, ValidWrite, ValidPersistedJob,
       ValidPersistedJobUpdate, SameImmutableJobFields, Terminal
  <2> QED
    BY ZenonT(60), <2>1, <2>2, <2>3, <2>a DEF Finish, Settled
<1>2. ASSUME NEW target \in {"canceled", "failed"}, FinishQueuedObserved(j, target)
      PROVE  Settled(j) /\ expired' = expired
  <2> DEFINE new == [job EXCEPT !.status = target, !.code = "error"]
  <2>1. new \in Job
    BY ZenonT(60) DEF Job, Statuses, Codes, Terminal
  <2>2. /\ new.ws = job.ws /\ new.mutating = job.mutating
        /\ new.action = job.action /\ new.status = target /\ new.comp = job.comp
        /\ new.code = "error" /\ new.cancel = job.cancel
        /\ new.proof = job.proof
        /\ new.policy = job.policy /\ new.plan = job.plan
        /\ new.stepUp = job.stepUp /\ new.started = job.started
    BY DEF Job
  <2>a. /\ job.status = "queued" /\ ~job.action
        /\ Finish(j, new) /\ lost' = lost
    BY <1>2 DEF FinishQueuedObserved
  <2> HIDE DEF new
  <2>3. Sound(job) => Sound(new) /\ ValidWrite(job, new)
    BY <2>a, <2>2 DEF Sound, ValidWrite, ValidPersistedJob,
       ValidPersistedJobUpdate, SameImmutableJobFields, Terminal
  <2> QED
    BY ZenonT(60), <2>1, <2>2, <2>3, <2>a DEF Finish, Settled, Terminal
<1>3. ASSUME NEW target \in {"canceled", "failed"}, FinishQueuedAction(j, target)
      PROVE  Settled(j) /\ expired' = expired
  <2> DEFINE new == [job EXCEPT !.status = target,
                       !.code = IF target = "failed" THEN "error" ELSE "none"]
  <2>1. new \in Job
    BY ZenonT(60) DEF Job, Statuses, Codes, Terminal
  <2>2. /\ new.ws = job.ws /\ new.mutating = job.mutating
        /\ new.action = job.action /\ new.status = target /\ new.comp = job.comp
        /\ new.code = IF target = "failed" THEN "error" ELSE "none"
        /\ new.cancel = job.cancel /\ new.proof = job.proof
        /\ new.policy = job.policy /\ new.plan = job.plan
        /\ new.stepUp = job.stepUp /\ new.started = job.started
    BY DEF Job
  <2>a. /\ job.status = "queued" /\ job.action
        /\ Finish(j, new) /\ lost' = lost
    BY <1>3 DEF FinishQueuedAction
  <2> HIDE DEF new
  <2>3. Sound(job) => Sound(new) /\ ValidWrite(job, new)
    BY ZenonT(60), <2>a, <2>2 DEF Sound, ValidWrite, ValidPersistedJob,
       ValidPersistedJobUpdate, SameImmutableJobFields, Terminal
  <2> QED
    BY ZenonT(60), <2>1, <2>2, <2>3, <2>a DEF Finish, Settled, Terminal
<1>4. ASSUME NEW target \in Terminal,
             NEW code \in {"error", "execution_containment_lost"},
             CompleteActionObserved(j, target, code)
      PROVE  Settled(j) /\ expired' = expired
  <2> DEFINE new == ActionJobAfterEvent(job, target, code)
  <2>1. /\ new \in Job /\ new.ws = job.ws /\ new.mutating = job.mutating
        /\ new.action = job.action /\ new.status = target
        /\ new.comp => target # "succeeded"
        /\ target = "interrupted" => new.code = code
        /\ new.policy = job.policy /\ new.plan = job.plan
        /\ new.stepUp = job.stepUp /\ new.started = job.started
        /\ /\ Sound(job) /\ job.action /\ job.status = "running"
           /\ target = "canceled" => job.cancel
           => Sound(new) /\ ValidWrite(job, new)
    <3>1. code \in Codes /\ code # "none"
      BY DEF Codes, LostCodes
    <3> QED
      BY <3>1, AfterEventType
  <2>2. /\ job.status = "running" /\ job.action
        /\ target = "canceled" => job.cancel
        /\ code = "execution_containment_lost" => target = "interrupted"
        /\ Finish(j, new)
        /\ lost' = IF code = "execution_containment_lost" THEN lost \cup {j}
                                                          ELSE lost
    BY <1>4 DEF CompleteActionObserved
  <2> HIDE DEF new
  <2> QED
    BY ZenonT(60), <2>1, <2>2 DEF Finish, Settled, LostCodes
<1>5. ASSUME RequestActionCancelObserved(j)
      PROVE  Settled(j) /\ expired' = expired
  <2> DEFINE new == [job EXCEPT !.cancel = TRUE]
  <2>1. new \in Job
    BY ZenonT(60) DEF Job
  <2>2. /\ new.ws = job.ws /\ new.mutating = job.mutating
        /\ new.action = job.action /\ new.status = job.status
        /\ new.comp = job.comp /\ new.code = job.code
        /\ new.cancel = TRUE /\ new.proof = job.proof
        /\ new.policy = job.policy /\ new.plan = job.plan
        /\ new.stepUp = job.stepUp /\ new.started = job.started
    BY DEF Job
  <2>a. /\ job.status = "running" /\ job.action
        /\ Finish(j, new) /\ lost' = lost
    BY <1>5 DEF RequestActionCancelObserved
  <2> HIDE DEF new
  <2>3. Sound(job) => Sound(new) /\ ValidWrite(job, new)
    BY ZenonT(60), <2>a, <2>2 DEF Sound, ValidWrite, ValidPersistedJob,
       ValidPersistedJobUpdate, SameImmutableJobFields, Terminal
  <2> QED
    BY ZenonT(60), <2>1, <2>2, <2>3, <2>a DEF Finish, Settled
<1>6. ASSUME AcknowledgeCompensation(j)
      PROVE  Settled(j) /\ expired' = expired
  <2> DEFINE new == [job EXCEPT !.comp = FALSE]
  <2>1. new \in Job
    BY ZenonT(60) DEF Job
  <2>2. /\ new.ws = job.ws /\ new.mutating = job.mutating
        /\ new.action = job.action /\ new.status = job.status
        /\ ~new.comp /\ new.code = job.code
        /\ new.cancel = job.cancel /\ new.proof = job.proof
        /\ new.policy = job.policy /\ new.plan = job.plan
        /\ new.stepUp = job.stepUp /\ new.started = job.started
    BY DEF Job
  <2>a. /\ job.comp /\ job.status \in Terminal \ {"succeeded"}
        /\ Finish(j, new) /\ lost' = lost
    BY <1>6 DEF AcknowledgeCompensation
  <2>b. new = [job EXCEPT !.comp = FALSE]
    OBVIOUS
  <2> HIDE DEF new
  <2>3. Sound(job) => Sound(new) /\ ValidWrite(job, new)
    BY <2>a, <2>b, <2>2 DEF Sound, ValidWrite, ValidPersistedJob,
       ValidPersistedJobUpdate, SameImmutableJobFields, Terminal
  <2> QED
    BY ZenonT(60), <2>1, <2>2, <2>3, <2>a DEF Finish, Settled, Terminal
<1>7. ASSUME ConfirmationExpires(j)
      PROVE  Untouched /\ daemon' = daemon /\ expired' = expired \cup {j}
  BY <1>7 DEF ConfirmationExpires, Untouched
<1> QED
  BY <1>1, <1>2, <1>3, <1>4, <1>5, <1>6, <1>7 DEF Settle

(* The shape of a step: one job is added, started or settled, or all       *)
(* running jobs are recovered, or the table is untouched.                  *)
LEMMA StepShape ==
  ASSUME TypeOK, [Next]_vars
  PROVE  \/ \E j \in JobIds : Added(j) \/ Start(j) \/ Settled(j)
         \/ RecoverInterruptedJobsObserved
         \/ Untouched
<1>1. CASE \E j \in JobIds : Admit(j) \/ Run(j) \/ Settle(j)
  BY <1>1, AdmitShape, RunShape, SettleShape
<1>2. CASE AcquireExecutionLease \/ MarkUnavailable \/ Crash \/ UNCHANGED vars
  BY <1>2 DEF AcquireExecutionLease, MarkUnavailable, Crash, Untouched, vars
<1> QED
  BY <1>1, <1>2 DEF Next

LEMMA InterruptedType ==
  ASSUME NEW job \in Job
  PROVE  /\ Interrupted(job) \in Job
         /\ Interrupted(job).ws = job.ws
         /\ Interrupted(job).mutating = job.mutating
         /\ Interrupted(job).action = job.action
         /\ Interrupted(job).status = "interrupted"
         /\ Interrupted(job).code = "daemon_restarted"
         /\ Interrupted(job).policy = job.policy
         /\ Interrupted(job).plan = job.plan
         /\ Interrupted(job).stepUp = job.stepUp
         /\ Interrupted(job).started = job.started
         /\ Sound(job) /\ job.status = "running"
              => Sound(Interrupted(job)) /\ ValidWrite(job, Interrupted(job))
<1>0. "interrupted" \in Terminal /\ "daemon_restarted" \in Codes
  BY DEF Terminal, Codes, LostCodes
<1>1. CASE job.action
  <2> DEFINE new == ActionJobAfterEvent(job, "interrupted", "daemon_restarted")
  <2>1. /\ new \in Job /\ new.ws = job.ws /\ new.mutating = job.mutating
        /\ new.action = job.action /\ new.status = "interrupted"
        /\ new.code = "daemon_restarted"
        /\ new.policy = job.policy /\ new.plan = job.plan
        /\ new.stepUp = job.stepUp /\ new.started = job.started
    BY <1>0, AfterEventType
  <2>a. Sound(job) /\ job.status = "running" => Sound(new) /\ ValidWrite(job, new)
    <3>1. "daemon_restarted" # "none" /\ "interrupted" # "canceled"
      OBVIOUS
    <3> QED
      BY ZenonT(60), <1>0, <1>1, <3>1, AfterEventType
  <2>2. Interrupted(job) = new
    BY <1>1 DEF Interrupted
  <2> HIDE DEF new
  <2> QED
    BY <2>1, <2>2, <2>a
<1>2. CASE ~job.action
  <2> DEFINE new == [job EXCEPT !.status = "interrupted",
                                !.code = "daemon_restarted", !.comp = TRUE]
  <2>1. new \in Job
    BY ZenonT(60), <1>0 DEF Job, Statuses
  <2>2. /\ new.ws = job.ws /\ new.mutating = job.mutating
        /\ new.action = job.action /\ new.status = "interrupted"
        /\ new.code = "daemon_restarted" /\ new.comp = TRUE
        /\ new.cancel = job.cancel
        /\ new.policy = job.policy /\ new.plan = job.plan
        /\ new.stepUp = job.stepUp /\ new.started = job.started
    BY DEF Job
  <2>3. Interrupted(job) = new
    BY <1>2 DEF Interrupted
  <2> HIDE DEF new
  <2>4. Sound(job) /\ job.status = "running" => Sound(new) /\ ValidWrite(job, new)
    BY <1>2, <2>2 DEF Sound, ValidWrite, ValidPersistedJob,
       ValidPersistedJobUpdate, SameImmutableJobFields, Terminal
  <2> QED
    BY <2>1, <2>2, <2>3, <2>4
<1> QED
  BY <1>1, <1>2

LEMMA TypeStep == TypeOK /\ [Next]_vars => TypeOK'
<1> SUFFICES ASSUME TypeOK, [Next]_vars PROVE TypeOK'
  OBVIOUS
<1>1. expired' \subseteq JobIds
  BY ZenonT(60), AdmitShape, RunShape, SettleShape
     DEF Next, vars, TypeOK, Start, AcquireExecutionLease,
         RecoverInterruptedJobsObserved, MarkUnavailable, Crash
<1>2. CASE \E j \in JobIds : Added(j) \/ Settled(j)
  BY <1>1, <1>2 DEF TypeOK, Added, Settled
<1>3. CASE \E j \in JobIds : Start(j)
  <2>1. PICK j \in JobIds : Start(j)
    BY ZenonT(60), <1>3
  <2>2. [jobs[j] EXCEPT !.status = "running", !.started = TRUE] \in Job
    BY ZenonT(60), StartedType DEF TypeOK
  <2>3. jobs' = [jobs EXCEPT ![j] = [jobs[j] EXCEPT !.status = "running",
                                                   !.started = TRUE]]
    BY ZenonT(60), <2>1 DEF Start, TypeOK
  <2> QED
    BY <1>1, <2>1, <2>2, <2>3 DEF TypeOK, Start
<1>4. CASE RecoverInterruptedJobsObserved
  BY <1>1, <1>4, InterruptedType DEF RecoverInterruptedJobsObserved, TypeOK
<1>5. CASE Untouched
  BY <1>1, <1>5 DEF Untouched, TypeOK, Running, Has
<1> QED
  BY <1>2, <1>3, <1>4, <1>5, StepShape

(* The job table keeps its type under every operation, crash and recovery. *)
THEOREM TypeCorrect == Spec => []TypeOK
BY InitType, TypeStep, PTL DEF Spec

-----------------------------------------------------------------------------
(* The inductive invariant.  A compensation marker sits only on a terminal *)
(* job, so a start cannot meet one that appears later; an action that lost *)
(* its owner either carries a blocking record or waits, still running, for *)
(* the recovery that writes one before the daemon serves anything.         *)
CompTerminal == \A j \in JobIds : jobs[j].comp => jobs[j].status \in Terminal
LostBlocked ==
  \A j \in lost : \/ BlockedBy(j)
                  \/ daemon # "up" /\ jobs[j].action /\ jobs[j].status = "running"

IInv == /\ TypeOK /\ CompTerminal /\ LostBlocked
        /\ OneMutatorPerWorkspace /\ NoMutatorBesideCompensation

LEMMA InvInit == Init => IInv
<1> SUFFICES ASSUME Init PROVE IInv
  OBVIOUS
<1>1. PICK ws \in Workspaces : jobs = [j \in JobIds |-> AbsentJob(ws)]
  BY DEF Init
<1>2. AbsentJob(ws).status = "absent" /\ ~AbsentJob(ws).comp
  BY DEF AbsentJob, NewJob
<1>3. Running = {} /\ \A j \in JobIds : ~jobs[j].comp
  BY <1>1, <1>2 DEF Running, Has
<1> QED
  BY <1>3, InitType DEF Init, IInv, CompTerminal, LostBlocked,
     OneMutatorPerWorkspace, NoMutatorBesideCompensation

LEMMA InvStep == IInv /\ [Next]_vars => IInv'
<1> SUFFICES ASSUME IInv, [Next]_vars PROVE IInv'
  OBVIOUS
<1>0. TypeOK /\ TypeOK'
  BY TypeStep DEF IInv
<1>1. ASSUME NEW j \in JobIds, Added(j) PROVE IInv'
  <2>1. PICK new \in Job : /\ jobs[j].status = "absent"
                           /\ new.status = "queued" /\ ~new.comp
                           /\ jobs' = [jobs EXCEPT ![j] = new]
                           /\ UNCHANGED <<daemon, lost>>
    BY ZenonT(60), <1>1 DEF Added
  <2>2. Running' = Running
    BY <1>0, <2>1 DEF Running, Has, TypeOK
  <2>3. CompTerminal' /\ LostBlocked'
    BY <1>0, <2>1 DEF IInv, CompTerminal, LostBlocked, BlockedBy, TypeOK
  <2>4. OneMutatorPerWorkspace'
    BY <1>0, <2>1, <2>2 DEF IInv, OneMutatorPerWorkspace, Running, Has, TypeOK
  <2>5. NoMutatorBesideCompensation'
    BY <1>0, <2>1, <2>2 DEF IInv, NoMutatorBesideCompensation, Running, Has, TypeOK
  <2> QED
    BY <1>0, <2>3, <2>4, <2>5 DEF IInv
<1>2. ASSUME NEW j \in JobIds, Start(j) PROVE IInv'
  <2>1. \A k \in JobIds :
          /\ jobs'[k].ws = jobs[k].ws /\ jobs'[k].mutating = jobs[k].mutating
          /\ jobs'[k].comp = jobs[k].comp /\ jobs'[k].code = jobs[k].code
          /\ jobs'[k].action = jobs[k].action
          /\ jobs'[k].status = IF k = j THEN "running" ELSE jobs[k].status
    BY <1>0, <1>2 DEF Start, TypeOK, Job
  <2>2. Running' = Running \cup {j}
    BY <2>1 DEF Running, Has
  <2>3. jobs[j].status = "queued" /\ UNCHANGED <<daemon, lost>> /\ daemon = "up"
    BY <1>2 DEF Start
  <2>4. jobs[j].mutating => ~WorkspaceBusy(jobs[j].ws)
                            /\ ~CompensationRequired(jobs[j].ws)
    BY <1>2 DEF Start, canStart
  <2>5. CompTerminal'
    BY <2>1, <2>3 DEF IInv, CompTerminal, Terminal
  <2>6. LostBlocked'
    BY <1>0, <2>1, <2>3 DEF IInv, LostBlocked, BlockedBy, TypeOK
  <2>7. OneMutatorPerWorkspace'
    BY <2>1, <2>2, <2>4 DEF IInv, OneMutatorPerWorkspace, WorkspaceBusy,
       Running, Has
  <2>8. NoMutatorBesideCompensation'
    BY <2>1, <2>2, <2>4 DEF IInv, NoMutatorBesideCompensation,
       CompensationRequired, Running, Has
  <2> QED
    BY <1>0, <2>5, <2>6, <2>7, <2>8 DEF IInv
<1>3. ASSUME NEW j \in JobIds, Settled(j) PROVE IInv'
  <2>1. PICK new \in Job :
          /\ daemon = "up" /\ daemon' = daemon
          /\ new.ws = jobs[j].ws /\ new.mutating = jobs[j].mutating
          /\ new.action = jobs[j].action
          /\ \/ new.status = jobs[j].status /\ new.code = jobs[j].code
                /\ (new.comp => jobs[j].comp)
             \/ jobs[j].status = "queued" /\ new.status \in Terminal
                /\ new.comp = jobs[j].comp
             \/ jobs[j].status = "running" /\ new.status \in Terminal
                /\ (new.comp => new.status # "succeeded")
          /\ jobs' = [jobs EXCEPT ![j] = new]
          /\ \/ lost' = lost
             \/ /\ lost' = lost \cup {j}
                /\ new.action /\ new.status = "interrupted"
                /\ new.code \in LostCodes
    BY ZenonT(60), <1>3 DEF Settled
  <2>2. /\ \A k \in JobIds \ {j} : jobs'[k] = jobs[k]
        /\ jobs'[j] = new
    BY <1>0, <2>1 DEF TypeOK
  <2>3. /\ Running' \subseteq Running
        /\ new.comp => jobs[j].comp \/ (j \in Running /\ j \notin Running')
    BY <2>1, <2>2 DEF Running, Has, Terminal, IInv, CompTerminal
  <2>4. CompTerminal'
    BY <2>1, <2>2 DEF IInv, CompTerminal, Terminal
  <2>5. LostBlocked'
    BY <1>0, <2>1, <2>2 DEF IInv, LostBlocked, BlockedBy, TypeOK
  <2>6. OneMutatorPerWorkspace'
    BY <2>1, <2>2, <2>3 DEF IInv, OneMutatorPerWorkspace, Running, Has
  <2>7. NoMutatorBesideCompensation'
    BY <2>1, <2>2, <2>3 DEF IInv, NoMutatorBesideCompensation,
       OneMutatorPerWorkspace, Running, Has
  <2> QED
    BY ZenonT(60), <1>0, <2>4, <2>5, <2>6, <2>7 DEF IInv
<1>4. ASSUME RecoverInterruptedJobsObserved PROVE IInv'
  <2>1. \A k \in JobIds :
          jobs'[k] = IF k \in Running THEN Interrupted(jobs[k]) ELSE jobs[k]
    BY <1>4 DEF RecoverInterruptedJobsObserved
  <2>2. \A k \in Running : /\ jobs'[k].status = "interrupted"
                           /\ jobs'[k].code = "daemon_restarted"
                           /\ jobs'[k].action = jobs[k].action
    BY <1>0, <2>1, InterruptedType DEF TypeOK, Running, Has
  <2>3. Running' = {}
    BY <2>1, <2>2 DEF Running, Has
  <2>4. CompTerminal'
    BY <2>1, <2>2 DEF IInv, CompTerminal, Terminal
  <2>5. LostBlocked'
    BY <1>0, <1>4, <2>1, <2>2 DEF IInv, LostBlocked, BlockedBy, TypeOK,
       RecoverInterruptedJobsObserved, Running, Has, LostCodes
  <2> QED
    BY <1>0, <2>3, <2>4, <2>5 DEF IInv, OneMutatorPerWorkspace,
       NoMutatorBesideCompensation
<1>5. ASSUME Untouched PROVE IInv'
  <2>1. Running' = Running
    BY <1>5 DEF Untouched, Running, Has
  <2>2. LostBlocked'
    BY <1>0, <1>5 DEF IInv, Untouched, LostBlocked, BlockedBy, Running, Has, TypeOK
  <2> QED
    BY <1>0, <1>5, <2>1, <2>2 DEF IInv, Untouched, CompTerminal,
       OneMutatorPerWorkspace, NoMutatorBesideCompensation
<1> QED
  BY <1>0, <1>1, <1>2, <1>3, <1>4, <1>5, StepShape

LEMMA Invariant == Spec => []IInv
BY InvInit, InvStep, PTL DEF Spec

(* Two mutating jobs of one workspace never run together, whatever the     *)
(* number of jobs, workspaces and limits: canStart is the only guard.      *)
THEOREM OneMutator == Spec => []OneMutatorPerWorkspace
BY Invariant, PTL DEF IInv

(* A mutating job never runs beside an unacknowledged compensation marker  *)
(* of another mutating job of its workspace.                               *)
THEOREM NoMutatorBesideMarker == Spec => []NoMutatorBesideCompensation
BY Invariant, PTL DEF IInv

LEMMA LostStep ==
  IInv /\ [Next]_vars =>
    [\A j \in JobIds : jobs[j].status # "running" /\ jobs'[j].status = "running"
       => lost = {}]_vars
<1> SUFFICES ASSUME IInv, [Next]_vars, NEW i \in JobIds,
                    jobs[i].status # "running", jobs'[i].status = "running"
             PROVE  lost = {}
  OBVIOUS
<1>0. TypeOK
  BY DEF IInv
<1>1. CASE \E j \in JobIds : Added(j) \/ Settled(j)
  BY <1>0, <1>1 DEF Added, Settled, TypeOK, Terminal
<1>2. CASE \E j \in JobIds : Start(j)
  <2>1. daemon = "up" /\ ~ExecutionBarrier
    BY <1>2 DEF Start, canStart
  <2> QED
    BY <1>0, <2>1 DEF IInv, LostBlocked, ExecutionBarrier, TypeOK
<1>3. CASE RecoverInterruptedJobsObserved
  <2>1. jobs'[i] = jobs[i]
    BY <1>3 DEF RecoverInterruptedJobsObserved, Running, Has
  <2> QED
    BY <2>1
<1>4. CASE Untouched
  BY <1>4 DEF Untouched
<1> QED
  BY <1>0, <1>1, <1>2, <1>3, <1>4, StepShape

(* Once an action's processes may have outlived their owner, no job of any *)
(* workspace starts again, across any number of crashes and restarts.      *)
THEOREM NoStartBesideLost == Spec => NoStartBesideLostAction
BY Invariant, LostStep, PTL DEF Spec, NoStartBesideLostAction

-----------------------------------------------------------------------------
(* What a step that adds no job leaves alone in every job: its immutable   *)
(* fields, and the outcome and the confirmation of a finished one.         *)
Kept(k) ==
  /\ jobs'[k].status = "absent" <=> jobs[k].status = "absent"
  /\ jobs'[k].ws = jobs[k].ws /\ jobs'[k].mutating = jobs[k].mutating
  /\ jobs'[k].action = jobs[k].action /\ jobs'[k].policy = jobs[k].policy
  /\ jobs'[k].plan = jobs[k].plan /\ jobs'[k].stepUp = jobs[k].stepUp
  /\ jobs[k].status \in Terminal
       => jobs'[k].status = jobs[k].status /\ jobs'[k].proof = jobs[k].proof

(* Every step adds a job to the table or keeps every job.                  *)
LEMMA StepKeeps ==
  ASSUME TypeOK, [Next]_vars
  PROVE  (\E j \in JobIds : Added(j)) \/ (\A k \in JobIds : Kept(k))
<1>1. ASSUME NEW j \in JobIds, Start(j), NEW k \in JobIds PROVE Kept(k)
  BY <1>1 DEF Start, TypeOK, Job, Kept, Terminal
<1>2. ASSUME NEW j \in JobIds, Settled(j), NEW k \in JobIds PROVE Kept(k)
  <2>1. CASE k # j
    BY <1>2, <2>1 DEF Settled, Kept, TypeOK
  <2>2. CASE k = j
    BY <1>2, <2>2 DEF Settled, Kept, TypeOK, Terminal
  <2> QED
    BY <2>1, <2>2
<1>3. ASSUME RecoverInterruptedJobsObserved, NEW k \in JobIds PROVE Kept(k)
  <2>1. jobs'[k] = IF k \in Running THEN Interrupted(jobs[k]) ELSE jobs[k]
    BY <1>3 DEF RecoverInterruptedJobsObserved
  <2>2. CASE k \in Running
    <3>1. jobs[k] \in Job /\ jobs'[k] = Interrupted(jobs[k])
      BY ZenonT(60), <2>1, <2>2 DEF TypeOK
    <3>2. /\ jobs'[k].status = "interrupted"
          /\ jobs'[k].ws = jobs[k].ws /\ jobs'[k].mutating = jobs[k].mutating
          /\ jobs'[k].action = jobs[k].action /\ jobs'[k].policy = jobs[k].policy
          /\ jobs'[k].plan = jobs[k].plan /\ jobs'[k].stepUp = jobs[k].stepUp
      BY <3>1, InterruptedType
    <3>3. jobs[k].status = "running"
      BY <2>2 DEF Running, Has
    <3> QED
      BY <3>2, <3>3 DEF Kept, Terminal
  <2>3. CASE k \notin Running
    BY <2>1, <2>3 DEF Kept
  <2> QED
    BY <2>2, <2>3
<1>4. ASSUME Untouched, NEW k \in JobIds PROVE Kept(k)
  BY <1>4 DEF Untouched, Kept
<1> QED
  BY <1>1, <1>2, <1>3, <1>4, StepShape

(* The limits.  Only an added job enters the queue and only a start leaves *)
(* it for the running set, each one after counting.                        *)
LEMMA CapacityStep == TypeOK /\ WithinCapacity /\ [Next]_vars => WithinCapacity'
<1> SUFFICES ASSUME TypeOK, WithinCapacity, [Next]_vars PROVE WithinCapacity'
  OBVIOUS
<1>1. IsFiniteSet(JobIds)
  BY FS_Interval, JobStoreAssumption DEF JobIds
<1>2. IsFiniteSet(Running) /\ IsFiniteSet(Queued)
  BY <1>1, FS_Subset DEF Running, Queued, Has
<1>3. Cardinality(Running) \in Nat /\ Cardinality(Queued) \in Nat
  BY <1>2, FS_CardinalityType
<1>4. ASSUME Running' \subseteq Running, Queued' \subseteq Queued
      PROVE  WithinCapacity'
  <2>1. /\ Cardinality(Running') <= Cardinality(Running)
        /\ Cardinality(Queued') <= Cardinality(Queued)
    BY <1>2, <1>4, FS_Subset
  <2>2. Cardinality(Running') \in Nat /\ Cardinality(Queued') \in Nat
    BY <1>2, <1>4, FS_Subset, FS_CardinalityType
  <2> QED
    BY <1>3, <2>1, <2>2, JobStoreAssumption DEF WithinCapacity
<1>5. ASSUME NEW j \in JobIds, Added(j) PROVE WithinCapacity'
  <2>1. /\ jobs[j].status = "absent" /\ jobs'[j].status = "queued"
        /\ \A k \in JobIds \ {j} : jobs'[k] = jobs[k]
        /\ Cardinality(Queued) < MaxQueuedJobs
    BY <1>5 DEF Added, TypeOK
  <2>2. Running' = Running /\ Queued' = Queued \cup {j} /\ j \notin Queued
    BY <2>1 DEF Running, Queued, Has
  <2>3. Cardinality(Queued') = Cardinality(Queued) + 1
    BY ZenonT(60), <1>2, <2>2, FS_AddElement
  <2> QED
    BY <1>3, <2>1, <2>2, <2>3, JobStoreAssumption DEF WithinCapacity
<1>6. ASSUME NEW j \in JobIds, Start(j) PROVE WithinCapacity'
  <2>1. /\ jobs[j].status = "queued" /\ jobs'[j].status = "running"
        /\ \A k \in JobIds \ {j} : jobs'[k] = jobs[k]
        /\ Cardinality(Running) < MaxRunningJobs
    BY <1>6 DEF Start, canStart, TypeOK, Job
  <2>2. /\ Running' = Running \cup {j} /\ j \notin Running
        /\ Queued' \subseteq Queued
    BY <2>1 DEF Running, Queued, Has
  <2>3. Cardinality(Running') = Cardinality(Running) + 1
    BY ZenonT(60), <1>2, <2>2, FS_AddElement
  <2>4. Cardinality(Queued') <= Cardinality(Queued) /\ Cardinality(Queued') \in Nat
    BY <1>2, <2>2, FS_Subset, FS_CardinalityType
  <2> QED
    BY <1>3, <2>1, <2>3, <2>4, JobStoreAssumption DEF WithinCapacity
<1>7. ASSUME NEW j \in JobIds, Settled(j) PROVE WithinCapacity'
  <2>1. /\ \A k \in JobIds \ {j} : jobs'[k] = jobs[k]
        /\ jobs'[j].status = jobs[j].status \/ jobs'[j].status \in Terminal
    BY <1>7 DEF Settled, TypeOK
  <2>2. Running' \subseteq Running /\ Queued' \subseteq Queued
    BY <2>1 DEF Running, Queued, Has, Terminal
  <2> QED
    BY <1>4, <2>2
<1>8. ASSUME RecoverInterruptedJobsObserved PROVE WithinCapacity'
  <2>1. \A k \in JobIds :
          jobs'[k] = IF k \in Running THEN Interrupted(jobs[k]) ELSE jobs[k]
    BY <1>8 DEF RecoverInterruptedJobsObserved
  <2>2. \A k \in Running : jobs'[k].status = "interrupted"
    <3> TAKE k \in Running
    <3>1. k \in JobIds
      BY DEF Running, Has
    <3>2. jobs[k] \in Job /\ jobs'[k] = Interrupted(jobs[k])
      BY ZenonT(60), <2>1, <3>1 DEF TypeOK
    <3> QED
      BY ZenonT(200), <3>2, InterruptedType
  <2>3. Running' \subseteq Running /\ Queued' \subseteq Queued
    BY <2>1, <2>2 DEF Running, Queued, Has
  <2> QED
    BY <1>4, <2>3
<1>9. ASSUME Untouched PROVE WithinCapacity'
  BY <1>9 DEF Untouched, WithinCapacity, Running, Queued, Has
<1> QED
  BY <1>5, <1>6, <1>7, <1>8, <1>9, StepShape

LEMMA CapacityInit == Init => WithinCapacity
<1> SUFFICES ASSUME Init PROVE WithinCapacity
  OBVIOUS
<1>1. \A j \in JobIds : jobs[j].status = "absent"
  BY DEF Init, AbsentJob, NewJob
<1>2. Running = {} /\ Queued = {}
  BY <1>1 DEF Running, Queued, Has
<1> QED
  BY <1>2, FS_EmptySet, JobStoreAssumption DEF WithinCapacity

(* The configured limits on running and queued jobs hold for every number  *)
(* of jobs, through every start path, crash and recovery.                  *)
THEOREM Capacity == Spec => []WithinCapacity
BY CapacityInit, CapacityStep, TypeCorrect, PTL DEF Spec

-----------------------------------------------------------------------------
(* Jobs are created in the order of their numbers, an absent entry is      *)
(* blank, and every other one is a record replay accepts.                  *)
Serial == \A j, k \in JobIds :
            j < k /\ jobs[k].status # "absent" => jobs[j].status # "absent"
Stored == \A k \in JobIds :
            IF jobs[k].status = "absent"
            THEN ~jobs[k].action /\ jobs[k].plan = 0 /\ jobs[k].stepUp = None
            ELSE Sound(jobs[k])

TableInv == TypeOK /\ Serial /\ Stored

LEMMA TableInit == Init => TableInv
<1> SUFFICES ASSUME Init PROVE TableInv
  OBVIOUS
<1>1. \A j \in JobIds : /\ jobs[j].status = "absent" /\ ~jobs[j].action
                        /\ jobs[j].plan = 0 /\ jobs[j].stepUp = None
  BY DEF Init, AbsentJob, NewJob
<1> QED
  BY <1>1, InitType DEF TableInv, Serial, Stored

(* A start writes a record replay accepts.                                 *)
LEMMA StartWrite ==
  ASSUME TypeOK, NEW j \in JobIds, Start(j), Sound(jobs[j])
  PROVE  Sound(jobs'[j]) /\ ValidWrite(jobs[j], jobs'[j])
<1> DEFINE new == jobs'[j]
<1>1. /\ jobs[j].status = "queued" /\ new.status = "running" /\ new.started
      /\ new.ws = jobs[j].ws /\ new.mutating = jobs[j].mutating
      /\ new.action = jobs[j].action /\ new.policy = jobs[j].policy
      /\ new.plan = jobs[j].plan /\ new.stepUp = jobs[j].stepUp
      /\ new.comp = jobs[j].comp /\ new.code = jobs[j].code
      /\ new.proof = jobs[j].proof /\ new.cancel = jobs[j].cancel
  BY DEF Start, TypeOK, Job
<1> HIDE DEF new
<1>2. Sound(new) /\ ValidWrite(jobs[j], new)
  BY <1>1 DEF Sound, ValidWrite, ValidPersistedJob, ValidPersistedJobUpdate,
     SameImmutableJobFields, Terminal
<1> QED
  BY <1>2 DEF new

(* Every write of every step is one replay accepts, and leaves a job it    *)
(* accepts.                                                                *)
LEMMA WriteStep ==
  ASSUME TypeOK, Stored, [Next]_vars, NEW k \in JobIds, jobs'[k] # jobs[k]
  PROVE  Sound(jobs'[k]) /\ ValidWrite(jobs[k], jobs'[k])
<1>1. ASSUME NEW j \in JobIds, Added(j)
      PROVE  Sound(jobs'[k]) /\ ValidWrite(jobs[k], jobs'[k])
  <2>1. k = j
    BY <1>1 DEF Added, TypeOK
  <2>2. /\ jobs[j].status = "absent" /\ jobs'[j].status = "queued"
        /\ Sound(jobs'[j])
    BY <1>1 DEF Added, TypeOK
  <2> QED
    BY <2>1, <2>2 DEF ValidWrite, Sound
<1>2. ASSUME NEW j \in JobIds, Start(j)
      PROVE  Sound(jobs'[k]) /\ ValidWrite(jobs[k], jobs'[k])
  <2>1. k = j
    BY <1>2 DEF Start, TypeOK
  <2>2. Sound(jobs[j])
    BY <1>2 DEF Start, Stored
  <2> QED
    BY <1>2, <2>1, <2>2, StartWrite
<1>3. ASSUME NEW j \in JobIds, Settled(j)
      PROVE  Sound(jobs'[k]) /\ ValidWrite(jobs[k], jobs'[k])
  <2>1. k = j
    BY <1>3 DEF Settled, TypeOK
  <2>2. Sound(jobs[j])
    BY <1>3 DEF Settled, Stored
  <2> QED
    BY <1>3, <2>1, <2>2 DEF Settled, TypeOK
<1>4. ASSUME RecoverInterruptedJobsObserved
      PROVE  Sound(jobs'[k]) /\ ValidWrite(jobs[k], jobs'[k])
  <2>1. k \in Running /\ jobs'[k] = Interrupted(jobs[k])
    BY <1>4 DEF RecoverInterruptedJobsObserved
  <2>2. jobs[k].status = "running" /\ Sound(jobs[k])
    BY <2>1 DEF Running, Has, Stored
  <2> QED
    BY <2>1, <2>2, InterruptedType DEF TypeOK
<1>5. ASSUME Untouched
      PROVE  Sound(jobs'[k]) /\ ValidWrite(jobs[k], jobs'[k])
  BY <1>5 DEF Untouched
<1> QED
  BY <1>1, <1>2, <1>3, <1>4, <1>5, StepShape

LEMMA TableStep == TableInv /\ [Next]_vars => TableInv'
<1> SUFFICES ASSUME TableInv, [Next]_vars PROVE TableInv'
  OBVIOUS
<1>0. TypeOK /\ TypeOK' /\ Serial /\ Stored
  BY TypeStep DEF TableInv
<1>1. Serial'
  <2>1. ASSUME NEW j \in JobIds, Added(j) PROVE Serial'
    <3>1. /\ \A k \in JobIds \ {j} : jobs'[k] = jobs[k]
          /\ jobs'[j].status = "queued"
          /\ \A k \in JobIds : k < j => jobs[k].status # "absent"
      BY <1>0, <2>1 DEF Added, TypeOK
    <3> QED
      BY <1>0, <3>1 DEF Serial
  <2>2. ASSUME \A k \in JobIds : Kept(k) PROVE Serial'
    BY <1>0, <2>2 DEF Serial, Kept
  <2> QED
    BY <1>0, <2>1, <2>2, StepKeeps
<1>2. Stored'
  <2> SUFFICES ASSUME NEW k \in JobIds
               PROVE  IF jobs'[k].status = "absent"
                      THEN /\ ~jobs'[k].action /\ jobs'[k].plan = 0
                           /\ jobs'[k].stepUp = None
                      ELSE Sound(jobs'[k])
    BY DEF Stored
  <2>1. CASE jobs'[k] = jobs[k]
    BY <1>0, <2>1 DEF Stored
  <2>2. CASE jobs'[k] # jobs[k]
    <3>1. Sound(jobs'[k]) /\ ValidWrite(jobs[k], jobs'[k])
      BY <1>0, <2>2, WriteStep
    <3>2. jobs'[k].status # "absent"
      <4>1. CASE \E j \in JobIds : Added(j)
        BY <1>0, <2>2, <4>1 DEF Added, TypeOK
      <4>2. CASE \A j \in JobIds : Kept(j)
        <5>1. CASE jobs[k].status = "absent"
          BY <3>1, <5>1 DEF ValidWrite
        <5>2. CASE jobs[k].status # "absent"
          BY <4>2, <5>2 DEF Kept
        <5> QED
          BY <5>1, <5>2
      <4> QED
        BY <1>0, <4>1, <4>2, StepKeeps
    <3> QED
      BY <3>1, <3>2
  <2> QED
    BY <2>1, <2>2
<1> QED
  BY <1>0, <1>1, <1>2 DEF TableInv

LEMMA Table == Spec => []TableInv
BY TableInit, TableStep, PTL DEF Spec

LEMMA ReplayStep ==
  TableInv /\ [Next]_vars =>
    [\A j \in JobIds : jobs'[j] # jobs[j] => ValidWrite(jobs[j], jobs'[j])]_vars
BY WriteStep DEF TableInv

(* No operation, crash or recovery ever writes a record that replaying the *)
(* journal would refuse.                                                   *)
THEOREM WritesReplay == Spec => EveryWriteReplays
BY Table, ReplayStep, PTL DEF Spec, EveryWriteReplays

-----------------------------------------------------------------------------
(* Confirmations.  The two ways a plan can be read after it was spent: the *)
(* plan's own record, which a finished job keeps, and the requests of the  *)
(* other jobs, which nobody rewrites.                                      *)
LEMMA SpentStep ==
  TableInv /\ ConfirmationSpentOnce /\ [Next]_vars => ConfirmationSpentOnce'
<1> SUFFICES ASSUME TableInv, ConfirmationSpentOnce, [Next]_vars
             PROVE  ConfirmationSpentOnce'
  OBVIOUS
<1>0. /\ TypeOK /\ Serial /\ Stored
      /\ \A k \in JobIds : jobs[k].plan # 0 => jobs[k].plan \in JobIds
  BY JobStoreAssumption DEF TableInv, TypeOK, Job, JobIds
<1>1. ASSUME \A k \in JobIds : Kept(k) PROVE ConfirmationSpentOnce'
  <2>1. Created' = Created
    BY <1>1 DEF Created, Has, Kept
  <2>2. \A k \in JobIds : /\ jobs'[k].plan = jobs[k].plan
                          /\ jobs'[k].stepUp = jobs[k].stepUp
                          /\ jobs'[k].ws = jobs[k].ws
    BY <1>1 DEF Kept
  <2>3. \A k \in JobIds : jobs[k].status = "succeeded" /\ jobs[k].proof
          => jobs'[k].status = "succeeded" /\ jobs'[k].proof
    BY <1>1 DEF Kept, Terminal
  <2> QED
    <3>1. ASSUME NEW i \in Created, jobs[i].plan # 0
          PROVE  /\ jobs'[jobs'[i].plan].status = "succeeded"
                 /\ jobs'[jobs'[i].plan].proof /\ jobs'[i].plan < i
                 /\ jobs'[jobs'[i].plan].ws = jobs'[i].ws
      <4>1. i \in JobIds /\ jobs[i].plan \in JobIds /\ jobs'[i].plan = jobs[i].plan
        BY <1>0, <2>2, <3>1 DEF Created
      <4>2. /\ jobs[jobs[i].plan].status = "succeeded" /\ jobs[jobs[i].plan].proof
            /\ jobs[i].plan < i /\ jobs[jobs[i].plan].ws = jobs[i].ws
        BY ZenonT(60), <3>1 DEF ConfirmationSpentOnce
      <4> QED
        BY <2>2, <2>3, <4>1, <4>2
    <3>2. ASSUME NEW i \in Created, jobs[i].plan # 0, NEW k \in Created \ {i}
          PROVE  /\ jobs'[k].plan # jobs'[i].plan
                 /\ jobs'[i].stepUp # None => jobs'[k].stepUp # jobs'[i].stepUp
      <4>1. /\ jobs[k].plan # jobs[i].plan
            /\ jobs[i].stepUp # None => jobs[k].stepUp # jobs[i].stepUp
        BY ZenonT(60), <3>2 DEF ConfirmationSpentOnce
      <4>2. i \in JobIds /\ k \in JobIds
        BY <3>2 DEF Created
      <4> QED
        BY <2>2, <4>1, <4>2
    <3>3. \A i \in Created' : jobs'[i].plan # 0 => i \in Created /\ jobs[i].plan # 0
      BY <2>1, <2>2 DEF Created
    <3> QED
      BY ZenonT(60), <2>1, <3>1, <3>2, <3>3 DEF ConfirmationSpentOnce
<1>2. ASSUME NEW j \in JobIds, Added(j) PROVE ConfirmationSpentOnce'
  <2>1. /\ jobs[j].status = "absent" /\ jobs'[j].status = "queued"
        /\ \A k \in JobIds \ {j} : jobs'[k] = jobs[k]
        /\ Admissible(jobs'[j])
    BY <1>2 DEF Added, TypeOK, TableInv
  <2>2. Created' = Created \cup {j} /\ j \notin Created
    BY <2>1 DEF Created, Has
  <2>3. \A k \in Created : k < j
    BY <1>0, <2>1, <2>2 DEF Serial, Created, Has, JobIds
  <2>4. ASSUME NEW i \in Created, jobs[i].plan # 0
        PROVE  /\ jobs'[jobs[i].plan] = jobs[jobs[i].plan]
               /\ jobs[jobs[i].plan].status = "succeeded"
    <3>1. jobs[jobs[i].plan].status = "succeeded"
      BY ZenonT(60), <2>4 DEF ConfirmationSpentOnce
    <3>2. jobs[i].plan \in JobIds
      BY <1>0, <2>4 DEF Created
    <3> QED
      BY <2>1, <3>1, <3>2
  <2>k. \A i \in Created : i \in JobIds /\ jobs'[i] = jobs[i]
    BY <2>1, <2>2 DEF Created
  <2>p. ASSUME NEW i \in Created, jobs[i].plan # 0
        PROVE  /\ jobs'[jobs'[i].plan].status = "succeeded"
               /\ jobs'[jobs'[i].plan].proof /\ jobs'[i].plan < i
               /\ jobs'[jobs'[i].plan].ws = jobs'[i].ws
    <3>1. /\ jobs[jobs[i].plan].status = "succeeded" /\ jobs[jobs[i].plan].proof
          /\ jobs[i].plan < i /\ jobs[jobs[i].plan].ws = jobs[i].ws
      BY ZenonT(60), <2>p DEF ConfirmationSpentOnce
    <3> QED
      BY <2>4, <2>k, <2>p, <3>1
  <2>o. ASSUME NEW i \in Created, jobs[i].plan # 0, NEW k \in Created \ {i}
        PROVE  /\ jobs'[k].plan # jobs'[i].plan
               /\ jobs'[i].stepUp # None => jobs'[k].stepUp # jobs'[i].stepUp
    <3>1. /\ jobs[k].plan # jobs[i].plan
          /\ jobs[i].stepUp # None => jobs[k].stepUp # jobs[i].stepUp
      BY ZenonT(60), <2>o DEF ConfirmationSpentOnce
    <3> QED
      BY <2>k, <3>1
  <2>5. CASE jobs'[j].plan = 0 /\ jobs'[j].stepUp = None
    <3>1. ASSUME NEW i \in Created', jobs'[i].plan # 0
          PROVE  i \in Created /\ jobs[i].plan # 0 /\ jobs'[i] = jobs[i]
      BY <2>2, <2>5, <2>k, <3>1
    <3>2. ASSUME NEW i \in Created, jobs[i].plan # 0, NEW k \in Created' \ {i}
          PROVE  /\ jobs'[k].plan # jobs'[i].plan
                 /\ jobs'[i].stepUp # None => jobs'[k].stepUp # jobs'[i].stepUp
      <4>1. CASE k = j
        BY <2>5, <2>k, <3>2, <4>1
      <4>2. CASE k # j
        BY ZenonT(60), <2>2, <2>o, <3>2, <4>2
      <4> QED
        BY <4>1, <4>2
    <3> QED
      BY ZenonT(60), <2>p, <3>1, <3>2 DEF ConfirmationSpentOnce
  <2>6. CASE /\ jobs'[j].plan \in JobIds /\ ConfirmationValid(jobs'[j].plan)
             /\ jobs'[j].stepUp = jobs[jobs'[j].plan].planStepUp
             /\ jobs'[j].ws = jobs[jobs'[j].plan].ws
    <3> DEFINE p == jobs'[j].plan
    <3>1. /\ jobs[p].status = "succeeded" /\ jobs[p].proof
          /\ \A k \in JobIds : jobs[k].plan # p
          /\ jobs'[j].stepUp # None
               => \A k \in JobIds : jobs[k].stepUp # jobs'[j].stepUp
      BY <2>6 DEF ConfirmationValid
    <3>2. p \in Created /\ p # j /\ jobs'[p] = jobs[p] /\ p < j
      BY <2>1, <2>2, <2>3, <2>6, <3>1 DEF Created, Has
    <3>3. ASSUME NEW i \in Created, jobs[i].plan # 0
          PROVE  /\ jobs'[i] = jobs[i]
                 /\ \A k \in Created' \ {i} :
                      /\ jobs'[k].plan # jobs[i].plan
                      /\ jobs[i].stepUp # None => jobs'[k].stepUp # jobs[i].stepUp
      <4>1. i \in JobIds /\ jobs'[i] = jobs[i]
        BY <2>k
      <4>2. ASSUME NEW k \in Created' \ {i}
            PROVE  /\ jobs'[k].plan # jobs[i].plan
                   /\ jobs[i].stepUp # None => jobs'[k].stepUp # jobs[i].stepUp
        <5>1. CASE k = j
          BY <3>1, <4>1, <5>1
        <5>2. CASE k # j
          BY ZenonT(60), <2>2, <2>o, <3>3, <4>1, <4>2, <5>2
        <5> QED
          BY <5>1, <5>2
      <4> QED
        BY <4>1, <4>2
    <3>4. \A k \in Created' \ {j} :
            /\ jobs'[k].plan # p
            /\ jobs'[j].stepUp # None => jobs'[k].stepUp # jobs'[j].stepUp
      <4> TAKE k \in Created' \ {j}
      <4>1. k \in JobIds /\ jobs'[k] = jobs[k]
        BY <2>2, <2>k
      <4> QED
        BY <3>1, <4>1
    <3>5. ASSUME NEW i \in Created', jobs'[i].plan # 0
          PROVE  /\ jobs'[jobs'[i].plan].status = "succeeded"
                 /\ jobs'[jobs'[i].plan].proof /\ jobs'[i].plan < i
                 /\ jobs'[jobs'[i].plan].ws = jobs'[i].ws
                 /\ \A k \in Created' \ {i} :
                      /\ jobs'[k].plan # jobs'[i].plan
                      /\ jobs'[i].stepUp # None => jobs'[k].stepUp # jobs'[i].stepUp
      <4>1. CASE i = j
        BY <2>6, <3>1, <3>2, <3>4, <4>1
      <4>2. CASE i # j
        <5>1. i \in Created /\ jobs'[i] = jobs[i]
          BY <2>1, <2>2, <3>5, <4>2 DEF Created
        <5> QED
          BY ZenonT(60), <2>p, <3>3, <3>5, <5>1
      <4> QED
        BY <4>1, <4>2
    <3> QED
      BY <3>5 DEF ConfirmationSpentOnce
  <2> QED
    BY <2>1, <2>5, <2>6 DEF Admissible
<1> QED
  BY <1>0, <1>1, <1>2, StepKeeps

LEMMA SpentInit == Init => ConfirmationSpentOnce
BY DEF Init, ConfirmationSpentOnce, Created, Has, AbsentJob, NewJob

(* A confirmation token and a step-up proof are each spent by at most one  *)
(* job, for every number of plans, step-ups and workspaces.                *)
THEOREM SpentOnce == Spec => []ConfirmationSpentOnce
BY SpentInit, SpentStep, Table, PTL DEF Spec

-----------------------------------------------------------------------------
(* Equal actions.  Stated over pairs of jobs, and stronger than the        *)
(* property: a started queue action has no older equal one in flight.      *)
Equal(i, k) ==
  /\ jobs[i].action /\ jobs[k].action /\ jobs[i].policy = jobs[k].policy
  /\ jobs[i].ws = jobs[k].ws /\ jobs[i].mutating = jobs[k].mutating
Unfinished(k) == jobs[k].status \in {"queued", "running"}
PairOrder(i, k) ==
  Equal(i, k) /\ Unfinished(i) =>
    /\ jobs[k].policy # "queue" => ~Unfinished(k)
    /\ jobs[k].policy = "queue" /\ jobs[k].started => k <= i
    /\ jobs[k].policy = "queue" /\ jobs[k].status = "running"
         => jobs[i].status # "running"
Ordered == \A i, k \in JobIds : i # k => PairOrder(i, k)

LEMMA OrderedSuffices == TypeOK /\ Ordered => EqualActionsInOrder
<1> SUFFICES ASSUME TypeOK, Ordered, NEW k \in JobIds, jobs[k].action,
                    NEW i \in InFlight(jobs[k].ws, jobs[k].mutating,
                                       jobs[k].policy) \ {k}
             PROVE  /\ ~(jobs[k].policy # "queue" /\ Unfinished(k))
                    /\ jobs[k].policy = "queue" /\ jobs[k].started => ~(i < k)
                    /\ jobs[k].policy = "queue" /\ jobs[k].status = "running"
                         => i \notin Running
  BY DEF EqualActionsInOrder, Unfinished
<1>1. i \in JobIds /\ i # k /\ Equal(i, k) /\ Unfinished(i)
  BY DEF InFlight, Queued, Running, Has, Equal, Unfinished
<1>2. PairOrder(i, k)
  BY ZenonT(60), <1>1 DEF Ordered
<1>3. /\ jobs[k].policy # "queue" => ~Unfinished(k)
      /\ jobs[k].policy = "queue" /\ jobs[k].started => k <= i
      /\ jobs[k].policy = "queue" /\ jobs[k].status = "running"
           => jobs[i].status # "running"
  BY ZenonT(60), <1>1, <1>2 DEF PairOrder
<1>4. k <= i => ~(i < k)
  BY <1>1 DEF JobIds
<1> QED
  BY ZenonT(60), <1>3, <1>4 DEF Running, Has

LEMMA OrderedInit == Init => Ordered
BY DEF Init, Ordered, PairOrder, Equal, AbsentJob, NewJob

LEMMA OrderedStep == TableInv /\ Ordered /\ [Next]_vars => Ordered'
<1> SUFFICES ASSUME TableInv, Ordered, [Next]_vars,
                    NEW i \in JobIds, NEW k \in JobIds, i # k,
                    Equal(i, k)', Unfinished(i)'
             PROVE  /\ jobs'[k].policy # "queue" => ~Unfinished(k)'
                    /\ jobs'[k].policy = "queue" /\ jobs'[k].started => k <= i
                    /\ jobs'[k].policy = "queue" /\ jobs'[k].status = "running"
                         => jobs'[i].status # "running"
  BY DEF Ordered, PairOrder
<1> DEFINE Goal == /\ jobs'[k].policy # "queue" => ~Unfinished(k)'
                   /\ jobs'[k].policy = "queue" /\ jobs'[k].started => k <= i
                   /\ jobs'[k].policy = "queue" /\ jobs'[k].status = "running"
                        => jobs'[i].status # "running"
<1>0. TypeOK /\ Serial /\ Stored /\ PairOrder(i, k) /\ PairOrder(k, i)
  BY DEF TableInv, Ordered
<1>1. ASSUME NEW j \in JobIds, Added(j) PROVE Goal
  <2>1. /\ jobs[j].status = "absent" /\ jobs'[j].status = "queued"
        /\ ~jobs'[j].started
        /\ \A n \in JobIds \ {j} : jobs'[n] = jobs[n]
        /\ Admissible(jobs'[j])
    BY <1>0, <1>1 DEF Added, TypeOK
  <2>2. \A n \in JobIds : jobs[n].status # "absent" => n < j
    BY <1>0, <2>1 DEF Serial, JobIds
  <2>3. CASE i # j /\ k # j
    BY <1>0, <2>1, <2>3 DEF PairOrder, Equal, Unfinished
  <2>4. CASE k = j
    <3>1. jobs'[i] = jobs[i] /\ Unfinished(i) /\ jobs[i].action
      BY <2>1, <2>4 DEF Unfinished, Equal
    <3>2. i \in InFlight(jobs'[k].ws, jobs'[k].mutating, jobs'[k].policy)
      BY <3>1 DEF InFlight, Queued, Running, Has, Equal, Unfinished
    <3>3. jobs'[k].policy = "queue"
      BY <2>1, <2>4, <3>2 DEF Admissible, Equal
    <3> QED
      BY <2>1, <2>4, <3>3
  <2>5. CASE i = j
    <3>1. jobs'[k] = jobs[k] /\ jobs[k].action /\ jobs[k].status # "absent"
      BY <1>0, <2>1, <2>5 DEF Equal, Stored
    <3>2. k < j
      BY <2>2, <3>1
    <3>3. ASSUME Unfinished(k)' PROVE jobs'[k].policy = "queue"
      <4>1. k \in InFlight(jobs'[i].ws, jobs'[i].mutating, jobs'[i].policy)
        BY <3>1, <3>3 DEF InFlight, Queued, Running, Has, Equal, Unfinished
      <4> QED
        BY <2>1, <2>5, <4>1 DEF Admissible, Equal
    <3>4. k <= i
      BY <2>5, <3>2 DEF JobIds
    <3>5. jobs'[i].status # "running"
      BY <2>1, <2>5
    <3> QED
      BY ZenonT(60), <3>3, <3>4, <3>5
  <2> QED
    BY <2>3, <2>4, <2>5
<1>2. ASSUME NEW j \in JobIds, Start(j) PROVE Goal
  <2>1. \A n \in JobIds :
          /\ jobs'[n].action = jobs[n].action /\ jobs'[n].policy = jobs[n].policy
          /\ jobs'[n].ws = jobs[n].ws /\ jobs'[n].mutating = jobs[n].mutating
          /\ n # j => jobs'[n].status = jobs[n].status
                      /\ jobs'[n].started = jobs[n].started
    <3> DEFINE new == [jobs[j] EXCEPT !.status = "running", !.started = TRUE]
    <3>1. jobs' = [jobs EXCEPT ![j] = new] /\ jobs \in [JobIds -> Job]
      BY ZenonT(60), <1>0, <1>2 DEF Start, TypeOK
    <3>2. /\ new.action = jobs[j].action /\ new.policy = jobs[j].policy
          /\ new.ws = jobs[j].ws /\ new.mutating = jobs[j].mutating
      BY <3>1 DEF Job
    <3> HIDE DEF new
    <3> QED
      BY <3>1, <3>2
  <2>2. jobs[j].status = "queued" /\ ~ActionQueueBarrier(j)
    BY <1>2 DEF Start, canStart
  <2>3. Equal(i, k) /\ Equal(k, i) /\ Unfinished(i)
    BY <2>1, <2>2 DEF Equal, Unfinished
  <2>4. Unfinished(k)' => Unfinished(k)
    BY <2>1, <2>2 DEF Unfinished
  <2>5. jobs'[k].policy # "queue" => ~Unfinished(k)'
    BY <1>0, <2>1, <2>3, <2>4 DEF PairOrder
  <2>6. CASE jobs[k].policy = "queue" /\ k = j
    <3>1. i \in InFlight(jobs[j].ws, jobs[j].mutating, "queue") \ {j}
      BY <2>3, <2>6 DEF InFlight, Queued, Running, Has, Equal, Unfinished
    <3>2. jobs[i].status # "running" /\ ~(i < j)
      BY <2>2, <2>3, <2>6, <3>1 DEF ActionQueueBarrier, Equal
    <3>3. k <= i
      BY <2>6, <3>2 DEF JobIds
    <3>4. jobs'[i].status # "running"
      BY <2>1, <2>6, <3>2
    <3> QED
      BY ZenonT(60), <2>5, <3>3, <3>4
  <2>7. CASE jobs[k].policy = "queue" /\ i = j
    <3>1. ASSUME jobs[k].status = "running" PROVE FALSE
      <4>1. k \in InFlight(jobs[j].ws, jobs[j].mutating, "queue") \ {j}
        BY <2>3, <2>7, <3>1 DEF InFlight, Queued, Running, Has, Equal
      <4> QED
        BY <2>2, <2>3, <2>7, <3>1, <4>1 DEF ActionQueueBarrier, Equal
    <3> QED
      BY <1>0, <2>1, <2>3, <2>5, <2>7, <3>1 DEF PairOrder
  <2>8. CASE i # j /\ k # j
    BY <1>0, <2>1, <2>3, <2>5, <2>8 DEF PairOrder
  <2>9. CASE jobs[k].policy # "queue"
    BY <2>1, <2>5, <2>9
  <2> QED
    BY <2>6, <2>7, <2>8, <2>9
<1>3. ASSUME \A n \in JobIds : /\ Kept(n)
                              /\ jobs'[n].started = jobs[n].started
                              /\ \/ jobs'[n].status = jobs[n].status
                                 \/ jobs'[n].status \in Terminal
      PROVE  Goal
  <2>1. Equal(i, k) /\ Unfinished(i) /\ (Unfinished(k)' => Unfinished(k))
    BY <1>3 DEF Equal, Unfinished, Kept, Terminal
  <2>2. /\ jobs'[k].policy = jobs[k].policy /\ jobs'[k].started = jobs[k].started
        /\ jobs'[k].status = "running" => jobs[k].status = "running"
        /\ jobs'[i].status = "running" => jobs[i].status = "running"
    BY <1>3 DEF Kept, Terminal
  <2> QED
    BY <1>0, <2>1, <2>2 DEF PairOrder
<1>4. ASSUME NEW j \in JobIds, Settled(j) PROVE Goal
  <2>1. \A n \in JobIds : /\ jobs'[n].started = jobs[n].started
                          /\ \/ jobs'[n].status = jobs[n].status
                             \/ jobs'[n].status \in Terminal
    BY <1>0, <1>4 DEF Settled, TypeOK
  <2>2. \A n \in JobIds : Kept(n)
    <3>1. jobs[j].status # "absent" /\ \A n \in JobIds \ {j} : jobs'[n] = jobs[n]
      BY <1>0, <1>4 DEF Settled, TypeOK
    <3>2. ASSUME NEW n \in JobIds, Added(n) PROVE FALSE
      <4>1. jobs[n].status = "absent" /\ jobs'[n].status = "queued"
        BY <1>0, <3>2 DEF Added, TypeOK
      <4> QED
        BY <3>1, <4>1
    <3> QED
      BY <1>0, <3>2, StepKeeps
  <2> QED
    BY <1>3, <2>1, <2>2
<1>5. ASSUME RecoverInterruptedJobsObserved PROVE Goal
  <2>1. \A n \in JobIds : /\ jobs'[n].started = jobs[n].started
                          /\ \/ jobs'[n].status = jobs[n].status
                             \/ jobs'[n].status \in Terminal
    BY <1>0, <1>5, InterruptedType
       DEF RecoverInterruptedJobsObserved, TypeOK, Terminal
  <2>2. \A n \in JobIds : Kept(n)
    BY <1>0, <1>5, StepKeeps DEF Added, RecoverInterruptedJobsObserved
  <2> QED
    BY <1>3, <2>1, <2>2
<1>6. ASSUME Untouched PROVE Goal
  BY <1>3, <1>6 DEF Untouched, Kept
<1> QED
  BY <1>0, <1>1, <1>2, <1>4, <1>5, <1>6, StepShape

(* Equal actions never overlap under coalesce and reject, and under queue  *)
(* run one at a time in the order they came, for every number of actions.  *)
THEOREM EqualInOrder == Spec => []EqualActionsInOrder
BY Table, OrderedInit, OrderedStep, OrderedSuffices, PTL DEF Spec, TableInv

=============================================================================
