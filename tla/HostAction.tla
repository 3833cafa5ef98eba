----------------------------- MODULE HostAction -----------------------------
(***************************************************************************)
(* The host action channel.  anasd (HostActionService and its runner)      *)
(* starts a job, sends its frozen request over a socket and follows the    *)
(* event stream.  systemd starts one hostd process per connection; hostd   *)
(* enters the invocation in its ledger (a lock file and a record), changes *)
(* the host and records the terminal.  When the stream ends early, anasd   *)
(* asks the ledger, through another hostd process, what became of the      *)
(* invocation.                                                             *)
(*                                                                         *)
(* Nothing bounds the speed of the processes: a connected hostd may read   *)
(* its request after any delay, and each timer of the runner may fire at   *)
(* any poll.  Jobs are those of one workspace.                             *)
(***************************************************************************)
EXTENDS Naturals, FiniteSets

CONSTANTS
  Jobs,           \* how many host action jobs there are; job i is invocation i
  Mutating,       \* the jobs whose action changes the host
  Confirmed,      \* the jobs whose action runs on an operator's approval
  Deliveries,     \* deliveries of a request, <<i, n>>: <<i, 1>> is the runner's
  QueryFailures,  \* consecutive failed queries the runner accepts (5)
  MaxRestarts,    \* bound on the daemon's crashes and restarts
  Faults          \* which faults occur: subset of FaultKinds

JobIds == 1..Jobs

FaultKinds == {"dial",     \* no hostd socket, or the request write fails
               "admit",    \* hostd refuses a request or an installed check
               "ledger",   \* a ledger file cannot be written
               "audit",    \* hostd's audit journal cannot be written
               "oversize", \* the result does not fit a frame of the ABI
               "stream",   \* a frame is not sent, read or recorded in time
               "query",    \* a status query gets no usable answer
               "kill",     \* a hostd process is killed
               "crash",    \* anasd is killed
               "commit",   \* the job journal or its observer refuses a commit
               "revoke",   \* an actor loses their rights
               "expire",   \* an approval expires before it is claimed
               "retain"}   \* ledger retention passes

ASSUME HostAssumption ==
  /\ Jobs \in Nat /\ QueryFailures \in Nat \ {0} /\ MaxRestarts \in Nat
  /\ Confirmed \subseteq Mutating /\ Mutating \subseteq JobIds
  /\ Deliveries \subseteq JobIds \X Nat /\ \A i \in JobIds : <<i, 1>> \in Deliveries
  /\ Faults \subseteq FaultKinds

Fault(kind) == kind \in Faults

VARIABLES
  job,       \* the durable jobs of anasd
  owner,     \* the service goroutine: program counter and locals
  revoked,   \* jobs whose actor is no longer authorized
  open,      \* deliveries whose client end of the connection is open
  hostd,     \* per delivery, the hostd process that serves it
  lockFile,  \* <invocation>.lock: "absent", "free" or "held"
  record,    \* <invocation>.json: "none", "begun" or the recorded terminal
  approval,  \* hostconfirmation: state of the approval of each job
  effects,   \* how often the handler of an invocation began to change the host
  done,      \* invocations whose change was carried through
  pruned,    \* history: invocations whose ledger files retention removed
  restarts   \* how often the daemon crashed

hostVars == <<hostd, lockFile, record, approval, effects, done, pruned>>
vars     == <<job, owner, revoked, open, hostVars, restarts>>

-----------------------------------------------------------------------------
(* Terminal events, and what completing a running job with one stores.     *)

Recorded  == {"succeeded", "action_failed", "audit_unconfirmed", "not_started"}
Unstarted == {"not_started", "unavailable", "revoked"}
Unknowns  == {"audit_unconfirmed", "containment", "daemon_restarted"}
Outcomes  == Recorded \cup Unstarted \cup Unknowns

StatusOf(outcome) ==
  IF outcome = "succeeded" THEN "succeeded"
  ELSE IF outcome \in Unknowns THEN "interrupted" ELSE "failed"

NewJob == [status |-> "none", code |-> "none", check |-> FALSE]

(* actionJobAfterEvent on a running job.                                   *)
ActionJobAfterEvent(i, outcome) ==
  [status |-> StatusOf(outcome), code |-> outcome,
   check |-> i \in Mutating /\ outcome # "succeeded"]

Down     == [pc |-> "down", inv |-> 0, outcome |-> "none", found |-> FALSE,
             failures |-> 0]
At(pc)   == owner.pc = pc
Inv      == owner.inv
GoTo(pc) == owner' = [owner EXCEPT !.pc = pc]
Idle     == [Down EXCEPT !.pc = "idle"]
Complete(outcome) == owner' = [owner EXCEPT !.pc = "completing", !.outcome = outcome]

Unserved == [pc |-> "none", term |-> "none", clean |-> FALSE]

Init ==
  /\ job = [i \in JobIds |-> NewJob]
  /\ owner = Idle
  /\ revoked = {}
  /\ open = {}
  /\ hostd = [d \in Deliveries |-> Unserved]
  /\ lockFile = [i \in JobIds |-> "absent"]
  /\ record = [i \in JobIds |-> "none"]
  /\ approval = [i \in JobIds |-> IF i \in Confirmed THEN "issued" ELSE "none"]
  /\ effects = [i \in JobIds |-> 0]
  /\ done = {} /\ pruned = {} /\ restarts = 0

-----------------------------------------------------------------------------
(* HostActionService: admission, the queue, the barrier.                   *)

Serving == owner.pc \notin {"down", "stopped"}

(* Invoke, InvokeSync and InvokeConfirmed.  The approval is consumed       *)
(* inside the job's create, before the job is persisted: when that fails   *)
(* the approval is spent and there is no job.                              *)
CreateAction(i) ==
  /\ Serving
  /\ \A k \in JobIds : k >= i => job[k] = NewJob
  /\ i \in Confirmed => approval[i] = "issued"
  /\ approval' = IF i \in Confirmed THEN [approval EXCEPT ![i] = "consumed"] ELSE approval
  /\ \/ job' = [job EXCEPT ![i].status = "queued"]
     \/ Fault("commit") /\ job' = job /\ i \in Confirmed
  /\ UNCHANGED <<owner, revoked, open, hostd, lockFile, record, effects, done,
                 pruned, restarts>>

CancelQueued(i) ==
  /\ Serving
  /\ job[i].status = "queued" /\ i \notin revoked
  /\ job' = [job EXCEPT ![i].status = "canceled"]
  /\ UNCHANGED <<owner, revoked, open, hostVars, restarts>>

(* settleFailedHostActions: a failed host action needs no compensation     *)
(* check; an unknown outcome keeps its check.                              *)
SettleFailedHostActions(i) ==
  /\ At("idle")
  /\ job[i].status = "failed" /\ job[i].check
  /\ job' = [job EXCEPT ![i].check = FALSE]
  /\ UNCHANGED <<owner, revoked, open, hostVars, restarts>>

(* An operator acknowledges the check of an unknown outcome.               *)
AcknowledgeCompensation(i) ==
  /\ owner.pc # "down"
  /\ job[i].status = "interrupted" /\ job[i].check
  /\ job' = [job EXCEPT ![i].check = FALSE]
  /\ UNCHANGED <<owner, revoked, open, hostVars, restarts>>

(* Mutant: a restart clears the barrier of the execution it interrupted.   *)
BarrierUntilRestart ==
  \E i \in JobIds : \/ job[i].code = "containment"
                    \/ job[i].status = "running"

(* advance refuses to go on beside an execution it cannot account for.     *)
Barrier ==
  \E i \in JobIds : \/ job[i].code \in {"containment", "daemon_restarted"}
                    \/ job[i].status = "running"

Settled == \A i \in JobIds : ~(job[i].status = "failed" /\ job[i].check)

AdvanceRefused ==
  /\ At("idle") /\ Settled /\ Barrier
  /\ GoTo("stopped")
  /\ UNCHANGED <<job, revoked, open, hostVars, restarts>>

(* The queue is taken oldest first.  A revoked job is rejected; one that   *)
(* ErrCompensationRequired holds back is skipped.                          *)
Startable(i) ==
  /\ job[i].status = "queued"
  /\ i \in Mutating \ revoked => \A k \in JobIds : ~job[k].check

Advance(i) ==
  /\ At("idle") /\ Settled /\ ~Barrier
  /\ Startable(i)
  /\ \A k \in JobIds : k < i => ~Startable(k)
  /\ IF i \in revoked
     THEN /\ job' = [job EXCEPT ![i].status = "failed", ![i].code = "rejected"]
          /\ UNCHANGED owner
     ELSE /\ job' = [job EXCEPT ![i].status = "running"]
          /\ owner' = [Idle EXCEPT !.pc = "started", !.inv = i]
  /\ UNCHANGED <<revoked, open, hostVars, restarts>>

-----------------------------------------------------------------------------
(* hostActionRunner.execute.                                               *)

Authorize ==
  /\ At("started")
  /\ \/ IF Inv \in revoked THEN Complete("revoked") ELSE GoTo("dialing")
     \/ Fault("commit") /\ GoTo("unfinished")
  /\ UNCHANGED <<job, revoked, open, hostVars, restarts>>

(* DialHostAction: before the request is written a failure is              *)
(* ErrNoExecution; afterwards the connection is closed and the ledger      *)
(* decides, whether or not the whole request got through.                  *)
Dial ==
  LET d == <<Inv, 1>>
      deliver == hostd' = [hostd EXCEPT ![d].pc = "accepted"]
  IN  /\ At("dialing")
      /\ \/ /\ deliver /\ open' = open \cup {d} /\ GoTo("streaming")
         \/ /\ Fault("dial")
            /\ deliver /\ GoTo("settling") /\ UNCHANGED open
         \/ /\ Fault("dial")
            /\ GoTo("settling") /\ UNCHANGED <<hostd, open>>
         \/ /\ Fault("dial")
            /\ Complete("unavailable") /\ UNCHANGED <<hostd, open>>
      /\ UNCHANGED <<job, revoked, lockFile, record, approval, effects, done,
                     pruned, restarts>>

(* Mutant: only a terminal frame ends the reading.                         *)
StreamNeverBreaks(d) == FALSE

StreamBreaks(d) == hostd[d].pc = "gone" \/ Fault("stream")

(* The recorder holds the terminal frame until the stream's EOF.  A stream *)
(* that ends otherwise is closed before the ledger is asked.               *)
FollowStream ==
  LET d == <<Inv, 1>>
  IN  /\ At("streaming")
      /\ \/ hostd[d].pc = "sent" /\ Complete(hostd[d].term)
         \/ StreamBreaks(d) /\ GoTo("settling")
      /\ open' = open \ {d}
      /\ UNCHANGED <<job, revoked, hostVars, restarts>>

(* Mutant: failed queries are counted and are never enough.                *)
NeverTooMany(failures) == FALSE

TooMany(failures) == failures >= QueryFailures

(* settle: one query.  hostd's Status reads the record, then tries the     *)
(* lock, and rereads the record when the lock is free.                     *)
QueryFails ==
  /\ owner.pc \in {"settling", "probing", "sharing", "rereading"}
  /\ Fault("query")
  /\ owner' = [owner EXCEPT !.failures = @ + 1,
                 !.pc = IF TooMany(owner.failures + 1)
                        THEN "containing" ELSE "waiting"]
  /\ UNCHANGED <<job, revoked, open, hostVars, restarts>>

(* A terminal that cannot be projected is an unconfirmed execution.        *)
Answer(terminal) == Complete(terminal) \/ (Fault("query") /\ GoTo("containing"))

ReadRecord ==
  /\ At("settling")
  /\ IF record[Inv] \in Recorded
     THEN Answer(record[Inv])
     ELSE owner' = [owner EXCEPT !.pc = "probing", !.found = record[Inv] = "begun"]
  /\ UNCHANGED <<job, revoked, open, hostVars, restarts>>

(* running; absent, inside or past the window; or a free lock, which the   *)
(* query holds shared for a moment.                                        *)
ProbeLock ==
  LET lock == lockFile[Inv]
      wait == owner' = [owner EXCEPT !.pc = "waiting", !.failures = 0]
  IN  /\ At("probing")
      /\ CASE lock = "held" -> wait
           [] lock = "absent" /\ ~owner.found -> wait \/ Complete("not_started")
           [] OTHER -> GoTo(IF lock = "free" THEN "sharing" ELSE "rereading")
      /\ UNCHANGED <<job, revoked, open, hostVars, restarts>>

Unshare ==
  /\ At("sharing")
  /\ GoTo("rereading")
  /\ UNCHANGED <<job, revoked, open, hostVars, restarts>>

Reread ==
  /\ At("rereading")
  /\ IF record[Inv] \in Recorded THEN Answer(record[Inv]) ELSE GoTo("containing")
  /\ UNCHANGED <<job, revoked, open, hostVars, restarts>>

Poll ==
  /\ At("waiting")
  /\ GoTo("settling")
  /\ UNCHANGED <<job, revoked, open, hostVars, restarts>>

Deadline ==
  /\ At("waiting")
  /\ GoTo("containing")
  /\ UNCHANGED <<job, revoked, open, hostVars, restarts>>

-----------------------------------------------------------------------------
(* Committing the outcome.                                                 *)

(* The observers refuse a success whose actor is no longer authorized.     *)
CommitRefused(outcome) ==
  Fault("commit") \/ (outcome = "succeeded" /\ Inv \in revoked)

CommitAction(outcome) ==
  /\ ~(outcome = "succeeded" /\ Inv \in revoked)
  /\ job' = [job EXCEPT ![Inv] = ActionJobAfterEvent(Inv, outcome)]

CompleteAction ==
  /\ At("completing")
  /\ \/ CommitAction(owner.outcome) /\ owner' = Idle
     \/ CommitRefused(owner.outcome) /\ UNCHANGED job /\ GoTo("unfinished")
  /\ UNCHANGED <<revoked, open, hostVars, restarts>>

(* An execution that cannot be confirmed ends the service with the lease   *)
(* still retained.                                                         *)
Containment ==
  /\ At("containing")
  /\ \/ CommitAction("containment") /\ GoTo("stopped")
     \/ CommitRefused("containment") /\ UNCHANGED job /\ GoTo("unfinished")
  /\ UNCHANGED <<revoked, open, hostVars, restarts>>

(* advance, when ExecutePreflight came back without a terminal job.        *)
ContainUnfinished ==
  /\ At("unfinished")
  /\ \/ CommitAction("containment")
     \/ CommitRefused("containment") /\ UNCHANGED job
  /\ GoTo("stopped")
  /\ UNCHANGED <<revoked, open, hostVars, restarts>>

-----------------------------------------------------------------------------
(* hostd: one process per delivery d of invocation d[1].                   *)

Step(d, from, to)  == hostd[d].pc = from /\ hostd' = [hostd EXCEPT ![d].pc = to]
Ends(d, from)      == Step(d, from, "gone")
Terminal(d, term, clean) ==
  hostd' = [hostd EXCEPT ![d] = [pc |-> "finishing", term |-> term, clean |-> clean]]
OwnerUnchanged     == UNCHANGED <<job, owner, revoked, open, restarts>>

(* The same request arrives once more.                                     *)
Redeliver(d) ==
  /\ d[2] # 1
  /\ hostd[<<d[1], 1>>].pc # "none"
  /\ Step(d, "none", "accepted")
  /\ open' = open \cup {d}
  /\ UNCHANGED <<job, owner, revoked, lockFile, record, approval, effects, done,
                 pruned, restarts>>

Receive(d) ==
  /\ \/ Step(d, "accepted", "received")
     \/ Fault("admit") /\ Ends(d, "accepted")
  /\ UNCHANGED <<lockFile, record, approval, effects, done, pruned>>
  /\ OwnerUnchanged

(* Mutant: the lock file is opened, not created.                           *)
Openable(i) == lockFile[i] # "held"

Creatable(i) == lockFile[i] = "absent"

(* Begin creates the lock file exclusively ...                             *)
CreateLock(d) ==
  /\ \/ /\ Creatable(d[1])
        /\ Step(d, "received", "created")
        /\ lockFile' = [lockFile EXCEPT ![d[1]] = "free"]
     \/ /\ ~Creatable(d[1]) \/ Fault("ledger") \/ Fault("admit")
        /\ Ends(d, "received")
        /\ UNCHANGED lockFile
  /\ UNCHANGED <<record, approval, effects, done, pruned>>
  /\ OwnerUnchanged

(* ... locks it without waiting: a query that holds it shared is enough    *)
(* to make that fail ...                                                   *)
Flock(d) ==
  /\ IF At("sharing") /\ Inv = d[1]
     THEN Ends(d, "created") /\ UNCHANGED lockFile
     ELSE Step(d, "created", "locked") /\ lockFile' = [lockFile EXCEPT ![d[1]] = "held"]
  /\ UNCHANGED <<record, approval, effects, done, pruned>>
  /\ OwnerUnchanged

(* ... and writes the record; a failed directory sync is reported after    *)
(* the record was replaced.                                                *)
WriteRecord(d) ==
  /\ \/ /\ Step(d, "locked", "begun")
        /\ record' = [record EXCEPT ![d[1]] = "begun"]
        /\ UNCHANGED lockFile
     \/ /\ Fault("ledger")
        /\ Ends(d, "locked")
        /\ lockFile' = [lockFile EXCEPT ![d[1]] = "free"]
        /\ record' \in {record, [record EXCEPT ![d[1]] = "begun"]}
  /\ UNCHANGED <<approval, effects, done, pruned>>
  /\ OwnerUnchanged

(* Mutant: a progress frame that cannot be sent is ignored.                *)
ProgressIgnored(d) == TRUE

(* The progress frame of a mutating action can be written.                 *)
Progress(d) == d[1] \in Mutating => d \in open

(* executeRecorded: a mutating action announces itself on the stream       *)
(* before it changes anything.                                             *)
Announce(d) ==
  /\ hostd[d].pc = "begun"
  /\ \/ /\ Progress(d)
        /\ Step(d, "begun", "announced")
     \/ /\ ~Progress(d) \/ Fault("admit") \/ (d[1] \in Mutating /\ Fault("stream"))
        /\ Terminal(d, "not_started", FALSE)
  /\ UNCHANGED <<lockFile, record, approval, effects, done, pruned>>
  /\ OwnerUnchanged

AuditStarted(d) ==
  /\ hostd[d].pc = "announced"
  /\ \/ Step(d, "announced", IF d[1] \in Confirmed THEN "claiming" ELSE "applying")
     \/ Fault("audit") /\ Terminal(d, "not_started", FALSE)
  /\ UNCHANGED <<lockFile, record, approval, effects, done, pruned>>
  /\ OwnerUnchanged

Returned(d, term) ==
  hostd' = [hostd EXCEPT ![d].pc = "returned", ![d].term = term]

(* claimConsumedApproval.                                                  *)
ClaimApproval(d) ==
  /\ hostd[d].pc = "claiming"
  /\ \/ /\ approval[d[1]] = "consumed"
        /\ approval' = [approval EXCEPT ![d[1]] = "claimed"]
        /\ Step(d, "claiming", "applying")
     \/ /\ approval[d[1]] # "consumed" \/ Fault("expire") \/ Fault("audit")
        /\ Returned(d, "action_failed")
        /\ UNCHANGED approval
  /\ UNCHANGED <<lockFile, record, effects, done, pruned>>
  /\ OwnerUnchanged

BeginEffect(d) ==
  /\ Step(d, "applying", "changing")
  /\ effects' = IF d[1] \in Mutating THEN [effects EXCEPT ![d[1]] = @ + 1] ELSE effects
  /\ UNCHANGED <<lockFile, record, approval, done, pruned>>
  /\ OwnerUnchanged

HandlerReturns(d) ==
  /\ hostd[d].pc = "changing"
  /\ \/ Returned(d, "succeeded") /\ done' = done \cup {d[1]}
     \/ Returned(d, "action_failed") /\ UNCHANGED done
  /\ UNCHANGED <<lockFile, record, approval, effects, pruned>>
  /\ OwnerUnchanged

(* The completion audit, then the encoding of the terminal: an event that  *)
(* does not fit is returned as no event, which executeRecorded records as  *)
(* an action that was not started.                                         *)
AuditCompleted(d) ==
  /\ hostd[d].pc = "returned"
  /\ \/ Terminal(d, hostd[d].term, TRUE)
     \/ Fault("audit") /\ Terminal(d, "audit_unconfirmed", FALSE)
     \/ Fault("oversize") /\ hostd[d].term = "succeeded" /\ Terminal(d, "not_started", FALSE)
  /\ UNCHANGED <<lockFile, record, approval, effects, done, pruned>>
  /\ OwnerUnchanged

(* Mutant: the frame is sent although the terminal was not recorded.       *)
FinishErrorIgnored(d) == [hostd EXCEPT ![d].pc = "releasing"]

FinishError(d) == [hostd EXCEPT ![d].pc = "releasing", ![d].clean = FALSE]

(* Finish writes the terminal, then releases the lock; after a failed      *)
(* write no frame is sent.                                                 *)
Finish(d) ==
  /\ hostd[d].pc = "finishing"
  /\ \/ /\ Step(d, "finishing", "releasing")
        /\ record' = [record EXCEPT ![d[1]] = hostd[d].term]
     \/ /\ Fault("ledger")
        /\ hostd' = FinishError(d)
        /\ record' \in {record, [record EXCEPT ![d[1]] = hostd[d].term]}
  /\ UNCHANGED <<lockFile, approval, effects, done, pruned>>
  /\ OwnerUnchanged

ReleaseLock(d) ==
  /\ Step(d, "releasing", IF hostd[d].clean THEN "sending" ELSE "gone")
  /\ lockFile' = [lockFile EXCEPT ![d[1]] = "free"]
  /\ UNCHANGED <<record, approval, effects, done, pruned>>
  /\ OwnerUnchanged

Send(d) ==
  /\ \/ d \in open /\ Step(d, "sending", "sent")
     \/ /\ d \notin open \/ Fault("stream") \/ Fault("admit")
        /\ Ends(d, "sending")
  /\ UNCHANGED <<lockFile, record, approval, effects, done, pruned>>
  /\ OwnerUnchanged

(* A killed process lets go of the lock it holds, and of nothing else.     *)
Holding == {"locked", "begun", "announced", "claiming", "applying", "changing",
            "returned", "finishing", "releasing"}

Die(d) ==
  /\ Fault("kill")
  /\ hostd[d].pc \notin {"none", "sent", "gone"}
  /\ hostd' = [hostd EXCEPT ![d].pc = "gone"]
  /\ lockFile' = IF hostd[d].pc \in Holding THEN [lockFile EXCEPT ![d[1]] = "free"]
                                          ELSE lockFile
  /\ UNCHANGED <<record, approval, effects, done, pruned>>
  /\ OwnerUnchanged

(* prune removes the files of an invocation past retention whose lock is   *)
(* free; the retention is far longer than any execution.                   *)
Prune(i) ==
  /\ Fault("retain")
  /\ job[i].status # "running"
  /\ lockFile[i] = "free"
  /\ \A d \in Deliveries : d[1] = i => hostd[d].pc # "created"
  /\ lockFile' = [lockFile EXCEPT ![i] = "absent"]
  /\ record' = [record EXCEPT ![i] = "none"]
  /\ pruned' = pruned \cup {i}
  /\ UNCHANGED <<hostd, approval, effects, done>>
  /\ OwnerUnchanged
-----------------------------------------------------------------------------
(* The daemon and its environment.                                         *)

Revoke(i) ==
  /\ Fault("revoke")
  /\ i \notin revoked
  /\ revoked' = revoked \cup {i}
  /\ UNCHANGED <<job, owner, open, hostVars, restarts>>

(* Shutdown ends the execution in progress first: it breaks the stream and *)
(* is a deadline for settle.                                               *)
Shutdown ==
  /\ owner.pc \in {"idle", "stopped"}
  /\ restarts < MaxRestarts
  /\ owner' = Down /\ restarts' = restarts + 1
  /\ UNCHANGED <<job, revoked, open, hostVars>>

Crash ==
  /\ Fault("crash")
  /\ owner.pc # "down"
  /\ restarts < MaxRestarts
  /\ owner' = Down /\ restarts' = restarts + 1
  /\ open' = {d \in open : d[2] # 1}
  /\ UNCHANGED <<job, revoked, hostVars>>

(* RecoverInterruptedJobsObserved, before the service runs again.          *)
Restart ==
  /\ At("down")
  /\ owner' = Idle
  /\ job' = [i \in JobIds |-> IF job[i].status = "running"
                              THEN ActionJobAfterEvent(i, "daemon_restarted")
                              ELSE job[i]]
  /\ UNCHANGED <<revoked, open, hostVars, restarts>>

RunnerStep ==
  \/ Authorize \/ Dial \/ FollowStream \/ QueryFails \/ ReadRecord \/ ProbeLock
  \/ Unshare \/ Reread \/ Poll \/ Deadline
  \/ CompleteAction \/ Containment \/ ContainUnfinished

HostdStep(d) ==
  \/ Receive(d) \/ CreateLock(d) \/ Flock(d) \/ WriteRecord(d) \/ Announce(d)
  \/ AuditStarted(d) \/ ClaimApproval(d) \/ BeginEffect(d) \/ HandlerReturns(d)
  \/ AuditCompleted(d) \/ Finish(d) \/ ReleaseLock(d) \/ Send(d)

Next ==
  \/ \E i \in JobIds :
       \/ CreateAction(i) \/ CancelQueued(i) \/ SettleFailedHostActions(i)
       \/ AcknowledgeCompensation(i) \/ Advance(i) \/ Prune(i) \/ Revoke(i)
  \/ AdvanceRefused \/ RunnerStep
  \/ \E d \in Deliveries : Redeliver(d) \/ HostdStep(d) \/ Die(d)
  \/ Shutdown \/ Crash \/ Restart

HostSpec == Init /\ [][Next]_vars

(* The goroutine and hostd take their steps, and a runner that keeps       *)
(* polling passes its deadline in the end: time goes on.                   *)
FairHostSpec ==
  /\ HostSpec
  /\ WF_vars(RunnerStep) /\ SF_vars(Deadline)
  /\ WF_vars(Restart) /\ WF_vars(AdvanceRefused)
  /\ \A i \in JobIds : WF_vars(SettleFailedHostActions(i))
  /\ \A d \in Deliveries : WF_vars(HostdStep(d))

-----------------------------------------------------------------------------
(* Properties.                                                             *)

OwnerStages ==
  {"down", "stopped", "idle", "started", "dialing", "streaming", "settling",
   "probing", "sharing", "rereading", "waiting", "completing", "containing",
   "unfinished"}
HostdStages ==
  {"none", "accepted", "received", "created", "locked", "begun", "announced",
   "claiming", "applying", "changing", "returned", "finishing", "releasing",
   "sending", "sent", "gone"}
JobStates == {"none", "queued", "running", "succeeded", "failed", "interrupted",
              "canceled"}

(* Every variable of the owner, the hostd processes and the ledger keeps   *)
(* its type.                                                               *)
HostTypeOK ==
  /\ job \in [JobIds -> [status : JobStates, check : BOOLEAN,
                         code : Outcomes \cup {"none", "rejected"}]]
  /\ owner \in [pc : OwnerStages, inv : 0..Jobs, outcome : Outcomes \cup {"none"},
                found : BOOLEAN, failures : 0..QueryFailures]
  /\ revoked \subseteq JobIds /\ open \subseteq Deliveries
  /\ hostd \in [Deliveries -> [pc : HostdStages, term : Recorded \cup {"none"},
                               clean : BOOLEAN]]
  /\ lockFile \in [JobIds -> {"absent", "free", "held"}]
  /\ record \in [JobIds -> {"none", "begun"} \cup Recorded]
  /\ approval \in [JobIds -> {"none", "issued", "consumed", "claimed"}]
  /\ effects \in [JobIds -> Nat]
  /\ done \subseteq JobIds /\ pruned \subseteq JobIds
  /\ restarts \in 0..MaxRestarts

(* A change to the host whose outcome hostd has not recorded: it is in     *)
(* progress, or its process died.                                          *)
Unaccounted(i) == effects[i] > 0 /\ record[i] \notin Recorded

(* While a job runs, no other invocation has changed the host without its  *)
(* outcome on record.  Lost connections, killed processes, refused commits *)
(* and restarts all leave the service behind its barrier instead.          *)
ChangesSerialized ==
  \A i, k \in JobIds : Unaccounted(i) /\ job[k].status = "running" => i = k

(* An outcome the job took over from hostd is the one in hostd's ledger,   *)
(* whether it came by the stream or by a query; and a job that succeeded   *)
(* did carry its change through.                                           *)
OutcomeIsRecorded ==
  \A i \in JobIds :
    job[i].code \in Recorded \ {"not_started"} =>
      /\ record[i] = job[i].code
      /\ job[i].code = "succeeded" => i \in done

(* A job that says its action was not started has not changed the host,    *)
(* and never will: not even when the hostd that got its request is slow    *)
(* and comes to life after the runner has given up on it.                  *)
NotStartedIsTrue ==
  \A i \in JobIds : job[i].code \in Unstarted => effects[i] = 0

(* A request that is delivered again does not change the host again, as    *)
(* long as retention has not removed its ledger entry.                     *)
EffectOnce == \A i \in JobIds : i \notin pruned => effects[i] <= 1

(* A job that was started does not stay running: the stream ends, the      *)
(* ledger answers, or the deadline passes.                                 *)
HostJobsSettle ==
  \A i \in JobIds : job[i].status = "running" ~> job[i].status # "running"
=============================================================================
