---------------------- MODULE JobExecutorOutcomeProofs ----------------------
(***************************************************************************)
(* What the executor leaves behind, for any number of jobs and workspaces  *)
(* and under every fault: workspaces with a half done operation are        *)
(* fenced, operations begin once and in order, and event histories agree   *)
(* with the outcomes.  Each part adds its own inductive invariant to       *)
(* CancelInv of JobExecutorProofs and to the store's.                      *)
(***************************************************************************)
EXTENDS JobExecutorProofs
-----------------------------------------------------------------------------
(* The fence around an operation that was cut short.  A worker that has    *)
(* its job in hand keeps it running; where the job is half done, the       *)
(* worker is on a path that leaves a marker, unless the operation's own    *)
(* error hides what happened.                                              *)
Cut     == {"canceled", "deadline"}
InHand  == Stages \ {"idle", "exited", "rejecting", "acknowledging"}
Untried == Unregistered \cup Succeeding \cup {"operating"}
Marking(w, harm) ==
  harm # "no" =>
    /\ w.pc \notin Untried \cup {"acknowledging"}
    /\ w.pc = "completing" => w.errs # {}
    /\ harm = "cut" /\ w.pc \in {"completing", "failing", "failed"} =>
         w.errs \cap Cut # {}
    /\ w.pc \in {"checked", "canceled", "closing"} => ~w.recovered
Fence(ws) ==
  LET w == worker[ws]
  IN  /\ w.pc \in InHand => jobs[w.job].status = "running" /\ jobs[w.job].mutating
      /\ w.pc \in InHand \cup {"acknowledging"} => Marking(w, halfDone[w.job])
Closed(j) == halfDone[j] # "no" =>
               \/ jobs[j].status = "running" /\ jobs[j].mutating
               \/ jobs[j].comp
               \/ halfDone[j] = "masked" /\ jobs[j].status = "failed"
Fences ==
  /\ halfDone \in [JobIds -> Harm]
  /\ ~Alive => \A ws \in Workspaces : worker[ws].pc \in AtRest
  /\ \A ws \in Workspaces : Fence(ws)
  /\ \A j \in JobIds : Closed(j)

FenceInv == CancelInv /\ CompTerminal /\ Fences

LEMMA FencesSuffice == Fences => HalfDoneIsFenced
BY DEF Fences, Closed, HalfDoneIsFenced

LEMMA InHandJob ==
  ASSUME FenceInv, NEW ws \in Workspaces, worker[ws].pc \in InHand
  PROVE  LET j == worker[ws].job
         IN  /\ j \in JobIds /\ jobs[j].ws = ws /\ jobs[j].status = "running"
             /\ jobs[j].mutating
<1> DEFINE j == worker[ws].job
<1>1. j \in JobIds
  BY DEF FenceInv, CancelInv, Owned, Bound, InHand, AtRest
<1> QED
  BY <1>1 DEF FenceInv, CancelInv, Holds, Fences, Fence

(* Two workers never hold the same job.                                    *)
LEMMA OtherJob ==
  ASSUME FenceInv, NEW ws \in Workspaces, NEW v \in Workspaces \ {ws},
         worker[ws].job \in JobIds
  PROVE  worker[v].job # worker[ws].job
BY DEF FenceInv, CancelInv, Holds

(* What is recovered is no longer half done.                               *)
LEMMA FenceStays ==
  ASSUME FenceInv, NEW v \in Workspaces, worker'[v] = worker[v],
         LET k == worker[v].job
         IN  /\ worker[v].pc \in InHand \cup {"acknowledging"} =>
                  halfDone'[k] \in {halfDone[k], "no"}
             /\ worker[v].pc \in InHand =>
                  /\ jobs'[k].status = jobs[k].status
                  /\ jobs'[k].mutating = jobs[k].mutating
  PROVE  Fence(v)'
<1>1. Fence(v)
  BY DEF FenceInv, Fences
<1> QED
  BY <1>1 DEF Fence, Marking

(* A worker moves and the store does not.                                  *)
LEMMA FenceMove ==
  ASSUME FenceInv, NEW ws \in Workspaces, NEW w,
         worker' = [worker EXCEPT ![ws] = w], UNCHANGED vars, Alive,
         halfDone' \in [JobIds -> Harm],
         \A i \in JobIds : \/ halfDone'[i] \in {halfDone[i], "no"}
                           \/ worker[ws].pc \in InHand /\ i = worker[ws].job,
         Fence(ws)'
  PROVE  Fences'
<1>0. /\ worker \in [Workspaces -> Locals] /\ Owned
      /\ jobs' = jobs /\ daemon' = daemon
  BY DEF FenceInv, CancelInv, Owned, vars
<1>1. ASSUME NEW v \in Workspaces \ {ws} PROVE Fence(v)'
  <2> DEFINE k == worker[v].job
  <2>1. worker'[v] = worker[v]
    BY <1>0
  <2>2. worker[v].pc \in InHand \cup {"acknowledging"} => k \in JobIds
    BY <1>0 DEF Owned, Bound, InHand, AtRest
  <2>3. worker[ws].pc \in InHand => k # worker[ws].job
    BY InHandJob, OtherJob
  <2>4. worker[v].pc \in InHand \cup {"acknowledging"} =>
          halfDone'[k] \in {halfDone[k], "no"}
    BY <2>2, <2>3
  <2> QED
    BY <1>0, <2>1, <2>4, FenceStays
<1>2. ASSUME NEW i \in JobIds PROVE Closed(i)'
  <2>1. Closed(i)
    BY DEF FenceInv, Fences
  <2>2. CASE halfDone'[i] \in {halfDone[i], "no"}
    BY <1>0, <2>1, <2>2 DEF Closed
  <2>3. CASE worker[ws].pc \in InHand /\ i = worker[ws].job
    BY <1>0, <2>3, InHandJob DEF Closed
  <2> QED
    BY <2>2, <2>3
<1>3. Alive'
  BY <1>0 DEF Alive
<1> QED
  BY <1>1, <1>2, <1>3 DEF Fences

(* It moves within its job and leaves what is half done as it is.          *)
LEMMA FenceGo ==
  ASSUME FenceInv, NEW ws \in Workspaces, NEW w,
         worker' = [worker EXCEPT ![ws] = w], UNCHANGED vars, Alive,
         halfDone' = halfDone, w.job = worker[ws].job,
         w.pc \in InHand => worker[ws].pc \in InHand,
         w.pc # "acknowledging",
         w.pc \in InHand => Marking(w, halfDone[w.job])
  PROVE  Fences'
<1>0. /\ worker \in [Workspaces -> Locals] /\ jobs' = jobs
      /\ halfDone \in [JobIds -> Harm]
  BY DEF FenceInv, CancelInv, Owned, Fences, vars
<1>1. worker'[ws] = w
  BY <1>0
<1>2. Fence(ws)
  BY DEF FenceInv, Fences
<1>3. Fence(ws)'
  BY <1>0, <1>1, <1>2 DEF Fence, Marking
<1>4. halfDone' \in [JobIds -> Harm] /\ \A i \in JobIds : halfDone'[i] \in {halfDone[i], "no"}
  BY <1>0
<1> QED
  BY ZenonT(60), <1>3, <1>4, FenceMove

LEMMA IdleIsFenced ==
  ASSUME NEW v \in Workspaces, worker'[v] = Idle
  PROVE  Fence(v)'
BY DEF Fence, Idle, InHand

LEMMA FenceIdle ==
  ASSUME FenceInv, NEW ws \in Workspaces, GoIdle(ws), UNCHANGED vars,
         Alive, halfDone' = halfDone
  PROVE  Fences'
<1>0. worker \in [Workspaces -> Locals] /\ halfDone \in [JobIds -> Harm]
  BY DEF FenceInv, CancelInv, Owned, Fences
<1>1. worker' = [worker EXCEPT ![ws] = Idle] /\ worker'[ws] = Idle
  BY <1>0 DEF GoIdle
<1>2. Fence(ws)'
  BY <1>1, IdleIsFenced
<1>3. halfDone' \in [JobIds -> Harm] /\ \A i \in JobIds : halfDone'[i] \in {halfDone[i], "no"}
  BY <1>0
<1> QED
  BY ZenonT(60), <1>1, <1>2, <1>3, FenceMove

LEMMA FenceGoTo ==
  ASSUME FenceInv, NEW ws \in Workspaces, NEW pc \in InHand, GoTo(ws, pc),
         UNCHANGED vars, Alive, halfDone' = halfDone, worker[ws].pc \in InHand,
         Marking([worker[ws] EXCEPT !.pc = pc], halfDone[worker[ws].job])
  PROVE  Fences'
<1> DEFINE w == [worker[ws] EXCEPT !.pc = pc]
<1>1. worker' = [worker EXCEPT ![ws] = w]
  BY DEF GoTo, FenceInv, CancelInv, Owned
<1>2. w.job = worker[ws].job /\ w.pc = pc /\ pc # "acknowledging"
  BY DEF FenceInv, CancelInv, Owned, Locals, InHand
<1>3. Marking(w, halfDone[w.job])
  BY <1>2
<1> HIDE DEF w
<1> QED
  BY ZenonT(60), <1>1, <1>2, <1>3, FenceGo

(* One job of one workspace changes.                                       *)
LEMMA FenceJob ==
  ASSUME FenceInv, NEW ws \in Workspaces, NEW j \in JobIds, jobs[j].ws = ws,
         \A i \in JobIds \ {j} : jobs'[i] = jobs[i],
         \A v \in Workspaces \ {ws} : worker'[v] = worker[v],
         Alive, daemon' = daemon, halfDone' = halfDone, Fence(ws)', Closed(j)'
  PROVE  Fences'
<1>1. ASSUME NEW v \in Workspaces \ {ws} PROVE Fence(v)'
  <2>1. worker[v].pc \in InHand =>
          worker[v].job \in JobIds /\ jobs[worker[v].job].ws = v
    BY InHandJob
  <2>2. worker[v].pc \in InHand => jobs'[worker[v].job] = jobs[worker[v].job]
    BY <2>1
  <2> QED
    BY <2>2, FenceStays
<1>2. ASSUME NEW i \in JobIds PROVE Closed(i)'
  <2>1. CASE i # j
    BY <2>1 DEF FenceInv, Fences, Closed
  <2> QED
    BY <2>1
<1>3. Alive' /\ halfDone' \in [JobIds -> Harm]
  BY DEF Alive, FenceInv, Fences
<1> QED
  BY <1>1, <1>2, <1>3 DEF Fences

(* A job that waits is not half done.                                      *)
LEMMA WaitingIsWhole ==
  ASSUME FenceInv, NEW j \in JobIds, jobs[j].status \in {"absent", "queued"}
  PROVE  halfDone[j] = "no" /\ ~jobs[j].comp
BY DEF FenceInv, Fences, Closed, CompTerminal, Terminal

LEMMA FenceClaim ==
  ASSUME FenceInv, NEW ws \in Workspaces, NEW j \in JobIds,
         ClaimWorkspaceJob(ws, j)
  PROVE  Fences'
<1> DEFINE w == [Idle EXCEPT !.pc = "claimed", !.job = j]
<1>0. /\ Start(j) /\ jobs[j].ws = ws /\ jobs[j].mutating /\ TypeOK
      /\ worker \in [Workspaces -> Locals] /\ halfDone' = halfDone
      /\ worker' = [worker EXCEPT ![ws] = w] /\ Alive
  BY DEF ClaimWorkspaceJob, ClaimNextObserved, Claimable, At, FenceInv, CancelInv, Owned
<1>1. w.pc = "claimed" /\ w.job = j
  BY DEF Idle
<1> HIDE DEF w
<1>2. /\ worker'[ws] = w /\ \A v \in Workspaces \ {ws} : worker'[v] = worker[v]
      /\ daemon' = daemon
  BY <1>0 DEF Start
<1>3. /\ jobs[j].status = "queued" /\ jobs'[j].status = "running"
      /\ \A i \in JobIds \ {j} : jobs'[i] = jobs[i]
  BY <1>0, StatusAfter
<1>4. jobs'[j].mutating
  BY <1>0 DEF Start, TypeOK, Job
<1>5. halfDone[j] = "no"
  BY <1>3, WaitingIsWhole
<1>6. Fence(ws)' /\ Closed(j)'
  BY <1>0, <1>1, <1>2, <1>3, <1>4, <1>5 DEF Fence, Marking, Closed
<1> QED
  BY <1>0, <1>2, <1>3, <1>6, FenceJob

LEMMA FenceDenied ==
  ASSUME FenceInv, NEW ws \in Workspaces, NEW j \in JobIds, ClaimDenied(ws, j)
  PROVE  Fences'
<1> DEFINE w == [Idle EXCEPT !.pc = "rejecting", !.job = j]
<1>0. /\ worker \in [Workspaces -> Locals] /\ halfDone' = halfDone
      /\ worker' = [worker EXCEPT ![ws] = w] /\ UNCHANGED vars /\ Alive
      /\ halfDone \in [JobIds -> Harm]
  BY DEF ClaimDenied, At, FenceInv, CancelInv, Owned, Fences
<1>1. w.pc = "rejecting"
  BY DEF Idle
<1> HIDE DEF w
<1>2. worker'[ws] = w
  BY <1>0
<1>3. Fence(ws)'
  BY <1>1, <1>2 DEF Fence, InHand
<1>4. halfDone' \in [JobIds -> Harm] /\ \A i \in JobIds : halfDone'[i] \in {halfDone[i], "no"}
  BY <1>0
<1> QED
  BY ZenonT(60), <1>0, <1>3, <1>4, FenceMove

(* An operation that returns the end of its context carries the cause with *)
(* it; one that was cut short carries at least an error.                   *)
LEMMA FenceReturns ==
  ASSUME FenceInv, NEW ws \in Workspaces, NEW result \in Results,
         NEW cut \in BOOLEAN, OperationReturns(ws, result, cut)
  PROVE  Fences'
<1> DEFINE old  == worker[ws]
           j    == old.job
           errs == old.errs \cup result
           harm == IF ~cut THEN "no" ELSE IF errs \cap Cut # {} THEN "cut" ELSE "masked"
           w    == [old EXCEPT !.pc = "completing", !.errs = errs]
<1>0. /\ old.pc = "operating" /\ old \in Locals /\ worker \in [Workspaces -> Locals]
      /\ UNCHANGED vars /\ Alive /\ old.pc \in InHand /\ halfDone \in [JobIds -> Harm]
  BY ZenonT(60) DEF OperationReturns, At, FenceInv, CancelInv, Owned, Fences, InHand, Stages
<1>1. /\ worker' = [worker EXCEPT ![ws] = w]
      /\ halfDone' = [halfDone EXCEPT ![j] = harm]
      /\ cut => result # {}
  BY ZenonT(60), <1>0 DEF OperationReturns, Job_, Cut
<1>2. /\ harm # "no" => errs # {}
      /\ harm = "cut" => errs \cap Cut # {}
      /\ harm \in Harm
  BY <1>1 DEF Harm
<1> HIDE DEF harm, errs
<1>3. w.job = j /\ w.pc = "completing" /\ w.errs = errs
  BY <1>0 DEF Locals
<1> HIDE DEF w
<1>4. worker'[ws] = w
  BY <1>0, <1>1
<1>5. j \in JobIds /\ jobs'[j].status = "running" /\ jobs'[j].mutating
  BY <1>0, InHandJob DEF vars
<1>6. halfDone'[j] = harm /\ \A i \in JobIds \ {j} : halfDone'[i] = halfDone[i]
  BY <1>0, <1>1, <1>5
<1>7. Marking(w, harm)
  BY <1>2, <1>3 DEF Marking, Untried, Unregistered, Succeeding
<1>8. Fence(ws)'
  BY <1>3, <1>4, <1>5, <1>6, <1>7 DEF Fence, Marking
<1>9. halfDone' \in [JobIds -> Harm]
  BY <1>0, <1>1, <1>2
<1> QED
  BY ZenonT(60), <1>0, <1>1, <1>6, <1>8, <1>9, FenceMove

LEMMA FenceOperate ==
  ASSUME FenceInv, NEW ws \in Workspaces,
         \/ SinkFails(ws)
         \/ \E result \in Results, cut \in BOOLEAN : OperationReturns(ws, result, cut)
  PROVE  Fences'
<1> DEFINE old == worker[ws]
<1>1. CASE SinkFails(ws)
  <2> DEFINE e == IF Job_(ws) \in ctxDone \/ stopping THEN "canceled" ELSE "error"
             w == [old EXCEPT !.errs = {e}]
  <2>0. /\ old.pc = "operating" /\ old \in Locals /\ worker \in [Workspaces -> Locals]
        /\ UNCHANGED vars /\ Alive /\ Fence(ws) /\ old.pc \in InHand
    BY ZenonT(60), <1>1 DEF SinkFails, At, FenceInv, CancelInv, Owned, Fences, InHand, Stages
  <2>1. worker' = [worker EXCEPT ![ws] = w] /\ halfDone' = halfDone
    BY <2>0, <1>1 DEF SinkFails
  <2> HIDE DEF e
  <2>2. w.job = old.job /\ w.pc = old.pc
    BY <2>0 DEF Locals
  <2> HIDE DEF w
  <2>3. halfDone[w.job] = "no"
    BY <2>0, <2>2 DEF Fence, Marking, Untried
  <2>4. Marking(w, halfDone[w.job]) /\ w.pc # "acknowledging"
    BY <2>0, <2>2, <2>3 DEF Marking
  <2> QED
    BY ZenonT(60), <2>0, <2>1, <2>2, <2>4, FenceGo
<1> QED
  BY ZenonT(60), <1>1, FenceReturns

LEMMA FenceComplete ==
  ASSUME FenceInv, NEW ws \in Workspaces, CompleteRunning(ws)
  PROVE  Fences'
<1> DEFINE old == worker[ws]
           harm == halfDone[old.job]
           errs == IF old.errs = {} /\ (Job_(ws) \in ctxDone \/ stopping)
                   THEN {"canceled"} ELSE old.errs
           path == IF stopping THEN "interrupting"
                   ELSE IF "canceled" \in errs THEN "canceling"
                   ELSE IF errs # {} THEN "failing" ELSE "succeeding"
           w == [old EXCEPT !.pc = path, !.errs = errs]
<1>0. /\ old.pc = "completing" /\ old \in Locals /\ worker \in [Workspaces -> Locals]
      /\ UNCHANGED vars /\ Alive /\ Fence(ws) /\ halfDone' = halfDone
      /\ old.pc \in InHand
  BY ZenonT(60) DEF CompleteRunning, At, FenceInv, CancelInv, Owned, Fences,
     InHand, Stages
<1>1. worker' = [worker EXCEPT ![ws] = w]
  BY ZenonT(60), <1>0 DEF CompleteRunning
<1>2. /\ harm # "no" => old.errs # {}
      /\ harm = "cut" => old.errs \cap Cut # {}
  BY <1>0 DEF Fence, Marking
<1>3. /\ harm # "no" => path # "succeeding" /\ errs # {}
      /\ harm = "cut" => errs \cap Cut # {}
  BY <1>2
<1>4. path \in {"interrupting", "canceling", "failing", "succeeding"}
  OBVIOUS
<1> HIDE DEF path, errs
<1>5. w.job = old.job /\ w.pc = path /\ w.errs = errs
  BY <1>0 DEF Locals
<1> HIDE DEF w
<1>6. Marking(w, halfDone[w.job]) /\ w.pc # "acknowledging"
  BY <1>3, <1>4, <1>5 DEF Marking, Untried, Unregistered, Succeeding
<1> QED
  BY ZenonT(60), <1>0, <1>1, <1>5, <1>6, FenceGo

(* A terminal write.  Where something is half done it leaves a marker, or  *)
(* the operation's own error hides it.                                     *)
LEMMA FenceTransition ==
  ASSUME FenceInv, NEW ws \in Workspaces,
         NEW from \in {"succeeded", "failed", "interrupted", "closing"},
         NEW target \in Terminal, NEW comp \in BOOLEAN,
         target = "canceled" => from = "closing",
         LET harm == halfDone[worker[ws].job]
         IN  harm # "no" => comp \/ (harm = "masked" /\ target = "failed"),
         Transition(ws, from, target, comp)
  PROVE  Fences'
<1> DEFINE j == worker[ws].job
<1>0. /\ worker[ws].pc = from /\ from \in InHand /\ TypeOK
      /\ worker \in [Workspaces -> Locals] /\ halfDone' = halfDone
      /\ Alive /\ daemon' = daemon /\ Fence(ws)
      /\ TransitionObserved(j, target, comp, None)
  BY DEF Transition, At, Job_, FenceInv, CancelInv, Owned, Fences, InHand, Stages,
         TransitionObserved, Finish
<1>1. j \in JobIds /\ jobs[j].ws = ws
  BY <1>0, InHandJob
<1>2. jobs'[j].status = target /\ \A i \in JobIds \ {j} : jobs'[i] = jobs[i]
  BY <1>0, <1>1, StatusAfter
<1>3. comp => jobs'[j].comp
  BY <1>0, <1>1 DEF TransitionObserved, Finish, TypeOK, Job
<1>k. PICK k \in JobIds : k = j
  BY <1>1
<1>4. Closed(k)'
  BY <1>0, <1>2, <1>3, <1>k DEF Closed
<1>5. CASE GoIdle(ws)
  <2>1. /\ worker'[ws] = Idle
        /\ \A v \in Workspaces \ {ws} : worker'[v] = worker[v]
    BY <1>0, <1>5 DEF GoIdle
  <2>2. Fence(ws)'
    BY <2>1, IdleIsFenced
  <2> QED
    BY <1>0, <1>1, <1>2, <1>k, <1>4, <2>1, <2>2, FenceJob
<1>6. CASE /\ target = "canceled" /\ worker[ws].recovered
           /\ GoTo(ws, "acknowledging")
  <2>1. /\ worker'[ws].pc = "acknowledging" /\ worker'[ws].job = j
        /\ \A v \in Workspaces \ {ws} : worker'[v] = worker[v]
    BY <1>0, <1>6 DEF GoTo, Locals
  <2>2. halfDone[j] = "no"
    BY <1>0, <1>6 DEF Fence, Marking
  <2>3. Fence(ws)'
    BY <1>0, <2>1, <2>2 DEF Fence, Marking, InHand
  <2> QED
    BY <1>0, <1>1, <1>2, <1>k, <1>4, <2>1, <2>3, FenceJob
<1> QED
  BY <1>5, <1>6 DEF Transition

(* The marker is taken down only by the worker that checked the workspace. *)
LEMMA FenceAcknowledge ==
  ASSUME FenceInv, NEW ws \in Workspaces, At(ws, "acknowledging"),
         AcknowledgeCompensation(Job_(ws)), GoIdle(ws), halfDone' = halfDone
  PROVE  Fences'
<1> DEFINE j == worker[ws].job
<1>0. /\ worker[ws].pc = "acknowledging" /\ Alive /\ daemon' = daemon
      /\ worker \in [Workspaces -> Locals] /\ TypeOK /\ j \in JobIds
      /\ AcknowledgeCompensation(j) /\ Holds(ws) /\ Fence(ws)
  BY DEF At, Job_, FenceInv, CancelInv, Owned, Bound, AtRest, Fences,
         AcknowledgeCompensation, Finish
<1>1. jobs[j].ws = ws /\ halfDone[j] = "no"
  BY <1>0 DEF Holds, Fence, Marking
<1>2. \A i \in JobIds \ {j} : jobs'[i] = jobs[i]
  BY <1>0, <1>1 DEF AcknowledgeCompensation, Finish, TypeOK, Job
<1>3. /\ worker'[ws] = Idle
      /\ \A v \in Workspaces \ {ws} : worker'[v] = worker[v]
  BY <1>0 DEF GoIdle
<1>k. PICK k \in JobIds : k = j
  BY <1>0
<1>4. Fence(ws)' /\ Closed(k)'
  BY <1>1, <1>3, <1>k, IdleIsFenced DEF Closed
<1> QED
  BY <1>0, <1>1, <1>2, <1>3, <1>k, <1>4, FenceJob

(* A successful check recovers every job of the workspace.                 *)
LEMMA FenceCheck ==
  ASSUME FenceInv, NEW ws \in Workspaces, CheckCompensation(ws)
  PROVE  Fences'
<1> DEFINE old == worker[ws]
           j   == old.job
<1>0. /\ old \in Locals /\ worker \in [Workspaces -> Locals] /\ Alive
      /\ UNCHANGED vars /\ old.pc = "canceling" /\ old.pc \in InHand
      /\ halfDone \in [JobIds -> Harm]
  BY ZenonT(60) DEF CheckCompensation, At, FenceInv, CancelInv, Owned, Fences, InHand, Stages
<1>1. PICK ok \in BOOLEAN :
        /\ worker' = [worker EXCEPT ![ws].pc = "checked", ![ws].recovered = ok]
        /\ halfDone' = [i \in JobIds |-> IF ok /\ jobs[i].ws = ws THEN "no"
                                         ELSE halfDone[i]]
  BY ZenonT(60) DEF CheckCompensation
<1> DEFINE w == [old EXCEPT !.pc = "checked", !.recovered = ok]
<1>2. w.job = j /\ w.pc = "checked" /\ w.recovered = ok
  BY <1>0 DEF Locals
<1>3. worker' = [worker EXCEPT ![ws] = w]
  BY ZenonT(60), <1>0, <1>1
<1> HIDE DEF w
<1>4. worker'[ws] = w
  BY <1>0, <1>3
<1>5. /\ j \in JobIds /\ jobs[j].ws = ws
      /\ jobs'[j].status = "running" /\ jobs'[j].mutating
  BY <1>0, InHandJob DEF vars
<1>6. \A i \in JobIds : halfDone'[i] \in {halfDone[i], "no"}
  BY <1>1
<1>7. halfDone' \in [JobIds -> Harm]
  BY <1>0, <1>1 DEF Harm
<1>8. ok => halfDone'[j] = "no"
  BY <1>1, <1>5
<1>9. Fence(ws)'
  BY <1>2, <1>4, <1>5, <1>8 DEF Fence, Marking, Untried, Unregistered, Succeeding
<1> QED
  BY ZenonT(60), <1>0, <1>3, <1>6, <1>7, <1>9, FenceMove

(* The stages execute passes through before the operation.                 *)
LEMMA FenceStages ==
  ASSUME FenceInv, NEW ws \in Workspaces,
         CheckWorkspaceExecution(ws) \/ AppendStarted(ws) \/ RegisterRunning(ws)
  PROVE  Fences'
<1> DEFINE old == worker[ws]
<1>0. /\ old \in Locals /\ worker \in [Workspaces -> Locals] /\ Fence(ws)
      /\ UNCHANGED vars /\ Alive /\ halfDone' = halfDone
      /\ old.pc \in {"claimed", "starting", "registering"}
  BY ZenonT(60) DEF CheckWorkspaceExecution, AppendStarted, RegisterRunning,
     At, FenceInv, CancelInv, Owned, Fences
<1>1. old.pc \in InHand /\ halfDone[old.job] = "no"
  BY <1>0 DEF InHand, Stages, Fence, Marking, Untried, Unregistered
<1>2. \A w : Marking(w, halfDone[old.job])
  BY <1>1 DEF Marking
<1>3. {"failing", "starting", "registering", "operating"} \subseteq InHand
  BY DEF InHand, Stages
<1>4. CASE CheckWorkspaceExecution(ws)
  <2> DEFINE revokedW == [old EXCEPT !.pc = "failing", !.errs = {"error"}]
             startW   == [old EXCEPT !.pc = "starting"]
  <2>1. /\ revokedW.job = old.job /\ startW.job = old.job
        /\ revokedW.pc # "acknowledging" /\ startW.pc # "acknowledging"
    BY <1>0 DEF Locals
  <2>2. \/ worker' = [worker EXCEPT ![ws] = revokedW]
        \/ worker' = [worker EXCEPT ![ws] = startW]
        \/ GoIdle(ws)
    BY ZenonT(60), <1>0, <1>4 DEF CheckWorkspaceExecution, GoIdle
  <2> HIDE DEF revokedW, startW
  <2>3. Marking(revokedW, halfDone[revokedW.job]) /\ Marking(startW, halfDone[startW.job])
    BY ZenonT(60), <1>2, <2>1
  <2> QED
    BY ZenonT(60), <1>0, <1>1, <2>1, <2>2, <2>3, FenceGo, FenceIdle
<1>5. CASE AppendStarted(ws)
  <2>1. GoIdle(ws) \/ GoTo(ws, "registering")
    BY <1>5 DEF AppendStarted
  <2> QED
    BY ZenonT(60), <1>0, <1>1, <1>2, <1>3, <2>1, FenceGoTo, FenceIdle
<1>6. CASE RegisterRunning(ws)
  <2>1. GoTo(ws, "operating")
    BY <1>6 DEF RegisterRunning
  <2> QED
    BY ZenonT(60), <1>0, <1>1, <1>2, <1>3, <2>1, FenceGoTo
<1> QED
  BY <1>4, <1>5, <1>6

LEMMA FenceAppend ==
  ASSUME FenceInv, NEW ws \in Workspaces, NEW kind,
         NEW from \in InHand, NEW to \in InHand,
         AppendTerminal(ws, from, kind, to),
         Marking([worker[ws] EXCEPT !.pc = to], halfDone[worker[ws].job])
  PROVE  Fences'
BY FenceGoTo DEF AppendTerminal, At

LEMMA FenceExecute ==
  ASSUME FenceInv, NEW ws \in Workspaces, Execute(ws)
  PROVE  Fences'
<1> DEFINE old  == worker[ws]
           harm == halfDone[old.job]
<1>0. old \in Locals /\ Fence(ws) /\ (halfDone \in [JobIds -> Harm])
  BY DEF FenceInv, CancelInv, Owned, Fences
<1>a. {"succeeding", "succeeded", "failing", "failed", "interrupting",
       "interrupted", "checked", "canceled", "closing"} \subseteq InHand
  BY DEF InHand, Stages
<1>b. old.pc \in InHand => Marking(old, harm)
  BY <1>0 DEF Fence
<1>c. ASSUME NEW to \in Stages
      PROVE  LET w == [old EXCEPT !.pc = to]
             IN  w.pc = to /\ w.errs = old.errs /\ w.recovered = old.recovered
  BY <1>0 DEF Locals
<1>d. old.pc \in InHand => old.job \in JobIds /\ harm \in Harm
  BY <1>0, InHandJob
<1>1. CASE FinishSucceeded(ws)
  <2>1. ASSUME NEW pc \in Succeeding, At(ws, pc) PROVE harm = "no"
    BY <1>a, <1>b, <2>1 DEF At, Marking, Untried, Succeeding
  <2>2. CASE AppendTerminal(ws, "succeeding", "succeeded", "succeeded")
    <3>1. harm = "no"
      BY <2>1, <2>2 DEF AppendTerminal, Succeeding
    <3>2. \A w : Marking(w, harm)
      BY <3>1 DEF Marking
    <3> QED
      BY ZenonT(60), <1>a, <2>2, <3>2, FenceAppend
  <2>3. CASE Transition(ws, "succeeded", "succeeded", FALSE)
    <3>1. harm = "no"
      BY <2>1, <2>3 DEF Transition, Succeeding
    <3> QED
      BY ZenonT(60), <2>3, <3>1, FenceTransition DEF Terminal
  <2> QED
    BY ZenonT(60), <1>1, <2>2, <2>3 DEF FinishSucceeded
<1>2. CASE FinishFailed(ws)
  <2>1. ASSUME NEW pc \in {"failing", "failed"}, At(ws, pc), harm = "cut"
        PROVE  old.errs \cap Cut # {}
    BY <1>a, <1>b, <2>1 DEF At, Marking
  <2>2. CASE AppendTerminal(ws, "failing", "failed", "failed")
    <3> DEFINE w == [old EXCEPT !.pc = "failed"]
    <3>1. w.pc = "failed" /\ w.errs = old.errs
      BY <1>0 DEF Locals
    <3> HIDE DEF w
    <3>2. Marking(w, harm)
      BY <2>1, <2>2, <3>1 DEF AppendTerminal, Marking, Untried, Unregistered, Succeeding
    <3> QED
      BY ZenonT(60), <1>a, <2>2, <3>2, FenceAppend DEF w
  <2>3. CASE Transition(ws, "failed", "failed", old.errs \cap Cut # {})
    <3> DEFINE comp == old.errs \cap Cut # {}
    <3>0. harm \in Harm
      BY <1>a, <1>d, <2>3 DEF Transition, At
    <3>1. harm # "no" => comp \/ harm = "masked"
      BY <2>1, <2>3, <3>0 DEF Transition, Harm
    <3>2. comp \in BOOLEAN
      OBVIOUS
    <3> HIDE DEF comp
    <3>3. Transition(ws, "failed", "failed", comp)
      BY <2>3 DEF comp
    <3> QED
      BY <3>1, <3>2, <3>3, FenceTransition DEF Terminal
  <2> QED
    BY ZenonT(60), <1>2, <2>2, <2>3 DEF FinishFailed, Cut
<1>3. CASE FinishInterrupted(ws)
  <2>1. CASE AppendTerminal(ws, "interrupting", "interrupted", "interrupted")
    <3> DEFINE w == [old EXCEPT !.pc = "interrupted"]
    <3>1. w.pc = "interrupted"
      BY <1>0 DEF Locals
    <3> HIDE DEF w
    <3>2. Marking(w, harm)
      BY <3>1 DEF Marking, Untried, Unregistered, Succeeding
    <3> QED
      BY ZenonT(60), <1>a, <2>1, <3>2, FenceAppend DEF w
  <2>2. CASE Transition(ws, "interrupted", "interrupted", TRUE)
    BY ZenonT(60), <2>2, FenceTransition DEF Terminal
  <2> QED
    BY ZenonT(60), <1>3, <2>1, <2>2 DEF FinishInterrupted
<1>4. CASE FinishCanceled(ws)
  <2>1. ASSUME NEW from \in {"checked", "canceled"}, NEW to \in {"canceled", "closing"},
               NEW kind, AppendTerminal(ws, from, kind, to)
        PROVE  Fences'
    <3> DEFINE w == [old EXCEPT !.pc = to]
    <3>1. w.pc = to /\ w.recovered = old.recovered
      BY <1>0 DEF Locals
    <3> HIDE DEF w
    <3>2. harm # "no" => ~old.recovered
      BY <1>a, <1>b, <2>1 DEF AppendTerminal, At, Marking
    <3>3. Marking(w, harm)
      BY <3>1, <3>2 DEF Marking, Untried, Unregistered, Succeeding
    <3> QED
      BY ZenonT(60), <1>a, <2>1, <3>3, FenceAppend DEF w
  <2>2. CASE Transition(ws, "closing", "canceled", TRUE)
    BY ZenonT(60), <2>2, FenceTransition DEF Terminal
  <2> QED
    BY ZenonT(60), <1>4, <2>1, <2>2, FenceCheck, FenceAcknowledge DEF FinishCanceled
<1> QED
  BY ZenonT(60), <1>1, <1>2, <1>3, <1>4, FenceStages, FenceOperate, FenceComplete
     DEF Execute

(* The store moves, a worker at most gives its job up, and every job that  *)
(* holds a fence up keeps doing so.                                        *)
LEMMA FenceStore ==
  ASSUME FenceInv, halfDone' = halfDone,
         \A v \in Workspaces : worker'[v] \in {worker[v], Idle},
         Alive => Alive',
         \A v \in Workspaces : worker[v].pc \in InHand =>
           LET k == worker[v].job
           IN  jobs'[k].status = "running" /\ jobs'[k].mutating,
         \A k \in JobIds :
           /\ jobs[k].comp => jobs'[k].comp
           /\ jobs[k].status = "running" /\ jobs[k].mutating =>
                jobs'[k].comp \/ (jobs'[k].status = "running" /\ jobs'[k].mutating)
           /\ jobs[k].status = "failed" => jobs'[k].status = "failed"
  PROVE  Fences'
<1>1. ASSUME NEW v \in Workspaces PROVE Fence(v)'
  <2>1. Fence(v)
    BY DEF FenceInv, Fences
  <2>2. CASE worker'[v] = worker[v]
    BY <2>1, <2>2 DEF Fence, Marking
  <2>3. CASE worker'[v] = Idle
    BY <2>3, IdleIsFenced
  <2> QED
    BY <2>2, <2>3
<1>2. ASSUME NEW i \in JobIds PROVE Closed(i)'
  BY DEF FenceInv, Fences, Closed
<1>3. ~Alive' => \A v \in Workspaces : worker'[v].pc \in AtRest
  BY DEF FenceInv, Fences, Idle, AtRest
<1>4. halfDone' \in [JobIds -> Harm]
  BY DEF FenceInv, Fences
<1> QED
  BY <1>1, <1>2, <1>3, <1>4 DEF Fences

(* One job that waits changes.                                             *)
LEMMA FenceWaiting ==
  ASSUME FenceInv, NEW j \in JobIds, jobs[j].status \in {"absent", "queued"},
         \A i \in JobIds \ {j} : jobs'[i] = jobs[i],
         \A v \in Workspaces : worker'[v] \in {worker[v], Idle},
         daemon' = daemon, halfDone' = halfDone
  PROVE  Fences'
<1>1. ASSUME NEW v \in Workspaces, worker[v].pc \in InHand
      PROVE  LET k == worker[v].job
             IN  jobs'[k].status = "running" /\ jobs'[k].mutating
  BY <1>1, InHandJob
<1>2. ~jobs[j].comp
  BY WaitingIsWhole
<1>3. Alive => Alive'
  BY DEF Alive
<1> QED
  BY <1>1, <1>2, <1>3, FenceStore

(* No job changes and every worker stays or gives up.                      *)
LEMMA FenceQuiet ==
  ASSUME FenceInv, jobs' = jobs, daemon' \in {daemon, "failed"}, halfDone' = halfDone,
         \A v \in Workspaces : worker'[v] \in {worker[v], Idle}
  PROVE  Fences'
<1>1. ASSUME NEW v \in Workspaces, worker[v].pc \in InHand
      PROVE  LET k == worker[v].job
             IN  jobs'[k].status = "running" /\ jobs'[k].mutating
  BY <1>1, InHandJob
<1>2. Alive => Alive'
  BY DEF Alive
<1> QED
  BY <1>1, <1>2, FenceStore

LEMMA FenceQueued ==
  ASSUME FenceInv, NEW j \in JobIds, NEW target, NEW kind,
         FinishQueued(j, target, kind),
         \A v \in Workspaces : worker'[v] \in {worker[v], Idle},
         halfDone' = halfDone
  PROVE  Fences'
<1>1. CASE FinishQueuedObserved(j, target)
  <2>1. /\ jobs[j].status = "queued" /\ daemon' = daemon
        /\ \A i \in JobIds \ {j} : jobs'[i] = jobs[i]
    BY ZenonT(60), <1>1, StatusAfter DEF FinishQueuedObserved, Finish, FenceInv, CancelInv
  <2> QED
    BY <2>1, FenceWaiting
<1>2. CASE MarkUnavailable
  BY <1>2, FenceQuiet DEF MarkUnavailable
<1> QED
  BY ZenonT(60), <1>1, <1>2 DEF FinishQueued

LEMMA FenceWorker ==
  ASSUME FenceInv, NEW ws \in Workspaces,
         RunWorkspace(ws) \/ SinkFails(ws) \/ WriteFails(ws)
  PROVE  Fences'
<1>0. worker \in [Workspaces -> Locals] /\ Owned
  BY DEF FenceInv, CancelInv, Owned
<1>i. ASSUME GoIdle(ws)
      PROVE  \A v \in Workspaces : worker'[v] \in {worker[v], Idle}
  BY <1>0, <1>i DEF GoIdle
<1>1. CASE RejectQueued(ws)
  <2>1. /\ GoIdle(ws) /\ halfDone' = halfDone /\ worker[ws].job \in JobIds
        /\ \/ jobs' = jobs /\ daemon' = daemon
           \/ FinishQueued(worker[ws].job, "failed", "rejected")
    BY ZenonT(60), <1>0, <1>1 DEF RejectQueued, Owned, Bound, At, AtRest, Job_, vars
  <2>2. daemon' = daemon => daemon' \in {daemon, "failed"}
    OBVIOUS
  <2> QED
    BY ZenonT(60), <1>i, <2>1, <2>2, FenceQuiet, FenceQueued
<1>2. CASE WorkerExits(ws)
  <2> DEFINE w == [worker[ws] EXCEPT !.pc = "exited"]
  <2>1. /\ worker[ws].pc = "idle" /\ halfDone' = halfDone /\ UNCHANGED vars
        /\ Alive /\ worker' = [worker EXCEPT ![ws] = w]
    BY <1>0, <1>2 DEF WorkerExits, At, GoTo
  <2>2. w.pc = "exited" /\ w.job = worker[ws].job
    BY <1>0 DEF Locals
  <2> HIDE DEF w
  <2>3. w.pc \notin InHand /\ w.pc # "acknowledging"
    BY <2>2 DEF InHand
  <2> QED
    BY ZenonT(60), <2>1, <2>2, <2>3, FenceGo
<1>3. CASE WriteFails(ws)
  <2>1. jobs' = jobs /\ daemon' \in {daemon, "failed"} /\ halfDone' = halfDone /\ GoIdle(ws)
    BY <1>3 DEF WriteFails, vars
  <2> QED
    BY ZenonT(60), <1>i, <2>1, FenceQuiet
<1> QED
  BY ZenonT(60), <1>1, <1>2, <1>3, FenceClaim, FenceDenied, FenceExecute, FenceOperate
     DEF RunWorkspace

(* The process ends: what was operating is half done, and still running in *)
(* the store.                                                              *)
LEMMA FenceEnds ==
  ASSUME FenceInv, ProcessEnds
  PROVE  Fences'
<1> DEFINE Dead(j) == \E v \in Workspaces : worker[v].pc = "operating" /\ worker[v].job = j
<1>1. /\ jobs' = jobs /\ \A v \in Workspaces : worker'[v] = Idle
      /\ halfDone' = [j \in JobIds |-> IF Dead(j) THEN "cut" ELSE halfDone[j]]
  BY ZenonT(60) DEF ProcessEnds, Crash, Job_
<1>2. \A v \in Workspaces : Fence(v)' /\ worker'[v].pc \in AtRest
  BY <1>1, IdleIsFenced DEF Idle, AtRest
<1>3. ASSUME NEW j \in JobIds PROVE Closed(j)'
  <2>1. CASE Dead(j)
    <3>1. PICK v \in Workspaces : worker[v].pc = "operating" /\ worker[v].job = j
      BY <2>1
    <3>2. worker[v].pc \in InHand
      BY <3>1 DEF InHand, Stages
    <3> QED
      BY <1>1, <3>1, <3>2, InHandJob DEF Closed
  <2>2. CASE ~Dead(j)
    <3>1. halfDone'[j] = halfDone[j] /\ Closed(j)
      BY <1>1, <2>2 DEF FenceInv, Fences
    <3> QED
      BY <1>1, <3>1 DEF Closed
  <2> QED
    BY <2>1, <2>2
<1>4. halfDone' \in [JobIds -> Harm]
  <2>1. halfDone \in [JobIds -> Harm]
    BY DEF FenceInv, Fences
  <2> HIDE DEF Dead
  <2> QED
    BY <1>1, <2>1 DEF Harm
<1> QED
  BY <1>2, <1>3, <1>4 DEF Fences

(* Recovery turns every running mutating job into a marked one.            *)
LEMMA FenceRestart ==
  ASSUME FenceInv, Restart
  PROVE  Fences'
<1>0. worker' = worker /\ halfDone' = halfDone
  BY DEF Restart, execVars
<1>a. ~Alive
  BY DEF Restart, AcquireExecutionLease, RecoverInterruptedJobsObserved, Alive
<1>1. \A v \in Workspaces : worker[v].pc \notin InHand
  BY <1>a DEF FenceInv, Fences, AtRest, InHand
<1>2. CASE AcquireExecutionLease
  <2>1. jobs' = jobs
    BY <1>2 DEF AcquireExecutionLease
  <2> QED
    BY <1>0, <1>1, <1>a, <2>1, FenceStore
<1>3. CASE RecoverInterruptedJobsObserved
  <2>1. \A k \in JobIds : jobs'[k] = IF k \in Running THEN Interrupted(jobs[k]) ELSE jobs[k]
    BY ZenonT(60), <1>3 DEF RecoverInterruptedJobsObserved
  <2>2. ASSUME NEW k \in JobIds, jobs[k].comp \/ jobs[k].status = "failed"
        PROVE  jobs'[k] = jobs[k]
    BY <2>1, <2>2 DEF Running, Has, FenceInv, CompTerminal, Terminal
  <2>3. ASSUME NEW k \in JobIds, jobs[k].status = "running", jobs[k].mutating
        PROVE  jobs'[k].comp
    <3>1. jobs[k] \in Job
      BY DEF FenceInv, CancelInv, TypeOK
    <3>2. jobs'[k] = Interrupted(jobs[k])
      BY <2>1, <2>3 DEF Running, Has
    <3> QED
      BY <2>3, <3>1, <3>2 DEF Interrupted, ActionJobAfterEvent, Job
  <2> QED
    BY <1>0, <1>1, <1>a, <2>2, <2>3, FenceStore
<1> QED
  BY <1>2, <1>3 DEF Restart

LEMMA FenceStep == FenceInv /\ IInv' /\ [ExecNext]_allVars => FenceInv'
<1> SUFFICES ASSUME FenceInv, IInv', [ExecNext]_allVars PROVE FenceInv'
  OBVIOUS
<1>0. CancelInv' /\ CompTerminal'
  BY ZenonT(60), CancelStep DEF FenceInv, IInv
<1>1. ASSUME NEW j \in JobIds, Submit(j) PROVE Fences'
  <2>1. PICK ws \in Workspaces : CreateOrGetObserved(j, ws, TRUE)
    BY ZenonT(60), <1>1 DEF Submit
  <2>2. /\ jobs[j].status = "absent" /\ daemon' = daemon
        /\ \A i \in JobIds \ {j} : jobs'[i] = jobs[i]
    BY <2>1 DEF CreateOrGetObserved, AddJob, TypeOK, FenceInv, CancelInv
  <2>3. worker' = worker /\ halfDone' = halfDone
    BY <1>1 DEF Submit, execVars
  <2> QED
    BY <2>2, <2>3, FenceWaiting
<1>2. ASSUME jobs' = jobs, daemon' \in {daemon, "failed"}, worker' = worker,
             halfDone' = halfDone
      PROVE  Fences'
  BY <1>2, FenceQuiet
<1>3. ASSUME NEW j \in JobIds, CancelReads(j) \/ Revoke(j) PROVE Fences'
  <2>1. /\ jobs' = jobs /\ daemon' = daemon
        /\ worker' = worker /\ halfDone' = halfDone
    BY ZenonT(60), <1>3 DEF CancelReads, Revoke, vars
  <2> QED
    BY <1>2, <2>1
<1>4. ASSUME CancelQueued PROVE Fences'
  <2>1. /\ worker' = worker /\ halfDone' = halfDone /\ canceler.job \in JobIds
        /\ \/ jobs' = jobs /\ daemon' = daemon
           \/ FinishQueued(canceler.job, "canceled", "canceled_queued")
    BY ZenonT(60), <1>4 DEF CancelQueued, FenceInv, CancelInv, Owned, vars
  <2>2. \A v \in Workspaces : worker'[v] \in {worker[v], Idle}
    BY <2>1
  <2>3. daemon' = daemon => daemon' \in {daemon, "failed"}
    OBVIOUS
  <2> QED
    BY ZenonT(60), <1>2, <2>1, <2>2, <2>3, FenceQueued
<1>5. ASSUME CancelRunning \/ Stop \/ UNCHANGED allVars \/ StoreFails PROVE Fences'
  <2>1. /\ jobs' = jobs /\ daemon' \in {daemon, "failed"}
        /\ worker' = worker /\ halfDone' = halfDone
    BY <1>5 DEF CancelRunning, Stop, StoreFails, MarkUnavailable, allVars, execVars, vars
  <2> QED
    BY ZenonT(60), <1>2, <2>1
<1>6. ASSUME NEW ws \in Workspaces,
             RunWorkspace(ws) \/ SinkFails(ws) \/ WriteFails(ws)
      PROVE  Fences'
  BY ZenonT(60), <1>6, FenceWorker
<1>7. Fences'
  BY ZenonT(60), <1>1, <1>3, <1>4, <1>5, <1>6, FenceEnds, FenceRestart DEF ExecNext
<1> QED
  BY <1>0, <1>7 DEF FenceInv

LEMMA FenceInit == ExecInit => FenceInv
<1> SUFFICES ASSUME ExecInit PROVE FenceInv
  OBVIOUS
<1>1. CancelInv
  BY CancelInit
<1>2. CompTerminal
  BY ZenonT(60), InvInit DEF ExecInit, IInv
<1>3. halfDone = [j \in JobIds |-> "no"] /\ \A v \in Workspaces : worker[v] = Idle
  BY DEF ExecInit
<1>4. halfDone \in [JobIds -> Harm] /\ \A j \in JobIds : Closed(j)
  BY <1>3 DEF Harm, Closed
<1>5. \A v \in Workspaces : Fence(v) /\ worker[v].pc \in AtRest
  BY <1>3 DEF Fence, Idle, InHand, AtRest
<1> QED
  BY <1>1, <1>2, <1>4, <1>5 DEF FenceInv, Fences

(* An operation that was cut short, by a cancellation, a deadline, a       *)
(* shutdown or a crash, leaves its workspace closed to mutating jobs until *)
(* a check recovered it: its job is running or carries a compensation      *)
(* marker, whichever write of the terminal path was refused.  Only an      *)
(* operation that hides the end of its context behind an error of its own  *)
(* escapes, and only as a failed job.                                      *)
THEOREM HalfDoneStaysFenced == ExecSpec => []HalfDoneIsFenced
<1>1. ExecSpec => []IInv
  BY ExecutorRefinesStore, Invariant, PTL
<1>2. FenceInv => HalfDoneIsFenced
  BY FencesSuffice DEF FenceInv
<1> QED
  BY <1>1, <1>2, FenceInit, FenceStep, PTL DEF ExecSpec

-----------------------------------------------------------------------------
(* The order of operations.  A job that began has left the queue for good, *)
(* and every job of its workspace that is still queued comes after it.  A  *)
(* worker that has not registered its job yet stands between the two: its  *)
(* job comes after all that began and before all that wait, because the    *)
(* claim took the oldest one and jobs are numbered as they are created.    *)
Legacy == \A k \in JobIds :
            jobs[k].status # "absent" => jobs[k].mutating /\ ~jobs[k].action
After(j, ws)  == \A a \in DOMAIN begun : jobs[begun[a]].ws = ws => begun[a] < j
Before(j, ws) == \A k \in JobIds : jobs[k].status = "queued" /\ jobs[k].ws = ws => j < k
Placed(ws) == worker[ws].pc \in Unregistered =>
                After(worker[ws].job, ws) /\ Before(worker[ws].job, ws)
Begins ==
  /\ begun \in Seq(JobIds)
  /\ \A a \in DOMAIN begun : Left(begun[a]) /\ Before(begun[a], jobs[begun[a]].ws)
  /\ \A ws \in Workspaces : Placed(ws)
  /\ OperationsOnceInOrder

OrderInv == CancelInv /\ Serial /\ Legacy /\ Begins

(* Only a request adds a job.                                              *)
LEMMA NotAdded ==
  ASSUME TypeOK, Owned, [ExecNext]_allVars, ~(\E j \in JobIds : Submit(j)),
         NEW k \in JobIds, jobs[k].status = "absent"
  PROVE  jobs'[k] = jobs[k]
<1>1. ASSUME NEW j \in JobIds, Run(j) PROVE jobs'[k] = jobs[k]
  <2>1. Start(j)
    BY <1>1, RunShape
  <2> QED
    BY <2>1, StatusAfter
<1>2. ASSUME NEW j \in JobIds, Settle(j) PROVE jobs'[k] = jobs[k]
  <2>1. Settled(j) \/ Untouched
    BY <1>2, SettleShape
  <2> QED
    BY <2>1 DEF Settled, Untouched, TypeOK
<1>3. CASE UNCHANGED vars
  BY <1>3 DEF vars
<1>4. CASE \E ws \in Workspaces : RunWorkspace(ws)
  BY ZenonT(60), <1>1, <1>2, <1>3, <1>4, WorkerStep DEF MarkUnavailable
<1>5. CASE \E ws \in Workspaces : SinkFails(ws) \/ WriteFails(ws)
  BY ZenonT(60), <1>3, <1>5 DEF SinkFails, WriteFails
<1>6. CASE \E i \in JobIds : CancelReads(i) \/ Revoke(i)
  BY ZenonT(60), <1>3, <1>6 DEF CancelReads, Revoke
<1>7. CASE CancelQueued
  <2>1. canceler.job \in JobIds
    BY ZenonT(60), <1>7 DEF CancelQueued, Owned
  <2>2. jobs' = jobs \/ FinishQueuedObserved(canceler.job, "canceled")
    BY ZenonT(60), <1>7 DEF CancelQueued, FinishQueued, MarkUnavailable, vars
  <2> QED
    BY ZenonT(60), <2>1, <2>2, StatusAfter
<1>8. CASE CancelRunning \/ Stop \/ UNCHANGED allVars
  BY ZenonT(60), <1>3, <1>8 DEF CancelRunning, Stop, allVars
<1>9. CASE ProcessEnds \/ StoreFails
  BY ZenonT(60), <1>9 DEF ProcessEnds, Crash, StoreFails, MarkUnavailable
<1>10. CASE Restart
  BY <1>10 DEF Restart, AcquireExecutionLease, RecoverInterruptedJobsObserved, Running, Has
<1> QED
  BY ZenonT(60), <1>4, <1>5, <1>6, <1>7, <1>8, <1>9, <1>10 DEF ExecNext

LEMMA LegacyStep ==
  ASSUME TypeOK, Owned, Legacy, [ExecNext]_allVars
  PROVE  Legacy'
<1>0. [Next]_vars
  BY ZenonT(60), ExecStep
<1>1. ASSUME NEW j \in JobIds, Submit(j) PROVE Legacy'
  <2>1. PICK ws \in Workspaces : CreateOrGetObserved(j, ws, TRUE)
    BY ZenonT(60), <1>1 DEF Submit
  <2> DEFINE new == NewJob(ws, TRUE, FALSE, None)
  <2>2. new.mutating /\ ~new.action
    BY DEF NewJob
  <2>3. jobs' = [jobs EXCEPT ![j] = new]
    BY <2>1 DEF CreateOrGetObserved, AddJob
  <2> HIDE DEF new
  <2> QED
    BY <2>2, <2>3 DEF Legacy, TypeOK
<1>2. CASE ~(\E j \in JobIds : Submit(j))
  <2>1. \A j \in JobIds : ~Added(j)
    <3> SUFFICES ASSUME NEW j \in JobIds, Added(j) PROVE FALSE
      OBVIOUS
    <3>1. jobs[j].status = "absent" /\ jobs'[j].status = "queued"
      BY DEF Added, TypeOK
    <3> QED
      BY <1>2, <3>1, NotAdded
  <2>2. \A k \in JobIds : Kept(k)
    BY <1>0, <2>1, StepKeeps
  <2> QED
    BY <2>2 DEF Kept, Legacy
<1> QED
  BY <1>1, <1>2

(* A job that waits after a step waited before it, or is newer than every  *)
(* job there was.                                                          *)
LEMMA BeforeStays ==
  ASSUME TypeOK, Serial, [Next]_vars, NEW j \in JobIds,
         jobs[j].status # "absent", NEW ws \in Workspaces, Before(j, ws)
  PROVE  Before(j, ws)'
<1> SUFFICES ASSUME NEW k \in JobIds, jobs'[k].status = "queued", jobs'[k].ws = ws
             PROVE  j < k
  BY DEF Before
<1>1. CASE jobs[k].status = "absent"
  BY <1>1 DEF Serial, JobIds
<1>2. CASE jobs[k].status # "absent"
  <2>1. jobs'[k].ws = jobs[k].ws /\ (Left(k) => Left(k)')
    BY <1>2, StableJob
  <2>2. jobs[k].status = "queued"
    BY <1>2, <2>1 DEF Left
  <2> QED
    BY <2>1, <2>2 DEF Before
<1> QED
  BY <1>1, <1>2

(* Where no operation begins, what began stays in order.                   *)
LEMMA BegunStays ==
  ASSUME CancelInv, Serial, Begins, [Next]_vars, begun' = begun
  PROVE  /\ begun' \in Seq(JobIds)
         /\ \A a \in DOMAIN begun :
              /\ begun[a] \in JobIds /\ jobs'[begun[a]].ws = jobs[begun[a]].ws
              /\ Left(begun[a])' /\ Before(begun[a], jobs[begun[a]].ws)'
         /\ OperationsOnceInOrder'
<1>0. TypeOK /\ begun \in Seq(JobIds) /\ OperationsOnceInOrder
  BY DEF CancelInv, Begins
<1>1. ASSUME NEW a \in DOMAIN begun
      PROVE  /\ begun[a] \in JobIds /\ jobs'[begun[a]].ws = jobs[begun[a]].ws
             /\ Left(begun[a])' /\ Before(begun[a], jobs[begun[a]].ws)'
  <2>1. begun[a] \in JobIds /\ jobs[begun[a]].ws \in Workspaces
    BY <1>0 DEF TypeOK, Job
  <2>2. Left(begun[a]) /\ Before(begun[a], jobs[begun[a]].ws)
    BY DEF Begins
  <2>3. jobs[begun[a]].status # "absent"
    BY <2>2 DEF Left
  <2> QED
    BY <1>0, <2>1, <2>2, <2>3, StableJob, BeforeStays
<1>2. OperationsOnceInOrder'
  BY <1>0, <1>1 DEF OperationsOnceInOrder
<1> QED
  BY <1>0, <1>1, <1>2

(* A worker that has not registered its job keeps its place.              *)
LEMMA PlacedStays ==
  ASSUME CancelInv, Serial, Begins, [Next]_vars, begun' = begun,
         NEW v \in Workspaces,
         worker'[v].pc \in Unregistered =>
           worker[v].pc \in Unregistered /\ worker'[v].job = worker[v].job
  PROVE  Placed(v)'
<1> SUFFICES ASSUME worker'[v].pc \in Unregistered PROVE Placed(v)'
  BY DEF Placed
<1>0. TypeOK /\ Owned
  BY DEF CancelInv
<1>1. PICK j \in JobIds : j = worker[v].job
  BY <1>0 DEF Owned, Bound, AtRest, Unregistered
<1>2. /\ worker'[v].job = j /\ jobs[j].status # "absent"
      /\ After(j, v) /\ Before(j, v)
  BY <1>1 DEF Begins, Placed, CancelInv, Holds
<1>3. Before(j, v)'
  BY <1>0, <1>2, BeforeStays
<1>4. After(j, v)'
  BY <1>2, BegunStays DEF After
<1> QED
  BY <1>2, <1>3, <1>4 DEF After, Before, Placed

LEMMA BeginsFrom ==
  ASSUME CancelInv, Serial, Begins, [Next]_vars, begun' = begun,
         \A v \in Workspaces : Placed(v)'
  PROVE  Begins'
<1>1. \A a \in DOMAIN begun' : Left(begun[a])' /\ Before(begun[a], jobs[begun[a]].ws)'
  BY BegunStays
<1> QED
  BY ZenonT(60), <1>1, BegunStays DEF Begins

LEMMA BeginsStay ==
  ASSUME CancelInv, Serial, Begins, [Next]_vars, begun' = begun,
         \A v \in Workspaces : worker'[v].pc \in Unregistered =>
           worker[v].pc \in Unregistered /\ worker'[v].job = worker[v].job
  PROVE  Begins'
BY PlacedStays, BeginsFrom

(* A claim takes the oldest waiting job, which comes after all that began. *)
LEMMA BeginsClaim ==
  ASSUME OrderInv, [Next]_vars, NEW ws \in Workspaces, NEW j \in JobIds,
         ClaimWorkspaceJob(ws, j)
  PROVE  Begins'
<1> DEFINE w == [Idle EXCEPT !.pc = "claimed", !.job = j]
<1>0. /\ TypeOK /\ worker \in [Workspaces -> Locals] /\ begun' = begun
      /\ j \in Claimable(ws) /\ (\A k \in Claimable(ws) : j <= k) /\ Start(j)
      /\ worker' = [worker EXCEPT ![ws] = w]
      /\ CancelInv /\ Serial /\ Legacy /\ Begins
  BY DEF ClaimWorkspaceJob, ClaimNextObserved, OrderInv, CancelInv, Owned
<1>1. w.job = j
  BY DEF Idle
<1> HIDE DEF w
<1>2. worker'[ws] = w /\ \A v \in Workspaces \ {ws} : worker'[v] = worker[v]
  BY <1>0
<1>3. /\ jobs'[j].status = "running" /\ jobs[j].status = "queued" /\ jobs[j].ws = ws
      /\ \A i \in JobIds \ {j} : jobs'[i] = jobs[i]
  BY ZenonT(60), <1>0, StatusAfter DEF Claimable
<1>4. After(j, ws)'
  <2>1. ASSUME NEW a \in DOMAIN begun, jobs[begun[a]].ws = ws PROVE begun[a] < j
    BY <1>0, <1>3, <2>1 DEF Begins, Before
  <2> QED
    BY ZenonT(60), <1>0, <2>1, BegunStays DEF After
<1>5. Before(j, ws)'
  <2> SUFFICES ASSUME NEW k \in JobIds, jobs'[k].status = "queued", jobs'[k].ws = ws
               PROVE  j < k
    BY DEF Before
  <2>1. k # j /\ jobs[k].status = "queued" /\ jobs[k].ws = ws
    BY <1>3
  <2>2. k \in Claimable(ws)
    BY <1>0, <2>1 DEF Claimable, Queued, Has, Legacy
  <2> QED
    BY <1>0, <2>1, <2>2 DEF JobIds
<1>6. Placed(ws)'
  BY <1>1, <1>2, <1>4, <1>5 DEF Placed, After, Before
<1>7. \A v \in Workspaces : Placed(v)'
  BY <1>0, <1>2, <1>6, PlacedStays
<1> QED
  BY <1>0, <1>7, BeginsFrom

(* A registration puts the job at the end.                                 *)
LEMMA BeginsRegister ==
  ASSUME OrderInv, NEW ws \in Workspaces, RegisterRunning(ws)
  PROVE  Begins'
<1>0. /\ TypeOK /\ Owned /\ Begins /\ jobs' = jobs /\ begun \in Seq(JobIds)
      /\ worker \in [Workspaces -> Locals] /\ worker[ws].pc = "registering"
  BY ZenonT(60) DEF RegisterRunning, At, OrderInv, CancelInv, Owned, Begins, vars
<1>1. PICK j \in JobIds : j = worker[ws].job
  BY <1>0 DEF Owned, Bound, AtRest
<1>2. /\ After(j, ws) /\ Before(j, ws) /\ Left(j) /\ jobs[j].ws = ws
      /\ begun' = Append(begun, j)
  BY ZenonT(60), <1>0, <1>1 DEF RegisterRunning, Job_, Begins, Placed, Unregistered,
                    OrderInv, CancelInv, Holds
<1>3. /\ worker'[ws].pc = "operating"
      /\ \A v \in Workspaces \ {ws} : worker'[v] = worker[v]
  BY <1>0 DEF RegisterRunning, GoTo, Locals
<1> DEFINE n == Len(begun)
<1>4. /\ n \in Nat /\ DOMAIN begun = 1 .. n /\ DOMAIN begun' = 1 .. n + 1
      /\ begun'[n + 1] = j /\ \A a \in 1 .. n : begun'[a] = begun[a]
      /\ begun' \in Seq(JobIds)
  BY <1>0, <1>2
<1> HIDE DEF n
<1>5. \A a \in DOMAIN begun' : a \in DOMAIN begun \/ (a = n + 1 /\ begun'[a] = j)
  BY <1>4
<1>6. ASSUME NEW a \in DOMAIN begun' PROVE Left(begun[a])' /\ Before(begun[a], jobs[begun[a]].ws)'
  <2>1. CASE a \in DOMAIN begun
    BY ZenonT(60), <1>0, <1>4, <2>1 DEF Begins, Left, Before
  <2>2. CASE begun'[a] = j
    BY ZenonT(60), <1>0, <1>2, <2>2 DEF Left, Before
  <2> QED
    BY <1>5, <2>1, <2>2
<1>7. ASSUME NEW v \in Workspaces PROVE Placed(v)'
  <2>1. CASE v = ws
    BY <1>3, <2>1 DEF Placed, Unregistered
  <2>2. CASE v # ws
    <3>1. Placed(v) /\ worker'[v] = worker[v]
      BY ZenonT(60), <1>0, <1>3, <2>2 DEF Begins
    <3> QED
      BY <1>0, <1>2, <1>4, <1>5, <2>2, <3>1 DEF Placed, After, Before
  <2> QED
    BY <2>1, <2>2
<1>8. OperationsOnceInOrder'
  <2> SUFFICES ASSUME NEW a \in DOMAIN begun', NEW b \in DOMAIN begun', a < b,
                      jobs'[begun'[a]].ws = jobs'[begun'[b]].ws
               PROVE  begun'[a] < begun'[b]
    BY DEF OperationsOnceInOrder
  <2>1. a \in DOMAIN begun /\ begun'[a] = begun[a]
    BY <1>4
  <2>2. CASE b \in DOMAIN begun
    BY <1>0, <1>4, <2>1, <2>2 DEF Begins, OperationsOnceInOrder
  <2>3. CASE begun'[b] = j
    BY <1>0, <1>2, <2>1, <2>3 DEF After
  <2> QED
    BY <1>5, <2>2, <2>3
<1> QED
  BY <1>4, <1>6, <1>7, <1>8 DEF Begins

(* A worker moves along or gives its job up; nothing begins.               *)
LEMMA BeginsMove ==
  ASSUME CancelInv, Serial, Begins, [Next]_vars, begun' = begun,
         NEW ws \in Workspaces, NEW w, worker' = [worker EXCEPT ![ws] = w],
         w.pc \in Unregistered =>
           worker[ws].pc \in Unregistered /\ w.job = worker[ws].job
  PROVE  Begins'
<1>0. worker \in [Workspaces -> Locals]
  BY DEF CancelInv, Owned
<1>1. worker'[ws] = w /\ \A v \in Workspaces \ {ws} : worker'[v] = worker[v]
  BY <1>0
<1> QED
  BY <1>1, BeginsStay

LEMMA BeginsGoTo ==
  ASSUME CancelInv, Serial, Begins, [Next]_vars, begun' = begun,
         NEW ws \in Workspaces, NEW pc, GoTo(ws, pc),
         pc \in Unregistered => worker[ws].pc \in Unregistered
  PROVE  Begins'
<1> DEFINE w == [worker[ws] EXCEPT !.pc = pc]
<1>1. worker' = [worker EXCEPT ![ws] = w]
  BY DEF GoTo, CancelInv, Owned
<1>2. w.pc = pc /\ w.job = worker[ws].job
  BY DEF CancelInv, Owned, Locals
<1> HIDE DEF w
<1> QED
  BY ZenonT(60), <1>1, <1>2, BeginsMove

LEMMA BeginsIdle ==
  ASSUME CancelInv, Serial, Begins, [Next]_vars, begun' = begun,
         NEW ws \in Workspaces, GoIdle(ws)
  PROVE  Begins'
<1>1. Idle.pc \notin Unregistered
  BY DEF Idle, Unregistered
<1> QED
  BY ZenonT(60), <1>1, BeginsMove DEF GoIdle

LEMMA BeginsAppend ==
  ASSUME CancelInv, Serial, Begins, [Next]_vars, NEW ws \in Workspaces,
         NEW from, NEW kind, NEW to \in Stages \ Unregistered,
         AppendTerminal(ws, from, kind, to)
  PROVE  Begins'
BY BeginsGoTo DEF AppendTerminal

LEMMA BeginsTransition ==
  ASSUME CancelInv, Serial, Begins, [Next]_vars, NEW ws \in Workspaces,
         NEW from, NEW target, NEW comp, Transition(ws, from, target, comp)
  PROVE  Begins'
<1>1. begun' = begun /\ (GoIdle(ws) \/ GoTo(ws, "acknowledging"))
  BY ZenonT(60) DEF Transition
<1>2. "acknowledging" \notin Unregistered
  BY DEF Unregistered
<1> QED
  BY <1>1, <1>2, BeginsIdle, BeginsGoTo

LEMMA BeginsExecute ==
  ASSUME OrderInv, [Next]_vars, NEW ws \in Workspaces,
         Execute(ws) \/ SinkFails(ws)
  PROVE  Begins'
<1> DEFINE old == worker[ws]
<1>0. /\ CancelInv /\ Serial /\ Begins /\ old \in Locals
      /\ worker \in [Workspaces -> Locals]
  BY DEF OrderInv, CancelInv, Owned
<1>s. {"succeeded", "failed", "interrupted", "canceled", "closing"}
        \subseteq Stages \ Unregistered
  BY DEF Stages, Unregistered
<1>1. CASE CheckWorkspaceExecution(ws)
  <2> DEFINE revokedW == [old EXCEPT !.pc = "failing", !.errs = {"error"}]
             startW   == [old EXCEPT !.pc = "starting"]
  <2>1. old.pc = "claimed" /\ begun' = begun
    BY <1>1 DEF CheckWorkspaceExecution, At
  <2>2. revokedW.job = old.job /\ startW.job = old.job
    BY <1>0 DEF Locals
  <2>3. \/ worker' = [worker EXCEPT ![ws] = revokedW]
        \/ worker' = [worker EXCEPT ![ws] = startW]
        \/ GoIdle(ws)
    BY ZenonT(60), <1>0, <1>1 DEF CheckWorkspaceExecution, GoIdle
  <2> HIDE DEF revokedW, startW
  <2> QED
    BY <1>0, <2>1, <2>2, <2>3, BeginsMove, BeginsIdle DEF Unregistered
<1>2. CASE AppendStarted(ws)
  <2>1. old.pc = "starting" /\ begun' = begun
    BY <1>2 DEF AppendStarted, At
  <2>2. GoIdle(ws) \/ GoTo(ws, "registering")
    BY <1>2 DEF AppendStarted
  <2> QED
    BY <1>0, <2>1, <2>2, BeginsGoTo, BeginsIdle DEF Unregistered
<1>3. CASE \/ SinkFails(ws) \/ CompleteRunning(ws) \/ CheckCompensation(ws)
           \/ \E result \in Results, cut \in BOOLEAN : OperationReturns(ws, result, cut)
  <2>1. begun' = begun /\ old.pc \in {"operating", "completing", "canceling"}
    BY ZenonT(60), <1>3 DEF SinkFails, CompleteRunning, CheckCompensation, OperationReturns, At
  <2>2. \A v \in Workspaces \ {ws} : worker'[v] = worker[v]
    BY ZenonT(60), <1>0, <1>3
    DEF SinkFails, CompleteRunning, CheckCompensation, OperationReturns
  <2>3. worker'[ws].pc \notin Unregistered
    <3>1. CASE SinkFails(ws)
      BY <1>0, <2>1, <3>1 DEF SinkFails, Locals, Unregistered
    <3>2. CASE CompleteRunning(ws)
      BY <1>0, <3>2 DEF CompleteRunning, Locals, Unregistered
    <3>3. CASE CheckCompensation(ws)
      BY <1>0, <3>3 DEF CheckCompensation, Locals, Unregistered
    <3>4. CASE \E result \in Results, cut \in BOOLEAN : OperationReturns(ws, result, cut)
      BY <1>0, <3>4 DEF OperationReturns, Locals, Unregistered
    <3> QED
      BY <1>3, <3>1, <3>2, <3>3, <3>4
  <2> QED
    BY <1>0, <2>1, <2>2, <2>3, BeginsStay
<1>4. CASE FinishSucceeded(ws)
  BY ZenonT(60), <1>0, <1>4, <1>s, BeginsAppend, BeginsTransition DEF FinishSucceeded
<1>5. CASE FinishFailed(ws)
  BY ZenonT(60), <1>0, <1>5, <1>s, BeginsAppend, BeginsTransition DEF FinishFailed
<1>6. CASE FinishInterrupted(ws)
  BY ZenonT(60), <1>0, <1>6, <1>s, BeginsAppend, BeginsTransition DEF FinishInterrupted
<1>7. CASE FinishCanceled(ws)
  BY ZenonT(60), <1>0, <1>3, <1>7, <1>s, BeginsAppend, BeginsTransition, BeginsIdle
     DEF FinishCanceled
<1> QED
  BY ZenonT(60), <1>1, <1>2, <1>3, <1>4, <1>5, <1>6, <1>7, BeginsRegister DEF Execute

LEMMA OrderStep == OrderInv /\ TableInv' /\ [ExecNext]_allVars => OrderInv'
<1> SUFFICES ASSUME OrderInv, TableInv', [ExecNext]_allVars PROVE OrderInv'
  OBVIOUS
<1>0. /\ CancelInv /\ Serial /\ Begins /\ TypeOK /\ Owned /\ [Next]_vars
  BY ZenonT(60), ExecStep DEF OrderInv, CancelInv
<1>1. CancelInv' /\ Serial' /\ Legacy'
  BY ZenonT(60), <1>0, CancelStep, LegacyStep DEF OrderInv, TableInv
<1>2. ASSUME worker' = worker, begun' = begun PROVE Begins'
  BY <1>0, <1>2, BeginsStay
<1>3. ASSUME NEW ws \in Workspaces, RunWorkspace(ws) \/ SinkFails(ws) \/ WriteFails(ws)
      PROVE  Begins'
  <2>1. ASSUME NEW j \in JobIds, ClaimDenied(ws, j) PROVE Begins'
    <3> DEFINE w == [Idle EXCEPT !.pc = "rejecting", !.job = j]
    <3>1. begun' = begun /\ worker' = [worker EXCEPT ![ws] = w]
      BY <2>1 DEF ClaimDenied
    <3>2. w.pc \notin Unregistered
      BY DEF Idle, Unregistered
    <3> HIDE DEF w
    <3> QED
      BY ZenonT(60), <1>0, <3>1, <3>2, BeginsMove
  <2>2. CASE RejectQueued(ws) \/ WriteFails(ws)
    BY ZenonT(60), <1>0, <2>2, BeginsIdle DEF RejectQueued, WriteFails
  <2>3. CASE WorkerExits(ws)
    BY <1>0, <2>3, BeginsGoTo DEF WorkerExits, Unregistered
  <2> QED
    BY ZenonT(60), <1>0, <1>3, <2>1, <2>2, <2>3, BeginsClaim, BeginsExecute DEF RunWorkspace
<1>4. ASSUME NEW j \in JobIds, Submit(j) \/ CancelReads(j) \/ Revoke(j) PROVE Begins'
  BY ZenonT(60), <1>2, <1>4 DEF Submit, CancelReads, Revoke, execVars
<1>5. ASSUME \/ CancelQueued \/ CancelRunning \/ Stop \/ StoreFails \/ Restart
             \/ UNCHANGED allVars
      PROVE  Begins'
  BY ZenonT(60), <1>2, <1>5
     DEF CancelQueued, CancelRunning, Stop, StoreFails, Restart, allVars, execVars
<1>6. ASSUME ProcessEnds PROVE Begins'
  <2>1. begun' = begun /\ \A v \in Workspaces : worker'[v].pc \notin Unregistered
    BY <1>6 DEF ProcessEnds, Idle, Unregistered
  <2> QED
    BY <1>0, <2>1, BeginsStay
<1>7. Begins'
  BY ZenonT(60), <1>3, <1>4, <1>5, <1>6 DEF ExecNext
<1> QED
  BY <1>1, <1>7 DEF OrderInv

LEMMA OrderInit == ExecInit => OrderInv
<1> SUFFICES ASSUME ExecInit PROVE OrderInv
  OBVIOUS
<1>1. CancelInv /\ Serial /\ Init
  BY ZenonT(60), CancelInit, TableInit DEF ExecInit, TableInv
<1>2. Legacy
  BY <1>1 DEF Init, Legacy, AbsentJob, NewJob
<1>3. begun = <<>> /\ \A v \in Workspaces : worker[v].pc \notin Unregistered
  BY DEF ExecInit, Idle, Unregistered
<1>4. Begins
  BY <1>3 DEF Begins, Placed, OperationsOnceInOrder
<1> QED
  BY <1>1, <1>2, <1>4 DEF OrderInv

(* For any number of jobs and workspaces and under every fault, no         *)
(* operation is invoked twice and the operations of a workspace are        *)
(* invoked in the order their jobs were created.                           *)
THEOREM OnceInOrder == ExecSpec => []OperationsOnceInOrder
<1>1. ExecSpec => []TableInv
  BY ExecutorRefinesStore, Table, PTL
<1>2. OrderInv => OperationsOnceInOrder
  BY DEF OrderInv, Begins
<1> QED
  BY <1>1, <1>2, OrderInit, OrderStep, PTL DEF ExecSpec

-----------------------------------------------------------------------------
(* Event histories.  A job that waits has announced no outcome, and one in *)
(* a worker's hands has announced what the worker's place says, up to what *)
(* torn writes left behind; a job that nobody holds any more can only be   *)
(* recovered as interrupted.                                               *)
Outcome(j) == events[j] \cap OutcomeEvents
Said(pc) == IF pc \in {"succeeded", "failed", "interrupted"} THEN {pc}
            ELSE IF pc = "closing" THEN {"canceled"} ELSE {}
Tells(said, truth) == truth \subseteq said /\ said \subseteq truth \cup Torn
Silent(j) == jobs[j].status \in {"absent", "queued"} => Tells(Outcome(j), {})
Agrees(j) == jobs[j].status \in Terminal \ {"interrupted"} =>
               Tells(Outcome(j), {Verdict(j)})
Voiced(ws) == worker[ws].pc \in InHand =>
                Tells(Outcome(worker[ws].job), Said(worker[ws].pc))
Histories ==
  /\ events \in [JobIds -> SUBSET EventKinds]
  /\ \A j \in JobIds : Silent(j) /\ Agrees(j)
  /\ \A ws \in Workspaces : Voiced(ws)

EventInv == FenceInv /\ TableInv /\ Histories

LEMMA HistoriesSuffice == Histories => EventsAgreeWithStatus
BY DEF Histories, EventsAgreeWithStatus, Agrees, Tells, Outcome, Created

LEMMA SameHistory ==
  ASSUME EventInv, NEW j \in JobIds, jobs'[j].status = jobs[j].status,
         jobs'[j].started = jobs[j].started, Outcome(j)' = Outcome(j)
  PROVE  Silent(j)' /\ Agrees(j)'
<1>1. Silent(j) /\ Agrees(j)
  BY DEF EventInv, Histories
<1>2. Verdict(j)' = Verdict(j)
  BY DEF Verdict
<1> QED
  BY ZenonT(60), <1>1, <1>2 DEF Silent, Agrees

LEMMA IdleSaysNothing ==
  ASSUME NEW v \in Workspaces, worker'[v] = Idle
  PROVE  Voiced(v)'
BY DEF Voiced, Idle, InHand

(* Another worker's job is not the one that changes.                       *)
LEMMA OtherVoice ==
  ASSUME EventInv, NEW v \in Workspaces, worker'[v] = worker[v],
         worker[v].pc \in InHand => Outcome(worker[v].job)' = Outcome(worker[v].job)
  PROVE  Voiced(v)'
<1>1. Voiced(v)
  BY DEF EventInv, Histories
<1> QED
  BY <1>1 DEF Voiced

(* An appended event is one more outcome, or none.                         *)
LEMMA Appended ==
  ASSUME Histories, NEW j \in JobIds, NEW kind \in EventKinds, AppendEvent(j, kind)
  PROVE  /\ events' \in [JobIds -> SUBSET EventKinds]
         /\ \A i \in JobIds \ {j} : Outcome(i)' = Outcome(i)
         /\ Outcome(j)' = Outcome(j) \cup ({kind} \cap OutcomeEvents)
<1>1. /\ events' = [events EXCEPT ![j] = events[j] \cup {kind}]
      /\ events \in [JobIds -> SUBSET EventKinds]
  BY DEF AppendEvent, Histories
<1>2. events'[j] = events[j] \cup {kind} /\ \A i \in JobIds \ {j} : events'[i] = events[i]
  BY <1>1
<1>3. events' \in [JobIds -> SUBSET EventKinds]
  BY <1>1
<1> QED
  BY <1>2, <1>3 DEF Outcome

(* The store stays, one job may get an event, one worker moves.            *)
LEMMA HistoriesMove ==
  ASSUME EventInv, UNCHANGED vars, events' \in [JobIds -> SUBSET EventKinds],
         NEW ws \in Workspaces, worker[ws].pc \in InHand,
         \A v \in Workspaces \ {ws} : worker'[v] = worker[v],
         \A i \in JobIds \ {worker[ws].job} : Outcome(i)' = Outcome(i),
         Voiced(ws)'
  PROVE  Histories'
<1>0. FenceInv /\ jobs' = jobs
  BY DEF EventInv, vars
<1>1. PICK j \in JobIds : j = worker[ws].job /\ jobs[j].status = "running"
  BY <1>0, InHandJob
<1>2. ASSUME NEW i \in JobIds PROVE Silent(i)' /\ Agrees(i)'
  <2>1. CASE i = j
    BY <1>0, <1>1, <2>1 DEF Silent, Agrees, Terminal
  <2>2. CASE i # j
    BY ZenonT(60), <1>0, <1>1, <2>2, SameHistory
  <2> QED
    BY <2>1, <2>2
<1>3. ASSUME NEW v \in Workspaces PROVE Voiced(v)'
  <2>1. CASE v # ws
    <3>1. worker[v].job # j
      BY <1>0, <1>1, <2>1, OtherJob
    <3>2. worker[v].pc \in InHand => worker[v].job \in JobIds
      BY <1>0, InHandJob
    <3>3. worker[v].pc \in InHand => Outcome(worker[v].job)' = Outcome(worker[v].job)
      <4> SUFFICES ASSUME worker[v].pc \in InHand
                   PROVE  Outcome(worker[v].job)' = Outcome(worker[v].job)
        OBVIOUS
      <4>1. PICK i \in JobIds : i = worker[v].job /\ i # j
        BY <3>1, <3>2
      <4>2. events'[i] \cap OutcomeEvents = events[i] \cap OutcomeEvents
        BY <1>1, <4>1 DEF Outcome
      <4>3. worker'[v].job = i
        BY <2>1, <4>1
      <4> QED
        BY <4>1, <4>2, <4>3 DEF Outcome
    <3> QED
      BY <2>1, <3>3, OtherVoice
  <2> QED
    BY <2>1
<1> QED
  BY <1>2, <1>3 DEF Histories

(* One job changes its status, one worker moves or stays.                  *)
LEMMA HistoriesJob ==
  ASSUME EventInv, events' \in [JobIds -> SUBSET EventKinds],
         NEW j \in JobIds, Silent(j)', Agrees(j)',
         \A i \in JobIds \ {j} : jobs'[i] = jobs[i] /\ Outcome(i)' = Outcome(i),
         \A v \in Workspaces :
           Voiced(v)' \/ (worker'[v] = worker[v] /\ worker[v].job # j)
  PROVE  Histories'
<1>0. FenceInv
  BY ZenonT(60) DEF EventInv
<1>1. ASSUME NEW i \in JobIds PROVE Silent(i)' /\ Agrees(i)'
  <2>1. CASE i # j
    BY <2>1, SameHistory
  <2> QED
    BY <2>1
<1>2. ASSUME NEW v \in Workspaces, worker'[v] = worker[v], worker[v].job # j
      PROVE  Voiced(v)'
  <2> SUFFICES ASSUME worker[v].pc \in InHand
               PROVE  Outcome(worker[v].job)' = Outcome(worker[v].job)
    BY ZenonT(60), <1>2, OtherVoice
  <2>1. PICK i \in JobIds : i = worker[v].job /\ i # j
    BY ZenonT(60), <1>0, <1>2, InHandJob
  <2>2. events'[i] \cap OutcomeEvents = events[i] \cap OutcomeEvents
    BY ZenonT(60), <2>1 DEF Outcome
  <2> QED
    BY <1>2, <2>1, <2>2 DEF Outcome
<1> QED
  BY ZenonT(60), <1>1, <1>2 DEF Histories

(* Nothing is announced and no job changes but by recovery.                *)
LEMMA HistoriesQuiet ==
  ASSUME EventInv, events' = events,
         \A j \in JobIds :
           jobs'[j] = jobs[j] \/ jobs'[j].status \in {"running", "interrupted"},
         \A v \in Workspaces : Voiced(v)' \/ worker'[v] = worker[v]
  PROVE  Histories'
<1>1. ASSUME NEW j \in JobIds PROVE Silent(j)' /\ Agrees(j)'
  <2>1. CASE jobs'[j] = jobs[j]
    BY <2>1, SameHistory DEF Outcome
  <2>2. CASE jobs'[j].status \in {"running", "interrupted"}
    BY <2>2 DEF Silent, Agrees, Terminal
  <2> QED
    BY <2>1, <2>2
<1>2. ASSUME NEW v \in Workspaces, worker'[v] = worker[v] PROVE Voiced(v)'
  BY <1>2, OtherVoice DEF Outcome
<1> QED
  BY <1>1, <1>2 DEF Histories, EventInv

LEMMA HistoriesIdle ==
  ASSUME EventInv, UNCHANGED vars, events' = events, NEW ws \in Workspaces, GoIdle(ws)
  PROVE  Histories'
<1>0. worker \in [Workspaces -> Locals] /\ jobs' = jobs
  BY DEF EventInv, FenceInv, CancelInv, Owned, vars
<1>1. worker'[ws] = Idle /\ \A v \in Workspaces \ {ws} : worker'[v] = worker[v]
  BY <1>0 DEF GoIdle
<1>2. Voiced(ws)'
  BY <1>1, IdleSaysNothing
<1> QED
  BY <1>0, <1>1, <1>2, HistoriesQuiet

(* A waiting job is finished and its outcome announced in one write, or    *)
(* the announcement is all that is left of it.                             *)
LEMMA HistoriesQueued ==
  ASSUME EventInv, NEW j \in JobIds, NEW target \in {"failed", "canceled"}, NEW kind,
         kind = IF target = "failed" THEN "rejected" ELSE "canceled_queued",
         FinishQueued(j, target, kind),
         \A v \in Workspaces : worker'[v] \in {worker[v], Idle}
  PROVE  Histories'
<1>0. /\ FenceInv /\ TypeOK /\ Histories /\ Stored /\ jobs[j] \in Job
      /\ jobs[j].status = "queued" /\ AppendEvent(j, kind)
  BY DEF EventInv, FenceInv, CancelInv, TableInv, TypeOK, FinishQueued
<1>1. ~jobs[j].started /\ Tells(Outcome(j), {})
  BY ZenonT(60), <1>0 DEF Stored, Sound, ValidPersistedJob, Histories, Silent
<1>2. kind \in EventKinds /\ kind \in OutcomeEvents
  BY DEF EventKinds, OutcomeEvents
<1>3. /\ events' \in [JobIds -> SUBSET EventKinds]
      /\ \A i \in JobIds \ {j} : Outcome(i)' = Outcome(i)
      /\ Outcome(j)' = Outcome(j) \cup ({kind} \cap OutcomeEvents)
  BY ZenonT(60), <1>0, <1>2, Appended
<1>4. Outcome(j)' = Outcome(j) \cup {kind}
  BY <1>2, <1>3
<1>5. ASSUME FinishQueuedObserved(j, target) PROVE Silent(j)' /\ Agrees(j)'
  <2>1. /\ jobs'[j].status = target /\ jobs'[j].started = jobs[j].started
        /\ \A i \in JobIds \ {j} : jobs'[i] = jobs[i]
    BY <1>0, <1>5 DEF FinishQueuedObserved, Finish, TypeOK, Job
  <2>2. Verdict(j)' = kind
    BY ZenonT(60), <1>1, <2>1 DEF Verdict
  <2>3. Tells(Outcome(j), {}) => Tells(Outcome(j) \cup {kind}, {kind})
    BY DEF Tells
  <2>4. Tells(Outcome(j)', {kind})
    BY <1>1, <1>4, <2>3
  <2> QED
    BY <2>1, <2>2, <2>4 DEF Silent, Agrees, Tells
<1>6. ASSUME "write" \in Faults, MarkUnavailable PROVE Silent(j)' /\ Agrees(j)'
  <2>1. kind \in Torn /\ jobs' = jobs
    BY <1>6 DEF Torn, MarkUnavailable
  <2>2. Tells(Outcome(j), {}) => Tells(Outcome(j) \cup {kind}, {})
    BY <2>1 DEF Tells
  <2>3. Tells(Outcome(j)', {})
    BY <1>1, <1>4, <2>2
  <2> QED
    BY <1>0, <2>1, <2>3 DEF Silent, Agrees, Terminal, Tells
<1>7. /\ Silent(j)' /\ Agrees(j)'
      /\ \A i \in JobIds \ {j} : jobs'[i] = jobs[i]
  <2>1. FinishQueuedObserved(j, target) \/ ("write" \in Faults /\ MarkUnavailable)
    BY DEF FinishQueued
  <2>2. FinishQueuedObserved(j, target) => \A i \in JobIds \ {j} : jobs'[i] = jobs[i]
    BY ZenonT(60), <1>0, StatusAfter
  <2>3. MarkUnavailable => jobs' = jobs
    BY DEF MarkUnavailable
  <2> QED
    BY <1>5, <1>6, <2>1, <2>2, <2>3
<1>8. ASSUME NEW v \in Workspaces
      PROVE  Voiced(v)' \/ (worker'[v] = worker[v] /\ worker[v].job # j)
  <2>1. CASE worker'[v] = Idle
    BY <2>1, IdleSaysNothing
  <2>2. CASE worker'[v] = worker[v] /\ worker[v].job = j
    <3>1. worker[v].pc \notin InHand
      BY ZenonT(60), <1>0, <2>2, InHandJob
    <3> QED
      BY <2>2, <3>1 DEF Voiced
  <2> QED
    BY <2>1, <2>2
<1> QED
  BY ZenonT(60), <1>3, <1>7, <1>8, HistoriesJob

(* A worker announces an outcome and moves to the place that says so.      *)
LEMMA HistoriesAppend ==
  ASSUME EventInv, UNCHANGED vars, NEW ws \in Workspaces,
         NEW from \in InHand, NEW to \in Stages, NEW kind \in EventKinds,
         worker[ws].pc = from, AppendEvent(worker[ws].job, kind), GoTo(ws, to),
         Said(to) = Said(from) \cup ({kind} \cap OutcomeEvents)
  PROVE  Histories'
<1>0. FenceInv /\ Histories /\ worker \in [Workspaces -> Locals] /\ Voiced(ws)
  BY DEF EventInv, FenceInv, CancelInv, Owned, Histories
<1>1. PICK j \in JobIds : j = worker[ws].job
  BY ZenonT(60), <1>0, InHandJob
<1>2. /\ events' \in [JobIds -> SUBSET EventKinds]
      /\ \A i \in JobIds \ {j} : Outcome(i)' = Outcome(i)
      /\ Outcome(j)' = Outcome(j) \cup ({kind} \cap OutcomeEvents)
  BY ZenonT(60), <1>0, <1>1, Appended
<1>3. /\ worker'[ws].pc = to /\ worker'[ws].job = j
      /\ \A v \in Workspaces \ {ws} : worker'[v] = worker[v]
  BY <1>0, <1>1 DEF GoTo, Locals
<1>4. Tells(Outcome(j), Said(from))
  BY <1>0, <1>1 DEF Voiced
<1>5. Tells(Outcome(j)', Said(to))
  BY <1>2, <1>4 DEF Tells
<1>6. Voiced(ws)'
  BY <1>3, <1>5 DEF Voiced, Outcome, Said, Tells
<1> QED
  BY ZenonT(60), <1>1, <1>2, <1>3, <1>6, HistoriesMove

(* It moves between places that say the same.                              *)
LEMMA HistoriesGo ==
  ASSUME EventInv, UNCHANGED vars, events' = events, NEW ws \in Workspaces, NEW w,
         worker' = [worker EXCEPT ![ws] = w], w.job = worker[ws].job,
         w.pc \in InHand => /\ worker[ws].pc \in InHand
                            /\ Said(w.pc) = Said(worker[ws].pc)
  PROVE  Histories'
<1>0. worker \in [Workspaces -> Locals] /\ jobs' = jobs /\ Voiced(ws)
  BY DEF EventInv, FenceInv, CancelInv, Owned, Histories, vars
<1>1. worker'[ws] = w /\ \A v \in Workspaces \ {ws} : worker'[v] = worker[v]
  BY <1>0
<1>2. Voiced(ws)'
  BY <1>0, <1>1 DEF Voiced, Outcome, Said, Tells
<1> QED
  BY <1>0, <1>1, <1>2, HistoriesQuiet

(* The terminal write says what the worker announced.                      *)
LEMMA HistoriesTransition ==
  ASSUME EventInv, NEW ws \in Workspaces,
         NEW from \in {"succeeded", "failed", "interrupted", "closing"},
         NEW target \in Terminal, NEW comp, Said(from) = {target},
         Transition(ws, from, target, comp)
  PROVE  Histories'
<1>0. /\ FenceInv /\ Histories /\ Stored /\ TypeOK /\ worker \in [Workspaces -> Locals]
      /\ Voiced(ws) /\ worker[ws].pc = from /\ from \in InHand /\ events' = events
  BY DEF EventInv, FenceInv, CancelInv, Owned, Histories, TableInv, Transition, At,
         InHand, Stages
<1>1. PICK j \in JobIds : j = worker[ws].job
  BY <1>0, InHandJob
<1>2. jobs[j].status = "running" /\ jobs[j] \in Job /\ TransitionObserved(j, target, comp, None)
  BY <1>0, <1>1 DEF Transition, Job_, TransitionObserved, TypeOK
<1>3. /\ jobs'[j].status = target /\ jobs'[j].started = jobs[j].started
      /\ \A i \in JobIds \ {j} : jobs'[i] = jobs[i]
  BY <1>0, <1>2 DEF TransitionObserved, Finish, TypeOK, Job
<1>4. jobs[j].started
  BY ZenonT(60), <1>2, <1>0 DEF Stored, Sound, ValidPersistedJob
<1>5. Tells(Outcome(j), {target}) /\ \A i \in JobIds : Outcome(i)' = Outcome(i)
  BY <1>0, <1>1 DEF Voiced, Outcome
<1>6. Silent(j)' /\ Agrees(j)'
  <2>1. Verdict(j)' = target
    BY <1>3, <1>4 DEF Verdict
  <2>2. Tells(Outcome(j)', {target})
    BY <1>5
  <2> QED
    BY <1>3, <2>1, <2>2 DEF Silent, Agrees, Terminal, Tells
<1>7. Voiced(ws)' /\ \A v \in Workspaces \ {ws} : worker'[v] = worker[v]
  <2>1. CASE GoIdle(ws)
    BY <1>0, <2>1, IdleSaysNothing DEF GoIdle
  <2>2. CASE GoTo(ws, "acknowledging")
    BY <1>0, <2>2 DEF GoTo, Voiced, InHand, Locals
  <2> QED
    BY ZenonT(60), <2>1, <2>2 DEF Transition
<1>8. \A v \in Workspaces \ {ws} : worker[v].job # j
  BY <1>0, <1>1, OtherJob
<1>9. events' \in [JobIds -> SUBSET EventKinds]
  BY <1>0 DEF Histories
<1> QED
  BY ZenonT(60), <1>3, <1>5, <1>6, <1>7, <1>8, <1>9, HistoriesJob

LEMMA HistoriesClaim ==
  ASSUME EventInv, NEW ws \in Workspaces, NEW j \in JobIds,
         ClaimWorkspaceJob(ws, j) \/ ClaimDenied(ws, j)
  PROVE  Histories'
<1>0. /\ TypeOK /\ worker \in [Workspaces -> Locals] /\ Histories
  BY DEF EventInv, FenceInv, CancelInv, Owned
<1>1. CASE ClaimWorkspaceJob(ws, j)
  <2> DEFINE w == [Idle EXCEPT !.pc = "claimed", !.job = j]
  <2>1. /\ Start(j) /\ events' = events /\ worker' = [worker EXCEPT ![ws] = w]
    BY <1>1 DEF ClaimWorkspaceJob, ClaimNextObserved
  <2>2. w.pc = "claimed" /\ w.job = j
    BY DEF Idle
  <2> HIDE DEF w
  <2>3. worker'[ws] = w /\ \A v \in Workspaces \ {ws} : worker'[v] = worker[v]
    BY <1>0, <2>1
  <2>4. /\ jobs[j].status = "queued" /\ jobs'[j].status = "running"
        /\ \A i \in JobIds \ {j} : jobs'[i] = jobs[i]
    BY ZenonT(60), <1>0, <2>1, StatusAfter
  <2>5. Tells(Outcome(j), {})
    BY <1>0, <2>4 DEF Histories, Silent
  <2>6. Voiced(ws)'
    BY <2>1, <2>2, <2>3, <2>5 DEF Voiced, Outcome, Said, Tells
  <2> QED
    BY ZenonT(60), <2>1, <2>3, <2>4, <2>6, HistoriesQuiet
<1>2. CASE ClaimDenied(ws, j)
  <2> DEFINE w == [Idle EXCEPT !.pc = "rejecting", !.job = j]
  <2>1. jobs' = jobs /\ events' = events /\ worker' = [worker EXCEPT ![ws] = w]
    BY <1>2 DEF ClaimDenied, vars
  <2>2. w.pc = "rejecting"
    BY DEF Idle
  <2> HIDE DEF w
  <2>3. worker'[ws] = w /\ \A v \in Workspaces \ {ws} : worker'[v] = worker[v]
    BY <1>0, <2>1
  <2>4. Voiced(ws)'
    BY <2>2, <2>3 DEF Voiced, InHand
  <2> QED
    BY <2>1, <2>3, <2>4, HistoriesQuiet
<1> QED
  BY <1>1, <1>2

LEMMA HistoriesStages ==
  ASSUME EventInv, NEW ws \in Workspaces,
         \/ CheckWorkspaceExecution(ws) \/ AppendStarted(ws) \/ RegisterRunning(ws)
         \/ SinkFails(ws)
         \/ \E result \in Results, cut \in BOOLEAN : OperationReturns(ws, result, cut)
         \/ CompleteRunning(ws) \/ CheckCompensation(ws)
  PROVE  Histories'
<1> DEFINE old == worker[ws]
           Mute == InHand \ {"succeeded", "failed", "interrupted", "closing"}
<1>0. old \in Locals /\ worker \in [Workspaces -> Locals] /\ UNCHANGED vars
  BY ZenonT(60) DEF EventInv, FenceInv, CancelInv, Owned, CheckWorkspaceExecution,
     AppendStarted, RegisterRunning, SinkFails, OperationReturns, CompleteRunning,
     CheckCompensation
<1>m. /\ \A pc \in Mute : Said(pc) = {} /\ pc \in InHand
      /\ {"claimed", "starting", "registering", "operating", "completing", "canceling",
          "checked", "failing", "succeeding", "interrupting"} \subseteq Mute
  BY DEF Said, InHand, Stages
<1> HIDE DEF Mute
<1>1. ASSUME NEW w, worker' = [worker EXCEPT ![ws] = w], w.job = old.job,
             w.pc \in Mute, old.pc \in Mute, events' = events
      PROVE  Histories'
  BY ZenonT(60), <1>0, <1>m, <1>1, HistoriesGo
<1>2. CASE CheckWorkspaceExecution(ws)
  <2> DEFINE revokedW == [old EXCEPT !.pc = "failing", !.errs = {"error"}]
             startW   == [old EXCEPT !.pc = "starting"]
  <2>1. old.pc = "claimed" /\ events' = events
    BY <1>2 DEF CheckWorkspaceExecution, At
  <2>2. /\ revokedW.job = old.job /\ startW.job = old.job
        /\ revokedW.pc = "failing" /\ startW.pc = "starting"
    BY <1>0 DEF Locals
  <2>3. \/ worker' = [worker EXCEPT ![ws] = revokedW]
        \/ worker' = [worker EXCEPT ![ws] = startW]
        \/ GoIdle(ws)
    BY ZenonT(60), <1>0, <1>2 DEF CheckWorkspaceExecution, GoIdle
  <2> HIDE DEF revokedW, startW
  <2>4. CASE GoIdle(ws)
    BY <1>0, <2>1, <2>4, HistoriesIdle
  <2> QED
    BY <1>1, <1>m, <2>1, <2>2, <2>3, <2>4
<1>3. CASE AppendStarted(ws)
  <2>1. old.pc = "starting"
    BY ZenonT(60), <1>3 DEF AppendStarted, At
  <2>2. CASE GoIdle(ws) /\ events' = events
    BY <1>0, <2>2, HistoriesIdle
  <2>3. CASE GoTo(ws, "registering") /\ AppendEvent(old.job, "started")
    <3>1. /\ "started" \in EventKinds /\ {"started"} \cap OutcomeEvents = {}
          /\ "registering" \in Stages /\ "starting" \in InHand
          /\ Said("registering") = {} /\ Said("starting") = {}
      BY DEF EventKinds, OutcomeEvents, Stages, InHand, Said
    <3>2. Said("registering") = Said("starting") \cup ({"started"} \cap OutcomeEvents)
      BY <3>1
    <3> QED
      BY ZenonT(60), <1>0, <2>1, <2>3, <3>1, <3>2, HistoriesAppend
  <2> QED
    BY ZenonT(60), <1>3, <2>2, <2>3 DEF AppendStarted, Job_
<1>4. CASE RegisterRunning(ws)
  <2> DEFINE w == [old EXCEPT !.pc = "operating"]
  <2>1. /\ old.pc = "registering" /\ events' = events
        /\ worker' = [worker EXCEPT ![ws] = w]
    BY <1>0, <1>4 DEF RegisterRunning, At, GoTo
  <2>2. w.job = old.job /\ w.pc = "operating"
    BY <1>0 DEF Locals
  <2> HIDE DEF w
  <2> QED
    BY ZenonT(60), <1>1, <1>m, <2>1, <2>2
<1>5. ASSUME worker' \in [Workspaces -> Locals], worker'[ws].job = old.job,
             \A v \in Workspaces \ {ws} : worker'[v] = worker[v],
             worker'[ws].pc \in Mute, old.pc \in Mute, events' = events
      PROVE  Histories'
  <2>1. Voiced(ws)
    BY DEF EventInv, Histories
  <2>2. Voiced(ws)'
    BY ZenonT(60), <1>m, <1>5, <2>1 DEF Voiced, Outcome, Said, Tells
  <2> QED
    BY <1>0, <1>5, <2>2, HistoriesQuiet DEF vars
<1>t. worker' \in [Workspaces -> Locals]
  <2>1. CancelInv /\ [ExecNext]_allVars
    BY ZenonT(60) DEF EventInv, FenceInv, ExecNext, RunWorkspace, Execute, FinishCanceled
  <2> QED
    BY ZenonT(60), <2>1, CancelStep DEF CancelInv, Owned
<1>6. CASE SinkFails(ws)
  <2>1. /\ old.pc = "operating" /\ events' = events
        /\ worker'[ws].pc = old.pc /\ worker'[ws].job = old.job
        /\ \A v \in Workspaces \ {ws} : worker'[v] = worker[v]
    BY <1>0, <1>6 DEF SinkFails, At, Locals
  <2> QED
    BY ZenonT(60), <1>m, <1>5, <1>t, <2>1
<1>7. CASE \E result \in Results, cut \in BOOLEAN : OperationReturns(ws, result, cut)
  <2>1. /\ old.pc = "operating" /\ events' = events
        /\ worker'[ws].pc = "completing" /\ worker'[ws].job = old.job
        /\ \A v \in Workspaces \ {ws} : worker'[v] = worker[v]
    <3>1. PICK result \in Results, cut \in BOOLEAN : OperationReturns(ws, result, cut)
      BY <1>7
    <3> DEFINE w == [old EXCEPT !.pc = "completing", !.errs = old.errs \cup result]
    <3>2. /\ old.pc = "operating" /\ events' = events
          /\ worker' = [worker EXCEPT ![ws] = w]
      BY ZenonT(60), <1>0, <3>1 DEF OperationReturns, At
    <3>3. w.pc = "completing" /\ w.job = old.job
      BY <1>0 DEF Locals
    <3> HIDE DEF w
    <3> QED
      BY <1>0, <3>2, <3>3
  <2> QED
    BY ZenonT(60), <1>m, <1>5, <1>t, <2>1
<1>8. CASE CompleteRunning(ws)
  <2>1. /\ old.pc = "completing" /\ events' = events
        /\ worker'[ws].pc \in {"interrupting", "canceling", "failing", "succeeding"}
        /\ worker'[ws].job = old.job
        /\ \A v \in Workspaces \ {ws} : worker'[v] = worker[v]
    BY <1>0, <1>8 DEF CompleteRunning, At, Locals
  <2> QED
    BY ZenonT(60), <1>m, <1>5, <1>t, <2>1
<1>9. CASE CheckCompensation(ws)
  <2>1. /\ old.pc = "canceling" /\ events' = events
        /\ worker'[ws].pc = "checked" /\ worker'[ws].job = old.job
        /\ \A v \in Workspaces \ {ws} : worker'[v] = worker[v]
    <3>1. PICK ok \in BOOLEAN :
            worker' = [worker EXCEPT ![ws].pc = "checked", ![ws].recovered = ok]
      BY ZenonT(60), <1>9 DEF CheckCompensation
    <3> DEFINE w == [old EXCEPT !.pc = "checked", !.recovered = ok]
    <3>2. /\ old.pc = "canceling" /\ events' = events
          /\ worker' = [worker EXCEPT ![ws] = w]
      BY ZenonT(60), <1>0, <1>9, <3>1 DEF CheckCompensation, At
    <3>3. w.pc = "checked" /\ w.job = old.job
      BY <1>0 DEF Locals
    <3> HIDE DEF w
    <3> QED
      BY <1>0, <3>2, <3>3
  <2> QED
    BY ZenonT(60), <1>m, <1>5, <1>t, <2>1
<1> QED
  BY <1>2, <1>3, <1>4, <1>6, <1>7, <1>8, <1>9

LEMMA HistoriesAcknowledge ==
  ASSUME EventInv, NEW ws \in Workspaces, At(ws, "acknowledging"),
         AcknowledgeCompensation(Job_(ws)), GoIdle(ws), events' = events
  PROVE  Histories'
<1>0. /\ worker \in [Workspaces -> Locals] /\ TypeOK /\ Owned /\ Histories
      /\ worker[ws].pc = "acknowledging"
  BY DEF At, EventInv, FenceInv, CancelInv, Owned
<1>1. PICK j \in JobIds : j = worker[ws].job
  BY <1>0 DEF Owned, Bound, AtRest
<1>2. /\ jobs'[j].status = jobs[j].status /\ jobs'[j].started = jobs[j].started
      /\ \A i \in JobIds \ {j} : jobs'[i] = jobs[i]
  BY <1>0, <1>1 DEF AcknowledgeCompensation, Finish, Job_, TypeOK, Job
<1>3. worker'[ws] = Idle /\ \A v \in Workspaces \ {ws} : worker'[v] = worker[v]
  BY <1>0 DEF GoIdle
<1>4. Silent(j)' /\ Agrees(j)'
  BY <1>2, SameHistory DEF Outcome
<1>5. \A v \in Workspaces \ {ws} : worker[v].job # j
  BY <1>1, OtherJob DEF EventInv
<1>6. Voiced(ws)'
  BY <1>3, IdleSaysNothing
<1>7. \A i \in JobIds \ {j} : jobs'[i] = jobs[i] /\ Outcome(i)' = Outcome(i)
  BY <1>2 DEF Outcome
<1>8. events' \in [JobIds -> SUBSET EventKinds]
  BY <1>0 DEF Histories
<1> QED
  BY <1>3, <1>4, <1>5, <1>6, <1>7, <1>8, HistoriesJob

LEMMA HistoriesExecute ==
  ASSUME EventInv, NEW ws \in Workspaces, Execute(ws)
  PROVE  Histories'
<1>1. ASSUME NEW from \in InHand, NEW to \in Stages, NEW kind \in EventKinds,
             AppendTerminal(ws, from, kind, to),
             Said(to) = Said(from) \cup ({kind} \cap OutcomeEvents)
      PROVE  Histories'
  BY <1>1, HistoriesAppend DEF AppendTerminal, At, Job_
<1>2. /\ {"succeeding", "failing", "interrupting", "checked", "canceled"} \subseteq InHand
      /\ {"succeeded", "failed", "interrupted", "canceled", "closing"} \subseteq Stages
      /\ {"succeeded", "failed", "interrupted", "canceled", "compensation_checked"}
           \subseteq EventKinds
  BY DEF InHand, Stages, EventKinds
<1>3. /\ Said("succeeded") = Said("succeeding") \cup ({"succeeded"} \cap OutcomeEvents)
      /\ Said("failed") = Said("failing") \cup ({"failed"} \cap OutcomeEvents)
      /\ Said("interrupted") = Said("interrupting") \cup ({"interrupted"} \cap OutcomeEvents)
      /\ Said("canceled") = Said("checked") \cup ({"compensation_checked"} \cap OutcomeEvents)
      /\ Said("closing") = Said("canceled") \cup ({"canceled"} \cap OutcomeEvents)
  BY DEF Said, OutcomeEvents
<1>4. /\ Said("succeeded") = {"succeeded"} /\ Said("failed") = {"failed"}
      /\ Said("interrupted") = {"interrupted"} /\ Said("closing") = {"canceled"}
      /\ Terminal = {"succeeded", "failed", "canceled", "interrupted"}
  BY DEF Said, Terminal
<1>5. CASE FinishSucceeded(ws)
  BY ZenonT(60), <1>1, <1>2, <1>3, <1>4, <1>5, HistoriesTransition DEF FinishSucceeded
<1>6. CASE FinishFailed(ws)
  BY ZenonT(60), <1>1, <1>2, <1>3, <1>4, <1>6, HistoriesTransition DEF FinishFailed
<1>7. CASE FinishInterrupted(ws)
  BY ZenonT(60), <1>1, <1>2, <1>3, <1>4, <1>7, HistoriesTransition DEF FinishInterrupted
<1>8. CASE FinishCanceled(ws)
  BY ZenonT(60), <1>1, <1>2, <1>3, <1>4, <1>8, HistoriesTransition, HistoriesStages,
     HistoriesAcknowledge DEF FinishCanceled
<1> QED
  BY ZenonT(60), <1>5, <1>6, <1>7, <1>8, HistoriesStages DEF Execute

LEMMA EventStep ==
  EventInv /\ FenceInv' /\ TableInv' /\ [ExecNext]_allVars => EventInv'
<1> SUFFICES ASSUME EventInv, FenceInv', TableInv', [ExecNext]_allVars PROVE EventInv'
  OBVIOUS
<1>0. /\ worker \in [Workspaces -> Locals] /\ Owned /\ TypeOK /\ Histories
      /\ events \in [JobIds -> SUBSET EventKinds]
  BY ZenonT(60) DEF EventInv, FenceInv, CancelInv, Owned, Histories
<1>1. ASSUME jobs' = jobs, worker' = worker, events' = events PROVE Histories'
  BY <1>1, HistoriesQuiet
<1>2. ASSUME NEW ws \in Workspaces, RunWorkspace(ws) \/ SinkFails(ws) \/ WriteFails(ws)
      PROVE  Histories'
  <2>1. CASE RejectQueued(ws)
    <3>1. /\ GoIdle(ws) /\ worker[ws].job \in JobIds
          /\ \/ UNCHANGED vars /\ events' = events
             \/ FinishQueued(worker[ws].job, "failed", "rejected")
      BY ZenonT(60), <1>0, <2>1 DEF RejectQueued, Owned, Bound, At, AtRest, Job_
    <3>2. \A v \in Workspaces : worker'[v] \in {worker[v], Idle}
      BY <1>0, <3>1 DEF GoIdle
    <3> QED
      BY <3>1, <3>2, HistoriesIdle, HistoriesQueued
  <2>2. CASE WorkerExits(ws)
    <3>1. /\ worker'[ws].pc = "exited" /\ jobs' = jobs /\ events' = events
          /\ \A v \in Workspaces \ {ws} : worker'[v] = worker[v]
      BY <1>0, <2>2 DEF WorkerExits, GoTo, Locals, vars
    <3>2. Voiced(ws)'
      BY <3>1 DEF Voiced, InHand
    <3> QED
      BY <3>1, <3>2, HistoriesQuiet
  <2>3. CASE WriteFails(ws)
    BY ZenonT(60), <2>3, HistoriesIdle DEF WriteFails
  <2> QED
    BY ZenonT(60), <1>2, <2>1, <2>2, <2>3, HistoriesClaim, HistoriesExecute, HistoriesStages
       DEF RunWorkspace
<1>3. ASSUME NEW j \in JobIds, Submit(j) PROVE Histories'
  <2>1. PICK ws \in Workspaces : CreateOrGetObserved(j, ws, TRUE)
    BY ZenonT(60), <1>3 DEF Submit
  <2> DEFINE new == NewJob(ws, TRUE, FALSE, None)
  <2>2. new.status = "queued"
    BY DEF NewJob
  <2>3. jobs' = [jobs EXCEPT ![j] = new] /\ jobs[j].status = "absent"
    BY <2>1 DEF CreateOrGetObserved, AddJob
  <2> HIDE DEF new
  <2>4. worker' = worker /\ events' = events
    BY <1>3 DEF Submit, execVars
  <2>5. jobs'[j].status = "queued" /\ \A i \in JobIds \ {j} : jobs'[i] = jobs[i]
    BY <1>0, <2>2, <2>3 DEF TypeOK
  <2>6. Tells(Outcome(j), {})
    BY <1>0, <2>3 DEF Histories, Silent
  <2>7. Silent(j)' /\ Agrees(j)'
    BY <2>4, <2>5, <2>6 DEF Silent, Agrees, Outcome, Terminal, Tells
  <2>8. \A v \in Workspaces : Voiced(v)'
    BY <2>4, OtherVoice DEF Outcome
  <2>9. \A i \in JobIds \ {j} : Outcome(i)' = Outcome(i)
    BY <2>4 DEF Outcome
  <2> QED
    BY ZenonT(60), <1>0, <2>4, <2>5, <2>7, <2>8, <2>9, HistoriesJob
<1>4. ASSUME NEW j \in JobIds, CancelReads(j) \/ Revoke(j) PROVE Histories'
  BY ZenonT(60), <1>1, <1>4 DEF CancelReads, Revoke, vars
<1>5. ASSUME CancelQueued PROVE Histories'
  <2>1. /\ worker' = worker /\ canceler.job \in JobIds
        /\ \/ UNCHANGED vars /\ events' = events
           \/ FinishQueued(canceler.job, "canceled", "canceled_queued")
    BY ZenonT(60), <1>0, <1>5 DEF CancelQueued, Owned
  <2>2. \A v \in Workspaces : worker'[v] \in {worker[v], Idle}
    BY <2>1
  <2> QED
    BY <1>1, <2>1, <2>2, HistoriesQueued DEF vars
<1>6. ASSUME CancelRunning PROVE Histories'
  <2>1. /\ worker' = worker /\ jobs' = jobs /\ canceler.job \in JobIds
        /\ events' = events \/ AppendEvent(canceler.job, "cancel_requested")
    BY ZenonT(60), <1>0, <1>6 DEF CancelRunning, Owned, vars
  <2>2. "cancel_requested" \in EventKinds /\ {"cancel_requested"} \cap OutcomeEvents = {}
    BY DEF EventKinds, OutcomeEvents
  <2>3. CASE AppendEvent(canceler.job, "cancel_requested")
    <3>1. PICK j \in JobIds : j = canceler.job
      BY <2>1
    <3>2. /\ events' \in [JobIds -> SUBSET EventKinds]
          /\ \A i \in JobIds \ {j} : Outcome(i)' = Outcome(i)
          /\ Outcome(j)' = Outcome(j) \cup ({"cancel_requested"} \cap OutcomeEvents)
      BY ZenonT(60), <1>0, <2>2, <2>3, <3>1, Appended
    <3>3. \A i \in JobIds : Outcome(i)' = Outcome(i)
      BY ZenonT(60), <2>2, <3>2
    <3>4. \A i \in JobIds : Silent(i)' /\ Agrees(i)'
      BY <2>1, <3>3, SameHistory
    <3>5. ASSUME NEW v \in Workspaces PROVE Voiced(v)'
      <4> SUFFICES ASSUME worker[v].pc \in InHand PROVE Voiced(v)'
        BY <2>1 DEF Voiced
      <4>1. PICK i \in JobIds : i = worker[v].job
        BY InHandJob DEF EventInv
      <4>2. Tells(Outcome(i), Said(worker[v].pc))
        BY <1>0, <4>1 DEF Histories, Voiced
      <4> QED
        BY <2>1, <3>3, <4>1, <4>2 DEF Voiced, Outcome, Said, Tells
    <3> QED
      BY <3>2, <3>4, <3>5 DEF Histories
  <2>4. CASE events' = events
    BY <2>1, <2>4, HistoriesQuiet
  <2> QED
    BY <2>1, <2>3, <2>4
<1>7. ASSUME Stop \/ StoreFails \/ UNCHANGED allVars PROVE Histories'
  BY ZenonT(60), <1>1, <1>7
     DEF Stop, StoreFails, MarkUnavailable, allVars, execVars, vars
<1>8. ASSUME ProcessEnds PROVE Histories'
  <2>1. jobs' = jobs /\ events' = events /\ \A v \in Workspaces : worker'[v] = Idle
    BY <1>8 DEF ProcessEnds, Crash
  <2> QED
    BY <2>1, IdleSaysNothing, HistoriesQuiet
<1>9. ASSUME Restart PROVE Histories'
  <2>1. worker' = worker /\ events' = events
    BY <1>9 DEF Restart, execVars
  <2>2. ASSUME NEW j \in JobIds
        PROVE  jobs'[j] = jobs[j] \/ jobs'[j].status = "interrupted"
    <3>1. CASE AcquireExecutionLease
      BY <3>1 DEF AcquireExecutionLease
    <3>2. CASE RecoverInterruptedJobsObserved
      <4>1. jobs'[j] = IF j \in Running THEN Interrupted(jobs[j]) ELSE jobs[j]
        BY ZenonT(60), <3>2 DEF RecoverInterruptedJobsObserved
      <4>2. jobs[j] \in Job
        BY <1>0 DEF TypeOK
      <4> QED
        BY <4>1, <4>2, InterruptedType
    <3> QED
      BY <1>9, <3>1, <3>2 DEF Restart
  <2> QED
    BY <2>1, <2>2, HistoriesQuiet
<1>10. Histories'
  BY ZenonT(60), <1>2, <1>3, <1>4, <1>5, <1>6, <1>7, <1>8, <1>9 DEF ExecNext
<1> QED
  BY <1>10 DEF EventInv

LEMMA EventInit == ExecInit => EventInv
<1> SUFFICES ASSUME ExecInit PROVE EventInv
  OBVIOUS
<1>1. FenceInv /\ TableInv
  BY ZenonT(60), FenceInit, TableInit DEF ExecInit
<1>2. /\ events = [j \in JobIds |-> {}] /\ Init
      /\ \A v \in Workspaces : worker[v] = Idle
  BY DEF ExecInit
<1>3. \A j \in JobIds : jobs[j].status = "absent"
  BY <1>2 DEF Init, AbsentJob, NewJob
<1>4. \A j \in JobIds : Silent(j) /\ Agrees(j)
  BY <1>2, <1>3 DEF Silent, Agrees, Outcome, Terminal, Tells
<1>5. \A v \in Workspaces : Voiced(v)
  BY <1>2 DEF Voiced, Idle, InHand
<1>6. events \in [JobIds -> SUBSET EventKinds]
  BY <1>2
<1> QED
  BY <1>1, <1>4, <1>5, <1>6 DEF EventInv, Histories

(* The event history of a finished job names its outcome, and no other but *)
(* a cancellation or rejection from the queue that a torn write left there;*)
(* whichever of the two writes of a terminal path a fault separates.  Only *)
(* a job recovered as interrupted may have announced something else.       *)
THEOREM HistoriesAgree == ExecSpec => []EventsAgreeWithStatus
<1>1. ExecSpec => []IInv /\ []TableInv
  BY ExecutorRefinesStore, Invariant, Table, PTL
<1>2. FenceInv /\ IInv' /\ [ExecNext]_allVars => FenceInv'
  BY FenceStep
<1>3. EventInv => FenceInv /\ EventsAgreeWithStatus
  BY HistoriesSuffice DEF EventInv
<1> QED
  BY <1>1, <1>2, <1>3, EventInit, EventStep, PTL DEF ExecSpec

-----------------------------------------------------------------------------
(* Types.  The invariants above hold those of the workers, the cancel map  *)
(* and the histories; what is left is the canceler, the contexts and the   *)
(* revoked jobs.                                                           *)
Requests ==
  /\ ctxDone \subseteq JobIds /\ stopping \in BOOLEAN /\ revoked \subseteq JobIds
  /\ canceler \in [job: 0..MaxJobs, seen: {"none", "queued", "running"}]

LEMMA RequestsStep ==
  ASSUME CancelInv, Requests, [ExecNext]_allVars
  PROVE  Requests'
<1>0. Owned /\ \A j \in JobIds : j \in 0..MaxJobs
  BY DEF CancelInv, JobIds
<1>n. NoCancel \in [job: 0..MaxJobs, seen: {"none", "queued", "running"}]
  BY JobStoreAssumption DEF NoCancel
<1>1. ASSUME UNCHANGED <<ctxDone, stopping, canceler, revoked>> PROVE Requests'
  BY <1>1 DEF Requests
<1>2. ASSUME NEW ws \in Workspaces, RunWorkspace(ws) \/ WriteFails(ws) PROVE Requests'
  <2>1. UNCHANGED <<ctxDone, stopping, canceler, revoked>>
    BY ZenonT(60), <1>2 DEF RunWorkspace, WriteFails, ClaimWorkspaceJob, ClaimDenied,
       RejectQueued, WorkerExits, Execute, CheckWorkspaceExecution, AppendStarted,
       RegisterRunning, OperationReturns, CompleteRunning, FinishSucceeded, FinishFailed,
       FinishInterrupted, FinishCanceled, AppendTerminal, Transition, CheckCompensation
  <2> QED
    BY ZenonT(60), <1>1, <2>1
<1>3. ASSUME NEW ws \in Workspaces, SinkFails(ws) PROVE Requests'
  <2>1. worker[ws].job \in JobIds
    BY <1>0, <1>3 DEF SinkFails, At, Owned, Bound, AtRest
  <2>2. /\ ctxDone' = ctxDone \cup {worker[ws].job}
        /\ UNCHANGED <<stopping, canceler, revoked>>
    BY ZenonT(60), <1>3 DEF SinkFails, Job_
  <2> QED
    BY <2>1, <2>2 DEF Requests
<1>4. ASSUME NEW j \in JobIds, Submit(j) PROVE Requests'
  BY ZenonT(60), <1>1, <1>4 DEF Submit, execVars
<1>5. ASSUME NEW j \in JobIds, CancelReads(j) PROVE Requests'
  BY <1>0, <1>5 DEF CancelReads, Requests
<1>6. ASSUME NEW j \in JobIds, Revoke(j) PROVE Requests'
  BY <1>6 DEF Revoke, Requests
<1>7. ASSUME CancelQueued PROVE Requests'
  BY <1>n, <1>7 DEF CancelQueued, Requests
<1>8. ASSUME CancelRunning PROVE Requests'
  <2>1. canceler.job \in JobIds
    BY <1>0, <1>8 DEF CancelRunning, Owned
  <2> QED
    BY <1>n, <1>8, <2>1 DEF CancelRunning, Requests
<1>9. ASSUME Stop PROVE Requests'
  BY <1>9 DEF Stop, Requests
<1>10. ASSUME ProcessEnds PROVE Requests'
  BY ZenonT(60), <1>n, <1>10 DEF ProcessEnds, Requests
<1>11. ASSUME Restart \/ StoreFails \/ UNCHANGED allVars PROVE Requests'
  BY ZenonT(60), <1>1, <1>11 DEF Restart, StoreFails, allVars, execVars
<1> QED
  BY ZenonT(60), <1>2, <1>3, <1>4, <1>5, <1>6, <1>7, <1>8, <1>9, <1>10, <1>11 DEF ExecNext

(* The workers, the cancel map, the histories and the requests keep their  *)
(* types.                                                                  *)
THEOREM ExecTypeCorrect == ExecSpec => []ExecTypeOK
<1>1. ExecSpec => []IInv /\ []TableInv
  BY ExecutorRefinesStore, Invariant, Table, PTL
<1>2. ExecInit => Requests
  <2>1. NoCancel \in [job: 0..MaxJobs, seen: {"none", "queued", "running"}]
    BY JobStoreAssumption DEF NoCancel
  <2> QED
    BY ZenonT(60), <2>1 DEF ExecInit, Requests
<1>3. CancelInv /\ Requests /\ [ExecNext]_allVars => Requests'
  BY ZenonT(60), RequestsStep
<1>4. EventInv => FenceInv /\ CancelInv
  BY DEF EventInv, FenceInv
<1>5. EventInv /\ OrderInv /\ Requests => ExecTypeOK
  <2> SUFFICES ASSUME EventInv, OrderInv, Requests PROVE ExecTypeOK
    OBVIOUS
  <2>1. worker \in [Workspaces -> Locals] /\ running \subseteq JobIds /\ accepted \subseteq JobIds
    BY DEF OrderInv, CancelInv, Owned
  <2>2. events \in [JobIds -> SUBSET EventKinds] /\ halfDone \in [JobIds -> Harm]
    BY DEF EventInv, Histories, FenceInv, Fences
  <2>3. begun \in Seq(JobIds)
    BY DEF OrderInv, Begins
  <2> QED
    BY ZenonT(60), <2>1, <2>2, <2>3 DEF ExecTypeOK, Requests, Locals
<1> QED
  BY <1>1, <1>2, <1>3, <1>4, <1>5, FenceStep, EventInit, EventStep, OrderInit, OrderStep, PTL
     DEF ExecSpec
=============================================================================
