----------------------------- MODULE Activation -----------------------------
(***************************************************************************)
(* Putting a deployment into service: apply (of a new or a prepared        *)
(* deployment), rollback, and the lifecycle operations start, stop and     *)
(* restart of the active one.                                              *)
(*                                                                         *)
(* A change of a PostgreSQL provider is maintenance: it takes a snapshot,  *)
(* notes the target in the state of the active deployment before any data  *)
(* can change, and from then on only the noted target or a restore of a    *)
(* snapshot may go on.  run.dep is the target, run.quiet says that the     *)
(* whole active deployment was stopped for the snapshot.                   *)
(***************************************************************************)
EXTENDS Workspace

Current == disk.active.dep
Target == run.dep

\* The activation failed and what is to be put back.
Failing(what) == [run EXCEPT !.pc = "ac_failed", !.then = what]

\* Edges of the control flow without an effect.
Proceed(l, to) == run.pc = l /\ run' = to /\ NoFault /\ UNCHANGED <<disk, ctr, ops, hist>>
Write(l, new, ok, bad) == run.pc = l /\ Save(new, ok, bad) /\ UNCHANGED <<ctr, ops, hist>>
WriteState(l, new, ok, bad) ==
  run.pc = l /\ SaveIndexed(new, ok, bad) /\ UNCHANGED <<ctr, ops, hist>>
TakeDown(l, S, ok, bad, blocked) ==
  run.pc = l /\ Stop(S, ok, bad, blocked) /\ UNCHANGED <<disk, ops>>
BringUp(l, d, S, maintenance, ok, bad) ==
  run.pc = l /\ Start(d, S, maintenance, ok, bad) /\ UNCHANGED <<disk, ops>>

----------------------------------------------------------------------------
(* ExecuteLifecycle *)

IsLifecycle == run.op \in {"start", "stop", "restart"}
LifecycleRefused == (run.op # "stop" /\ Pending # 0) \/ ~StoreMatches(Current)

lifecycleBegin ==
  /\ IsLifecycle
  /\ Proceed("op", IF LifecycleRefused THEN Idle
                   ELSE IF run.op = "start" THEN At("lc_start") ELSE At("lc_stop"))
lifecycleStop ==
  TakeDown("lc_stop", run.sel, At(IF run.op = "restart" THEN "lc_start" ELSE "lc_save"), Idle, Idle)
lifecycleStart == BringUp("lc_start", Current, run.sel, FALSE, At("lc_save"), Idle)

\* Only an operation on the whole deployment changes the recorded status.
lifecycleSave ==
  IF run.sel = Modules
  THEN Write("lc_save", SetRun(IF run.op = "stop" THEN "stopped" ELSE "running"), Idle, Idle)
  ELSE Proceed("lc_save", Idle)

----------------------------------------------------------------------------
(* Apply, Rollback *)

\* materializeDeployment: a new artifact from the current configuration and
\* Secret Store; run.sel are the modules whose configuration changed.  It is
\* sealed under its own name before its state is written.
Rendered ==
  LET changed == run.sel \union IF StoreMatches(Current) THEN {} ELSE Cred
  IN [gen |-> disk.store.gen,
      ren |-> [m \in Modules |-> IF m \in changed THEN NextDep ELSE disk.art[Current].ren[m]]]
materializeDeployment ==
  /\ run.op = "apply" /\ run.dep = 0 /\ DepLeft
  /\ Write("op", [disk EXCEPT !.art[NextDep] = Rendered],
           [run EXCEPT !.pc = "ac_ready", !.dep = NextDep], Idle)
materializeReady ==
  WriteState("ac_ready", SetStatus(Target, "ready"), At("ac_check"), Idle)

applyPrepared ==
  /\ run.op = "apply" /\ run.dep # 0
  /\ LET s == disk.state[Target].status
     IN Proceed("op", IF s = "ready" \/ (s = "failed" /\ Pending = Target)
                      THEN At("ac_check") ELSE Idle)
rollbackBegin ==
  /\ run.op = "rollback"
  /\ Proceed("op", IF Target = Current \/ Target \notin Made THEN Idle ELSE At("ac_check"))

----------------------------------------------------------------------------
(* activateDeployment *)

Maintenance == postgresMaintenanceProviders(Current, Target)
RecoveryPoint(from, to) ==
  \E s \in Snap : disk.snaps[s].complete /\ disk.snaps[s].from = from /\ disk.snaps[s].to = to

\* Mutant: the Secret Store is not compared.
RefusedStoreUnchecked ==
  \/ Pending # 0 /\ (Pending # Target \/ run.op = "rollback")
  \/ Current # Target /\ Maintenance # {} /\ (run.op = "rollback" \/ Target < Current)
  \/ Current # Target /\ Pending # 0 /\ ~RecoveryPoint(Current, Target)

\* The refusals, in the order of the code; snapshots are wanted for
\* maintenance and whenever run.stop asks for one.
Refused ==
  \/ Pending # 0 /\ (Pending # Target \/ run.op = "rollback")
  \/ ~StoreMatches(Target)
  \/ Current # Target /\ Maintenance # {} /\ (run.op = "rollback" \/ Target < Current)
  \/ Current # Target /\ Pending # 0 /\ ~RecoveryPoint(Current, Target)
WantsSnapshot == run.op = "apply" /\ (Maintenance # {} \/ run.stop)

activateCheck ==
  Proceed("ac_check",
    IF Refused THEN Idle
    ELSE IF Current = Target THEN At("ac_same")
    ELSE IF Pending # 0 THEN At("ac_retry")
    ELSE IF WantsSnapshot THEN At("ac_quiesce") ELSE At("ac_intent"))

startActive == BringUp("ac_same", Target, Modules, FALSE, At("ac_status"), Idle)
saveStatus == Write("ac_status", SetRun("running"), Idle, Idle)

\* A failed maintenance is retried: its candidate is stopped once more.
stopFailedCandidate ==
  TakeDown("ac_retry", Modules, [run EXCEPT !.pc = "ac_start", !.quiet = TRUE], Idle, Idle)

\* snapshotBeforeApply
quiesce == TakeDown("ac_quiesce", Modules, At("ac_snap"), Idle, Idle)
snapshotBeforeApply ==
  /\ run.pc = "ac_snap"
  /\ createSnapshot(Current, Target, TRUE, [run EXCEPT !.pc = "ac_intent", !.quiet = TRUE],
                    Failing("previous"))
  /\ UNCHANGED <<ctr, ops, hist>>

\* recordPostgresMaintenanceIntent
recordTarget ==
  /\ run.pc = "ac_intent"
  /\ IF Maintenance = {} THEN Proceed("ac_intent", At("ac_stop"))
     ELSE /\ SaveIndexed([disk EXCEPT !.state[Current].target = Target,
                                      !.guards = @ \ {Current}], At("ac_stopped"), Idle)
          /\ hist' = [hist EXCEPT !.held = @ \/ disk' # disk]
          /\ UNCHANGED <<ctr, ops>>
recordStopped == Write("ac_stopped", SetRun("stopped"), At("ac_stop"), Idle)

\* Without a pause only what changed is stopped and started.
Whole == run.quiet \/ disk.active.run = "stopped"
stopChanged ==
  IF Whole THEN Proceed("ac_stop", At("ac_start"))
  ELSE TakeDown("ac_stop", Changed(Current, Target), At("ac_start"),
                Failing("changed"), Failing("nothing"))
startTarget ==
  BringUp("ac_start", Target, IF Whole THEN Modules ELSE Changed(Current, Target),
          Maintenance # {}, At("ac_previous"), Failing("switch"))

\* recordActivationFailure: the failure is recorded before the recovery and
\* again with its outcome, whether or not either save succeeds, and replaces
\* the detail the state held.
ActivationFailed ==
  [disk EXCEPT !.state[Target] = [status |-> "failed", target |-> 0], !.guards = @ \ {Target}]
recordActivationFailure ==
  LET next == CASE run.then = "nothing" -> At("ac_outcome") [] run.then = "switch" -> At("ac_undo")
                [] OTHER -> At("ac_back")
  IN WriteState("ac_failed", ActivationFailed, next, next)
stopTarget == TakeDown("ac_undo", Modules, At("ac_back"), At("ac_outcome"), At("ac_outcome"))
restorePreviousDeployment ==
  BringUp("ac_back", Current, IF run.then = "changed" THEN Changed(Current, Target) ELSE Modules,
          FALSE, At("ac_outcome"), At("ac_outcome"))
recordRecovery == WriteState("ac_outcome", ActivationFailed, Idle, Idle)

markPrevious ==
  WriteState("ac_previous", SetStatus(Current, "previous"), At("ac_commit"), At("ac_commit"))
commitActive ==
  /\ run.pc = "ac_commit"
  /\ Save(SetActive(Target, "running"), At("ac_state"), Failing("switch"))
  /\ hist' = [hist EXCEPT !.held = @ /\ disk' = disk]
  /\ UNCHANGED <<ctr, ops>>
markActive ==
  WriteState("ac_state", [disk EXCEPT !.state[Target] = [status |-> "active", target |-> 0],
                                      !.guards = @ \ {Target}], At("ac_prune"), Idle)
\* A snapshot that cannot be deleted is reported and the next one is tried.
collectAutomaticSnapshots ==
  /\ run.pc = "ac_prune" /\ run' = Idle
  /\ \/ disk' = Deleted(Prunable) /\ NoFault
     \/ \E R \in SUBSET Prunable : R # Prunable /\ disk' = Deleted(R) /\ Spend("write")
  /\ UNCHANGED <<ctr, ops, hist>>

ActivationNext ==
  \/ lifecycleBegin \/ lifecycleStop \/ lifecycleStart \/ lifecycleSave
  \/ materializeDeployment \/ materializeReady \/ applyPrepared \/ rollbackBegin
  \/ activateCheck \/ startActive \/ saveStatus \/ stopFailedCandidate \/ quiesce
  \/ snapshotBeforeApply \/ recordTarget \/ recordStopped \/ stopChanged \/ startTarget
  \/ recordActivationFailure \/ stopTarget \/ restorePreviousDeployment
  \/ recordRecovery
  \/ markPrevious \/ commitActive \/ markActive \/ collectAutomaticSnapshots
=============================================================================
