------------------------ MODULE ContainerTransaction ------------------------
(***************************************************************************)
(* Backup and manual snapshot: what was running is written to a container  *)
(* transaction before the first container is stopped, the source is frozen *)
(* by a snapshot or left in place for a copy, the recorded modules are     *)
(* started again and the record is removed.  A record that is found when   *)
(* the lock is next taken is compensated.                                  *)
(*                                                                         *)
(* run.txn is the transaction as the process holds it, run.todo the        *)
(* modules still to be stopped (or, in compensation, the records still to  *)
(* be visited), run.err whether the operation has failed.                  *)
(***************************************************************************)
EXTENDS Workspace

NoTxn == Idle.txn

\* A record is a file named by its id, whatever the file says.
Unrecorded(t) == [disk EXCEPT !.txns = {u \in @ : u.id # t.id}]
Recorded(t) == [disk EXCEPT !.txns = {u \in @ : u.id # t.id} \union {t}]

\* compose start resumes containers that still exist and never creates any.
Resume(S) == [m \in Modules |-> IF m \in S THEN [ctr[m] EXCEPT !.up = TRUE] ELSE ctr[m]]

\* startModules
startModules(S, ok, bad) ==
  LET exist == {m \in S : ctr[m].ren # 0} IN
  \/ Pending # 0 /\ run' = bad /\ NoFault /\ UNCHANGED <<ctr, hist>>
  \/ /\ Pending = 0
     /\ \/ /\ run' = IF exist = S THEN ok ELSE bad
           /\ ctr' = Resume(exist) /\ Settled(exist) /\ NoFault
        \/ \E R \in SUBSET exist :
             ctr' = Resume(R) /\ Settled(R) /\ run' = bad /\ Spend("start")

----------------------------------------------------------------------------
(* prepareBackupSource, createManualSnapshot *)

IsBackup == run.pc = "op" /\ run.op \in {"backup", "snapshot"}

\* plan.StopContainers is off, or the deployment needs no stopped snapshot.
SourceLive ==
  /\ IsBackup /\ ~run.stop
  /\ run' = At("bk_take") /\ NoFault
  /\ UNCHANGED <<disk, ctr, ops, hist>>

\* beginContainerTransaction up to its first write.
beginContainerTransaction ==
  /\ IsBackup /\ run.stop
  /\ LET t == [id |-> ops, mods |-> Running, pending |-> FALSE]
     IN SaveIndexed(Recorded(t), [run EXCEPT !.pc = "bk_stop", !.txn = t, !.todo = Running], Idle)
  /\ UNCHANGED <<ctr, ops, hist>>

beginQueryFails ==
  /\ IsBackup /\ run.stop
  /\ Spend("query") /\ run' = Idle
  /\ UNCHANGED <<disk, ctr, ops, hist>>

\* Reverse start order: a module's dependencies outlive it.
LastOf(S) == Order[CHOOSE i \in 1..Len(Order) :
                     Order[i] \in S /\ \A j \in (i + 1)..Len(Order) : Order[j] \notin S]

Failed(l) == [run EXCEPT !.pc = l, !.err = TRUE]

\* The mark of a module with a before_stop hook precedes the hook.
markCleanup ==
  /\ run.pc = "bk_stop" /\ run.todo # {}
  /\ LET t == [run.txn EXCEPT !.pending = TRUE] IN
     IF LastOf(run.todo) \in Barrier
     THEN SaveIndexed(Recorded(t), [run EXCEPT !.pc = "bk_hook", !.txn = t], Failed("bk_restart"))
     ELSE disk' = disk /\ run' = At("bk_down") /\ NoFault
  /\ UNCHANGED <<ctr, ops, hist>>

beforeStopHook ==
  /\ run.pc = "bk_hook"
  /\ \/ run' = At("bk_down") /\ NoFault
     \/ run' = Failed("bk_restart") /\ Spend("hook")
  /\ UNCHANGED <<disk, ctr, ops, hist>>

backupStopCompose ==
  /\ run.pc = "bk_down"
  /\ LET m == LastOf(run.todo) IN
     \/ /\ ctr' = [ctr EXCEPT ![m].up = FALSE]
        /\ hist' = [hist EXCEPT !.paused = @ \union {m}]
        /\ run' = At("bk_clear") /\ NoFault
     \/ run' = Failed("bk_clear") /\ Spend("stop") /\ UNCHANGED <<ctr, hist>>
  /\ UNCHANGED <<disk, ops>>

clearCleanup ==
  /\ run.pc = "bk_clear"
  /\ LET m == LastOf(run.todo)
         t == [run.txn EXCEPT !.pending = FALSE]
         next == [run EXCEPT !.pc = "bk_stop", !.txn = t, !.todo = @ \ {m}]
     IN IF m \in Barrier
        THEN SaveIndexed(Recorded(t), next, Failed("bk_restart"))
        ELSE disk' = disk /\ run' = next /\ NoFault
  /\ UNCHANGED <<ctr, ops, hist>>

confirmBackupModulesStopped ==
  /\ run.pc = "bk_stop" /\ run.todo = {}
  /\ \/ ~run.err /\ run' = At("bk_take") /\ NoFault
     \/ ~run.err /\ run' = Failed("bk_restart") /\ Spend("query")
     \/ run.err /\ run' = At("bk_restart") /\ NoFault
  /\ UNCHANGED <<disk, ctr, ops, hist>>

\* A copy only names the live files; a snapshot freezes them.
freezeSource ==
  /\ run.pc = "bk_take"
  /\ IF run.copy THEN disk' = disk /\ run' = At("bk_restart") /\ NoFault
     ELSE createSnapshot(0, 0, run.op = "backup", At("bk_restart"), Failed("bk_restart"))
  /\ UNCHANGED <<ctr, ops, hist>>

\* Mutant: the record is removed even when the restart fails.
restartAfterBackupForgets ==
  /\ run.pc = "bk_restart"
  /\ IF run.txn = NoTxn \/ run.txn.pending
     THEN run' = At("bk_after") /\ NoFault /\ UNCHANGED <<ctr, hist>>
     ELSE startModules(run.txn.mods, At("bk_remove"), At("bk_remove"))
  /\ UNCHANGED <<disk, ops>>

\* finishContainerTransaction, from restartAfterBackup or the deferred call.
\* In a backup the deferred call runs when prepareBackupSource returns.
restartAfterBackup ==
  /\ run.pc = "bk_restart"
  /\ IF run.txn = NoTxn \/ run.txn.pending
     THEN run' = At("bk_after") /\ NoFault /\ UNCHANGED <<ctr, hist>>
     ELSE startModules(run.txn.mods, At("bk_remove"), At("bk_after"))
  /\ UNCHANGED <<disk, ops>>

removeRecord ==
  /\ run.pc = "bk_remove"
  /\ Save(Unrecorded(run.txn), At("bk_after"), At("bk_after"))
  /\ UNCHANGED <<ctr, ops, hist>>

\* createBackup goes on to transferBackup.
transferBegins ==
  /\ run.pc = "bk_after"
  /\ run' = IF run.op = "backup" /\ ~run.err THEN At("bk_transfer") ELSE Idle
  /\ NoFault /\ UNCHANGED <<disk, ctr, ops, hist>>

transferEnds ==
  /\ run.pc = "bk_transfer"
  /\ run' = Idle
  /\ NoFault /\ UNCHANGED <<disk, ctr, ops, hist>>

----------------------------------------------------------------------------
(* compensateContainerTransactions *)

\* Record names are time-ordered identifiers and are visited in that order.
Oldest(T) == CHOOSE t \in T : \A u \in T : t.id <= u.id

\* Mutant: the daemon leaves every record to the command line.
compensateRecordCommandLineOnly ==
  /\ run.pc = "comp" /\ run.todo # {}
  /\ LET t == Oldest(run.todo)
         rest == [run EXCEPT !.todo = @ \ {t}]
     IN IF t.pending \/ run.daemon
        THEN run' = [rest EXCEPT !.err = TRUE] /\ NoFault /\ UNCHANGED <<ctr, hist>>
        ELSE startModules(t.mods, At("comp_remove"), [rest EXCEPT !.err = TRUE])
  /\ UNCHANGED <<disk, ops>>

compensateRecord ==
  /\ run.pc = "comp" /\ run.todo # {}
  /\ LET t == Oldest(run.todo)
         left == [run EXCEPT !.todo = @ \ {t}, !.err = TRUE]
     IN IF t.pending
        THEN run' = left /\ NoFault /\ UNCHANGED <<ctr, hist>>
        ELSE IF t.mods = {}
        THEN run' = At("comp_remove") /\ NoFault /\ UNCHANGED <<ctr, hist>>
        ELSE startModules(t.mods, At("comp_remove"), left)
  /\ UNCHANGED <<disk, ops>>

compensateRemove ==
  /\ run.pc = "comp_remove"
  /\ LET t == Oldest(run.todo)
     IN Save(Unrecorded(t), [run EXCEPT !.pc = "comp", !.todo = @ \ {t}],
             [run EXCEPT !.pc = "comp", !.todo = @ \ {t}, !.err = TRUE])
  /\ UNCHANGED <<ctr, ops, hist>>

\* CLI callers go on after a failure, daemon callers give up.
compensateDone ==
  /\ run.pc = "comp" /\ run.todo = {}
  /\ run' = IF run.err /\ run.daemon THEN Idle ELSE [run EXCEPT !.pc = "cred", !.err = FALSE]
  /\ NoFault /\ UNCHANGED <<disk, ctr, ops, hist>>

ContainerNext ==
  \/ SourceLive \/ beginContainerTransaction \/ beginQueryFails \/ markCleanup
  \/ beforeStopHook \/ backupStopCompose \/ clearCleanup
  \/ confirmBackupModulesStopped \/ freezeSource \/ restartAfterBackup \/ removeRecord
  \/ transferBegins \/ transferEnds
  \/ compensateRecord \/ compensateRemove \/ compensateDone
=============================================================================
