---------------------------- MODULE DataRestore ----------------------------
(***************************************************************************)
(* Restoring a snapshot.  Six paths are replaced one after the other, so a *)
(* guard in the deployment states keeps everything from starting until the *)
(* last of them is in place, and a snapshot of what is replaced is taken   *)
(* first.                                                                  *)
(***************************************************************************)
EXTENDS Workspace

Source == disk.snaps[run.snap]

\* The deployment and the Secret Store of a snapshot belong together; they do
\* not in the snapshot a restore takes of a workspace that an earlier one left
\* half replaced.
Coherent(s) == disk.art[s.dep].gen = s.store.gen

\* A step that writes one file, and what it adds to the history: mixed while
\* some of the workspace is the snapshot's and some is not.
Replace(l, new, past, ok, bad) ==
  /\ run.pc = l
  /\ \/ disk' = new /\ run' = ok /\ NoFault /\ hist' = past
     \/ disk' = disk /\ run' = bad /\ Spend("write") /\ UNCHANGED hist
  /\ UNCHANGED <<ctr, ops>>
Note(l, new, ok, bad) == run.pc = l /\ SaveIndexed(new, ok, bad) /\ UNCHANGED <<ctr, ops, hist>>

\* verifySnapshot and the check that there is a data subvolume to replace.
Restorable == Source.complete /\ disk.data # {}

restoreRefused ==
  /\ run.pc = "op" /\ run.op = "restore" /\ ~Restorable
  /\ run' = Idle /\ NoFault /\ UNCHANGED <<disk, ctr, ops, hist>>

\* Mutant: the guard is not persisted.
beginDataRestoreGuardUnsaved ==
  /\ run.op = "restore" /\ Restorable
  /\ Note("op", disk, At("rs_stopped"), Idle)

\* beginDataRestoreGuard
beginDataRestoreGuard ==
  /\ run.op = "restore" /\ Restorable
  /\ Note("op", Guarding(disk.guards \union {disk.active.dep}), At("rs_stopped"), Idle)
guardStopped == Replace("rs_stopped", SetRun("stopped"), hist, At("rs_stop"), Idle)

stopActiveDeployment ==
  run.pc = "rs_stop" /\ Stop(Modules, At("rs_pre"), Idle, Idle) /\ UNCHANGED <<disk, ops>>
\* Mutant: the restore goes on without its snapshot.
preRestoreSnapshotOptional ==
  /\ run.pc = "rs_pre"
  /\ createSnapshot(0, 0, TRUE, At("rs_store"), At("rs_store"))
  /\ UNCHANGED <<ctr, ops, hist>>
preRestoreSnapshot ==
  /\ run.pc = "rs_pre"
  /\ createSnapshot(0, 0, TRUE, At("rs_store"), Idle)
  /\ UNCHANGED <<ctr, ops, hist>>

\* Mutant: the Secret Store is left as it is.
restoreStoreKept ==
  Replace("rs_store", disk, [hist EXCEPT !.mixed = TRUE], At("rs_aside"), Idle)

\* The configuration files and the Secret Store.  The sealed artifact is
\* never reused, so the one on disk is already the snapshot's.
restoreStore ==
  Replace("rs_store", [disk EXCEPT !.store = Source.store], [hist EXCEPT !.mixed = TRUE],
          At("rs_aside"), Idle)

\* restoreDataSubvolume
asideExists ==
  /\ run.pc = "rs_aside" /\ \E v \in Versions : <<run.snap, v>> \in disk.aside
  /\ run' = Idle /\ NoFault /\ UNCHANGED <<disk, ctr, ops, hist>>
moveAside ==
  /\ \A v \in Versions : <<run.snap, v>> \notin disk.aside
  /\ Replace("rs_aside", [disk EXCEPT !.data = {}, !.aside = @ \union {<<run.snap, v>> : v \in disk.data}],
             hist, At("rs_data"), Idle)

\* The data that was moved aside is put back when the copy fails, if it can be.
Returned ==
  [disk EXCEPT !.data = {v \in Versions : <<run.snap, v>> \in disk.aside},
               !.aside = {a \in @ : a[1] # run.snap}]
copySnapshotData ==
  /\ run.pc = "rs_data"
  /\ \/ disk' = [disk EXCEPT !.data = {Source.data}] /\ run' = At("rs_delete") /\ NoFault
     \/ disk' \in {disk, Returned} /\ run' = Idle /\ Spend("write")
  /\ UNCHANGED <<ctr, ops, hist>>

\* A copy that cannot be deleted is left behind with a warning.
deleteAside ==
  Replace("rs_delete", [disk EXCEPT !.aside = {a \in @ : a[1] # run.snap}], hist,
          At("rs_state"), At("rs_state"))

\* finishDataRestore
restoreState ==
  Note("rs_state", [disk EXCEPT !.state[Source.dep] = Source.state,
                                !.guards = @ \union {Source.dep}], At("rs_active"), Idle)
restoreActive ==
  Replace("rs_active", SetActive(Source.dep, "stopped"),
          [hist EXCEPT !.mixed = FALSE, !.held = FALSE, !.torn = @ \/ ~Coherent(Source)],
          At("rs_index"), Idle)
rebuildDeploymentIndex ==
  /\ run.pc = "rs_index"
  /\ \/ run' = At("rs_clear") /\ NoFault
     \/ run' = Idle /\ Spend("write")
  /\ UNCHANGED <<disk, ctr, ops, hist>>
clearGuard ==
  /\ disk.guards # {}
  /\ LET d == CHOOSE g \in disk.guards : \A h \in disk.guards : g <= h
     IN Note("rs_clear", Guarding(disk.guards \ {d}),
             IF disk.guards = {d} THEN Idle ELSE At("rs_clear"), Idle)

RestoreNext ==
  \/ restoreRefused \/ beginDataRestoreGuard \/ guardStopped \/ stopActiveDeployment
  \/ preRestoreSnapshot \/ restoreStore \/ asideExists \/ moveAside \/ copySnapshotData
  \/ deleteAside \/ restoreState \/ restoreActive \/ rebuildDeploymentIndex \/ clearGuard
=============================================================================
