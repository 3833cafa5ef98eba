-------------------------- MODULE WorkspaceRuntime --------------------------
(***************************************************************************)
(* The runtime operations of a workspace composed: each takes the          *)
(* exclusive lock, recovers what an earlier one left unfinished and then   *)
(* does its own work.  The process may die between any two steps.          *)
(***************************************************************************)
EXTENDS ContainerTransaction, CredentialRotation, Activation, DataRestore

Init ==
  /\ disk = [active |-> [dep |-> 1, run |-> "running", txn |-> FALSE],
             art    |-> [d \in Dep |-> [gen |-> IF d = 1 THEN 1 ELSE 0,
                                        ren |-> [m \in Modules |-> IF d = 1 THEN 1 ELSE 0]]],
             state  |-> [d \in Dep |-> [status |-> IF d = 1 THEN "active" ELSE "", target |-> 0]],
             guards |-> {},
             store  |-> [gen |-> 1, by |-> 0],
             jrn    |-> [phase |-> "complete", prev |-> 0, cand |-> 0, committed |-> FALSE],
             txns   |-> {},
             snaps  |-> [s \in Snap |->
                          [dep |-> IF s = 1 THEN 1 ELSE 0, complete |-> s = 1,
                           store |-> [gen |-> 1, by |-> 0],
                           state |-> [status |-> IF s = 1 THEN "active" ELSE "", target |-> 0],
                           data |-> 0, from |-> 0, to |-> 0, auto |-> FALSE]],
             data   |-> {1},
             aside  |-> {}]
  /\ ctr = [m \in Modules |-> [ren |-> 1, up |-> TRUE]]
  /\ run = Idle
  /\ ops = 0
  /\ budget = MaxFaults
  /\ hist = [paused |-> {}, mixed |-> FALSE, held |-> FALSE, torn |-> FALSE]

----------------------------------------------------------------------------
(* selectLifecycleModules: start adds dependencies, stop and restart add    *)
(* dependents; every module depends on those before it in Order.            *)
Selections(op) ==
  {S \in IF op = "start" THEN Reached(Modules) ELSE {Modules \ R : R \in Reached(Modules)} : S # {}}

Request(op) == [Idle EXCEPT !.pc = "lock", !.op = op]

\* The operations an operator or the daemon asks for, with their arguments.
Requested(op) ==
  \/ /\ op \in {"start", "stop", "restart"}
     /\ \E S \in Selections(op), b \in BOOLEAN : run' = [Request(op) EXCEPT !.sel = S, !.daemon = b]
  \/ /\ op = "apply"
     /\ \E b \in BOOLEAN :
          \/ \E S \in (SUBSET Modules) \ {{}} : run' = [Request(op) EXCEPT !.sel = S, !.stop = b]
          \/ \E d \in Made : run' = [Request(op) EXCEPT !.dep = d, !.stop = b]
  \/ op = "rollback" /\ \E d \in Made : run' = [Request(op) EXCEPT !.dep = d]
  \/ op = "backup" /\ \E b, c \in BOOLEAN : run' = [Request(op) EXCEPT !.stop = b, !.copy = c]
  \/ op = "snapshot" /\ \E b \in BOOLEAN : run' = [Request(op) EXCEPT !.stop = b]
  \/ op = "restore" /\ \E s \in Snap : /\ disk.snaps[s].complete
                                       /\ run' = [Request(op) EXCEPT !.snap = s]
  \/ op = "rotate" /\ run' = Request(op)

Begin ==
  /\ run = Idle /\ ops < MaxOps
  /\ \E op \in Ops : Requested(op)
  /\ ops' = ops + 1 /\ NoFault /\ UNCHANGED <<disk, ctr, hist>>

\* Services change what they store while they run.  Only a change of a tree
\* that some snapshot holds can be told apart later.
servicesWrite ==
  /\ Running # {}
  /\ LET held == {disk.snaps[s].data : s \in Taken}
         other == Versions \ (held \union {a[2] : a \in disk.aside})
     IN /\ disk.data # {} /\ disk.data \subseteq held /\ other # {}
        /\ disk' = [disk EXCEPT !.data = {CHOOSE v \in other : TRUE}]
  /\ UNCHANGED <<ctr, run, ops, budget, hist>>

\* CheckCompensation: the daemon takes the lock for recovery alone.
CheckCompensation ==
  /\ run = Idle /\ (disk.txns # {} \/ Unfinished)
  /\ run' = [Request("check") EXCEPT !.daemon = TRUE]
  /\ NoFault /\ UNCHANGED <<disk, ctr, ops, hist>>

\* acquireRuntimeLockWithRecovery: container transactions first, credential
\* rotation second.
acquireRuntimeLock ==
  /\ run.pc = "lock"
  /\ run' = [run EXCEPT !.pc = "comp", !.todo = disk.txns]
  /\ NoFault /\ UNCHANGED <<disk, ctr, ops, hist>>
checkEnds ==
  /\ run.pc = "op" /\ run.op = "check"
  /\ run' = Idle /\ NoFault /\ UNCHANGED <<disk, ctr, ops, hist>>

Crash ==
  /\ run # Idle /\ Spend("crash")
  /\ run' = Idle /\ UNCHANGED <<disk, ctr, ops, hist>>

Step == ContainerNext \/ CredentialNext \/ ActivationNext \/ RestoreNext
          \/ acquireRuntimeLock \/ checkEnds
Next == Begin \/ CheckCompensation \/ Step \/ Crash \/ servicesWrite

Spec == Init /\ [][Next]_vars

\* A process that holds the lock keeps going until it ends or dies.  Nobody has
\* to take the lock: the daemon checks compensation once for a canceled job and
\* never for an operation of the command line.
FairSpec == Spec /\ WF_vars(Step)

\* Recovery is tried again and again, more than the code promises.
RetrySpec == FairSpec /\ WF_vars(CheckCompensation)

----------------------------------------------------------------------------
(* Properties *)

\* Files, containers and the operation at work have the shapes the code
\* gives them.
TypeOK ==
  /\ disk \in DiskType
  /\ ctr \in [Modules -> ContainerType]
  /\ ops \in 0..MaxOps /\ budget \in 0..MaxFaults
  /\ hist \in HistoryType

\* While a restore has replaced some of the workspace and not all of it, no
\* container runs, whichever operation comes next and wherever it dies
\* (restore_guard.go, postgresMaintenancePending).
HalfRestoredStaysDown == hist.mixed => Running = {}

\* Outside a rotation every running container that carries a credential has
\* the generation the Secret Store has (credentialStoreBlocker, recovery),
\* unless a snapshot of a half restored workspace was itself restored.
RunningCredentialsMatchStore ==
  ~Unfinished /\ ~hist.torn => \A m \in Cred \cap Running : StoreMatches(ctr[m].ren)

\* When no rotation and no restore is unfinished the active deployment and
\* the Secret Store agree, so that it can be started, with the same exception.
ActiveMatchesStore ==
  ~Unfinished /\ disk.guards = {} /\ ~hist.torn => StoreMatches(disk.active.dep)

\* A rotation restores the previous deployment only while the Secret Store is
\* uncommitted, and promotes its candidate only after the commit
\* (recoverCredentialRotation decides by what the Store says).
RotationFollowsStore ==
  Unfinished =>
    /\ disk.jrn.phase \in {"restoring_previous", "previous_restored"} => ~StoreReflects
    /\ disk.active.dep = Cand \/ disk.jrn.committed => StoreReflects

\* What a backup stopped and did not start again is named by a transaction
\* on disk (beginContainerTransaction: the record precedes the first stop).
PausedIsRecorded ==
  \A m \in hist.paused : \E t \in disk.txns : m \in t.mods

\* From the moment PostgreSQL maintenance is noted until its target is active
\* or a restore is complete, data counts as uncertain; while no restore is under
\* way the recovery point exists and no provider runs the artifact it had
\* before.  A new provider is only started after the note.  An operator who
\* deletes the recovery point by hand is not part of this.
MaintenanceHoldsBack ==
  /\ hist.held => Pending # 0
  /\ hist.held /\ Pending > 0 =>
       /\ RecoveryPoint(Current, Pending)
       /\ \A m \in postgresMaintenanceProviders(Current, Pending) :
            Up(m) => ctr[m].ren # disk.art[Current].ren[m]
  /\ run.pc = "ac_start" /\ Maintenance # {} => Pending = Target /\ RecoveryPoint(Current, Target)

\* Data that a restore is about to replace is held by a complete snapshot,
\* and data that is missing was moved aside (restoreDataSubvolume).
ReplacedDataIsCaptured ==
  /\ run.pc = "rs_aside" =>
       \A v \in disk.data : \E s \in Snap : disk.snaps[s].complete /\ disk.snaps[s].data = v
  /\ disk.data = {} => disk.aside # {}

\* Of the operations here, restoring and only restoring takes the Secret Store
\* back.
StoreOnlyAdvances ==
  [][disk'.store # disk.store => disk'.store.gen > disk.store.gen \/ run.op = "restore"]_vars

\* Whoever next takes the lock settles an interrupted rotation, wherever it was
\* interrupted: one acquisition in which no further step fails is enough
\* (acquireRuntimeLockWithRecovery).  Not so while data is uncertain, nor for
\* the daemon while a container transaction is open, since it may give up there.
RotationSettles ==
  \A b \in 0..MaxFaults :
    (/\ run.pc = "lock" /\ Unfinished /\ budget = b
     /\ Pending = 0 /\ (run.daemon => disk.txns = {}))
      ~> (~Unfinished \/ budget < b)

\* Uncertain data can be crossed by a retry or a restore; both need the lock,
\* and so the recovery of a rotation that is unfinished at that time
\* (postgres_maintenance.go:156, postgresMaintenancePending).
UncertainDataCanBeCrossed == Pending # 0 /\ Unfinished ~> Pending = 0 \/ ~Unfinished

\* Whose duty it is to start a module that a backup stopped: the backup's own,
\* and then that of whoever takes the lock and finds it in a record whose
\* cleanup is confirmed.  Nobody may while data is uncertain.
MustStart(m) ==
  /\ Pending = 0
  /\ \/ run.pc = "bk_stop" /\ m \in run.txn.mods
     \/ run.pc = "lock" /\ \E t \in disk.txns : m \in t.mods /\ ~t.pending

\* A module that a backup stopped runs again or was taken over by another
\* operation before the process that owes it the start is through, unless a
\* further step fails (finishContainerTransaction,
\* compensateContainerTransactions).
PausedComeBack ==
  \A m \in Modules, b \in 0..MaxFaults :
    (m \in hist.paused /\ MustStart(m) /\ budget = b)
      ~> (m \notin hist.paused \/ budget < b)

\* The copy of a backup without a snapshot reads files of stopped services.
CopyReadsStoppedServices ==
  run.pc = "bk_transfer" /\ run.stop /\ run.copy => Running = {}
=============================================================================
