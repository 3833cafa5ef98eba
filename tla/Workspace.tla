----------------------------- MODULE Workspace -----------------------------
(***************************************************************************)
(* The part of a workspace that its runtime operations share: the files    *)
(* below .anas, the snapshots, the data tree and the containers.  One      *)
(* operation at a time holds the exclusive runtime lock, so the operation  *)
(* at work is a single record, run; a crash erases it and leaves the files *)
(* and the containers as they are.                                         *)
(*                                                                         *)
(* A deployment is sealed when it is made and identified by its number, so *)
(* a larger number is a later artifact.  What is rendered for a module is  *)
(* identified by the deployment that introduced it: two deployments have   *)
(* the same render of a module when their ren agrees on it.                *)
(***************************************************************************)
EXTENDS Integers, FiniteSets, Sequences

CONSTANTS
  Order,      \* the modules, in start order
  Cred,       \* the modules a credential rotation restarts
  Pg,         \* the PostgreSQL providers
  Barrier,    \* the modules that declare a before_stop hook
  MaxDep,     \* bound: deployments ever made
  MaxSnap,    \* bound: snapshots ever made
  KeepAuto,   \* automatic snapshots that retention keeps
  MaxOps,     \* bound: operations started, recovery checks not counted
  MaxFaults,  \* bound: failed steps and crashes
  Faults,     \* the kinds of step that may fail: write, start, stop, query, hook, crash
  Ops         \* the operations that are started

Modules == {Order[i] : i \in DOMAIN Order}
Dep == 1..MaxDep
Snap == 1..MaxSnap

\* The contents of the data tree: those the snapshots captured and one that the
\* services have written since.
Versions == 0..MaxSnap

OpNames == {"rotate", "apply", "rollback", "start", "stop", "restart", "backup", "snapshot", "restore"}

ASSUME WorkspaceAssumption ==
  /\ Order \in Seq(Modules) /\ Ops \subseteq OpNames
  /\ Cred \subseteq Modules /\ Pg \subseteq Modules /\ Barrier \subseteq Modules
  /\ MaxDep \in Nat \ {0} /\ MaxSnap \in Nat \ {0}
  /\ {MaxOps, MaxFaults, KeepAuto} \subseteq Nat

VARIABLES
  disk,    \* everything that survives a crash, see DiskType
  ctr,     \* per module, the render its containers were created from (0: none) and whether they run
  run,     \* the operation that holds the lock
  ops,     \* operations started so far
  budget,  \* faults still to come
  hist     \* history: modules a backup stopped; a restore is half in place; PostgreSQL
           \* maintenance is noted; a snapshot of a mixed workspace was restored

vars == <<disk, ctr, run, ops, budget, hist>>

Phases == {"planned", "candidate_created", "previous_stopped", "candidate_activating",
           "candidate_verified", "store_committed", "candidate_promoted",
           "restoring_previous", "previous_restored", "recovery_required", "complete"}
Statuses == {"", "ready", "candidate", "active", "previous", "failed"}

StateType == [status : Statuses, target : 0..MaxDep]
StoreType == [gen : 1..(MaxDep + 1), by : 0..MaxDep]
ArtifactType == [gen : 0..(MaxDep + 1), ren : [Modules -> 0..MaxDep]]
SnapshotType == [dep : 0..MaxDep, complete : BOOLEAN, store : StoreType, state : StateType,
                 data : Versions, from : 0..MaxDep, to : 0..MaxDep, auto : BOOLEAN]
ActiveType == [dep : Dep, run : {"running", "stopped"}, txn : BOOLEAN]
JournalType == [phase : Phases, prev : 0..MaxDep, cand : 0..MaxDep, committed : BOOLEAN]
TransactionType == [id : 0..MaxOps, mods : SUBSET Modules, pending : BOOLEAN]

DiskType ==
  [active : ActiveType,
   art    : [Dep -> ArtifactType],   \* gen 0: not made yet
   state  : [Dep -> StateType],      \* target: postgres_maintenance_target
   guards : SUBSET Dep,              \* deployments whose state names an unfinished data restore
   store  : StoreType,               \* the Secret Store: generation and the rotation that wrote it
   jrn    : JournalType,
   txns   : SUBSET TransactionType,
   snaps  : [Snap -> SnapshotType],  \* dep 0: not made yet
   data   : SUBSET Versions,         \* empty: the data directory is missing
   aside  : SUBSET (Snap \X Versions)]
ContainerType == [ren : 0..MaxDep, up : BOOLEAN]
HistoryType == [paused : SUBSET Modules, mixed : BOOLEAN, held : BOOLEAN, torn : BOOLEAN]

Idle == [pc |-> "idle", op |-> "none", daemon |-> FALSE, dep |-> 0, sel |-> {}, snap |-> 0,
         txn |-> [id |-> 0, mods |-> {}, pending |-> FALSE], todo |-> {}, err |-> FALSE,
         stop |-> FALSE, copy |-> FALSE, quiet |-> FALSE, rec |-> FALSE, then |-> "none"]

\* The operation goes on at label l.
At(l) == [run EXCEPT !.pc = l]

----------------------------------------------------------------------------
(* Files *)

Spend(kind) == kind \in Faults /\ budget > 0 /\ budget' = budget - 1
NoFault == UNCHANGED budget

\* writeYAMLAtomic: a rename either happens or the old file stays.
Save(new, ok, bad) ==
  \/ disk' = new /\ run' = ok /\ NoFault
  \/ disk' = disk /\ run' = bad /\ Spend("write")

\* saveDeploymentState rebuilds the index after the file is in place, so it
\* may report an error for a state it has written; the same holds for the
\* directory sync of a container transaction.
SaveIndexed(new, ok, bad) ==
  \/ Save(new, ok, bad)
  \/ disk' = new /\ run' = bad /\ Spend("write")

SetStatus(d, s) == [disk EXCEPT !.state[d].status = s]
Journal(p) == [disk EXCEPT !.jrn.phase = p]
SetActive(d, r) == [disk EXCEPT !.active = [dep |-> d, run |-> r, txn |-> FALSE]]
SetRun(r) == [disk EXCEPT !.active.run = r]
Guarding(G) == [disk EXCEPT !.guards = G]

Made == {d \in Dep : disk.art[d].gen # 0}
NextDep == Cardinality(Made) + 1
DepLeft == NextDep \in Dep       \* bound
Unfinished == disk.jrn.phase # "complete"

\* credentialStoreBlocker compares generations.
StoreMatches(d) == disk.art[d].gen = disk.store.gen

Changed(from, to) == {m \in Modules : disk.art[from].ren[m] # disk.art[to].ren[m]}
postgresMaintenanceProviders(from, to) == Changed(from, to) \cap Pg

\* postgresMaintenancePending: a restore guard of any deployment comes first,
\* then the target in the state of the active deployment; -1 is "restore:".
Pending ==
  IF disk.guards # {} THEN -1 ELSE disk.state[disk.active.dep].target

----------------------------------------------------------------------------
(* Containers *)

Up(m) == ctr[m].up
Running == {m \in Modules : Up(m)}

\* The sets of modules that have been reached when a walk over S in start
\* order is interrupted.
Reached(S) == {{Order[i] : i \in {j \in 1..n : Order[j] \in S}} : n \in 0..Len(Order)}

Create(d, S) ==
  [m \in Modules |-> IF m \in S THEN [ren |-> disk.art[d].ren[m], up |-> TRUE] ELSE ctr[m]]
Remove(S) == [m \in Modules |-> IF m \in S THEN [ren |-> 0, up |-> FALSE] ELSE ctr[m]]

\* A module that is created or removed by an operation is no longer one that
\* a backup left stopped.
Settled(S) == hist' = [hist EXCEPT !.paused = @ \ S]

\* Mutant: uncertain data does not keep a deployment from starting.
StartUnguarded(d, S, maintenance, ok, bad) ==
  \/ ctr' = Create(d, S) /\ Settled(S) /\ run' = ok /\ NoFault
  \/ \E R \in Reached(S) :
       ctr' = Create(d, R) /\ Settled(R) /\ run' = bad /\ Spend("start")

\* startDeployment: compose up of the selected modules of d with their ready
\* barriers; refused while data is uncertain unless the caller is the
\* maintenance itself.
Start(d, S, maintenance, ok, bad) ==
  \/ /\ Pending # 0 /\ ~maintenance
     /\ run' = bad /\ NoFault /\ UNCHANGED <<ctr, hist>>
  \/ /\ Pending = 0 \/ maintenance
     /\ \/ ctr' = Create(d, S) /\ Settled(S) /\ run' = ok /\ NoFault
        \/ \E R \in Reached(S) :
             ctr' = Create(d, R) /\ Settled(R) /\ run' = bad /\ Spend("start")

\* stopRelease and stopModules: compose down in reverse start order.  A module
\* that cannot be taken down is skipped; a failed before_stop hook ends the walk,
\* so that only what comes after it in start order is down.
Behind(m) == {Order[j] : j \in {k \in 1..Len(Order) : \E i \in 1..(k - 1) : Order[i] = m}}

Stop(S, ok, bad, blocked) ==
  \/ ctr' = Remove(S) /\ Settled(S) /\ run' = ok /\ NoFault
  \/ \E R \in SUBSET S : ctr' = Remove(R) /\ Settled(R) /\ run' = bad /\ Spend("stop")
  \/ \E m \in S \cap Barrier : \E R \in SUBSET (S \cap Behind(m)) :
       ctr' = Remove(R) /\ Settled(R) /\ run' = blocked /\ Spend("hook")

----------------------------------------------------------------------------
(* Snapshots *)

Taken == {s \in Snap : disk.snaps[s].dep # 0}
NextSnap == Cardinality(Taken) + 1
SnapLeft == NextSnap \in Snap    \* bound

\* createSnapshot: built under a temporary name, renamed into place, and only
\* then marked complete and indexed; what is left under the temporary name is removed by
\* the next holder of the lock.
Captured(from, to, auto, complete) ==
  [dep |-> disk.active.dep, complete |-> complete, store |-> disk.store,
   state |-> disk.state[disk.active.dep], data |-> CHOOSE v \in disk.data : TRUE,
   from |-> from, to |-> to, auto |-> auto]

createSnapshot(from, to, auto, ok, bad) ==
  \/ /\ disk.data # {} /\ SnapLeft
     /\ \/ /\ disk' = [disk EXCEPT !.snaps[NextSnap] = Captured(from, to, auto, TRUE)]
           /\ run' = ok /\ NoFault
        \/ /\ \E complete \in BOOLEAN :
                disk' = [disk EXCEPT !.snaps[NextSnap] = Captured(from, to, auto, complete)]
           /\ run' = bad /\ Spend("write")
  \/ disk.data = {} /\ disk' = disk /\ run' = bad /\ NoFault
  \/ disk' = disk /\ run' = bad /\ Spend("write")

\* snapshotsToPrune: the automatic snapshots beyond the newest KeepAuto, and
\* an incomplete one counts as well.
Prunable ==
  LET auto == {s \in Snap : disk.snaps[s].auto}
  IN {s \in auto : Cardinality({t \in auto : t > s}) >= KeepAuto}

\* A snapshot that was deleted is neither restored nor counted.
Deleted(S) ==
  [disk EXCEPT !.snaps = [s \in Snap |-> IF s \in S
                                         THEN [@[s] EXCEPT !.complete = FALSE, !.auto = FALSE]
                                         ELSE @[s]]]
=============================================================================
