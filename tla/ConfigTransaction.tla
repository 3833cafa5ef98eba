-------------------------- MODULE ConfigTransaction --------------------------
(* The workspace configuration transaction: config.yml, the Secret Store     *)
(* and the managed state are replaced together by a redo journal, under the  *)
(* exclusive workspace lock, by PutConfig; the command line replaces them    *)
(* file by file; every holder of the lock first recovers what an earlier one *)
(* left behind.                                                              *)
(*                                                                           *)
(* A file operation is one step.  Changes of directories reach the disk in   *)
(* the order in which they are made, and a directory that is synced takes    *)
(* every earlier change along; until then a loss of power may undo them.     *)
EXTENDS Naturals, Sequences

CONSTANTS Clients,        \* callers of GetConfig and PutConfig
          Docs,           \* normalised configurations a writer may ask for
          Stores,         \* contents of the Secret Store
          HandEdit,       \* what an editor leaves in config.yml
          None,           \* an absent file, no manifest, nobody
          MaxValidators,  \* bound: validators that are minted
          Faults, MaxFaults

VARIABLES disk,    \* the files: targets, and the transaction directory
          after,   \* the disks a loss of power may leave
          h,       \* the holder of the exclusive workspace lock
          seen,    \* per client: the configuration and validator it holds
          answer,  \* per client: the answer to its last PUT
          minted,  \* history: for each validator, the configuration it is for
          raced,   \* an editor has changed a file under a transaction: before its
                   \* validation ("closed") or after it ("late")
          faults   \* faults so far

vars == <<disk, after, h, seen, answer, minted, raced, faults>>

Roles == {"config", "secrets", "managed_state"}
\* workspaceConfigTransactionFiles fixes the order.
Order == <<"config", "secrets", "managed_state">>

\* The managed state: the digest of the configuration it was written for and
\* the validator clients present; 0 is the legacy state without a validator.
States == [digest : Docs \cup {HandEdit}, validator : Nat]
\* What each role is filled with: of sets, or of the files of a tuple.
Fill(r, config, secrets, state) ==
    IF r = "config" THEN config ELSE IF r = "secrets" THEN secrets ELSE state
Contents(r) == {None} \cup Fill(r, Docs \cup {HandEdit}, Stores, States)
Data == {None, HandEdit} \cup Docs \cup Stores \cup States
Tuples == {t \in [Roles -> Data] : \A r \in Roles : t[r] \in Contents(r)}
Files  == {f \in [role : Roles, data : Data] : f.data \in Contents(f.role)}

Manifests == [old : Tuples, new : Tuples]

FaultKinds == {"write", "sync", "crash", "power", "edit"}

ASSUME ConfigAssumption ==
    /\ None \notin Clients \cup Docs \cup Stores \cup {HandEdit, "cli", "reader"}
    /\ None \notin States \cup Tuples \cup Manifests
    /\ {"cli", "reader"} \cap Clients = {}
    /\ HandEdit \notin Docs
    /\ MaxValidators \in Nat /\ MaxFaults \in Nat
    /\ Faults \subseteq FaultKinds

\* A disk: the transaction directory exists, its manifest (the old and the new
\* tuple), its complete images of the new files, and the three targets.
NoDir(target) == [dir |-> FALSE, manifest |-> None, images |-> {}, target |-> target]

\* The tuple the next holder of the lock works with.
View(d) == IF d.manifest = None THEN d.target ELSE d.manifest.new

Change(d) == /\ disk' = d
             /\ after' = after \cup {d}
Sync == /\ after' = {disk}
        /\ disk' = disk
SetTarget(r, data) == Change([disk EXCEPT !.target = [@ EXCEPT ![r] = data]])

Fault(kind) == /\ kind \in Faults /\ faults < MaxFaults
               /\ faults' = faults + 1

-----------------------------------------------------------------------------
(* The lock and what its holder works on.                                    *)

\* who holds the lock, where it is, why it cleans up or publishes, what it was
\* asked for, the tuple it checked and the one it puts in place, the role it
\* is at, and for the command line the files still to replace and to restore.
Free == [pc |-> "free", who |-> None, job |-> "none", want |-> None, expect |-> None,
         put |-> None, k |-> 1, todo |-> <<>>, undo |-> <<>>]

At(pc) == h.pc = pc
Go(pc) == h' = [h EXCEPT !.pc = pc]

\* The answer of PutConfig; other holders have no client.
Release(a) == /\ h' = Free
              /\ answer' = IF h.who \in Clients THEN [answer EXCEPT ![h.who] = a]
                                                ELSE answer

(* Mutant: every failure is an ordinary refusal.                          *)
FailRefusing == Release("refused")

\* configTransactionFailure: after the manifest is visible the outcome is not a
\* refusal any more.
Fail == Release(IF h.job = "commit" THEN "unknown" ELSE "refused")

Config == disk.target["config"]
State  == disk.target["managed_state"]
Legacy == /\ Config # None /\ State # None
          /\ State.digest = Config /\ State.validator = 0
\* readManagedConfigSnapshot: no configuration, or one the state vouches for.
Unmanaged == Config = None /\ State = None
Managed   == /\ Config # None /\ State # None
             /\ State.digest = Config /\ State.validator # 0

\* newManagedConfigValidator draws a validator no one has drawn before.
NewState(doc) == [digest |-> doc, validator |-> Len(minted) + 1]

\* Bound: a holder mints one validator, or two where it finds a legacy state.
Room == Len(minted) + (IF Legacy THEN 2 ELSE 1) <= MaxValidators

\* acquireRuntimeLockWithRecovery.  A reader takes the exclusive lock only for
\* the recovery or the migration it finds necessary.
Acquire(who, want) ==
    /\ At("free")
    /\ IF who = "reader" THEN disk.dir \/ Legacy ELSE Room
    /\ h' = [Free EXCEPT !.pc = "recover", !.who = who, !.job = "recover", !.want = want]
    /\ answer' = IF who \in Clients THEN [answer EXCEPT ![who] = "none"] ELSE answer
    /\ UNCHANGED <<disk, after, seen, minted, raced, faults>>

\* GetConfig under the shared lock, once no transaction directory is left and
\* no legacy state: it fails on a configuration the state does not vouch for.
GetConfig(c) ==
    /\ At("free") /\ ~disk.dir
    /\ Unmanaged \/ Managed
    /\ seen' = [seen EXCEPT ![c] = [config |-> Config,
                                    validator |-> IF Managed THEN State.validator ELSE 0]]
    /\ UNCHANGED <<disk, after, h, answer, minted, raced, faults>>

-----------------------------------------------------------------------------
(* Recovery and roll forward: rollForwardWorkspaceConfigTransaction and      *)
(* cleanupConfigTransactionDirectory serve recovery, commit and abort.       *)

(* Mutant: a directory without a manifest is left alone.                  *)
RecoverCommittedOnly ==
    /\ At("recover")
    /\ Go(IF disk.manifest = None THEN "locked" ELSE "validate")
    /\ UNCHANGED <<disk, after, seen, answer, minted, raced, faults>>

Recover ==
    /\ At("recover")
    /\ Go(IF ~disk.dir THEN "locked" ELSE IF disk.manifest = None THEN "clean" ELSE "validate")
    /\ UNCHANGED <<disk, after, seen, answer, minted, raced, faults>>

(* Mutant: the content of the target is not compared.                     *)
PublishableByImage(d, r) == d.target[r] = d.manifest.new[r] \/ r \in d.images

\* Every target is the recorded new file, or the old one with its image staged;
\* anything else fails closed before the first rename.
Publishable(d, r) == \/ d.target[r] = d.manifest.new[r]
                     \/ d.target[r] = d.manifest.old[r] /\ r \in d.images

Validate ==
    /\ At("validate")
    /\ IF \A r \in Roles : Publishable(disk, r)
         THEN h' = [h EXCEPT !.pc = "publish", !.k = 1] /\ answer' = answer
         ELSE Fail
    /\ UNCHANGED <<disk, after, seen, minted, raced, faults>>

\* publishConfigTransactionImage renames a synced copy of the image over a
\* target that is not the new file yet, and syncs the target's directory.
Publish ==
    /\ At("publish")
    /\ IF h.k > Len(Order) THEN Go("clean") /\ UNCHANGED <<disk, after>>
       ELSE LET r == Order[h.k] IN
            IF disk.target[r] = disk.manifest.new[r]
              THEN h' = [h EXCEPT !.k = @ + 1] /\ UNCHANGED <<disk, after>>
              ELSE SetTarget(r, disk.manifest.new[r]) /\ Go("syncTarget")
    /\ UNCHANGED <<seen, answer, minted, raced, faults>>

SyncTarget ==
    /\ At("syncTarget")
    /\ Sync
    /\ h' = [h EXCEPT !.pc = "publish", !.k = @ + 1]
    /\ UNCHANGED <<seen, answer, minted, raced, faults>>

PublishFails ==
    /\ \/ At("publish") /\ h.k <= Len(Order) /\ Fault("write")
       \/ At("syncTarget") /\ Fault("sync")
    /\ Fail
    /\ UNCHANGED <<disk, after, seen, minted, raced>>

\* Entries go in the order of their names: the manifest, then the images.
Clean ==
    /\ At("clean")
    /\ \/ disk.manifest # None
         /\ Change([disk EXCEPT !.manifest = None]) /\ h' = h
       \/ disk.manifest = None /\ disk.images # {}
         /\ Change([disk EXCEPT !.images = {}]) /\ h' = h
       \/ disk.manifest = None /\ disk.images = {}
         /\ Change([disk EXCEPT !.dir = FALSE]) /\ Go("syncClean")
    /\ UNCHANGED <<seen, answer, minted, raced, faults>>

\* What follows the cleanup: recovery goes on, a commit is done, an abandoned
\* preparation is refused.
Cleaned == \/ h.job = "recover" /\ Go("locked") /\ UNCHANGED <<answer, seen>>
           \/ /\ h.job = "commit"
              /\ Release("ok")
              /\ seen' = [seen EXCEPT ![h.who] =
                            [config |-> h.want, validator |-> h.put["managed_state"].validator]]
           \/ h.job = "abort" /\ Release("refused") /\ UNCHANGED seen

SyncClean ==
    /\ At("syncClean")
    /\ Sync
    /\ Cleaned
    /\ UNCHANGED <<minted, raced, faults>>

\* Only recovery reports that it could not clean up.
CleanFails ==
    /\ \/ At("clean") /\ Fault("write")
       \/ At("syncClean") /\ Fault("sync")
    /\ IF h.job = "recover" THEN Fail /\ UNCHANGED seen ELSE Cleaned
    /\ UNCHANGED <<disk, after, minted, raced>>

-----------------------------------------------------------------------------
(* PutConfig, once it holds the lock.                                        *)

\* ensureManagedConfigValidator gives a legacy state its first validator.
Migrate ==
    /\ At("locked") /\ h.who # "cli" /\ Legacy /\ Len(minted) < MaxValidators
    /\ SetTarget("managed_state", NewState(Config))
    /\ minted' = Append(minted, Config)
    /\ IF h.who = "reader" THEN Release("none") ELSE h' = h /\ answer' = answer
    /\ UNCHANGED <<seen, raced, faults>>

\* A reader gives the lock back, its migration done, not needed or failed.
ReaderDone ==
    /\ At("locked") /\ h.who = "reader"
    /\ Release("none")
    /\ UNCHANGED <<disk, after, seen, minted, raced, faults>>

\* checkConfigPrecondition: the validator presented is the current one, or
\* there is no configuration and the client wants to create it.
Precondition(c) == \/ Managed /\ seen[c].validator = State.validator
                   \/ Unmanaged /\ seen[c].validator = 0

\* The snapshot, the precondition and the candidate.  Nothing changes when the
\* candidate is what is there; otherwise it gets a validator of its own.
Prepare ==
    /\ At("locked") /\ h.who \in Clients /\ ~Legacy
    /\ IF Precondition(h.who)
         THEN \E s \in Stores :
                IF Managed /\ Config = h.want /\ disk.target["secrets"] = s
                  THEN /\ h' = [h EXCEPT !.pc = "unchanged", !.expect = disk.target]
                       /\ minted' = minted
                  ELSE /\ h' = [h EXCEPT !.pc = "mkdir", !.expect = disk.target,
                                 !.put = [r \in Roles |-> Fill(r, h.want, s, NewState(h.want))]]
                       /\ minted' = Append(minted, h.want)
         ELSE h' = [h EXCEPT !.pc = "refuse"] /\ minted' = minted
    /\ UNCHANGED <<disk, after, seen, answer, raced, faults>>

\* Candidate validation, the audit record or any read may also fail.
Refuse ==
    /\ At("refuse") \/ (At("locked") /\ h.who \in Clients)
    /\ Release("refused")
    /\ UNCHANGED <<disk, after, seen, minted, raced, faults>>

Expected == disk.target = h.expect

Confirm ==
    /\ At("unchanged")
    /\ Release(IF Expected THEN "unchanged" ELSE "refused")
    /\ UNCHANGED <<disk, after, seen, minted, raced, faults>>

\* commitWorkspaceConfigFilesExpected.
MakeDir ==
    /\ At("mkdir")
    /\ IF Expected THEN Change([disk EXCEPT !.dir = TRUE]) /\ Go("syncMkdir")
                   ELSE Go("refuse") /\ UNCHANGED <<disk, after>>
    /\ UNCHANGED <<seen, answer, minted, raced, faults>>

SyncMkdir ==
    /\ At("syncMkdir")
    /\ Sync
    /\ h' = [h EXCEPT !.pc = "stage", !.k = 1]
    /\ UNCHANGED <<seen, answer, minted, raced, faults>>

Abort == h' = [h EXCEPT !.pc = "clean", !.job = "abort"]

(* Mutant: the loop stops one image short.                                *)
StageWithoutLast ==
    /\ At("stage")
    /\ \/ /\ h.k < Len(Order)
          /\ Change([disk EXCEPT !.images = @ \cup {Order[h.k]}])
          /\ h' = [h EXCEPT !.k = @ + 1]
       \/ /\ h.k = Len(Order)
          /\ IF Expected THEN Go("manifest") ELSE Abort
          /\ UNCHANGED <<disk, after>>
    /\ UNCHANGED <<seen, answer, minted, raced, faults>>

\* One image per role, each after its target is compared with the expected one;
\* then the whole tuple is compared again.
Stage ==
    /\ At("stage")
    /\ \/ /\ h.k <= Len(Order)
          /\ LET r == Order[h.k] IN
             IF disk.target[r] = h.expect[r]
               THEN /\ Change([disk EXCEPT !.images = @ \cup {r}])
                    /\ h' = [h EXCEPT !.k = @ + 1]
               ELSE Abort /\ UNCHANGED <<disk, after>>
       \/ /\ h.k > Len(Order)
          /\ IF Expected THEN Go("manifest") ELSE Abort
          /\ UNCHANGED <<disk, after>>
    /\ UNCHANGED <<seen, answer, minted, raced, faults>>

\* The rename of the manifest is the commit decision.
PublishManifest ==
    /\ At("manifest")
    /\ Change([disk EXCEPT !.manifest = [old |-> h.expect, new |-> h.put]])
    /\ h' = [h EXCEPT !.pc = "syncManifest", !.job = "commit"]
    /\ UNCHANGED <<seen, answer, minted, raced, faults>>

SyncManifest ==
    /\ At("syncManifest")
    /\ Sync
    /\ Go("validate")
    /\ UNCHANGED <<seen, answer, minted, raced, faults>>

PrepareFails ==
    /\ \/ At("mkdir") /\ Fault("write") /\ Fail
       \/ At("syncMkdir") /\ Fault("sync") /\ Abort /\ answer' = answer
       \/ At("stage") /\ Fault("write") /\ Abort /\ answer' = answer
       \/ At("manifest") /\ Fault("write") /\ Abort /\ answer' = answer
       \/ At("syncManifest") /\ Fault("sync") /\ Fail
    /\ UNCHANGED <<disk, after, seen, minted, raced>>

-----------------------------------------------------------------------------
(* The command line: commitImportedFiles replaces file after file, and puts  *)
(* the replaced ones back when a later replacement fails.                    *)

File(r, data) == [role |-> r, data |-> data]

\* A source that is read and normalised: config.yml itself only when it is there.
Importable == Docs \cup ({Config} \ {None})

\* validateManagedConfig: the state vouches for config.yml, validator or not.
Settable == Legacy \/ Managed

\* config import (and migrate, which imports config.yml itself): any state of
\* the workspace.  config set: only a configuration the state vouches for.
ImportBegin ==
    /\ At("locked") /\ h.who = "cli"
    /\ \/ \E doc \in Importable, s \in Stores :
            /\ h' = [h EXCEPT !.pc = "replace", !.job = "import", !.expect = disk.target,
                      !.todo = <<File("config", doc), File("secrets", s),
                                 File("managed_state", NewState(doc))>>]
            /\ minted' = Append(minted, doc)
       \/ \E doc \in Docs :
            /\ Settable
            /\ h' = [h EXCEPT !.pc = "replace", !.job = "set", !.expect = disk.target,
                      !.todo = <<File("config", doc), File("managed_state", NewState(doc))>>]
            /\ minted' = Append(minted, doc)
    /\ UNCHANGED <<disk, after, seen, answer, raced, faults>>

Replace ==
    /\ At("replace") /\ h.todo # <<>>
    /\ LET f == Head(h.todo) IN
         /\ SetTarget(f.role, f.data)
         /\ h' = [h EXCEPT !.todo = Tail(@), !.undo = Append(@, File(f.role, disk.target[f.role]))]
    /\ UNCHANGED <<seen, answer, minted, raced, faults>>

\* captureManagedConfigFiles: the files as config set found them.
Captured == <<File("config", h.expect["config"]), File("managed_state", h.expect["managed_state"])>>

\* Done; but config set takes its change back when applying it fails.
ReplaceDone ==
    /\ At("replace") /\ h.todo = <<>>
    /\ \/ Release("none")
       \/ /\ h.job = "set"
          /\ h' = [h EXCEPT !.job = "rollback", !.undo = <<>>, !.todo = Captured]
          /\ answer' = answer
    /\ UNCHANGED <<disk, after, seen, minted, raced, faults>>

ReplaceFails ==
    /\ At("replace") /\ h.todo # <<>> /\ Fault("write")
    /\ Go("restore")
    /\ UNCHANGED <<disk, after, seen, answer, minted, raced>>

Restore ==
    /\ At("restore")
    /\ IF h.undo = <<>>
         THEN Release("none") /\ UNCHANGED <<disk, after>>
         ELSE /\ SetTarget(Head(h.undo).role, Head(h.undo).data)
              /\ h' = [h EXCEPT !.undo = Tail(@)]
              /\ answer' = answer
    /\ UNCHANGED <<seen, minted, raced, faults>>

-----------------------------------------------------------------------------
(* The environment.                                                          *)

\* The process ends: the lock is released with it, the files stay.
Crash ==
    /\ ~At("free") /\ Fault("crash")
    /\ h' = Free
    /\ UNCHANGED <<disk, after, seen, answer, minted, raced>>

PowerLoss ==
    /\ Fault("power")
    /\ disk' \in after /\ after' = {disk'}
    /\ h' = Free
    /\ UNCHANGED <<seen, answer, minted, raced>>

\* Somebody edits config.yml, lock or no lock.
Edit ==
    /\ Fault("edit")
    /\ SetTarget("config", HandEdit)
    /\ raced' = IF At("publish") \/ At("syncTarget") \/ raced = "late" THEN "late"
                ELSE IF disk.manifest # None \/ At("manifest") \/ h.job = "commit" THEN "closed" ELSE raced
    /\ UNCHANGED <<h, seen, answer, minted>>

-----------------------------------------------------------------------------
\* A workspace without a configuration, a managed one, or one with a legacy
\* state; with or without a Secret Store.
Init ==
    /\ \E doc \in Docs, s \in {None} \cup Stores, v \in {0, 1} :
         \/ disk = NoDir([r \in Roles |-> Fill(r, None, s, None)]) /\ minted = <<>>
         \/ /\ disk = NoDir([r \in Roles |-> Fill(r, doc, s, [digest |-> doc, validator |-> v])])
            /\ minted = IF v = 1 THEN <<doc>> ELSE <<>>
    /\ after = {disk}
    /\ h = Free
    /\ seen = [c \in Clients |-> [config |-> None, validator |-> 0]]
    /\ answer = [c \in Clients |-> "none"]
    /\ raced = "no"
    /\ faults = 0

Step == \/ Recover \/ Validate \/ Publish \/ SyncTarget \/ Clean \/ SyncClean
        \/ Migrate \/ ReaderDone \/ Prepare \/ Refuse \/ Confirm
        \/ MakeDir \/ SyncMkdir \/ Stage \/ PublishManifest \/ SyncManifest
        \/ ImportBegin \/ Replace \/ ReplaceDone \/ Restore

Failure == PublishFails \/ CleanFails \/ PrepareFails \/ ReplaceFails \/ Crash \/ PowerLoss \/ Edit

Lock == \/ \E c \in Clients, want \in Docs : Acquire(c, want)
        \/ \E who \in {"cli", "reader"} : Acquire(who, None)

Next == Step \/ Failure \/ Lock \/ \E c \in Clients : GetConfig(c)

Spec == Init /\ [][Next]_vars

\* A holder of the lock goes on, and somebody takes a free lock again: every
\* command and every request does.
FairSpec == Spec /\ WF_vars(Step) /\ WF_vars(Lock)

-----------------------------------------------------------------------------
(* Properties.                                                               *)

Disks == [dir : BOOLEAN, manifest : Manifests \cup {None}, images : SUBSET Roles, target : Tuples]
Holders == [pc : {"free", "recover", "validate", "publish", "syncTarget", "clean", "syncClean",
                  "locked", "refuse", "unchanged", "mkdir", "syncMkdir", "stage", "manifest",
                  "syncManifest", "replace", "restore"},
            who : Clients \cup {"cli", "reader", None},
            job : {"none", "recover", "commit", "abort", "import", "set", "rollback"},
            want : Docs \cup {None}, expect : Tuples \cup {None}, put : Tuples \cup {None},
            k : 1 .. Len(Order) + 1, todo : Seq(Files), undo : Seq(Files)]

\* Every variable keeps its type.
ConfigTypeOK ==
    /\ disk \in Disks /\ after \subseteq Disks /\ disk \in after
    /\ h \in Holders
    /\ seen \in [Clients -> [config : {None, HandEdit} \cup Docs, validator : Nat]]
    /\ answer \in [Clients -> {"none", "ok", "unchanged", "refused", "unknown"}]
    /\ minted \in Seq(Docs \cup {HandEdit})
    /\ raced \in {"no", "closed", "late"}
    /\ faults \in 0 .. MaxFaults

\* Whatever fails and whenever the power goes, a manifest that is found can be
\* rolled forward: each target is the old file with its image beside it, or the
\* new one.  Recovery then never fails closed without an editor's doing.
RecoveryCanFinish ==
    raced = "no" => \A d \in after : d.manifest # None =>
                                      d.dir /\ \A r \in Roles : Publishable(d, r)

\* The register of ConfigStore: its value is the tuple a reader who recovers
\* first would find, what the power can bring back is that of every image.
Back == {View(d) : d \in after}
Read == [c \in Clients |-> seen[c].config]
Op   == [client |-> IF h.who \in Clients THEN h.who ELSE None,
         want   |-> h.want,
         put    |-> IF h.job = "commit" THEN h.put ELSE None]
Raced == raced # "no"
Store == INSTANCE ConfigStore
           WITH tuple <- View(disk), back <- Back, seen <- Read, op <- Op, raced <- Raced

\* The three files, seen through the journal, are a durable register with
\* compare and swap: PutConfig replaces exactly the configuration its client
\* has read or nothing, "ok" survives a loss of power, an ordinary error means
\* that nothing was put in place.
ImplementsStore == Store!Spec

\* A third writer's file is never overwritten by a roll forward that could
\* have noticed it: only an edit made after the validation may be lost.
EditKept ==
    [][ /\ disk.manifest # None
        /\ disk.target["config"] \notin {disk.manifest.old["config"], disk.manifest.new["config"]}
        /\ disk'.target # disk.target
        => raced = "late" \/ PowerLoss ]_vars

\* A transaction directory that is left behind goes away again.
TransactionEnds == disk.dir ~> (~disk.dir \/ raced # "no")
=============================================================================
