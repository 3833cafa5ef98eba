------------------------ MODULE ConfigTransactionProofs ------------------------
(* Proofs about the configuration transaction: its types, that a manifest    *)
(* which is found can always be rolled forward, that the three files         *)
(* implement the register of ConfigStore, and that an edit is kept.          *)
EXTENDS ConfigTransaction, TLAPS

-----------------------------------------------------------------------------
(* Types.                                                                    *)

\* The lock that nobody holds is a holder.
LEMMA FreeType == Free \in Holders
  BY DEF Free, Holders, Order

\* What a role may contain is data.
LEMMA ContentsAreData == \A r \in Roles : Contents(r) \subseteq Data
  BY DEF Roles, Contents, Fill, Data

\* One file of a tuple is replaced.
LEMMA TupleUpdate ==
  ASSUME NEW t \in Tuples, NEW r \in Roles, NEW x \in Contents(r)
  PROVE  [t EXCEPT ![r] = x] \in Tuples
  <1>1. x \in Data
    BY ContentsAreData
  <1> QED BY <1>1 DEF Tuples

\* One target of a disk is replaced.
LEMMA TargetUpdate ==
  ASSUME NEW d \in Disks, NEW r \in Roles, NEW x \in Contents(r)
  PROVE  [d EXCEPT !.target = [@ EXCEPT ![r] = x]] \in Disks
  <1>1. [d.target EXCEPT ![r] = x] \in Tuples
    BY TupleUpdate DEF Disks
  <1> QED BY <1>1 DEF Disks

\* The files a holder reads have the contents of their roles.
LEMMA TargetType ==
  ASSUME ConfigTypeOK
  PROVE  /\ disk.target \in Tuples
         /\ \A r \in Roles : disk.target[r] \in Contents(r)
         /\ Config \in {None, HandEdit} \cup Docs
         /\ State \in {None} \cup States
  <1>1. disk.target \in Tuples
    BY DEF ConfigTypeOK, Disks
  <1>2. \A r \in Roles : disk.target[r] \in Contents(r)
    BY <1>1 DEF Tuples
  <1> QED BY <1>1, <1>2 DEF Config, State, Contents, Fill, Roles

\* A new state is a state.
LEMMA NewStateType ==
  ASSUME ConfigTypeOK, NEW doc \in Docs \cup {HandEdit}
  PROVE  NewState(doc) \in States
  BY DEF ConfigTypeOK, NewState, States

\* What releasing the lock leaves has its type.
LEMMA ReleaseType ==
  ASSUME ConfigTypeOK, NEW a \in {"none", "ok", "unchanged", "refused", "unknown"}, Release(a)
  PROVE  /\ h' \in Holders
         /\ answer' \in [Clients -> {"none", "ok", "unchanged", "refused", "unknown"}]
  BY FreeType DEF ConfigTypeOK, Release

\* An error that releases the lock leaves it typed.
LEMMA FailType ==
  ASSUME ConfigTypeOK, Fail
  PROVE  /\ h' \in Holders
         /\ answer' \in [Clients -> {"none", "ok", "unchanged", "refused", "unknown"}]
  BY ReleaseType DEF Fail

\* A change of the disk keeps the disks typed.
LEMMA ChangeType ==
  ASSUME ConfigTypeOK, NEW d \in Disks, Change(d)
  PROVE  disk' \in Disks /\ after' \subseteq Disks /\ disk' \in after'
  BY DEF ConfigTypeOK, Change

\* So does a sync of the directory.
LEMMA SyncType ==
  ASSUME ConfigTypeOK, Sync
  PROVE  disk' \in Disks /\ after' \subseteq Disks /\ disk' \in after'
  BY DEF ConfigTypeOK, Sync

\* Faults are counted up to their bound.
LEMMA FaultType ==
  ASSUME ConfigTypeOK, NEW kind, Fault(kind)
  PROVE  faults' \in 0 .. MaxFaults
  BY ConfigAssumption DEF ConfigTypeOK, Fault

\* The types hold in every initial state.
LEMMA TypeInit == Init => ConfigTypeOK
  <1> SUFFICES ASSUME Init PROVE ConfigTypeOK
    OBVIOUS
  <1>1. disk \in Disks /\ minted \in Seq(Docs \cup {HandEdit})
    <2> DEFINE empty(s) == [r \in Roles |-> Fill(r, None, s, None)]
               state(doc, v) == [digest |-> doc, validator |-> v]
               full(doc, s, v) == [r \in Roles |-> Fill(r, doc, s, state(doc, v))]
    <2>1. PICK doc \in Docs, s \in {None} \cup Stores, v \in {0, 1} :
            \/ disk = NoDir(empty(s)) /\ minted = <<>>
            \/ /\ disk = NoDir(full(doc, s, v))
               /\ minted = IF v = 1 THEN <<doc>> ELSE <<>>
      BY Zenon DEF Init
    <2>2. state(doc, v) \in States
      BY DEF States
    <2> HIDE DEF empty, state, full
    <2>3. empty(s) \in Tuples
      BY DEF empty, Tuples, Contents, Fill, Roles, Data
    <2>4. full(doc, s, v) \in Tuples
      BY <2>2 DEF full, Tuples, Contents, Fill, Roles, Data
    <2>5. disk \in Disks
      <3>1. ASSUME NEW t \in Tuples PROVE NoDir(t) \in Disks
        BY DEF NoDir, Disks
      <3>2. disk = NoDir(empty(s)) \/ disk = NoDir(full(doc, s, v))
        BY <2>1, Zenon
      <3>3. NoDir(empty(s)) \in Disks
        BY <2>3, <3>1
      <3>4. NoDir(full(doc, s, v)) \in Disks
        BY <2>4, <3>1
      <3> QED BY <3>2, <3>3, <3>4
    <2>6. minted \in Seq(Docs \cup {HandEdit})
      <3>1. minted = <<>> \/ minted = <<doc>>
        BY <2>1, Zenon
      <3>2. <<>> \in Seq(Docs \cup {HandEdit})
        OBVIOUS
      <3>3. <<doc>> \in Seq(Docs \cup {HandEdit})
        OBVIOUS
      <3> QED BY <3>1, <3>2, <3>3, Zenon
    <2> QED BY <2>5, <2>6
  <1> QED BY <1>1, FreeType, ConfigAssumption DEF Init, ConfigTypeOK

\* Where a holder is, for whom, and which of its fields and of the files it may
\* rely on there; an editor changes none of this.
Preparing == {"mkdir", "syncMkdir", "stage", "manifest"}
Rolling   == {"validate", "publish", "syncTarget"}
ShapeInv ==
    /\ h.pc = "free" <=> h.who = None
    /\ h.who \notin Clients => h.job \notin {"commit", "abort"} /\ h.want = None
    /\ h.who \in Clients => /\ h.want \in Docs
                            /\ h.job \in {"recover", "commit", "abort"}
                            /\ h.pc \notin {"replace", "restore"}
    /\ h.job = "commit" => h.pc \in Rolling \cup {"syncManifest", "clean", "syncClean"}
    /\ h.job = "abort" => h.pc \in {"clean", "syncClean"} /\ disk.manifest = None
    /\ h.job \in {"set", "rollback"} => h.expect # None
    /\ h.pc \in Preparing \cup {"unchanged", "refuse"} => h.who \in Clients
    /\ h.pc \in Preparing \cup {"unchanged"} => h.expect # None
    /\ h.pc \in Preparing \/ h.job = "commit" =>
         h.put # None /\ h.put["config"] = h.want /\ h.put["managed_state"] # None
    /\ h.pc \in {"locked", "refuse", "unchanged", "replace", "restore", "syncClean"} \cup Preparing
         => disk.manifest = None
    /\ h.pc \in Rolling \cup {"syncManifest"} => disk.manifest # None
    /\ h.pc = "syncManifest" => h.job = "commit"
    /\ h.pc = "syncTarget" => h.k <= Len(Order)
    /\ h.pc \in {"syncMkdir", "stage", "manifest", "clean"} => disk.dir

\* A manifest is in the transaction directory.
DirInv == \A d \in after : d.manifest # None => d.dir

TypeInv == ConfigTypeOK /\ DirInv /\ ShapeInv

\* The types are kept by every step.
LEMMA TypeStep == TypeInv /\ [Next]_vars => ConfigTypeOK'
  <1> SUFFICES ASSUME ConfigTypeOK, ShapeInv, [Next]_vars PROVE ConfigTypeOK'
    BY DEF TypeInv
  <1> DEFINE Answers == {"none", "ok", "unchanged", "refused", "unknown"}
  <1>t. /\ disk \in Disks /\ after \subseteq Disks /\ disk \in after
        /\ h \in Holders
        /\ seen \in [Clients -> [config : {None, HandEdit} \cup Docs, validator : Nat]]
        /\ answer \in [Clients -> Answers]
        /\ minted \in Seq(Docs \cup {HandEdit})
        /\ raced \in {"no", "closed", "late"}
        /\ faults \in 0 .. MaxFaults
    BY DEF ConfigTypeOK
  <1>h. h \in Holders
    BY <1>t
  <1>g. \A pc \in {"locked", "clean", "syncClean", "validate", "syncTarget", "refuse",
                   "syncMkdir", "manifest", "restore"} : Go(pc) => h' \in Holders
    BY <1>h DEF Go, Holders
  <1>1. ASSUME NEW who \in Clients \cup {"cli", "reader"}, NEW want \in Docs \cup {None},
               Acquire(who, want)
        PROVE  ConfigTypeOK'
    <2>1. h' \in Holders
      BY ZenonT(60), <1>1, FreeType DEF Acquire, Holders
    <2> QED BY <1>1, <1>t, <2>1 DEF Acquire, ConfigTypeOK
  <1>2. ASSUME NEW c \in Clients, GetConfig(c) PROVE ConfigTypeOK'
    <2>1. [config |-> Config, validator |-> IF Managed THEN State.validator ELSE 0]
            \in [config : {None, HandEdit} \cup Docs, validator : Nat]
      BY TargetType DEF Managed, States
    <2> QED BY <1>2, <1>t, <2>1 DEF GetConfig, ConfigTypeOK
  <1>3. CASE Recover
    BY <1>3, <1>t, <1>g DEF Recover, ConfigTypeOK
  <1>4. CASE Validate
    <2>1. h' \in Holders /\ answer' \in [Clients -> Answers]
      <3>1. 1 \in 1 .. Len(Order) + 1
        BY DEF Order
      <3>2. [h EXCEPT !.pc = "publish", !.k = 1] \in Holders
        BY ZenonT(60), <3>1, <1>h DEF Holders
      <3> QED BY <1>4, <1>t, <3>2, FailType DEF Validate
    <2> QED BY <1>4, <1>t, <2>1 DEF Validate, ConfigTypeOK
  <1>5. CASE Publish
    <2>1. CASE h.k > Len(Order)
      BY <1>5, <2>1, <1>t, <1>g DEF Publish, ConfigTypeOK
    <2>2. CASE ~(h.k > Len(Order))
      <3>1. Order[h.k] \in Roles /\ h.k + 1 \in 1 .. Len(Order) + 1
        BY SMTT(60), <2>2, <1>t DEF Order, Roles, Holders
      <3>2. CASE disk.target[Order[h.k]] = disk.manifest.new[Order[h.k]]
        <4>1. h' \in Holders
          BY SMTT(60), <1>5, <2>2, <3>1, <3>2, <1>h DEF Publish, Holders
        <4> QED BY <4>1, <1>5, <2>2, <3>2, <1>t DEF Publish, ConfigTypeOK
      <3>3. CASE ~(disk.target[Order[h.k]] = disk.manifest.new[Order[h.k]])
        <4>1. h' \in Holders
          BY <1>5, <2>2, <3>3, <1>g DEF Publish
        <4>2. disk.manifest \in Manifests
          BY <1>5, <1>t DEF Publish, At, ShapeInv, Rolling, Disks
        <4>3. disk.manifest.new[Order[h.k]] \in Contents(Order[h.k])
          BY <4>2, <3>1 DEF Manifests, Tuples
        <4>4. disk' \in Disks /\ after' \subseteq Disks /\ disk' \in after'
          BY ZenonT(60), <1>5, <2>2, <3>1, <3>3, <4>3, TargetUpdate, ChangeType, <1>t DEF Publish, SetTarget
        <4> QED BY <4>1, <4>4, <1>5, <1>t DEF Publish, ConfigTypeOK
      <3> QED BY <3>2, <3>3
    <2> QED BY <2>1, <2>2
  <1>6. CASE SyncTarget
    <2>1. h' \in Holders
      <3>1. h.k + 1 \in 1 .. Len(Order) + 1
        BY <1>6, <1>t DEF SyncTarget, At, ShapeInv, Holders, Order
      <3> QED BY ZenonT(60), <1>6, <3>1, <1>h DEF SyncTarget, Holders
    <2> QED BY <1>6, <1>t, <2>1, SyncType DEF SyncTarget, ConfigTypeOK
  <1>7. CASE PublishFails
    BY <1>7, <1>t, FailType, FaultType DEF PublishFails, ConfigTypeOK
  <1>8. CASE Clean
    <2>1. /\ [disk EXCEPT !.manifest = None] \in Disks
          /\ [disk EXCEPT !.images = {}] \in Disks
          /\ [disk EXCEPT !.dir = FALSE] \in Disks
      BY ZenonT(60), <1>t DEF Disks
    <2>2. disk' \in Disks /\ after' \subseteq Disks /\ disk' \in after'
      BY <1>8, <2>1, ChangeType DEF Clean
    <2>3. h' \in Holders
      BY <1>8, <1>t, <1>g DEF Clean
    <2> QED BY <1>8, <1>t, <2>2, <2>3 DEF Clean, ConfigTypeOK
  <1>c. ASSUME Cleaned
        PROVE  /\ h' \in Holders /\ answer' \in [Clients -> Answers]
               /\ seen' \in [Clients -> [config : {None, HandEdit} \cup Docs, validator : Nat]]
    <2>1. CASE h.job = "recover"
      BY <1>c, <2>1, <1>t, <1>g DEF Cleaned
    <2>2. CASE h.job = "abort"
      BY <1>c, <2>2, <1>t, ReleaseType DEF Cleaned
    <2>3. CASE h.job = "commit"
      <3> DEFINE x == [config |-> h.want, validator |-> h.put["managed_state"].validator]
      <3>1. h.put \in Tuples /\ h.want \in Docs
        BY <2>3, <1>t DEF ShapeInv, Holders
      <3>2. h.put["managed_state"].validator \in Nat
        <4>1. h.put["managed_state"] \in States
          BY <3>1, <2>3 DEF ShapeInv, Tuples, Contents, Fill, Roles
        <4> QED BY <4>1 DEF States
      <3>3. x \in [config : {None, HandEdit} \cup Docs, validator : Nat]
        BY <3>1, <3>2
      <3>4. seen' = [seen EXCEPT ![h.who] = x] /\ Release("ok")
        BY <1>c, <2>3 DEF Cleaned
      <3> HIDE DEF x
      <3> QED BY ZenonT(60), <3>3, <3>4, <1>t, ReleaseType
    <2> QED BY <1>c, <2>1, <2>2, <2>3 DEF Cleaned
  <1>9. CASE SyncClean
    BY <1>9, <1>t, <1>c, SyncType DEF SyncClean, ConfigTypeOK
  <1>10. CASE CleanFails
    BY <1>10, <1>t, <1>c, FailType, FaultType DEF CleanFails, ConfigTypeOK
  <1>11. CASE Migrate
    <2>1. Config \in Docs \cup {HandEdit}
      BY <1>11, TargetType DEF Migrate, Legacy
    <2>2. NewState(Config) \in Contents("managed_state") /\ "managed_state" \in Roles
      BY <2>1, NewStateType DEF Contents, Fill, Roles
    <2>3. disk' \in Disks /\ after' \subseteq Disks /\ disk' \in after'
      BY <1>11, <2>2, TargetUpdate, ChangeType, <1>t DEF Migrate, SetTarget
    <2>4. minted' \in Seq(Docs \cup {HandEdit})
      BY <1>11, <2>1, <1>t DEF Migrate
    <2>5. h' \in Holders /\ answer' \in [Clients -> Answers]
      BY <1>11, <1>t, ReleaseType DEF Migrate
    <2> QED BY <1>11, <1>t, <2>3, <2>4, <2>5 DEF Migrate, ConfigTypeOK
  <1>12. CASE ReaderDone
    BY SMTT(60), <1>12, <1>t, ReleaseType DEF ReaderDone, ConfigTypeOK
  <1>13. CASE Prepare
    <2>1. h.want \in Docs
      BY ZenonT(60), <1>13 DEF Prepare, ShapeInv
    <2>2. h' \in Holders /\ minted' \in Seq(Docs \cup {HandEdit})
      <3>1. CASE ~Precondition(h.who)
        <4>1. [h EXCEPT !.pc = "refuse"] \in Holders
          BY SMTT(60), <1>h DEF Holders
        <4> QED BY ZenonT(60), <1>13, <3>1, <4>1, <1>t DEF Prepare
      <3>2. CASE Precondition(h.who)
        <4> PICK s \in Stores :
                IF Managed /\ Config = h.want /\ disk.target["secrets"] = s
                  THEN /\ h' = [h EXCEPT !.pc = "unchanged", !.expect = disk.target]
                       /\ minted' = minted
                  ELSE /\ h' = [h EXCEPT !.pc = "mkdir", !.expect = disk.target,
                                 !.put = [r \in Roles |-> Fill(r, h.want, s, NewState(h.want))]]
                       /\ minted' = Append(minted, h.want)
          BY ZenonT(60), <1>13, <3>2 DEF Prepare
        <4> DEFINE put == [r \in Roles |-> Fill(r, h.want, s, NewState(h.want))]
        <4>1. NewState(h.want) \in States
          BY <2>1, NewStateType
        <4>2. put \in Tuples
          BY <2>1, <4>1 DEF Tuples, Contents, Fill, Roles, Data
        <4>3. disk.target \in Tuples
          BY TargetType
        <4> HIDE DEF put
        <4>4. /\ [h EXCEPT !.pc = "unchanged", !.expect = disk.target] \in Holders
              /\ [h EXCEPT !.pc = "mkdir", !.expect = disk.target, !.put = put] \in Holders
          BY ZenonT(60), <4>2, <4>3, <1>h DEF Holders
        <4>5. \/ h' = [h EXCEPT !.pc = "unchanged", !.expect = disk.target] /\ minted' = minted
              \/ /\ h' = [h EXCEPT !.pc = "mkdir", !.expect = disk.target, !.put = put]
                 /\ minted' = Append(minted, h.want)
          BY DEF put
        <4> QED BY SMTT(60), <2>1, <4>4, <4>5, <1>t
      <3> QED BY <3>1, <3>2
    <2> QED BY ZenonT(60), <1>13, <1>t, <2>2 DEF Prepare, ConfigTypeOK
  <1>14. CASE Refuse
    BY <1>14, <1>t, ReleaseType DEF Refuse, ConfigTypeOK
  <1>15. CASE Confirm
    BY <1>15, <1>t, ReleaseType DEF Confirm, ConfigTypeOK
  <1>16. CASE MakeDir
    <2>1. [disk EXCEPT !.dir = TRUE] \in Disks
      BY ZenonT(60), <1>t DEF Disks
    <2> QED BY <1>16, <1>t, <1>g, <2>1, ChangeType DEF MakeDir, ConfigTypeOK
  <1>17. CASE SyncMkdir
    <2>1. h' \in Holders
      <3>1. 1 \in 1 .. Len(Order) + 1
        BY DEF Order
      <3> QED BY ZenonT(60), <1>17, <3>1, <1>h DEF SyncMkdir, Holders
    <2> QED BY <1>17, <1>t, <2>1, SyncType DEF SyncMkdir, ConfigTypeOK
  <1>a. Abort => h' \in Holders
    <2>1. [h EXCEPT !.pc = "clean", !.job = "abort"] \in Holders
      BY ZenonT(60), <1>h DEF Holders
    <2> QED BY <2>1, Zenon DEF Abort
  <1>18. CASE Stage
    <2>1. CASE h.k <= Len(Order)
      <3>1. Order[h.k] \in Roles /\ h.k + 1 \in 1 .. Len(Order) + 1
        BY <2>1, <1>t DEF Order, Roles, Holders
      <3>2. [disk EXCEPT !.images = @ \cup {Order[h.k]}] \in Disks
        BY ZenonT(60), <3>1, <1>t DEF Disks
      <3>3. h' \in Holders
        <4>1. [h EXCEPT !.k = @ + 1] \in Holders
          BY ZenonT(60), <3>1, <1>h DEF Holders
        <4>2. h' = [h EXCEPT !.k = @ + 1] \/ Abort
          <5>1. ~(h.k > Len(Order))
            BY <2>1, <1>h DEF Holders, Order
          <5> QED BY <1>18, <2>1, <5>1, Zenon DEF Stage
        <4> QED BY <4>1, <4>2, <1>a
      <3>4. disk' \in Disks /\ after' \subseteq Disks /\ disk' \in after'
        BY <1>18, <2>1, <3>2, <1>t, ChangeType DEF Stage
      <3> QED BY <1>18, <1>t, <3>3, <3>4 DEF Stage, ConfigTypeOK
    <2>2. CASE h.k > Len(Order)
      <3>1. ~(h.k <= Len(Order))
        BY <2>2, <1>h DEF Holders, Order
      <3>2. (Go("manifest") \/ Abort) /\ UNCHANGED <<disk, after>>
        BY <1>18, <3>1, Zenon DEF Stage
      <3> QED BY <1>18, <3>2, <1>t, <1>g, <1>a DEF Stage, ConfigTypeOK
    <2> QED BY <1>18, <2>1, <2>2 DEF Stage
  <1>19. CASE PublishManifest
    <2>1. h.expect \in Tuples /\ h.put \in Tuples
      BY <1>19, <1>t DEF PublishManifest, At, ShapeInv, Preparing, Holders
    <2>2. [old |-> h.expect, new |-> h.put] \in Manifests
      BY <2>1 DEF Manifests
    <2>3. [disk EXCEPT !.manifest = [old |-> h.expect, new |-> h.put]] \in Disks
      BY ZenonT(60), <2>2, <1>t DEF Disks
    <2>4. h' \in Holders
      BY ZenonT(60), <1>19, <1>h DEF PublishManifest, Holders
    <2> QED BY <1>19, <1>t, <2>3, <2>4, ChangeType DEF PublishManifest, ConfigTypeOK
  <1>20. CASE SyncManifest
    BY <1>20, <1>t, <1>g, SyncType DEF SyncManifest, ConfigTypeOK
  <1>21. CASE PrepareFails
    <2>1. h' \in Holders /\ answer' \in [Clients -> Answers]
      BY <1>21, <1>t, <1>a, FailType DEF PrepareFails
    <2>2. faults' \in 0 .. MaxFaults
      BY <1>21, FaultType DEF PrepareFails
    <2> QED BY <1>21, <1>t, <2>1, <2>2 DEF PrepareFails, ConfigTypeOK
  <1>f. \A r \in Roles : \A x : x \in Contents(r) => File(r, x) \in Files
    BY SMTT(60), ContentsAreData DEF File, Files
  <1>22. CASE ImportBegin
    <2>1. ASSUME NEW doc \in Importable, NEW s \in Stores
          PROVE  /\ File("config", doc) \in Files /\ File("secrets", s) \in Files
                 /\ File("managed_state", NewState(doc)) \in Files
                 /\ doc \in Docs \cup {HandEdit}
      BY <1>f, TargetType, NewStateType DEF Contents, Fill, Roles, Importable
    <2>2. ASSUME NEW doc \in Docs
          PROVE  /\ File("config", doc) \in Files
                 /\ File("managed_state", NewState(doc)) \in Files
      BY <1>f, NewStateType DEF Contents, Fill, Roles
    <2>3. disk.target \in Tuples
      BY SMTT(60), TargetType
    <2>4. h' \in Holders /\ minted' \in Seq(Docs \cup {HandEdit})
      <3>1. ASSUME NEW doc \in Importable, NEW s \in Stores,
                   h' = [h EXCEPT !.pc = "replace", !.job = "import", !.expect = disk.target,
                          !.todo = <<File("config", doc), File("secrets", s),
                                     File("managed_state", NewState(doc))>>],
                   minted' = Append(minted, doc)
            PROVE  h' \in Holders /\ minted' \in Seq(Docs \cup {HandEdit})
        <4>1. <<File("config", doc), File("secrets", s), File("managed_state", NewState(doc))>>
                \in Seq(Files)
          BY <2>1
        <4>2. h' \in Holders
          BY ZenonT(60), <3>1, <4>1, <2>3, <1>h DEF Holders
        <4> QED BY <3>1, <4>2, <2>1, <1>t
      <3>2. ASSUME NEW doc \in Docs,
                   h' = [h EXCEPT !.pc = "replace", !.job = "set", !.expect = disk.target,
                          !.todo = <<File("config", doc), File("managed_state", NewState(doc))>>],
                   minted' = Append(minted, doc)
            PROVE  h' \in Holders /\ minted' \in Seq(Docs \cup {HandEdit})
        <4>1. <<File("config", doc), File("managed_state", NewState(doc))>> \in Seq(Files)
          BY <2>2
        <4>2. h' \in Holders
          BY ZenonT(60), <3>2, <4>1, <2>3, <1>h DEF Holders
        <4> QED BY <3>2, <4>2, <1>t
      <3> QED BY ZenonT(60), <1>22, <3>1, <3>2 DEF ImportBegin
    <2> QED BY ZenonT(60), <1>22, <1>t, <2>4 DEF ImportBegin, ConfigTypeOK
  <1>23. CASE Replace
    <2> DEFINE f == Head(h.todo)
    <2>1. f \in Files /\ Tail(h.todo) \in Seq(Files) /\ h.undo \in Seq(Files)
      BY <1>23, <1>t DEF Replace, Holders
    <2>2. f.role \in Roles /\ f.data \in Contents(f.role)
      BY <2>1 DEF Files
    <2>3. File(f.role, disk.target[f.role]) \in Files
      BY <2>2, <1>f, TargetType
    <2>4. disk' \in Disks /\ after' \subseteq Disks /\ disk' \in after'
      BY <1>23, <2>2, TargetUpdate, ChangeType, <1>t DEF Replace, SetTarget
    <2>5. h' \in Holders
      <3> DEFINE g == File(f.role, disk.target[f.role])
      <3>1. h' = [h EXCEPT !.todo = Tail(h.todo), !.undo = Append(h.undo, g)]
        BY <1>23 DEF Replace
      <3>2. Append(h.undo, g) \in Seq(Files)
        BY <2>1, <2>3
      <3> HIDE DEF g, f
      <3> QED BY ZenonT(60), <3>1, <3>2, <2>1, <1>h DEF Holders
    <2> QED BY <1>23, <1>t, <2>4, <2>5 DEF Replace, ConfigTypeOK
  <1>24. CASE ReplaceDone
    <2>1. ASSUME h.job = "set",
                 h' = [h EXCEPT !.job = "rollback", !.undo = <<>>,
                        !.todo = <<File("config", h.expect["config"]),
                                   File("managed_state", h.expect["managed_state"])>>]
          PROVE  h' \in Holders
      <3>1. h.expect \in Tuples
        BY <2>1, <1>t DEF ShapeInv, Holders
      <3>2. /\ File("config", h.expect["config"]) \in Files
            /\ File("managed_state", h.expect["managed_state"]) \in Files
        BY <3>1, <1>f DEF Tuples, Roles
      <3>3. <<File("config", h.expect["config"]),
              File("managed_state", h.expect["managed_state"])>> \in Seq(Files)
        BY <3>2
      <3>4. <<>> \in Seq(Files)
        OBVIOUS
      <3> QED BY ZenonT(60), <2>1, <3>3, <3>4, <1>h DEF Holders
    <2>2. h' \in Holders /\ answer' \in [Clients -> Answers]
      BY <1>24, <2>1, <1>t, ReleaseType DEF ReplaceDone, Captured
    <2> QED BY <1>24, <1>t, <2>2 DEF ReplaceDone, ConfigTypeOK
  <1>25. CASE ReplaceFails
    BY <1>25, <1>t, <1>g, FaultType DEF ReplaceFails, ConfigTypeOK
  <1>26. CASE Restore
    <2>1. CASE h.undo = <<>>
      BY <1>26, <2>1, <1>t, ReleaseType DEF Restore, ConfigTypeOK
    <2>2. CASE h.undo # <<>>
      <3>1. Head(h.undo) \in Files /\ Tail(h.undo) \in Seq(Files)
        BY <2>2, <1>t DEF Holders
      <3>2. disk' \in Disks /\ after' \subseteq Disks /\ disk' \in after'
        BY <1>26, <2>2, <3>1, TargetUpdate, ChangeType, <1>t DEF Restore, SetTarget, Files
      <3>3. h' \in Holders
        BY ZenonT(60), <1>26, <2>2, <3>1, <1>h DEF Restore, Holders
      <3> QED BY <1>26, <2>2, <1>t, <3>2, <3>3 DEF Restore, ConfigTypeOK
    <2> QED BY <2>1, <2>2
  <1>27. CASE Crash
    BY <1>27, <1>t, FreeType, FaultType DEF Crash, ConfigTypeOK
  <1>28. CASE PowerLoss
    BY <1>28, <1>t, FreeType, FaultType DEF PowerLoss, ConfigTypeOK
  <1>29. CASE Edit
    <2>1. "config" \in Roles /\ HandEdit \in Contents("config")
      BY DEF Roles, Contents, Fill
    <2>2. disk' \in Disks /\ after' \subseteq Disks /\ disk' \in after'
      BY <1>29, <2>1, TargetUpdate, ChangeType, <1>t DEF Edit, SetTarget
    <2> QED BY <1>29, <1>t, <2>2, FaultType DEF Edit, ConfigTypeOK
  <1>30. CASE UNCHANGED vars
    BY <1>30 DEF vars, ConfigTypeOK
  <1> QED BY <1>1, <1>2, <1>3, <1>4, <1>5, <1>6, <1>7, <1>8, <1>9, <1>10, <1>11, <1>12, <1>13,
             <1>14, <1>15, <1>16, <1>17, <1>18, <1>19, <1>20, <1>21, <1>22, <1>23, <1>24, <1>25,
             <1>26, <1>27, <1>28, <1>29, <1>30 DEF Next, Step, Failure, Lock

\* A free lock has the shape, whatever is on the disk.
LEMMA FreeShape == h' = Free => ShapeInv'
  BY ConfigAssumption DEF Free, ShapeInv, Preparing, Rolling

\* The shape is kept by every step.
LEMMA ShapeStep == TypeInv /\ [Next]_vars => ShapeInv'
  <1> SUFFICES ASSUME ConfigTypeOK, DirInv, ShapeInv, [Next]_vars PROVE ShapeInv'
    BY DEF TypeInv
  <1>t. h \in Holders /\ disk \in Disks
    BY DEF ConfigTypeOK
  <1>r. \A a : Release(a) => ShapeInv'
    BY FreeShape DEF Release
  <1>f. Fail => ShapeInv'
    BY <1>r DEF Fail
  <1>g. ASSUME NEW pc, Go(pc)
        PROVE  /\ h'.pc = pc /\ h'.who = h.who /\ h'.job = h.job /\ h'.want = h.want
               /\ h'.expect = h.expect /\ h'.put = h.put /\ h'.k = h.k
    BY <1>g, <1>t DEF Go, Holders
  <1>a. Abort => /\ h'.pc = "clean" /\ h'.who = h.who /\ h'.job = "abort" /\ h'.want = h.want
                 /\ h'.expect = h.expect /\ h'.put = h.put /\ h'.k = h.k
    BY <1>t DEF Abort, Holders
  <1>s. ASSUME NEW r, NEW x, SetTarget(r, x)
        PROVE  disk'.manifest = disk.manifest /\ disk'.dir = disk.dir
    BY <1>s, <1>t DEF SetTarget, Change, Disks
  <1>x. disk.target # None
    BY TargetType, ConfigAssumption
  <1>y. disk.manifest # None => disk.dir
    BY DEF ConfigTypeOK, DirInv
  <1> USE DEF At, Preparing, Rolling
  <1>1. ASSUME NEW who \in Clients, NEW want \in Docs, Acquire(who, want) PROVE ShapeInv'
    <2>1. /\ h'.pc = "recover" /\ h'.who = who /\ h'.job = "recover" /\ h'.want = want
          /\ disk' = disk
      BY <1>1 DEF Acquire, Free
    <2> QED BY <2>1, ConfigAssumption DEF ShapeInv
  <1>2. ASSUME NEW who \in {"cli", "reader"}, Acquire(who, None) PROVE ShapeInv'
    <2>1. /\ h'.pc = "recover" /\ h'.who = who /\ h'.job = "recover" /\ h'.want = None
          /\ disk' = disk
      BY <1>2 DEF Acquire, Free
    <2>2. who \notin Clients /\ who # None
      BY ConfigAssumption
    <2> QED BY <2>1, <2>2 DEF ShapeInv
  <1>3. ASSUME NEW c \in Clients, GetConfig(c) PROVE ShapeInv'
    BY <1>3 DEF GetConfig, ShapeInv
  <1>4. CASE Recover
    <2>1. \/ Go("locked") /\ ~disk.dir
          \/ Go("clean") /\ disk.dir /\ disk.manifest = None
          \/ Go("validate") /\ disk.dir /\ disk.manifest # None
      BY <1>4, Zenon DEF Recover
    <2>2. disk.manifest # None => disk.dir
      BY DEF ConfigTypeOK, DirInv
    <2> QED BY <1>4, <2>1, <2>2, <1>g DEF Recover, ShapeInv
  <1>5. CASE Validate
    <2>1. CASE Fail
      BY <2>1, <1>f
    <2>2. CASE h' = [h EXCEPT !.pc = "publish", !.k = 1]
      <3>1. /\ h'.pc = "publish" /\ h'.who = h.who /\ h'.job = h.job /\ h'.want = h.want
            /\ h'.expect = h.expect /\ h'.put = h.put
        BY <2>2, <1>t DEF Holders
      <3> QED BY <1>5, <3>1 DEF Validate, ShapeInv
    <2> QED BY <1>5, <2>1, <2>2 DEF Validate
  <1>6. CASE Publish
    <2>1. CASE Go("clean") /\ UNCHANGED <<disk, after>>
      <3>1. disk.dir
        BY <1>6 DEF Publish, ShapeInv, ConfigTypeOK, DirInv
      <3> QED BY <1>6, <2>1, <3>1, <1>g DEF Publish, ShapeInv
    <2>2. CASE h' = [h EXCEPT !.k = @ + 1] /\ UNCHANGED <<disk, after>>
      <3>1. /\ h'.pc = h.pc /\ h'.who = h.who /\ h'.job = h.job /\ h'.want = h.want
            /\ h'.expect = h.expect /\ h'.put = h.put
        BY <2>2, <1>t DEF Holders
      <3> QED BY <1>6, <2>2, <3>1 DEF Publish, ShapeInv
    <2>3. CASE /\ SetTarget(Order[h.k], disk.manifest.new[Order[h.k]]) /\ Go("syncTarget")
               /\ ~(h.k > Len(Order))
      <3>1. h.k <= Len(Order)
        BY <2>3, <1>t DEF Holders, Order
      <3> QED BY <1>6, <2>3, <3>1, <1>g, <1>s DEF Publish, ShapeInv
    <2> QED BY <1>6, <2>1, <2>2, <2>3, Zenon DEF Publish
  <1>7. CASE SyncTarget
    BY <1>7, <1>t DEF SyncTarget, Sync, ShapeInv, Holders
  <1>8. CASE PublishFails
    BY <1>8, <1>f DEF PublishFails
  <1>9. CASE Clean
    <2>1. CASE h' = h
      <3>1. disk'.dir = disk.dir /\ disk'.manifest = None
        BY <1>9, <2>1, <1>t DEF Clean, Change, Disks, Go, Holders
      <3> QED BY <1>9, <2>1, <3>1 DEF Clean, ShapeInv
    <2>2. CASE Go("syncClean") /\ disk.manifest = None /\ Change([disk EXCEPT !.dir = FALSE])
      <3>1. disk'.manifest = None
        BY <2>2, <1>t DEF Change, Disks
      <3> QED BY <1>9, <2>2, <3>1, <1>g DEF Clean, ShapeInv
    <2> QED BY <1>9, <2>1, <2>2 DEF Clean
  <1>c. ASSUME Cleaned, At("syncClean") \/ h.job # "recover", disk' = disk PROVE ShapeInv'
    <2>1. CASE Go("locked") /\ h.job = "recover"
      BY <1>c, <2>1, <1>g DEF ShapeInv
    <2> QED BY <1>c, <2>1, <1>r DEF Cleaned
  <1>10. CASE SyncClean
    BY <1>10, <1>c DEF SyncClean, Sync
  <1>11. CASE CleanFails
    BY <1>11, <1>c, <1>f DEF CleanFails
  <1>12. CASE Migrate
    <2>1. CASE h' = h
      BY <1>12, <2>1, <1>s DEF Migrate, ShapeInv
    <2> QED BY <1>12, <2>1, <1>r DEF Migrate
  <1>13. CASE ReaderDone
    BY <1>13, <1>r DEF ReaderDone
  <1>14. CASE Prepare
    <2>1. h.who \in Clients /\ h.pc = "locked" /\ disk' = disk
      BY ZenonT(60), <1>14 DEF Prepare
    <2>2. CASE h' = [h EXCEPT !.pc = "refuse"]
      <3>1. Go("refuse")
        BY <2>2 DEF Go
      <3> QED BY <2>1, <3>1, <1>g DEF ShapeInv
    <2>3. CASE h' = [h EXCEPT !.pc = "unchanged", !.expect = disk.target]
      <3>1. /\ h'.pc = "unchanged" /\ h'.who = h.who /\ h'.job = h.job /\ h'.want = h.want
            /\ h'.expect = disk.target /\ h'.put = h.put
        BY <2>3, <1>t DEF Holders
      <3> QED BY <2>1, <3>1, <1>x DEF ShapeInv
    <2>4. ASSUME NEW s \in Stores,
                 h' = [h EXCEPT !.pc = "mkdir", !.expect = disk.target,
                        !.put = [r \in Roles |-> Fill(r, h.want, s, NewState(h.want))]]
          PROVE  ShapeInv'
      <3> DEFINE put == [r \in Roles |-> Fill(r, h.want, s, NewState(h.want))]
      <3>1. h.want \in Docs
        BY <2>1 DEF ShapeInv
      <3>2. NewState(h.want) \in States
        BY <3>1, NewStateType
      <3>3. put \in Tuples /\ put["config"] = h.want /\ put["managed_state"] = NewState(h.want)
        BY <3>1, <3>2 DEF Tuples, Contents, Fill, Roles, Data
      <3>4. put # None /\ put["config"] = h.want /\ put["managed_state"] # None
        <4> HIDE DEF put
        <4> QED BY <3>2, <3>3, ConfigAssumption
      <3>5. h' = [h EXCEPT !.pc = "mkdir", !.expect = disk.target, !.put = put]
        BY <2>4
      <3> HIDE DEF put
      <3>6. /\ h'.pc = "mkdir" /\ h'.who = h.who /\ h'.job = h.job /\ h'.want = h.want
            /\ h'.expect = disk.target /\ h'.put = put
        BY <3>5, <1>t DEF Holders
      <3> QED BY <2>1, <3>4, <3>6, <1>x DEF ShapeInv
    <2> QED BY <1>14, <2>2, <2>3, <2>4, ZenonT(60) DEF Prepare
  <1>15. CASE Refuse
    BY <1>15, <1>r DEF Refuse
  <1>16. CASE Confirm
    BY <1>16, <1>r DEF Confirm
  <1>17. CASE MakeDir
    <2>1. CASE Go("refuse") /\ UNCHANGED <<disk, after>>
      BY <1>17, <2>1, <1>g DEF MakeDir, ShapeInv
    <2>2. CASE Go("syncMkdir") /\ Change([disk EXCEPT !.dir = TRUE])
      <3>1. disk'.dir /\ disk'.manifest = disk.manifest
        BY <2>2, <1>t DEF Change, Disks
      <3> QED BY <1>17, <2>2, <3>1, <1>g DEF MakeDir, ShapeInv
    <2> QED BY <1>17, <2>1, <2>2 DEF MakeDir
  <1>18. CASE SyncMkdir
    <2>1. /\ h'.pc = "stage" /\ h'.who = h.who /\ h'.job = h.job /\ h'.want = h.want
          /\ h'.expect = h.expect /\ h'.put = h.put
      BY <1>18, <1>t DEF SyncMkdir, Holders
    <2> QED BY <1>18, <2>1 DEF SyncMkdir, Sync, ShapeInv
  <1>19. CASE Stage
    <2>1. h.who \in Clients /\ disk.manifest = None /\ disk.dir
      BY <1>19 DEF Stage, ShapeInv
    <2>2. CASE Abort /\ disk' = disk
      BY <1>19, <2>1, <2>2, <1>a DEF Stage, ShapeInv
    <2>3. CASE Go("manifest") /\ disk' = disk
      BY <1>19, <2>1, <2>3, <1>g DEF Stage, ShapeInv
    <2>4. CASE /\ Change([disk EXCEPT !.images = @ \cup {Order[h.k]}])
               /\ h' = [h EXCEPT !.k = @ + 1]
      <3>1. /\ h'.pc = h.pc /\ h'.who = h.who /\ h'.job = h.job /\ h'.want = h.want
            /\ h'.expect = h.expect /\ h'.put = h.put
        BY <2>4, <1>t DEF Holders
      <3>2. disk'.manifest = disk.manifest /\ disk'.dir = disk.dir
        BY <2>4, <1>t DEF Change, Disks
      <3> QED BY <1>19, <2>1, <3>1, <3>2 DEF Stage, ShapeInv
    <2> QED BY <1>19, <2>2, <2>3, <2>4, Zenon DEF Stage
  <1>20. CASE PublishManifest
    <2>1. h.expect \in Tuples /\ h.put \in Tuples
      BY <1>20, <1>t DEF PublishManifest, ShapeInv, Holders
    <2> DEFINE m == [old |-> h.expect, new |-> h.put]
    <2>2. m # None
      BY <2>1, ConfigAssumption DEF Manifests
    <2>3. disk' = [disk EXCEPT !.manifest = m]
      BY <1>20 DEF PublishManifest, Change
    <2> HIDE DEF m
    <2>4. disk'.manifest = m /\ disk'.dir = disk.dir
      BY <2>3, <1>t DEF Disks
    <2>5. /\ h'.pc = "syncManifest" /\ h'.who = h.who /\ h'.job = "commit" /\ h'.want = h.want
          /\ h'.expect = h.expect /\ h'.put = h.put
      BY <1>20, <1>t DEF PublishManifest, Holders
    <2> QED BY <1>20, <2>2, <2>4, <2>5 DEF PublishManifest, ShapeInv
  <1>21. CASE SyncManifest
    BY <1>21, <1>g DEF SyncManifest, Sync, ShapeInv
  <1>22. CASE PrepareFails
    <2>1. CASE Abort /\ (At("syncMkdir") \/ At("stage") \/ At("manifest"))
      BY SMTT(60), <1>22, <2>1, <1>a DEF PrepareFails, ShapeInv
    <2> QED BY <1>22, <2>1, <1>f DEF PrepareFails
  <1>23. CASE ImportBegin
    <2>1. /\ h'.pc = "replace" /\ h'.who = h.who /\ h'.job \in {"import", "set"}
          /\ h'.want = h.want /\ h'.expect = disk.target
      BY ZenonT(60), <1>23, <1>t DEF ImportBegin, Holders
    <2>2. h.who \notin Clients
      BY ZenonT(60), <1>23, ConfigAssumption DEF ImportBegin
    <2> QED BY ZenonT(60), <1>23, <2>1, <2>2, <1>x DEF ImportBegin, ShapeInv
  <1>24. CASE Replace
    <2>1. /\ h'.pc = h.pc /\ h'.who = h.who /\ h'.job = h.job /\ h'.want = h.want
          /\ h'.expect = h.expect /\ h'.put = h.put
      BY <1>24, <1>t DEF Replace, Holders
    <2>2. disk'.manifest = disk.manifest /\ disk'.dir = disk.dir
      BY <1>24, <1>s DEF Replace
    <2> QED BY <1>24, <2>1, <2>2 DEF Replace, ShapeInv
  <1>25. CASE ReplaceDone
    <2>1. CASE ~Release("none")
      <3>1. /\ h'.pc = h.pc /\ h'.who = h.who /\ h'.job = "rollback" /\ h'.want = h.want
            /\ h'.expect = h.expect /\ h'.put = h.put /\ h.job = "set"
        BY ZenonT(60), <1>25, <2>1, <1>t DEF ReplaceDone, Holders
      <3> QED BY <1>25, <3>1 DEF ReplaceDone, ShapeInv
    <2> QED BY <2>1, <1>r
  <1>26. CASE ReplaceFails
    BY <1>26, <1>g DEF ReplaceFails, ShapeInv
  <1>27. CASE Restore
    <2>1. CASE ~Release("none")
      <3>1. /\ h'.pc = h.pc /\ h'.who = h.who /\ h'.job = h.job /\ h'.want = h.want
            /\ h'.expect = h.expect /\ h'.put = h.put
        BY <1>27, <2>1, <1>t DEF Restore, Holders
      <3>2. disk'.manifest = disk.manifest /\ disk'.dir = disk.dir
        BY <1>27, <2>1, <1>s DEF Restore
      <3> QED BY <1>27, <3>1, <3>2 DEF Restore, ShapeInv
    <2> QED BY <2>1, <1>r
  <1>28. CASE Crash
    BY <1>28, FreeShape DEF Crash
  <1>29. CASE PowerLoss
    BY <1>29, FreeShape DEF PowerLoss
  <1>30. CASE Edit
    BY <1>30, <1>s DEF Edit, ShapeInv
  <1>31. CASE UNCHANGED vars
    BY <1>31 DEF vars, ShapeInv
  <1> QED BY <1>1, <1>2, <1>3, <1>4, <1>5, <1>6, <1>7, <1>8, <1>9, <1>10, <1>11, <1>12, <1>13,
             <1>14, <1>15, <1>16, <1>17, <1>18, <1>19, <1>20, <1>21, <1>22, <1>23, <1>24, <1>25,
             <1>26, <1>27, <1>28, <1>29, <1>30, <1>31 DEF Next, Step, Failure, Lock

\* The directory outlives its manifest on every disk that may come back.
LEMMA DirStep == TypeInv /\ [Next]_vars => DirInv'
  <1> SUFFICES ASSUME ConfigTypeOK, DirInv, ShapeInv, [Next]_vars PROVE DirInv'
    BY DEF TypeInv
  <1>t. h \in Holders /\ disk \in Disks /\ disk \in after
    BY DEF ConfigTypeOK
  <1>d. disk.manifest # None => disk.dir
    BY <1>t DEF DirInv
  <1>c. ASSUME NEW d, Change(d), d.manifest # None => d.dir PROVE DirInv'
    BY <1>c DEF Change, DirInv
  <1>s. ASSUME NEW r, NEW x, SetTarget(r, x) PROVE DirInv'
    <2>1. /\ [disk EXCEPT !.target = [@ EXCEPT ![r] = x]].manifest = disk.manifest
          /\ [disk EXCEPT !.target = [@ EXCEPT ![r] = x]].dir = disk.dir
      BY <1>t DEF Disks
    <2> QED BY ZenonT(60), <1>s, <2>1, <1>c, <1>d DEF SetTarget
  <1>y. Sync => DirInv'
    BY <1>d DEF Sync, DirInv
  <1>u. after' = after => DirInv'
    BY DEF DirInv
  <1>1. CASE Clean
    <2>1. CASE Change([disk EXCEPT !.manifest = None])
      BY <2>1, <1>c, <1>t DEF Disks
    <2>2. CASE Change([disk EXCEPT !.images = {}])
      BY <2>2, <1>c, <1>t, <1>d DEF Disks
    <2>3. CASE Change([disk EXCEPT !.dir = FALSE]) /\ disk.manifest = None
      BY <2>3, <1>c, <1>t DEF Disks
    <2> QED BY <1>1, <2>1, <2>2, <2>3 DEF Clean
  <1>2. CASE MakeDir
    <2>1. CASE Change([disk EXCEPT !.dir = TRUE])
      BY <2>1, <1>c, <1>t DEF Disks
    <2> QED BY <1>2, <2>1, <1>u DEF MakeDir
  <1>3. CASE Stage
    <2>1. ASSUME NEW r, Change([disk EXCEPT !.images = @ \cup {r}]) PROVE DirInv'
      BY <2>1, <1>c, <1>t, <1>d DEF Disks
    <2> QED BY <1>3, <2>1, <1>u, Zenon DEF Stage
  <1>4. CASE PublishManifest
    <2>1. disk.dir
      BY <1>4 DEF PublishManifest, At, ShapeInv
    <2>2. [disk EXCEPT !.manifest = [old |-> h.expect, new |-> h.put]].dir = disk.dir
      BY <1>t DEF Disks
    <2> QED BY ZenonT(60), <1>4, <2>1, <2>2, <1>c DEF PublishManifest
  <1>5. CASE PowerLoss
    BY <1>5 DEF PowerLoss, DirInv
  <1>6. CASE Publish \/ Migrate \/ Replace \/ Restore \/ Edit
    BY <1>6, <1>s, <1>u DEF Publish, Migrate, Replace, Restore, Edit
  <1>7. CASE SyncTarget \/ SyncClean \/ SyncMkdir \/ SyncManifest
    BY <1>7, <1>y DEF SyncTarget, SyncClean, SyncMkdir, SyncManifest
  <1>8. CASE \/ Recover \/ Validate \/ ReaderDone \/ Prepare \/ Refuse \/ Confirm
             \/ ImportBegin \/ ReplaceDone
    BY ZenonT(60), <1>8, <1>u DEF Recover, Validate, ReaderDone, Prepare, Refuse, Confirm,
                      ImportBegin, ReplaceDone
  <1>9. CASE PublishFails \/ CleanFails \/ PrepareFails \/ ReplaceFails \/ Crash
    BY SMTT(60), <1>9, <1>u DEF PublishFails, CleanFails, PrepareFails, ReplaceFails, Crash
  <1>10. CASE Lock \/ \E c \in Clients : GetConfig(c)
    BY ZenonT(60), <1>10, <1>u DEF Lock, Acquire, GetConfig
  <1>11. CASE UNCHANGED vars
    BY <1>11, <1>u DEF vars
  <1> QED BY <1>1, <1>2, <1>3, <1>4, <1>5, <1>6, <1>7, <1>8, <1>9, <1>10, <1>11
          DEF Next, Step, Failure

\* The types and the shape hold initially.
LEMMA TypeInvInit == Init => TypeInv
  <1> SUFFICES ASSUME Init PROVE TypeInv
    OBVIOUS
  <1>1. ShapeInv
    BY ConfigAssumption DEF Init, Free, ShapeInv, Preparing, Rolling
  <1>2. DirInv
    BY DEF Init, NoDir, DirInv
  <1> QED BY SMTT(60), <1>1, <1>2, TypeInit DEF TypeInv

\* Every variable keeps its type, whatever fails: no step of a commit, of the
\* recovery or of the command line leaves its files or the holder malformed.
THEOREM TypeCorrect == Spec => []ConfigTypeOK
  <1>1. TypeInv /\ [Next]_vars => TypeInv'
    BY TypeStep, ShapeStep, DirStep DEF TypeInv
  <1>2. TypeInv => ConfigTypeOK
    BY DEF TypeInv
  <1> QED BY TypeInvInit, <1>1, <1>2, PTL DEF Spec

-----------------------------------------------------------------------------
(* Validators.  A validator is minted for one configuration, and wherever a  *)
(* managed state with a validator turns up, on a disk, in a manifest, in the *)
(* hands of the command line, its digest is that configuration.              *)

Vouched(s, m)  == s # None /\ s.validator # 0 =>
                    s.validator \in 1 .. Len(m) /\ m[s.validator] = s.digest
VTuple(t, m)   == t # None => Vouched(t["managed_state"], m)
VDisk(d, m)    == VTuple(d.target, m) /\ (d.manifest # None => VTuple(d.manifest.new, m))
VClient(s, m)  == IF s.validator = 0 THEN s.config = None
                  ELSE s.validator \in 1 .. Len(m) /\ m[s.validator] = s.config
VFiles(q, m)   == \A i \in 1 .. Len(q) : q[i].role = "managed_state" => Vouched(q[i].data, m)

DisksVouched  == \A d \in after : VDisk(d, minted)
SeenVouched   == \A c \in Clients : VClient(seen[c], minted)
HolderVouched == /\ VFiles(h.todo, minted) /\ VFiles(h.undo, minted)
                 /\ VTuple(h.expect, minted) /\ VTuple(h.put, minted)
                 /\ h.pc \in Preparing \/ h.job = "commit" =>
                      /\ h.put["managed_state"].digest = h.want
                      /\ h.put["managed_state"].validator # 0
VouchInv == DisksVouched /\ SeenVouched /\ HolderVouched

\* A validator that is minted later leaves the earlier ones alone.
LEMMA MintStep ==
  ASSUME TypeInv, [Next]_vars
  PROVE  \A v \in 1 .. Len(minted) : v \in 1 .. Len(minted') /\ minted'[v] = minted[v]
  <1>1. minted \in Seq(Docs \cup {HandEdit})
    BY DEF TypeInv, ConfigTypeOK
  <1>2. minted' = minted \/ \E x \in Docs \cup {HandEdit} : minted' = Append(minted, x)
    <2>1. CASE Migrate
      <3>1. Config \in Docs \cup {HandEdit}
        BY SMTT(60), <2>1, TargetType DEF TypeInv, Migrate, Legacy
      <3> QED BY <2>1, <3>1 DEF Migrate
    <2>2. CASE Prepare
      <3>1. h.want \in Docs
        BY ZenonT(60), <2>2 DEF Prepare, TypeInv, ShapeInv
      <3> QED BY ZenonT(60), <2>2, <3>1 DEF Prepare
    <2>3. CASE ImportBegin
      <3>1. \A doc \in Importable : doc \in Docs \cup {HandEdit}
        BY TargetType DEF TypeInv, Importable
      <3>2. \E doc \in Importable : minted' = Append(minted, doc)
        BY <2>3, ZenonT(60) DEF ImportBegin, Importable
      <3> QED BY <3>1, <3>2
    <2>4. CASE ~Migrate /\ ~Prepare /\ ~ImportBegin
      BY ZenonT(60), <2>4 DEF Next, Step, Failure, Lock, Acquire, GetConfig, Recover, Validate, Publish,
            SyncTarget, PublishFails, Clean, SyncClean, CleanFails, ReaderDone, Refuse, Confirm,
            MakeDir, SyncMkdir, Stage, PublishManifest, SyncManifest, PrepareFails, Replace,
            ReplaceDone, ReplaceFails, Restore, Crash, PowerLoss, Edit, vars
    <2> QED BY <2>1, <2>2, <2>3, <2>4
  <1> QED BY <1>1, <1>2

\* So what was vouched for stays so.
LEMMA VouchedStays ==
  ASSUME NEW m, NEW n, \A v \in 1 .. Len(m) : v \in 1 .. Len(n) /\ n[v] = m[v]
  PROVE  /\ \A s : Vouched(s, m) => Vouched(s, n)
         /\ \A t : VTuple(t, m) => VTuple(t, n)
         /\ \A d : VDisk(d, m) => VDisk(d, n)
         /\ \A s : VClient(s, m) => VClient(s, n)
         /\ \A q : VFiles(q, m) => VFiles(q, n)
  <1>1. \A s : Vouched(s, m) => Vouched(s, n)
    BY Zenon DEF Vouched
  <1>2. \A t : VTuple(t, m) => VTuple(t, n)
    BY <1>1, Zenon DEF VTuple
  <1>3. \A d : VDisk(d, m) => VDisk(d, n)
    BY <1>2, Zenon DEF VDisk
  <1>4. \A s : VClient(s, m) => VClient(s, n)
    BY Zenon DEF VClient
  <1>5. \A q : VFiles(q, m) => VFiles(q, n)
    BY <1>1, Zenon DEF VFiles
  <1> QED BY <1>1, <1>2, <1>3, <1>4, <1>5

\* A new state is vouched for by the validator it is minted with.
LEMMA NewVouched ==
  ASSUME ConfigTypeOK, NEW doc \in Docs \cup {HandEdit}, minted' = Append(minted, doc)
  PROVE  Vouched(NewState(doc), minted') /\ NewState(doc).validator # 0
  BY DEF ConfigTypeOK, NewState, Vouched

\* The disks that may come back stay vouched for.
LEMMA DisksVouchedStep == TypeInv /\ VouchInv /\ [Next]_vars => DisksVouched'
  <1> SUFFICES ASSUME TypeInv, VouchInv, [Next]_vars PROVE DisksVouched'
    OBVIOUS
  <1>t. h \in Holders /\ disk \in Disks /\ disk \in after /\ disk.target \in Tuples /\ ConfigTypeOK
    BY TargetType DEF TypeInv, ConfigTypeOK
  <1>m. \A d : VDisk(d, minted) => VDisk(d, minted')
    BY MintStep, VouchedStays
  <1>n. \A s : Vouched(s, minted) => Vouched(s, minted')
    BY MintStep, VouchedStays
  <1>d. VDisk(disk, minted') /\ \A d \in after : VDisk(d, minted')
    BY <1>t, <1>m DEF VouchInv, DisksVouched
  <1>c. ASSUME NEW e, Change(e), VDisk(e, minted') PROVE DisksVouched'
    BY <1>c, <1>d DEF Change, DisksVouched
  <1>s. ASSUME NEW r, NEW x, SetTarget(r, x), r = "managed_state" => Vouched(x, minted')
        PROVE  DisksVouched'
    <2> DEFINE t == [disk.target EXCEPT ![r] = x]
               e == [disk EXCEPT !.target = t]
    <2>1. t["managed_state"] = IF r = "managed_state" THEN x ELSE disk.target["managed_state"]
      BY <1>t DEF Tuples, Roles
    <2>2. disk.target # None
      BY <1>t, ConfigAssumption
    <2>3. Vouched(t["managed_state"], minted')
      <3> HIDE DEF t
      <3> QED BY <1>s, <2>1, <2>2, <1>d DEF VDisk, VTuple
    <2>4. e.target = t /\ e.manifest = disk.manifest
      <3> HIDE DEF t
      <3> QED BY <1>t DEF Disks
    <2>5. VDisk(e, minted')
      <3> HIDE DEF t, e
      <3> QED BY <2>3, <2>4, <1>d DEF VDisk, VTuple
    <2>6. Change(e)
      BY <1>s DEF SetTarget
    <2> HIDE DEF e
    <2> QED BY <2>5, <2>6, <1>c
  <1>y. Sync => DisksVouched'
    BY <1>d DEF Sync, DisksVouched
  <1>u. after' = after => DisksVouched'
    BY <1>d DEF DisksVouched
  <1>1. CASE Clean
    <2>1. ASSUME NEW e, e.target = disk.target, e.manifest = disk.manifest \/ e.manifest = None
          PROVE  VDisk(e, minted')
      BY <2>1, <1>d DEF VDisk
    <2>2. CASE Change([disk EXCEPT !.manifest = None])
      BY <2>1, <2>2, <1>c, <1>t DEF Disks
    <2>3. CASE Change([disk EXCEPT !.images = {}])
      BY <2>1, <2>3, <1>c, <1>t DEF Disks
    <2>4. CASE Change([disk EXCEPT !.dir = FALSE])
      BY <2>1, <2>4, <1>c, <1>t DEF Disks
    <2> QED BY <1>1, <2>2, <2>3, <2>4 DEF Clean
  <1>2. CASE MakeDir
    <2>1. CASE Change([disk EXCEPT !.dir = TRUE])
      BY <2>1, <1>c, <1>t, <1>d DEF Disks, VDisk
    <2> QED BY <1>2, <2>1, <1>u DEF MakeDir
  <1>3. CASE Stage
    <2>1. ASSUME NEW r, Change([disk EXCEPT !.images = @ \cup {r}]) PROVE DisksVouched'
      BY <2>1, <1>c, <1>t, <1>d DEF Disks, VDisk
    <2> QED BY <1>3, <2>1, <1>u, Zenon DEF Stage
  <1>4. CASE PublishManifest
    <2> DEFINE m == [old |-> h.expect, new |-> h.put]
    <2>1. VTuple(m.new, minted')
      BY ZenonT(60), MintStep, VouchedStays DEF VouchInv, HolderVouched
    <2>2. Change([disk EXCEPT !.manifest = m])
      BY <1>4 DEF PublishManifest
    <2> HIDE DEF m
    <2>3. [disk EXCEPT !.manifest = m].target = disk.target /\ [disk EXCEPT !.manifest = m].manifest = m
      BY <1>t DEF Disks
    <2>4. VDisk([disk EXCEPT !.manifest = m], minted')
      BY <2>1, <2>3, <1>d DEF VDisk
    <2> QED BY SMTT(60), <2>2, <2>4, <1>c
  <1>5. CASE PowerLoss
    BY <1>5, <1>d DEF PowerLoss, DisksVouched
  <1>6. CASE Publish
    <2>1. ASSUME NEW r \in Roles, SetTarget(r, disk.manifest.new[r]), disk.manifest # None
          PROVE  DisksVouched'
      <3>1. disk.manifest.new # None
        BY <1>t, <2>1, ConfigAssumption DEF Disks, Manifests
      <3>2. r = "managed_state" => Vouched(disk.manifest.new[r], minted')
        BY <2>1, <3>1, <1>d DEF VDisk, VTuple
      <3> QED BY <2>1, <3>2, <1>s
    <2>2. disk.manifest # None
      BY <1>6 DEF Publish, At, TypeInv, ShapeInv, Rolling
    <2>3. ~(h.k > Len(Order)) => Order[h.k] \in Roles
      BY <1>t DEF Holders, Order, Roles
    <2> QED BY <1>6, <2>1, <2>2, <2>3, <1>u, Zenon DEF Publish
  <1>7. CASE Migrate
    <2>1. Vouched(NewState(Config), minted')
      BY <1>7, <1>t, TargetType, NewVouched DEF Migrate, Legacy
    <2> QED BY <1>7, <2>1, <1>s DEF Migrate
  <1>8. CASE Replace
    <2>1. h.todo \in Seq(Files) /\ h.todo # <<>>
      BY <1>8, <1>t DEF Replace, Holders
    <2>2. 1 \in 1 .. Len(h.todo) /\ Head(h.todo) = h.todo[1]
      BY <2>1
    <2>3. Head(h.todo).role = "managed_state" => Vouched(Head(h.todo).data, minted')
      BY <2>2, <1>n DEF VouchInv, HolderVouched, VFiles
    <2>4. SetTarget(Head(h.todo).role, Head(h.todo).data)
      BY <1>8 DEF Replace
    <2> QED BY <2>3, <2>4, <1>s
  <1>9. CASE Restore
    <2>1. CASE h.undo # <<>>
      <3>1. h.undo \in Seq(Files)
        BY <1>t DEF Holders
      <3>2. 1 \in 1 .. Len(h.undo) /\ Head(h.undo) = h.undo[1]
        BY <2>1, <3>1
      <3>3. Head(h.undo).role = "managed_state" => Vouched(Head(h.undo).data, minted')
        BY <3>2, <1>n DEF VouchInv, HolderVouched, VFiles
      <3>4. SetTarget(Head(h.undo).role, Head(h.undo).data)
        BY <1>9, <2>1 DEF Restore
      <3> QED BY <3>3, <3>4, <1>s
    <2> QED BY <1>9, <2>1, <1>u DEF Restore
  <1>10. CASE Edit
    BY <1>10, <1>s DEF Edit
  <1>11. CASE SyncTarget \/ SyncClean \/ SyncMkdir \/ SyncManifest
    BY SMTT(60), <1>11, <1>y DEF SyncTarget, SyncClean, SyncMkdir, SyncManifest
  <1>12. CASE \/ Recover \/ Validate \/ ReaderDone \/ Prepare \/ Refuse \/ Confirm
              \/ ImportBegin \/ ReplaceDone
    BY ZenonT(60), <1>12, <1>u DEF Recover, Validate, ReaderDone, Prepare, Refuse, Confirm,
                       ImportBegin, ReplaceDone
  <1>13. CASE PublishFails \/ CleanFails \/ PrepareFails \/ ReplaceFails \/ Crash
    BY SMTT(60), <1>13, <1>u DEF PublishFails, CleanFails, PrepareFails, ReplaceFails, Crash
  <1>14. CASE Lock \/ \E c \in Clients : GetConfig(c)
    BY ZenonT(60), <1>14, <1>u DEF Lock, Acquire, GetConfig
  <1>15. CASE UNCHANGED vars
    BY <1>15, <1>u DEF vars
  <1> QED BY <1>1, <1>2, <1>3, <1>4, <1>5, <1>6, <1>7, <1>8, <1>9, <1>10, <1>11, <1>12, <1>13,
             <1>14, <1>15 DEF Next, Step, Failure

\* What clients hold stays vouched for.
LEMMA SeenVouchedStep == TypeInv /\ VouchInv /\ [Next]_vars => SeenVouched'
  <1> SUFFICES ASSUME TypeInv, VouchInv, [Next]_vars PROVE SeenVouched'
    OBVIOUS
  <1>t. /\ seen \in [Clients -> [config : {None, HandEdit} \cup Docs, validator : Nat]]
        /\ h \in Holders /\ disk \in after /\ ConfigTypeOK
    BY DEF TypeInv, ConfigTypeOK
  <1>m. \A c \in Clients : VClient(seen[c], minted')
    BY SMTT(60), MintStep, VouchedStays DEF VouchInv, SeenVouched
  <1>u. seen' = seen => SeenVouched'
    BY <1>m DEF SeenVouched
  <1>1. ASSUME NEW c \in Clients, GetConfig(c) PROVE SeenVouched'
    <2> DEFINE v == [config |-> Config, validator |-> IF Managed THEN State.validator ELSE 0]
    <2>1. disk.target # None
      BY <1>t, TargetType, ConfigAssumption
    <2>2. Vouched(State, minted)
      BY <1>t, <2>1 DEF VouchInv, DisksVouched, VDisk, VTuple, State
    <2>3. VClient(v, minted)
      BY <1>1, <2>2 DEF GetConfig, Managed, Unmanaged, Vouched, VClient
    <2>4. seen' = [seen EXCEPT ![c] = v] /\ minted' = minted
      BY <1>1 DEF GetConfig
    <2> HIDE DEF v
    <2> QED BY <2>3, <2>4, <1>t, <1>m DEF SeenVouched
  <1>c. ASSUME Cleaned, minted' = minted PROVE SeenVouched'
    <2>1. CASE h.job # "commit"
      BY <1>c, <2>1, <1>u DEF Cleaned
    <2>2. CASE h.job = "commit"
      <3> DEFINE s == h.put["managed_state"]
                 v == [config |-> h.want, validator |-> s.validator]
      <3>1. seen' = [seen EXCEPT ![h.who] = v] /\ h.who \in Clients
        BY SMTT(60), <1>c, <2>2 DEF Cleaned, TypeInv, ShapeInv
      <3>2. Vouched(s, minted) /\ s # None /\ s.digest = h.want /\ s.validator # 0
        BY SMTT(60), <2>2 DEF VouchInv, HolderVouched, VTuple, TypeInv, ShapeInv
      <3>3. VClient(v, minted)
        <4> HIDE DEF s
        <4> QED BY ZenonT(60), <3>2 DEF Vouched, VClient
      <3> HIDE DEF v
      <3> QED BY SMTT(60), <1>c, <3>1, <3>3, <1>t, <1>m DEF SeenVouched
    <2> QED BY <2>1, <2>2
  <1>2. CASE SyncClean \/ CleanFails
    BY SMTT(60), <1>2, <1>c, <1>u DEF SyncClean, CleanFails
  <1>3. CASE ~(SyncClean \/ CleanFails \/ \E c \in Clients : GetConfig(c))
    BY ZenonT(60), <1>3, <1>u DEF Next, Step, Failure, Lock, Acquire, Recover, Validate, Publish,
          SyncTarget, PublishFails, Clean, Migrate, ReaderDone, Prepare, Refuse, Confirm,
          MakeDir, SyncMkdir, Stage, PublishManifest, SyncManifest, PrepareFails, ImportBegin,
          Replace, ReplaceDone, ReplaceFails, Restore, Crash, PowerLoss, Edit, vars
  <1> QED BY <1>1, <1>2, <1>3

\* What the holder of the lock works with stays vouched for.
LEMMA HolderVouchedStep == TypeInv /\ VouchInv /\ [Next]_vars => HolderVouched'
  <1> SUFFICES ASSUME TypeInv, VouchInv, [Next]_vars PROVE HolderVouched'
    OBVIOUS
  <1>t. h \in Holders /\ disk \in after /\ ConfigTypeOK /\ disk.target \in Tuples
    BY TargetType DEF TypeInv, ConfigTypeOK
  <1>q. h.todo \in Seq(Files) /\ h.undo \in Seq(Files)
    BY SMTT(60), <1>t DEF Holders
  <1>m. /\ VFiles(h.todo, minted') /\ VFiles(h.undo, minted')
        /\ VTuple(h.expect, minted') /\ VTuple(h.put, minted')
    BY ZenonT(60), MintStep, VouchedStays DEF VouchInv, HolderVouched
  <1>d. VTuple(disk.target, minted')
    BY ZenonT(60), <1>t, MintStep, VouchedStays DEF VouchInv, DisksVouched, VDisk
  <1>s. Vouched(disk.target["managed_state"], minted')
    BY <1>t, <1>d, ConfigAssumption DEF VTuple
  <1>f. h' = Free => HolderVouched'
    BY DEF Free, HolderVouched, VFiles, VTuple, Preparing
  <1>k. ASSUME h'.todo = h.todo, h'.undo = h.undo, h'.expect = h.expect \/ h'.expect = disk.target,
               h'.put = h.put, h'.want = h.want,
               h'.pc \in Preparing \/ h'.job = "commit" => h.pc \in Preparing \/ h.job = "commit"
        PROVE  HolderVouched'
    BY <1>k, <1>m, <1>d DEF HolderVouched, VouchInv
  <1>1. ASSUME NEW who, NEW want, Acquire(who, want) PROVE HolderVouched'
    <2>1. /\ h'.pc = "recover" /\ h'.job = "recover" /\ h'.expect = None /\ h'.put = None
          /\ h'.todo = <<>> /\ h'.undo = <<>>
      BY <1>1 DEF Acquire, Free
    <2> QED BY <2>1 DEF HolderVouched, VFiles, VTuple, Preparing
  <1>g. ASSUME NEW pc, Go(pc), pc \in Preparing => h.pc \in Preparing PROVE HolderVouched'
    <2>1. /\ h'.todo = h.todo /\ h'.undo = h.undo /\ h'.expect = h.expect
          /\ h'.put = h.put /\ h'.want = h.want /\ h'.pc = pc /\ h'.job = h.job
      BY <1>g, <1>t DEF Go, Holders
    <2> QED BY <1>g, <2>1, <1>k
  <1>r. (\E a : Release(a)) \/ Fail => HolderVouched'
    BY <1>f DEF Release, Fail
  <1>a. Abort => HolderVouched'
    <2> HAVE Abort
    <2>1. /\ h'.todo = h.todo /\ h'.undo = h.undo /\ h'.expect = h.expect
          /\ h'.put = h.put /\ h'.want = h.want /\ h'.pc = "clean" /\ h'.job = "abort"
      BY <1>t DEF Abort, Holders
    <2> QED BY <2>1, <1>k DEF Preparing
  <1>u. h' = h => HolderVouched'
    BY <1>k
  <1>e. ASSUME NEW pc, NEW k, h' = [h EXCEPT !.pc = pc, !.k = k], pc \in Preparing => h.pc \in Preparing
        PROVE  HolderVouched'
    <2>1. /\ h'.todo = h.todo /\ h'.undo = h.undo /\ h'.expect = h.expect
          /\ h'.put = h.put /\ h'.want = h.want /\ h'.pc = pc /\ h'.job = h.job
      BY <1>e, <1>t DEF Holders
    <2> QED BY <1>e, <2>1, <1>k
  <1>n. ASSUME NEW k, h' = [h EXCEPT !.k = k] PROVE HolderVouched'
    <2>1. /\ h'.todo = h.todo /\ h'.undo = h.undo /\ h'.expect = h.expect
          /\ h'.put = h.put /\ h'.want = h.want /\ h'.pc = h.pc /\ h'.job = h.job
      BY <1>n, <1>t DEF Holders
    <2> QED BY <2>1, <1>k
  <1>2. CASE Recover
    BY <1>2, <1>g DEF Recover, Preparing
  <1>3. CASE Validate
    BY <1>3, <1>e, <1>r, Zenon DEF Validate, Preparing
  <1>4. CASE Publish
    BY SMTT(60), <1>4, <1>g, <1>n DEF Publish, Preparing
  <1>5. CASE SyncTarget
    BY ZenonT(60), <1>5, <1>e DEF SyncTarget, Preparing
  <1>6. CASE Clean
    BY <1>6, <1>g, <1>u DEF Clean, Preparing
  <1>c. Cleaned => HolderVouched'
    BY <1>g, <1>r DEF Cleaned, Preparing
  <1>7. CASE MakeDir \/ SyncManifest
    BY SMTT(60), <1>7, <1>g DEF MakeDir, SyncManifest, Preparing, At
  <1>8. CASE SyncMkdir
    BY ZenonT(60), <1>8, <1>e DEF SyncMkdir, Preparing, At
  <1>9. CASE Stage
    BY <1>9, <1>g, <1>a, <1>n DEF Stage, Preparing, At
  <1>10. CASE PublishManifest
    <2>1. /\ h'.todo = h.todo /\ h'.undo = h.undo /\ h'.expect = h.expect
          /\ h'.put = h.put /\ h'.want = h.want
      BY <1>10, <1>t DEF PublishManifest, Holders
    <2> QED BY <1>10, <2>1, <1>k DEF PublishManifest, At, Preparing
  <1>11. CASE PrepareFails
    BY <1>11, <1>a, <1>r DEF PrepareFails
  <1>12. CASE Prepare
    <2>1. CASE h' = [h EXCEPT !.pc = "refuse"]
      BY <2>1, <1>g DEF Go, Preparing
    <2>2. CASE h' = [h EXCEPT !.pc = "unchanged", !.expect = disk.target]
      <3>1. /\ h'.todo = h.todo /\ h'.undo = h.undo /\ h'.expect = disk.target
            /\ h'.put = h.put /\ h'.want = h.want /\ h'.pc = "unchanged" /\ h'.job = h.job
        BY SMTT(60), <2>2, <1>t DEF Holders
      <3> QED BY <3>1, <1>k DEF Preparing
    <2>3. ASSUME NEW s \in Stores, minted' = Append(minted, h.want),
                 h' = [h EXCEPT !.pc = "mkdir", !.expect = disk.target,
                        !.put = [r \in Roles |-> Fill(r, h.want, s, NewState(h.want))]]
          PROVE  HolderVouched'
      <3> DEFINE put == [r \in Roles |-> Fill(r, h.want, s, NewState(h.want))]
      <3>1. h.want \in Docs
        BY ZenonT(60), <1>12 DEF Prepare, TypeInv, ShapeInv
      <3>2. put["managed_state"] = NewState(h.want)
        BY DEF Fill, Roles
      <3>3. h' = [h EXCEPT !.pc = "mkdir", !.expect = disk.target, !.put = put]
        BY <2>3
      <3>4. Vouched(NewState(h.want), minted') /\ NewState(h.want).validator # 0
        BY <1>t, <2>3, <3>1, NewVouched
      <3>5. NewState(h.want).digest = h.want
        BY DEF NewState
      <3> HIDE DEF put
      <3>6. /\ h'.todo = h.todo /\ h'.undo = h.undo /\ h'.expect = disk.target
            /\ h'.put = put /\ h'.want = h.want
        BY <3>3, <1>t DEF Holders
      <3> QED BY SMTT(60), <3>2, <3>4, <3>5, <3>6, <1>m, <1>d DEF HolderVouched, VTuple
    <2> QED BY <1>12, <2>1, <2>2, <2>3, Zenon DEF Prepare
  <1>13. CASE ImportBegin
    <2>1. ASSUME NEW doc \in Importable, NEW s \in Stores,
                 minted' = Append(minted, doc),
                 h' = [h EXCEPT !.pc = "replace", !.job = "import", !.expect = disk.target,
                        !.todo = <<File("config", doc), File("secrets", s),
                                   File("managed_state", NewState(doc))>>]
          PROVE  HolderVouched'
      <3> DEFINE q == <<File("config", doc), File("secrets", s),
                        File("managed_state", NewState(doc))>>
      <3>1. Vouched(NewState(doc), minted')
        BY <1>t, <2>1, TargetType, NewVouched DEF Importable
      <3>2. VFiles(q, minted')
        BY <3>1 DEF VFiles, File
      <3>3. h' = [h EXCEPT !.pc = "replace", !.job = "import", !.expect = disk.target, !.todo = q]
        BY <2>1
      <3> HIDE DEF q
      <3>4. /\ h'.todo = q /\ h'.undo = h.undo /\ h'.expect = disk.target
            /\ h'.put = h.put /\ h'.pc = "replace" /\ h'.job = "import"
        BY <3>3, <1>t DEF Holders
      <3> QED BY <3>2, <3>4, <1>m, <1>d DEF HolderVouched, Preparing
    <2>2. ASSUME NEW doc \in Docs,
                 minted' = Append(minted, doc),
                 h' = [h EXCEPT !.pc = "replace", !.job = "set", !.expect = disk.target,
                        !.todo = <<File("config", doc), File("managed_state", NewState(doc))>>]
          PROVE  HolderVouched'
      <3> DEFINE q == <<File("config", doc), File("managed_state", NewState(doc))>>
      <3>1. Vouched(NewState(doc), minted')
        BY <1>t, <2>2, NewVouched
      <3>2. VFiles(q, minted')
        BY <3>1 DEF VFiles, File
      <3>3. h' = [h EXCEPT !.pc = "replace", !.job = "set", !.expect = disk.target, !.todo = q]
        BY <2>2
      <3> HIDE DEF q
      <3>4. /\ h'.todo = q /\ h'.undo = h.undo /\ h'.expect = disk.target
            /\ h'.put = h.put /\ h'.pc = "replace" /\ h'.job = "set"
        BY SMTT(60), <3>3, <1>t DEF Holders
      <3> QED BY <3>2, <3>4, <1>m, <1>d DEF HolderVouched, Preparing
    <2> QED BY <1>13, <2>1, <2>2, Zenon DEF ImportBegin
  <1>14. CASE Replace
    <2> DEFINE f == Head(h.todo)
               g == File(f.role, disk.target[f.role])
    <2>1. h' = [h EXCEPT !.todo = Tail(h.todo), !.undo = Append(h.undo, g)]
      BY <1>14 DEF Replace
    <2>2. VFiles(Tail(h.todo), minted')
      BY SMTT(60), <1>14, <1>q, <1>m DEF Replace, VFiles
    <2>3. g.role = "managed_state" => Vouched(g.data, minted')
      BY <1>s DEF File
    <2>4. VFiles(Append(h.undo, g), minted')
      <3> HIDE DEF g
      <3> QED BY <1>q, <1>m, <2>3 DEF VFiles
    <2> HIDE DEF g, f
    <2>5. /\ h'.todo = Tail(h.todo) /\ h'.undo = Append(h.undo, g) /\ h'.expect = h.expect
          /\ h'.put = h.put /\ h'.want = h.want /\ h'.pc = h.pc /\ h'.job = h.job
      BY <2>1, <1>t DEF Holders
    <2> QED BY <2>2, <2>4, <2>5, <1>m DEF HolderVouched, VouchInv
  <1>15. CASE ReplaceDone
    <2>1. CASE ~Release("none")
      <3> DEFINE q == <<File("config", h.expect["config"]),
                        File("managed_state", h.expect["managed_state"])>>
      <3>1. h.job = "set" /\ h' = [h EXCEPT !.job = "rollback", !.undo = <<>>, !.todo = q]
        BY <1>15, <2>1 DEF ReplaceDone, Captured
      <3>2. Vouched(h.expect["managed_state"], minted')
        BY <3>1, <1>m DEF VTuple, TypeInv, ShapeInv
      <3>3. VFiles(q, minted')
        BY <3>2 DEF VFiles, File
      <3> HIDE DEF q
      <3>4. /\ h'.todo = q /\ h'.undo = <<>> /\ h'.expect = h.expect
            /\ h'.put = h.put /\ h'.pc = h.pc /\ h'.job = "rollback"
        BY <3>1, <1>t DEF Holders
      <3>5. VFiles(<<>>, minted')
        BY DEF VFiles
      <3>6. h.pc = "replace"
        BY SMTT(60), <1>15 DEF ReplaceDone, At
      <3> QED BY <3>3, <3>4, <3>5, <3>6, <1>m DEF HolderVouched, Preparing
    <2> QED BY <2>1, <1>r
  <1>16. CASE Restore
    <2>1. CASE ~Release("none")
      <3>1. h' = [h EXCEPT !.undo = Tail(h.undo)] /\ h.undo # <<>>
        BY <1>16, <2>1 DEF Restore
      <3>2. VFiles(Tail(h.undo), minted')
        BY SMTT(60), <3>1, <1>q, <1>m DEF VFiles
      <3>3. /\ h'.todo = h.todo /\ h'.undo = Tail(h.undo) /\ h'.expect = h.expect
            /\ h'.put = h.put /\ h'.want = h.want /\ h'.pc = h.pc /\ h'.job = h.job
        BY <3>1, <1>t DEF Holders
      <3> QED BY <3>2, <3>3, <1>m DEF HolderVouched, VouchInv
    <2> QED BY <2>1, <1>r
  <1>17. CASE \/ PublishFails \/ SyncClean \/ CleanFails \/ Migrate \/ ReaderDone \/ Refuse
              \/ Confirm \/ Crash \/ PowerLoss \/ ReplaceFails \/ Edit
    BY <1>17, <1>r, <1>c, <1>u, <1>f, <1>g DEF PublishFails, SyncClean, CleanFails, Migrate,
         ReaderDone, Refuse, Confirm, Crash, PowerLoss, ReplaceFails, Edit, Preparing
  <1>18. CASE UNCHANGED vars \/ \E c \in Clients : GetConfig(c)
    BY <1>18, <1>u DEF vars, GetConfig
  <1> QED BY SMTT(60), <1>1, <1>2, <1>3, <1>4, <1>5, <1>6, <1>7, <1>8, <1>9, <1>10, <1>11, <1>12, <1>13,
             <1>14, <1>15, <1>16, <1>17, <1>18 DEF Next, Step, Failure, Lock

-----------------------------------------------------------------------------
(* Preparation: the precondition was that of the client, and the images are  *)
(* staged one after the other.                                               *)

PrepInv ==
    /\ h.pc \in Preparing \cup {"unchanged"} => h.expect["config"] = seen[h.who].config
    /\ h.pc = "unchanged" => h.expect["config"] = h.want
    /\ h.pc = "stage" => \A i \in 1 .. Len(Order) : i < h.k => Order[i] \in disk.images
    /\ h.pc = "manifest" => disk.images = Roles

\* The validator a client presents stands for the configuration it has read.
LEMMA PreconditionMeans ==
  ASSUME TypeInv, VouchInv, NEW c \in Clients, Precondition(c)
  PROVE  Config = seen[c].config
  <1>1. Vouched(State, minted) /\ VClient(seen[c], minted)
    <2>1. disk.target # None /\ disk \in after
      BY TargetType, ConfigAssumption DEF TypeInv, ConfigTypeOK
    <2> QED BY <2>1 DEF VouchInv, DisksVouched, VDisk, VTuple, State, SeenVouched
  <1>2. CASE Managed /\ seen[c].validator = State.validator
    BY <1>1, <1>2 DEF Managed, Vouched, VClient
  <1>3. CASE Unmanaged /\ seen[c].validator = 0
    BY <1>1, <1>3 DEF Unmanaged, VClient
  <1> QED BY <1>2, <1>3 DEF Precondition

\* Preparation keeps to this.
LEMMA PrepStep == TypeInv /\ VouchInv /\ PrepInv /\ [Next]_vars => PrepInv'
  <1> SUFFICES ASSUME TypeInv, VouchInv, PrepInv, [Next]_vars PROVE PrepInv'
    OBVIOUS
  <1>t. h \in Holders /\ disk \in Disks
    BY DEF TypeInv, ConfigTypeOK
  <1>o. h'.pc \notin Preparing \cup {"unchanged"} => PrepInv'
    BY DEF PrepInv, Preparing
  <1>u. h' = h /\ seen' = seen /\ disk'.images = disk.images => PrepInv'
    BY DEF PrepInv
  <1>g. \A pc : Go(pc) => h'.pc = pc /\ h'.who = h.who /\ h'.expect = h.expect /\ h'.k = h.k
    BY <1>t DEF Go, Holders
  <1>f. h' = Free => PrepInv'
    BY <1>o DEF Free, Preparing
  <1>r. (\E a : Release(a)) \/ Fail \/ Abort => PrepInv'
    <2>1. Abort => h'.pc = "clean"
      BY <1>t DEF Abort, Holders
    <2> QED BY <2>1, <1>f, <1>o DEF Release, Fail, Preparing
  <1>s. ASSUME NEW r, NEW x, SetTarget(r, x) PROVE disk'.images = disk.images
    BY <1>s, <1>t DEF SetTarget, Change, Disks
  <1>1. CASE Prepare
    <2>1. h.who \in Clients /\ seen' = seen
      BY ZenonT(60), <1>1 DEF Prepare
    <2>2. CASE h' = [h EXCEPT !.pc = "refuse"]
      <3>1. h'.pc = "refuse"
        BY <2>2, <1>t DEF Holders
      <3> QED BY <3>1, <1>o DEF Preparing
    <2>3. CASE /\ Precondition(h.who) /\ Config = h.want
               /\ h' = [h EXCEPT !.pc = "unchanged", !.expect = disk.target]
      <3>1. h'.pc = "unchanged" /\ h'.who = h.who /\ h'.expect = disk.target /\ h'.want = h.want
        BY <2>3, <1>t DEF Holders
      <3>2. Config = seen[h.who].config
        BY SMTT(60), <2>1, <2>3, PreconditionMeans
      <3> QED BY <2>1, <2>3, <3>1, <3>2 DEF PrepInv, Config
    <2>4. ASSUME Precondition(h.who), NEW put,
                 h' = [h EXCEPT !.pc = "mkdir", !.expect = disk.target, !.put = put]
          PROVE  PrepInv'
      <3>1. h'.pc = "mkdir" /\ h'.who = h.who /\ h'.expect = disk.target
        BY <2>4, <1>t DEF Holders
      <3>2. Config = seen[h.who].config
        BY <2>1, <2>4, PreconditionMeans
      <3> QED BY <2>1, <3>1, <3>2 DEF PrepInv, Config
    <2> QED BY <1>1, <2>2, <2>3, <2>4, ZenonT(60) DEF Prepare
  <1>2. CASE MakeDir
    <2>1. CASE Go("syncMkdir")
      BY <1>2, <2>1, <1>g DEF MakeDir, At, PrepInv, Preparing
    <2>2. CASE Go("refuse")
      BY <2>2, <1>g, <1>o DEF Preparing
    <2> QED BY <1>2, <2>1, <2>2 DEF MakeDir
  <1>3. CASE SyncMkdir
    <2>1. h'.pc = "stage" /\ h'.who = h.who /\ h'.expect = h.expect /\ h'.k = 1
      BY <1>3, <1>t DEF SyncMkdir, Holders
    <2> QED BY <1>3, <2>1 DEF SyncMkdir, At, PrepInv, Preparing
  <1>4. CASE Stage
    <2>0. h.k \in 1 .. 4 /\ Len(Order) = 3
      BY <1>t DEF Holders, Order
    <2>1. CASE Go("manifest") /\ disk' = disk /\ h.k > Len(Order)
      <3>1. \A i \in 1 .. 3 : Order[i] \in disk.images
        BY <1>4, <2>0, <2>1 DEF Stage, At, PrepInv
      <3>2. disk.images = Roles
        BY <3>1, <1>t DEF Order, Roles, Disks
      <3> QED BY <1>4, <2>1, <3>2, <1>g DEF Stage, At, PrepInv, Preparing
    <2>2. CASE /\ Change([disk EXCEPT !.images = @ \cup {Order[h.k]}])
               /\ h' = [h EXCEPT !.k = @ + 1]
      <3>1. h'.pc = h.pc /\ h'.who = h.who /\ h'.expect = h.expect /\ h'.k = h.k + 1
        BY <2>2, <1>t DEF Holders
      <3>2. disk'.images = disk.images \cup {Order[h.k]}
        BY <2>2, <1>t DEF Change, Disks
      <3>3. \A i \in 1 .. 3 : i < h.k + 1 => i < h.k \/ i = h.k
        BY <2>0
      <3>4. \A i \in 1 .. Len(Order) : i < h'.k => Order[i] \in disk'.images
        BY <1>4, <2>0, <3>1, <3>2, <3>3 DEF Stage, At, PrepInv
      <3> QED BY <1>4, <3>1, <3>4 DEF Stage, At, PrepInv, Preparing
    <2> QED BY <1>4, <2>1, <2>2, <1>r, Zenon DEF Stage
  <1>5. CASE PublishManifest
    <2>1. h'.pc = "syncManifest"
      BY <1>5, <1>t DEF PublishManifest, Holders
    <2> QED BY <2>1, <1>o DEF Preparing
  <1>6. CASE Recover \/ SyncManifest \/ ReplaceFails
    BY <1>6, <1>g, <1>o DEF Recover, SyncManifest, ReplaceFails, Preparing
  <1>7. CASE Validate
    <2>1. h' = [h EXCEPT !.pc = "publish", !.k = 1] => h'.pc = "publish"
      BY <1>t DEF Holders
    <2> QED BY <1>7, <2>1, <1>r, <1>o DEF Validate, Preparing
  <1>8. CASE Publish \/ Clean \/ SyncTarget
    <2>1. h'.pc \in {"clean", "publish", "syncTarget", "syncClean"}
      BY ZenonT(60), <1>8, <1>t, <1>g DEF Publish, Clean, SyncTarget, Holders, At
    <2> QED BY <2>1, <1>o DEF Preparing
  <1>c. Cleaned => PrepInv'
    BY <1>g, <1>o, <1>r DEF Cleaned, Preparing
  <1>9. CASE ImportBegin \/ Replace \/ ReplaceDone \/ Restore
    <2>1. h'.pc \in {"replace", "restore"} \/ Release("none")
      BY ZenonT(60), <1>9, <1>t DEF ImportBegin, Replace, ReplaceDone, Restore, Holders, At
    <2> QED BY <2>1, <1>o, <1>r DEF Preparing
  <1>10. CASE Migrate \/ Edit
    <2>1. seen' = seen /\ disk'.images = disk.images /\ (h' = h \/ Release("none"))
      BY SMTT(60), <1>10, <1>s DEF Migrate, Edit
    <2> QED BY <2>1, <1>u, <1>r
  <1>11. CASE \/ PublishFails \/ SyncClean \/ CleanFails \/ ReaderDone \/ Refuse
              \/ Confirm \/ Crash \/ PowerLoss \/ PrepareFails
    BY <1>11, <1>r, <1>c, <1>f DEF PublishFails, SyncClean, CleanFails,
         ReaderDone, Refuse, Confirm, Crash, PowerLoss, PrepareFails
  <1>12. ASSUME NEW c \in Clients, GetConfig(c) PROVE PrepInv'
    BY <1>12, <1>o DEF GetConfig, At, Preparing
  <1>13. ASSUME NEW who, NEW want, Acquire(who, want) PROVE PrepInv'
    <2>1. h'.pc = "recover"
      BY <1>13 DEF Acquire, Free
    <2> QED BY <2>1, <1>o DEF Preparing
  <1>14. CASE UNCHANGED vars
    BY SMTT(60), <1>14, <1>u DEF vars
  <1> QED BY <1>1, <1>2, <1>3, <1>4, <1>5, <1>6, <1>7, <1>8, <1>9, <1>10, <1>11, <1>12, <1>13,
             <1>14 DEF Next, Step, Failure, Lock

-----------------------------------------------------------------------------
(* Roll forward, as long as no editor has interfered: every manifest that    *)
(* may be found can be rolled forward, and a commit has its tuple in place.  *)

JournalInv == \A d \in after : d.manifest # None => \A r \in Roles : Publishable(d, r)

RollInv ==
    /\ h.pc = "manifest" => disk.target = h.expect
    /\ h.pc \in {"publish", "syncTarget"} => \A i \in 1 .. Len(Order) :
         i < h.k => disk.target[Order[i]] = disk.manifest.new[Order[i]]
    /\ h.pc = "syncTarget" => disk.target[Order[h.k]] = disk.manifest.new[Order[h.k]]
    /\ h.pc = "clean" /\ disk.manifest # None => disk.target = disk.manifest.new
    /\ h.job = "commit" => View(disk) = h.put
    /\ h.job = "commit" /\ h.pc # "syncManifest" => \A d \in after : View(d) = h.put

SafeInv == raced = "no" => JournalInv /\ RollInv

\* Once an editor has interfered, it has.
LEMMA RacedStays == [Next]_vars /\ raced' = "no" => raced = "no"
  BY ZenonT(60) DEF Next, Step, Failure, Lock, Acquire, GetConfig, Recover, Validate, Publish,
         SyncTarget, PublishFails, Clean, SyncClean, CleanFails, Migrate, ReaderDone, Prepare,
         Refuse, Confirm, MakeDir, SyncMkdir, Stage, PublishManifest, SyncManifest, PrepareFails,
         ImportBegin, Replace, ReplaceDone, ReplaceFails, Restore, Crash, PowerLoss, Edit, vars

\* An edit that does not interfere meets no manifest and no commit.
LEMMA QuietEdit ==
  ASSUME Edit, raced = "no", raced' = "no"
  PROVE  /\ disk.manifest = None /\ h.job # "commit" /\ h' = h
         /\ h.pc \notin {"publish", "syncTarget", "manifest"}
  BY DEF Edit, At

\* A target that is replaced changes in that role only.
LEMMA SetTargetEffect ==
  ASSUME ConfigTypeOK, NEW r \in Roles, NEW x, SetTarget(r, x)
  PROVE  /\ disk'.manifest = disk.manifest /\ disk'.images = disk.images /\ disk'.dir = disk.dir
         /\ disk'.target = [disk.target EXCEPT ![r] = x]
         /\ \A q \in Roles : disk'.target[q] = IF q = r THEN x ELSE disk.target[q]
         /\ after' = after \cup {disk'}
  <1>1. disk \in Disks /\ disk.target \in Tuples
    BY SMTT(60), TargetType DEF ConfigTypeOK
  <1> DEFINE t == [disk.target EXCEPT ![r] = x]
  <1>2. \A q \in Roles : t[q] = IF q = r THEN x ELSE disk.target[q]
    BY ZenonT(60), <1>1 DEF Tuples
  <1>3. disk' = [disk EXCEPT !.target = t] /\ after' = after \cup {disk'}
    BY DEF SetTarget, Change
  <1> HIDE DEF t
  <1>4. disk'.manifest = disk.manifest /\ disk'.images = disk.images /\ disk'.dir = disk.dir
        /\ disk'.target = t
    BY <1>1, <1>3 DEF Disks
  <1> QED BY <1>2, <1>3, <1>4 DEF t

\* Manifests can be rolled forward: one is published when all images are staged
\* over the expected targets, and where the command line, a migration or a
\* quiet edit replaces a file there is no manifest.
LEMMA JournalStep ==
  TypeInv /\ PrepInv /\ SafeInv /\ [Next]_vars /\ raced' = "no" => JournalInv'
  <1> SUFFICES ASSUME TypeInv, PrepInv, SafeInv, [Next]_vars, raced' = "no" PROVE JournalInv'
    OBVIOUS
  <1>n. raced = "no" /\ JournalInv /\ RollInv
    BY RacedStays DEF SafeInv
  <1>t. h \in Holders /\ disk \in Disks /\ disk \in after /\ ConfigTypeOK
    BY DEF TypeInv, ConfigTypeOK
  <1>c. ASSUME NEW e, Change(e), e.manifest # None => \A r \in Roles : Publishable(e, r)
        PROVE  JournalInv'
    <2>1. disk' = e /\ after' = after \cup {e}
      BY <1>c DEF Change
    <2>2. \A d \in after \cup {e} : d.manifest # None => \A r \in Roles : Publishable(d, r)
      BY <1>c, <1>n DEF JournalInv
    <2> QED BY <2>1, <2>2 DEF JournalInv, Publishable
  <1>w. ASSUME NEW r, NEW x, SetTarget(r, x), disk.manifest = None PROVE JournalInv'
    <2>1. [disk EXCEPT !.target = [@ EXCEPT ![r] = x]].manifest = None
      BY <1>w, <1>t DEF Disks
    <2> QED BY ZenonT(60), <1>w, <2>1, <1>c DEF SetTarget
  <1>y. Sync => JournalInv'
    BY <1>n, <1>t DEF Sync, JournalInv, Publishable
  <1>u. after' = after => JournalInv'
    BY <1>n DEF JournalInv, Publishable
  <1>1. CASE Clean
    <2>1. CASE Change([disk EXCEPT !.manifest = None])
      BY <2>1, <1>c, <1>t DEF Disks
    <2>2. CASE Change([disk EXCEPT !.images = {}]) /\ disk.manifest = None
      BY <2>2, <1>c, <1>t DEF Disks
    <2>3. CASE Change([disk EXCEPT !.dir = FALSE]) /\ disk.manifest = None
      BY <2>3, <1>c, <1>t DEF Disks
    <2> QED BY <1>1, <2>1, <2>2, <2>3 DEF Clean
  <1>2. CASE MakeDir
    <2>1. disk.manifest = None
      BY <1>2 DEF MakeDir, At, TypeInv, ShapeInv, Preparing
    <2>2. CASE Change([disk EXCEPT !.dir = TRUE])
      BY <2>1, <2>2, <1>c, <1>t DEF Disks
    <2> QED BY <1>2, <2>2, <1>u DEF MakeDir
  <1>3. CASE Stage
    <2>1. disk.manifest = None
      BY <1>3 DEF Stage, At, TypeInv, ShapeInv, Preparing
    <2>2. ASSUME NEW r, Change([disk EXCEPT !.images = @ \cup {r}]) PROVE JournalInv'
      BY <2>1, <2>2, <1>c, <1>t DEF Disks
    <2> QED BY <1>3, <2>2, <1>u, Zenon DEF Stage
  <1>4. CASE PublishManifest
    <2> DEFINE m == [old |-> h.expect, new |-> h.put]
               e == [disk EXCEPT !.manifest = m]
    <2>1. disk.images = Roles /\ disk.target = h.expect
      BY <1>4, <1>n DEF PublishManifest, At, PrepInv, RollInv
    <2>2. m.old = h.expect
      OBVIOUS
    <2>3. Change(e)
      BY <1>4 DEF PublishManifest
    <2> HIDE DEF m
    <2>4. e.target = disk.target /\ e.images = disk.images /\ e.manifest = m
      BY <1>t DEF Disks
    <2> HIDE DEF e
    <2>5. \A r \in Roles : Publishable(e, r)
      BY <2>1, <2>2, <2>4 DEF Publishable
    <2> QED BY <2>3, <2>5, <1>c
  <1>5. CASE PowerLoss
    BY <1>5, <1>n DEF PowerLoss, JournalInv, Publishable
  <1>6. CASE Publish
    <2>1. CASE /\ SetTarget(Order[h.k], disk.manifest.new[Order[h.k]])
               /\ ~(h.k > Len(Order))
      <3>1. Order[h.k] \in Roles
        BY <2>1, <1>t DEF Holders, Order, Roles
      <3> DEFINE r == Order[h.k]
      <3> HIDE DEF r
      <3>2. r \in Roles /\ SetTarget(r, disk.manifest.new[r])
        BY <2>1, <3>1 DEF r
      <3>3. /\ disk'.manifest = disk.manifest /\ disk'.images = disk.images
            /\ \A q \in Roles : disk'.target[q] = IF q = r THEN disk.manifest.new[r]
                                                           ELSE disk.target[q]
            /\ after' = after \cup {disk'}
        BY ZenonT(60), <3>2, <1>t, SetTargetEffect
      <3>4. disk.manifest # None
        BY <1>6 DEF Publish, At, TypeInv, ShapeInv, Rolling
      <3>5. \A q \in Roles : Publishable(disk, q)
        BY <3>4, <1>t, <1>n DEF JournalInv
      <3>6. \A q \in Roles : Publishable(disk', q)
        BY <3>3, <3>5 DEF Publishable
      <3> QED BY <3>3, <3>6, <1>n DEF JournalInv, Publishable
    <2> QED BY <1>6, <2>1, <1>u, ZenonT(60) DEF Publish
  <1>7. CASE Migrate \/ Replace \/ Restore
    <2>1. disk.manifest = None
      BY <1>7 DEF Migrate, Replace, Restore, At, TypeInv, ShapeInv
    <2> QED BY <1>7, <2>1, <1>w, <1>u DEF Migrate, Replace, Restore
  <1>8. CASE Edit
    BY <1>8, <1>n, QuietEdit, <1>w DEF Edit
  <1>9. CASE SyncTarget \/ SyncClean \/ SyncMkdir \/ SyncManifest
    BY <1>9, <1>y DEF SyncTarget, SyncClean, SyncMkdir, SyncManifest
  <1>10. CASE \/ Recover \/ Validate \/ ReaderDone \/ Prepare \/ Refuse \/ Confirm
              \/ ImportBegin \/ ReplaceDone
    BY ZenonT(60), <1>10, <1>u DEF Recover, Validate, ReaderDone, Prepare, Refuse, Confirm,
                       ImportBegin, ReplaceDone
  <1>11. CASE PublishFails \/ CleanFails \/ PrepareFails \/ ReplaceFails \/ Crash
    BY SMTT(60), <1>11, <1>u DEF PublishFails, CleanFails, PrepareFails, ReplaceFails, Crash
  <1>12. CASE Lock \/ \E c \in Clients : GetConfig(c)
    BY ZenonT(60), <1>12, <1>u DEF Lock, Acquire, GetConfig
  <1>13. CASE UNCHANGED vars
    BY <1>13, <1>u DEF vars
  <1> QED BY <1>1, <1>2, <1>3, <1>4, <1>5, <1>6, <1>7, <1>8, <1>9, <1>10, <1>11, <1>12, <1>13
          DEF Next, Step, Failure

\* What the journal leaves behind is what the next holder works with.
LEMMA ViewIs ==
  ASSUME NEW d
  PROVE  View(d) = IF d.manifest = None THEN d.target ELSE d.manifest.new
  BY SMTT(60) DEF View

\* Roll forward, cleanup and commit keep to their invariant.
LEMMA RollStep ==
  TypeInv /\ PrepInv /\ SafeInv /\ [Next]_vars /\ raced' = "no" => RollInv'
  <1> SUFFICES ASSUME TypeInv, PrepInv, SafeInv, [Next]_vars, raced' = "no" PROVE RollInv'
    OBVIOUS
  <1>n. raced = "no" /\ JournalInv /\ RollInv
    BY RacedStays DEF SafeInv
  <1>t. h \in Holders /\ disk \in Disks /\ disk \in after /\ ConfigTypeOK
    BY DEF TypeInv, ConfigTypeOK
  <1>k. h.k \in 1 .. 4 /\ Len(Order) = 3
    BY <1>t DEF Holders, Order
  <1>g. \A pc : Go(pc) => h'.pc = pc /\ h'.job = h.job /\ h'.put = h.put /\ h'.k = h.k
                         /\ h'.expect = h.expect
    BY SMTT(60), <1>t DEF Go, Holders
  <1>o. h'.pc \notin {"manifest", "publish", "syncTarget", "clean"} /\ h'.job # "commit" => RollInv'
    BY SMTT(60) DEF RollInv
  <1>f. h' = Free => RollInv'
    BY <1>o DEF Free
  <1>r. (\E a : Release(a)) \/ Fail => RollInv'
    BY SMTT(60), <1>f DEF Release, Fail
  <1>a. Abort /\ disk.manifest = None /\ disk' = disk => RollInv'
    <2>1. Abort => h'.pc = "clean" /\ h'.job = "abort"
      BY SMTT(60), <1>t DEF Abort, Holders
    <2> QED BY <2>1 DEF RollInv
  <1>1. CASE Recover
    <2>1. h.job # "commit"
      BY <1>1 DEF Recover, At, TypeInv, ShapeInv, Rolling
    <2>2. \/ Go("locked")
          \/ Go("clean") /\ disk.manifest = None
          \/ Go("validate")
      BY <1>1, Zenon DEF Recover
    <2>3. disk' = disk
      BY <1>1 DEF Recover
    <2> QED BY SMTT(60), <2>1, <2>2, <2>3, <1>g DEF RollInv
  <1>2. CASE Validate
    <2>1. CASE h' = [h EXCEPT !.pc = "publish", !.k = 1]
      <3>1. h'.pc = "publish" /\ h'.job = h.job /\ h'.put = h.put /\ h'.k = 1
        BY <2>1, <1>t DEF Holders
      <3>2. h.pc = "validate" /\ disk' = disk /\ after' = after
        BY <1>2 DEF Validate, At
      <3> QED BY <3>1, <3>2, <1>n DEF RollInv
    <2> QED BY SMTT(60), <1>2, <2>1, <1>r DEF Validate
  <1>3. CASE Publish
    <2>0. h.pc = "publish" /\ disk.manifest # None
      BY SMTT(60), <1>3 DEF Publish, At, TypeInv, ShapeInv, Rolling
    <2>1. CASE h.k > Len(Order) /\ Go("clean") /\ UNCHANGED <<disk, after>>
      <3>1. \A i \in 1 .. 3 : disk.target[Order[i]] = disk.manifest.new[Order[i]]
        <4>1. \A i \in 1 .. Len(Order) :
                i < h.k => disk.target[Order[i]] = disk.manifest.new[Order[i]]
          BY ZenonT(60), <2>0, <1>n DEF RollInv
        <4>2. Len(Order) = 3
          BY DEF Order
        <4> QED BY <2>1, <4>1, <4>2, <1>k
      <3>2. \A r \in Roles : disk.target[r] = disk.manifest.new[r]
        BY <3>1 DEF Order, Roles
      <3>3. disk.target \in Tuples /\ disk.manifest.new \in Tuples
        BY <2>0, <1>t DEF Disks, Manifests
      <3>4. disk.target = disk.manifest.new
        BY <3>2, <3>3 DEF Tuples
      <3> QED BY SMTT(60), <2>0, <2>1, <3>4, <1>g, <1>n DEF RollInv
    <2>2. CASE /\ disk.target[Order[h.k]] = disk.manifest.new[Order[h.k]]
               /\ h' = [h EXCEPT !.k = @ + 1] /\ UNCHANGED <<disk, after>>
      <3>1. h'.pc = h.pc /\ h'.job = h.job /\ h'.put = h.put /\ h'.k = h.k + 1
        BY <2>2, <1>t DEF Holders
      <3>2. \A i \in 1 .. 3 : i < h.k + 1 => i < h.k \/ i = h.k
        BY <1>k
      <3>3. \A i \in 1 .. Len(Order) :
              i < h'.k => disk.target[Order[i]] = disk.manifest.new[Order[i]]
        BY SMTT(60), <2>0, <2>2, <3>1, <3>2, <1>k, <1>n DEF RollInv
      <3> QED BY <2>0, <2>2, <3>1, <3>3, <1>n DEF RollInv
    <2>3. CASE /\ SetTarget(Order[h.k], disk.manifest.new[Order[h.k]]) /\ Go("syncTarget")
               /\ ~(h.k > Len(Order))
      <3> DEFINE r == Order[h.k]
      <3>1. r \in Roles /\ h.k \in 1 .. 3 /\ \A i \in 1 .. 3 : Order[i] \in Roles
        BY <2>3, <1>k DEF Order, Roles
      <3>2. \A i \in 1 .. 3 : i < h.k => Order[i] # r
        BY SMTT(60), <3>1 DEF Order
      <3> HIDE DEF r
      <3>3. /\ disk'.manifest = disk.manifest
            /\ \A q \in Roles : disk'.target[q] = IF q = r THEN disk.manifest.new[r]
                                                           ELSE disk.target[q]
            /\ after' = after \cup {disk'}
        BY ZenonT(60), <2>3, <3>1, <1>t, SetTargetEffect DEF r
      <3>4. disk'.target[r] = disk'.manifest.new[r]
        BY <3>1, <3>3
      <3>5. \A i \in 1 .. 3 : i < h.k => disk'.target[Order[i]] = disk'.manifest.new[Order[i]]
        BY <2>0, <3>1, <3>2, <3>3, <1>k, <1>n DEF RollInv
      <3>6. View(disk') = View(disk)
        BY <2>0, <3>3, ViewIs
      <3>7. h'.pc = "syncTarget" /\ h'.job = h.job /\ h'.put = h.put /\ h'.k = h.k
        BY SMTT(60), <2>3, <1>g
      <3>8. h.job = "commit" => \A d \in after' : View(d) = h.put
        BY SMTT(60), <2>0, <3>3, <3>6, <1>n DEF RollInv
      <3>9. Order[h'.k] = r
        BY <3>7 DEF r
      <3>10. h'.job = "commit" => View(disk') = h'.put /\ \A d \in after' : View(d) = h'.put
        BY <3>3, <3>7, <3>8
      <3>11. View(disk)' = View(disk')
        BY SMTT(60) DEF View
      <3> QED BY ZenonT(60), <3>4, <3>5, <3>7, <3>9, <3>10, <3>11, <1>k DEF RollInv, View
    <2> QED BY <1>3, <2>1, <2>2, <2>3, Zenon DEF Publish
  <1>4. CASE SyncTarget
    <2>1. h'.pc = "publish" /\ h'.job = h.job /\ h'.put = h.put /\ h'.k = h.k + 1
      BY <1>4, <1>t DEF SyncTarget, Holders
    <2>2. h.pc = "syncTarget" /\ disk' = disk /\ after' = {disk}
      BY SMTT(60), <1>4 DEF SyncTarget, At, Sync
    <2>3. \A i \in 1 .. 3 : i < h.k + 1 => i < h.k \/ i = h.k
      BY <1>k
    <2>4. \A i \in 1 .. Len(Order) :
            i < h'.k => disk.target[Order[i]] = disk.manifest.new[Order[i]]
      BY ZenonT(60), <2>1, <2>2, <2>3, <1>k, <1>n DEF RollInv
    <2> QED BY ZenonT(60), <2>1, <2>2, <2>4, <1>n DEF RollInv
  <1>5. CASE Clean
    <2>0. h.pc = "clean"
      BY SMTT(60), <1>5 DEF Clean, At
    <2>1. ASSUME NEW e, Change(e), View(e) = View(disk), e.manifest = None,
                 h' = h \/ Go("syncClean")
          PROVE  RollInv'
      <3>1. disk' = e /\ after' = after \cup {e}
        BY <2>1 DEF Change
      <3>2. h'.pc \in {"clean", "syncClean"} /\ h'.job = h.job /\ h'.put = h.put
        BY SMTT(60), <2>0, <2>1, <1>g
      <3>3. h.job = "commit" => View(e) = h.put /\ \A d \in after' : View(d) = h.put
        BY <2>0, <2>1, <3>1, <1>n DEF RollInv
      <3>4. disk'.manifest = None
        BY <2>1, <3>1
      <3> QED BY ZenonT(60), <3>1, <3>2, <3>3, <3>4 DEF RollInv, View
    <2>2. CASE Change([disk EXCEPT !.manifest = None]) /\ h' = h /\ disk.manifest # None
      <3> DEFINE e == [disk EXCEPT !.manifest = None]
      <3>1. e.manifest = None /\ e.target = disk.target
        BY <1>t DEF Disks
      <3>2. disk.target = disk.manifest.new
        BY <2>0, <2>2, <1>n DEF RollInv
      <3> HIDE DEF e
      <3>3. View(e) = View(disk)
        BY <2>2, <3>1, <3>2, ViewIs
      <3> QED BY ZenonT(60), <2>1, <2>2, <3>1, <3>3 DEF e
    <2>3. CASE Change([disk EXCEPT !.images = {}]) /\ h' = h /\ disk.manifest = None
      <3> DEFINE e == [disk EXCEPT !.images = {}]
      <3>1. e.manifest = None /\ e.target = disk.target
        BY <2>3, <1>t DEF Disks
      <3> HIDE DEF e
      <3>3. View(e) = View(disk)
        BY <2>3, <3>1, ViewIs
      <3> QED BY ZenonT(60), <2>1, <2>3, <3>1, <3>3 DEF e
    <2>4. CASE Change([disk EXCEPT !.dir = FALSE]) /\ Go("syncClean") /\ disk.manifest = None
      <3> DEFINE e == [disk EXCEPT !.dir = FALSE]
      <3>1. e.manifest = None /\ e.target = disk.target
        BY <2>4, <1>t DEF Disks
      <3> HIDE DEF e
      <3>3. View(e) = View(disk)
        BY <2>4, <3>1, ViewIs
      <3> QED BY ZenonT(60), <2>1, <2>4, <3>1, <3>3 DEF e
    <2> QED BY <1>5, <2>2, <2>3, <2>4 DEF Clean
  <1>c. Cleaned => RollInv'
    BY <1>g, <1>o, <1>r DEF Cleaned
  <1>6. CASE MakeDir
    <2>1. Go("syncMkdir") \/ Go("refuse")
      BY <1>6 DEF MakeDir
    <2>2. h.job # "commit"
      BY <1>6 DEF MakeDir, At, TypeInv, ShapeInv, Rolling
    <2> QED BY <2>1, <2>2, <1>g, <1>o
  <1>7. CASE SyncMkdir
    <2>1. h'.pc = "stage" /\ h'.job = h.job
      BY <1>7, <1>t DEF SyncMkdir, Holders
    <2>2. h.job # "commit"
      BY <1>7 DEF SyncMkdir, At, TypeInv, ShapeInv, Rolling
    <2> QED BY <2>1, <2>2, <1>o
  <1>8. CASE Stage
    <2>1. h.job # "commit" /\ disk.manifest = None /\ h.pc = "stage"
      BY <1>8 DEF Stage, At, TypeInv, ShapeInv, Rolling, Preparing
    <2>2. CASE Abort /\ UNCHANGED <<disk, after>>
      BY SMTT(60), <2>1, <2>2, <1>a
    <2>3. CASE Go("manifest") /\ Expected /\ UNCHANGED <<disk, after>>
      BY <2>1, <2>3, <1>g DEF Expected, RollInv
    <2>4. CASE h' = [h EXCEPT !.k = @ + 1]
      <3>1. h'.pc = "stage" /\ h'.job = h.job
        BY SMTT(60), <2>1, <2>4, <1>t DEF Holders
      <3> QED BY <2>1, <3>1, <1>o
    <2> QED BY <1>8, <2>2, <2>3, <2>4, Zenon DEF Stage
  <1>9. CASE PublishManifest
    <2> DEFINE m == [old |-> h.expect, new |-> h.put]
    <2>1. h.expect \in Tuples /\ h.put \in Tuples
      BY <1>9, <1>t DEF PublishManifest, At, TypeInv, ShapeInv, Preparing, Holders
    <2>2. m # None /\ m.new = h.put
      BY <2>1, ConfigAssumption DEF Manifests
    <2>3. disk' = [disk EXCEPT !.manifest = m]
      BY <1>9 DEF PublishManifest, Change
    <2> HIDE DEF m
    <2>4. disk'.manifest = m
      BY <2>3, <1>t DEF Disks
    <2>5. h'.pc = "syncManifest" /\ h'.put = h.put
      BY SMTT(60), <1>9, <1>t DEF PublishManifest, Holders
    <2> QED BY <2>2, <2>4, <2>5 DEF RollInv, View
  <1>10. CASE SyncManifest
    <2>1. h.job = "commit" /\ disk' = disk /\ after' = {disk} /\ Go("validate")
      BY <1>10 DEF SyncManifest, Sync, At, TypeInv, ShapeInv
    <2>2. h'.pc = "validate" /\ h'.put = h.put
      BY <2>1, <1>g
    <2>3. View(disk) = h.put
      BY <2>1, <1>n DEF RollInv
    <2>4. View(disk)' = View(disk) /\ \A d \in after' : View(d) = h.put
      BY <2>1, <2>3 DEF View
    <2> QED BY <2>2, <2>3, <2>4 DEF RollInv
  <1>11. CASE PrepareFails
    <2>1. CASE Abort /\ (At("syncMkdir") \/ At("stage") \/ At("manifest"))
      BY <1>11, <2>1, <1>a DEF PrepareFails, At, TypeInv, ShapeInv, Preparing
    <2> QED BY SMTT(60), <1>11, <2>1, <1>r DEF PrepareFails
  <1>12. CASE Prepare
    <2>1. h'.pc \in {"refuse", "unchanged", "mkdir"} /\ h'.job = h.job
      BY ZenonT(60), <1>12, <1>t DEF Prepare, Holders
    <2>2. h.job # "commit"
      BY ZenonT(60), <1>12 DEF Prepare, At, TypeInv, ShapeInv, Rolling
    <2> QED BY SMTT(60), <2>1, <2>2, <1>o
  <1>13. CASE ImportBegin \/ Replace \/ ReplaceDone \/ Restore \/ ReplaceFails
    <2>1. (h'.pc \in {"replace", "restore"} /\ h'.job = h.job) \/ h'.job \in {"import", "set", "rollback"}
          \/ Release("none")
      BY ZenonT(60), <1>13, <1>t DEF ImportBegin, Replace, ReplaceDone, Restore, ReplaceFails, Holders, At, Go
    <2>2. h'.pc \in {"replace", "restore"} \/ Release("none")
      BY ZenonT(60), <1>13, <1>t DEF ImportBegin, Replace, ReplaceDone, Restore, ReplaceFails, Holders, At, Go
    <2>3. h.job # "commit"
      BY ZenonT(60), <1>13 DEF ImportBegin, Replace, ReplaceDone, Restore, ReplaceFails, At, TypeInv, ShapeInv, Rolling
    <2> QED BY SMTT(60), <2>1, <2>2, <2>3, <1>o, <1>r
  <1>14. CASE Migrate
    <2>1. h' = h \/ Release("none")
      BY SMTT(60), <1>14 DEF Migrate
    <2>2. h.pc = "locked" /\ h.job # "commit"
      BY SMTT(60), <1>14 DEF Migrate, At, TypeInv, ShapeInv, Rolling
    <2> QED BY <2>1, <2>2, <1>o, <1>r
  <1>15. CASE Edit
    <2>1. /\ disk.manifest = None /\ h.job # "commit" /\ h' = h
          /\ h.pc \notin {"publish", "syncTarget", "manifest"}
      BY <1>15, <1>n, QuietEdit
    <2>2. "config" \in Roles
      BY SMTT(60) DEF Roles
    <2>3. disk'.manifest = disk.manifest
      BY ZenonT(60), <1>15, <1>t, <2>2, SetTargetEffect DEF Edit
    <2> QED BY <2>1, <2>3 DEF RollInv
  <1>16. CASE \/ PublishFails \/ SyncClean \/ CleanFails \/ ReaderDone \/ Refuse
              \/ Confirm \/ Crash \/ PowerLoss
    BY <1>16, <1>r, <1>c, <1>f DEF PublishFails, SyncClean, CleanFails,
         ReaderDone, Refuse, Confirm, Crash, PowerLoss
  <1>17. ASSUME NEW c \in Clients, GetConfig(c) PROVE RollInv'
    BY ZenonT(60), <1>17, <1>n DEF GetConfig, RollInv
  <1>18. ASSUME NEW who, NEW want, Acquire(who, want) PROVE RollInv'
    <2>1. h'.pc = "recover" /\ h'.job = "recover"
      BY SMTT(60), <1>18 DEF Acquire, Free
    <2> QED BY <2>1, <1>o
  <1>19. CASE UNCHANGED vars
    BY ZenonT(60), <1>19, <1>n DEF vars, RollInv, View
  <1> QED BY SMTT(60), <1>1, <1>2, <1>3, <1>4, <1>5, <1>6, <1>7, <1>8, <1>9, <1>10, <1>11, <1>12, <1>13,
             <1>14, <1>15, <1>16, <1>17, <1>18, <1>19 DEF Next, Step, Failure, Lock

\* The inductive invariant.
IndInv == TypeInv /\ VouchInv /\ PrepInv /\ SafeInv

\* It holds initially.
LEMMA IndInit == Init => IndInv
  <1> SUFFICES ASSUME Init PROVE IndInv
    OBVIOUS
  <1>0. h = Free /\ after = {disk} /\ seen = [c \in Clients |-> [config |-> None, validator |-> 0]]
    BY SMTT(60) DEF Init
  <1>1. h.pc = "free" /\ h.job = "none" /\ h.todo = <<>> /\ h.undo = <<>>
        /\ h.expect = None /\ h.put = None
    BY SMTT(60), <1>0 DEF Free
  <1>2. disk.manifest = None
    BY SMTT(60) DEF Init, NoDir
  <1>3. SafeInv
    BY ZenonT(60), <1>0, <1>1, <1>2 DEF SafeInv, JournalInv, RollInv
  <1>4. PrepInv
    BY ZenonT(60), <1>1 DEF PrepInv, Preparing
  <1>5. HolderVouched
    <2>1. VFiles(h.todo, minted) /\ VFiles(h.undo, minted)
      BY <1>1 DEF VFiles
    <2>2. VTuple(h.expect, minted) /\ VTuple(h.put, minted)
      BY <1>1 DEF VTuple
    <2>3. h.pc \notin Preparing /\ h.job # "commit"
      BY <1>1 DEF Preparing
    <2> QED BY ZenonT(60), <2>1, <2>2, <2>3 DEF HolderVouched
  <1>6. SeenVouched
    BY ZenonT(60), <1>0 DEF SeenVouched, VClient
  <1>7. Vouched(disk.target["managed_state"], minted)
    <2> DEFINE empty(s) == [r \in Roles |-> Fill(r, None, s, None)]
               state(doc, v) == [digest |-> doc, validator |-> v]
               full(doc, s, v) == [r \in Roles |-> Fill(r, doc, s, state(doc, v))]
    <2>1. PICK doc \in Docs, s \in {None} \cup Stores, v \in {0, 1} :
            \/ disk = NoDir(empty(s)) /\ minted = <<>>
            \/ /\ disk = NoDir(full(doc, s, v))
               /\ minted = IF v = 1 THEN <<doc>> ELSE <<>>
      BY Zenon DEF Init
    <2>2. empty(s)["managed_state"] = None
      BY DEF Fill, Roles
    <2>3. full(doc, s, v)["managed_state"] = state(doc, v)
      BY DEF Fill, Roles
    <2>4. state(doc, v).validator = v /\ state(doc, v).digest = doc
      OBVIOUS
    <2> HIDE DEF empty, full, state
    <2>5. CASE disk = NoDir(empty(s))
      <3>1. disk.target = empty(s)
        BY SMTT(60), <2>5 DEF NoDir
      <3> QED BY <2>2, <3>1 DEF Vouched
    <2>6. CASE disk = NoDir(full(doc, s, v)) /\ minted = IF v = 1 THEN <<doc>> ELSE <<>>
      <3>1. disk.target = full(doc, s, v)
        BY <2>6 DEF NoDir
      <3>2. v = 1 => minted = <<doc>>
        BY <2>6
      <3>3. v = 1 => 1 \in 1 .. Len(minted) /\ minted[1] = doc
        BY SMTT(60), <3>2
      <3> QED BY <2>3, <2>4, <3>1, <3>3 DEF Vouched
    <2> QED BY <2>1, <2>5, <2>6, Zenon
  <1>8. DisksVouched
    BY <1>0, <1>2, <1>7 DEF DisksVouched, VDisk, VTuple
  <1> QED BY SMTT(60), <1>3, <1>4, <1>5, <1>6, <1>8, TypeInvInit DEF IndInv, VouchInv

\* Every step keeps it.
LEMMA IndStep == IndInv /\ [Next]_vars => IndInv'
  <1> SUFFICES ASSUME IndInv, [Next]_vars PROVE IndInv'
    OBVIOUS
  <1>0. TypeInv /\ VouchInv /\ PrepInv /\ SafeInv
    BY DEF IndInv
  <1>1. TypeInv'
    BY <1>0, TypeStep, ShapeStep, DirStep DEF TypeInv
  <1>2. VouchInv'
    BY <1>0, DisksVouchedStep, SeenVouchedStep, HolderVouchedStep DEF VouchInv
  <1>3. PrepInv'
    BY <1>0, PrepStep
  <1>4. SafeInv'
    BY <1>0, JournalStep, RollStep DEF SafeInv
  <1> QED BY <1>1, <1>2, <1>3, <1>4 DEF IndInv

\* Without an editor's doing, recovery finds every manifest complete: each
\* target is the recorded old file with its image staged, or the new one.
THEOREM RecoveryAlwaysCanFinish == Spec => []RecoveryCanFinish
  <1>1. IndInv => RecoveryCanFinish
    BY DEF IndInv, TypeInv, DirInv, SafeInv, JournalInv, RecoveryCanFinish
  <1> QED BY IndInit, IndStep, <1>1, PTL DEF Spec

-----------------------------------------------------------------------------
(* Refinement: the register of ConfigStore.                                  *)

\* The initial states are initial states of the register.
LEMMA RefineInit == Init => Store!Init
  <1> SUFFICES ASSUME Init PROVE Store!Init
    OBVIOUS
  <1>1. Back = {View(disk)}
    BY SMTT(60) DEF Init, Back
  <1>2. Op = Store!NoOp
    BY ZenonT(60), ConfigAssumption DEF Init, Free, Op, Store!NoOp
  <1>3. answer = [c \in Clients |-> "none"] /\ Raced = FALSE
    BY SMTT(60) DEF Init, Raced
  <1> QED BY SMTT(60), <1>1, <1>2, <1>3 DEF Store!Init

\* The operation of the register, field by field.
LEMMA OpIs ==
    /\ Op.client = IF h.who \in Clients THEN h.who ELSE None
    /\ Op.want = h.want
    /\ Op.put = IF h.job = "commit" THEN h.put ELSE None
  BY SMTT(60) DEF Op

\* A holder without a client, and a free lock, are no operation.
LEMMA NoOpIs ==
  ASSUME TypeInv
  PROVE  /\ h.who \notin Clients => Op = Store!NoOp
         /\ h' = Free => Op' = Store!NoOp
  <1>1. h.who \notin Clients => h.want = None /\ h.job # "commit"
    BY SMTT(60) DEF TypeInv, ShapeInv
  <1>2. h' = Free => h'.who = None /\ h'.want = None /\ h'.job = "none"
    BY SMTT(60) DEF Free
  <1> QED BY SMTT(60), <1>1, <1>2, ConfigAssumption DEF Op, Store!NoOp

\* The operation changes with these fields of the holder only.
LEMMA SameOp ==
  ASSUME h'.who = h.who, h'.want = h.want,
         (h'.put = h.put /\ h'.job = h.job) \/ (h'.job # "commit" /\ h.job # "commit")
  PROVE  Op' = Op
  BY DEF Op

\* The disks that may come back, after the steps a holder takes.
LEMMA BackIs ==
  ASSUME TypeInv
  PROVE  /\ View(disk) \in Back
         /\ disk' = disk /\ after' = after => View(disk)' = View(disk) /\ Back' = Back
         /\ Sync => View(disk)' = View(disk) /\ Back' = {View(disk)}
         /\ after' = after \cup {disk'} => Back' = Back \cup {View(disk)'}
  <1>1. disk \in after
    BY DEF TypeInv, ConfigTypeOK
  <1>2. View(disk)' = View(disk')
    BY DEF View
  <1>3. Back' = {View(d) : d \in after'}
    BY DEF Back, View
  <1>4. after' = after \cup {disk'} => Back' = Back \cup {View(disk)'}
    BY SMTT(60), <1>2, <1>3 DEF Back
  <1> QED BY <1>1, <1>2, <1>3, <1>4 DEF Back, Sync

\* Every step is a step of the register, or leaves it alone.
LEMMA RefineStep == IndInv /\ [Next]_vars => [Store!Next]_(Store!vars)
  <1> SUFFICES ASSUME IndInv, [Next]_vars PROVE Store!Next \/ UNCHANGED Store!vars
    BY DEF Store!vars
  <1>i. TypeInv /\ VouchInv /\ PrepInv /\ SafeInv /\ ShapeInv /\ ConfigTypeOK
    BY SMTT(60) DEF IndInv, TypeInv
  <1>t. h \in Holders /\ disk \in Disks /\ disk \in after /\ disk.target \in Tuples
    BY <1>i, TargetType DEF ConfigTypeOK
  <1>race. CASE raced' # "no"
    BY <1>race DEF Store!Next, Store!Race, Raced
  <1> SUFFICES ASSUME raced' = "no" PROVE Store!Next \/ UNCHANGED Store!vars
    BY <1>race
  <1>n. raced = "no" /\ JournalInv /\ RollInv /\ Raced' = Raced
    BY <1>i, RacedStays DEF SafeInv, Raced
  <1>seen. seen' = seen => Read' = Read
    BY DEF Read
  <1>b. View(disk) \in Back
    BY <1>i, BackIs
  <1>same. UNCHANGED <<disk, after>> => View(disk)' = View(disk) /\ Back' = Back
    BY <1>i, BackIs
  <1>sync. Sync => View(disk)' = View(disk) /\ Back' = {View(disk)}
    BY <1>i, BackIs
  <1>change. ASSUME NEW e, Change(e), View(e) = View(disk)
             PROVE  View(disk)' = View(disk) /\ Back' = Back
    <2>1. disk' = e /\ after' = after \cup {disk'}
      BY <1>change DEF Change
    <2>2. View(disk)' = View(disk)
      BY <2>1, <1>change DEF View
    <2>3. Back' = Back \cup {View(disk)'}
      BY SMTT(60), <2>1, <1>i, BackIs
    <2> QED BY <2>2, <2>3, <1>b

  \* The steps that settle, write, refuse or give the lock back.
  <1>settle. ASSUME View(disk)' = View(disk), View(disk) \in Back', Back' \subseteq Back,
                    seen' = seen, Op' = Op, answer' = answer
             PROVE  Store!Next
    BY <1>settle, <1>n, <1>seen DEF Store!Next, Store!Settle, Store!Settled
  <1>quiet. ASSUME UNCHANGED <<disk, after, seen, answer>>, Op' = Op PROVE Store!Next
    BY <1>quiet, <1>settle, <1>same, <1>b
  <1>refuse. ASSUME Release("refused"), h.job # "commit", seen' = seen,
                    View(disk)' = View(disk), View(disk) \in Back', Back' \subseteq Back
             PROVE  Store!Next
    <2>1. h' = Free /\ Op' = Store!NoOp
      BY SMTT(60), <1>refuse, <1>i, NoOpIs DEF Release
    <2>2. CASE h.who \in Clients
      <3>1. Op.client = h.who /\ Op.put = None /\ h.who # None
        BY SMTT(60), <1>refuse, <2>2, OpIs, ConfigAssumption
      <3>2. answer' = [answer EXCEPT ![Op.client] = "refused"]
        BY SMTT(60), <1>refuse, <2>2, <3>1 DEF Release
      <3> QED BY SMTT(60), <1>refuse, <2>1, <3>1, <3>2, <1>n, <1>seen
              DEF Store!Next, Store!Refuse, Store!Settled
    <2>3. CASE h.who \notin Clients
      <3>1. Op = Store!NoOp /\ answer' = answer
        BY <1>refuse, <2>3, <1>i, NoOpIs DEF Release
      <3> QED BY SMTT(60), <1>refuse, <2>1, <3>1, <1>settle
    <2> QED BY <2>2, <2>3
  <1>fail. ASSUME Fail, UNCHANGED <<disk, after, seen>> PROVE Store!Next
    <2>1. CASE h.job # "commit"
      BY SMTT(60), <1>fail, <2>1, <1>refuse, <1>same, <1>b DEF Fail
    <2>2. CASE h.job = "commit"
      <3>1. Release("unknown") /\ h.who \in Clients /\ h.put # None
        BY ZenonT(60), <1>fail, <2>2, <1>i DEF Fail, ShapeInv
      <3>2. Op.client = h.who /\ Op.put = h.put /\ h.who # None
        BY ZenonT(60), <2>2, <3>1, OpIs, ConfigAssumption
      <3>3. Op' = Store!NoOp /\ answer' = [answer EXCEPT ![Op.client] = "unknown"]
        BY ZenonT(60), <3>1, <3>2, <1>i, NoOpIs DEF Release
      <3> QED BY ZenonT(60), <1>fail, <3>1, <3>2, <3>3, <1>n, <1>seen, <1>same
              DEF Store!Next, Store!Unknown
    <2> QED BY SMTT(60), <2>1, <2>2
  <1>done. ASSUME NEW a, Release(a), h.who \notin Clients PROVE Op' = Op /\ answer' = answer
    BY SMTT(60), <1>done, <1>i, NoOpIs DEF Release
  <1>write. ASSUME NEW r \in Roles, NEW x, SetTarget(r, x), disk.manifest = None,
                   seen' = seen, Op' = Op, answer' = answer
            PROVE  Store!Next
    <2>1. /\ disk'.manifest = None /\ disk'.target = [disk.target EXCEPT ![r] = x]
          /\ disk'.target[r] = x /\ after' = after \cup {disk'}
      BY SMTT(60), <1>write, <1>i, SetTargetEffect
    <2>2. View(disk) = disk.target /\ View(disk)' = disk'.target
      BY SMTT(60), <1>write, <2>1 DEF View
    <2>3. Back' = Back \cup {View(disk)'}
      BY SMTT(60), <2>1, <1>i, BackIs
    <2>4. DOMAIN View(disk) = Roles
      BY <2>2, <1>t DEF Tuples
    <2>5. View(disk)' = [View(disk) EXCEPT ![r] = View(disk)'[r]]
      BY <2>1, <2>2
    <2> QED BY SMTT(60), <1>write, <2>3, <2>4, <2>5, <1>n, <1>seen DEF Store!Next, Store!Write
  <1>go. ASSUME NEW pc, Go(pc) PROVE Op' = Op
    <2>1. h'.who = h.who /\ h'.want = h.want /\ h'.put = h.put /\ h'.job = h.job
      BY <1>go, <1>t DEF Go, Holders
    <2> QED BY <2>1, SameOp
  <1>h. h' = h => Op' = Op
    BY SameOp
  <1>1. ASSUME NEW c \in Clients, NEW want \in Docs, Acquire(c, want) PROVE Store!Next
    <2>1. h.who = None
      BY SMTT(60), <1>1, <1>i DEF Acquire, At, ShapeInv
    <2>2. Op = Store!NoOp
      BY <2>1, <1>i, NoOpIs, ConfigAssumption
    <2>3. h'.who = c /\ h'.want = want /\ h'.job = "recover"
      BY SMTT(60), <1>1 DEF Acquire, Free
    <2>4. Op' = [client |-> c, want |-> want, put |-> None]
      BY <2>3 DEF Op
    <2>5. answer' = [answer EXCEPT ![c] = "none"] /\ UNCHANGED <<disk, after, seen>>
      BY SMTT(60), <1>1 DEF Acquire
    <2>6. Store!Ask(c, want)
      BY <2>2, <2>4, <2>5, <1>n, <1>seen, <1>same DEF Store!Ask
    <2> QED BY <2>6 DEF Store!Next
  <1>2. ASSUME NEW who \in {"cli", "reader"}, Acquire(who, None) PROVE Store!Next
    <2>1. h.who = None /\ who \notin Clients
      BY SMTT(60), <1>2, <1>i, ConfigAssumption DEF Acquire, At, ShapeInv
    <2>2. Op = Store!NoOp
      BY <2>1, <1>i, NoOpIs, ConfigAssumption
    <2>3. h'.who = who /\ h'.want = None /\ h'.job = "recover"
      BY SMTT(60), <1>2 DEF Acquire, Free
    <2>4. Op' = Store!NoOp
      BY <2>1, <2>3 DEF Op, Store!NoOp
    <2>5. answer' = answer /\ UNCHANGED <<disk, after, seen>>
      BY <1>2, <2>1 DEF Acquire
    <2> QED BY <2>2, <2>4, <2>5, <1>quiet
  <1>3. ASSUME NEW c \in Clients, GetConfig(c) PROVE Store!Next
    <2>1. h.who = None /\ disk.manifest = None
      BY ZenonT(60), <1>3, <1>i, <1>t DEF GetConfig, At, ShapeInv, TypeInv, DirInv
    <2>2. Op = Store!NoOp
      BY <2>1, <1>i, NoOpIs, ConfigAssumption
    <2>3. View(disk)["config"] = Config
      BY SMTT(60), <2>1 DEF View, Config
    <2> DEFINE v == [config |-> Config, validator |-> IF Managed THEN State.validator ELSE 0]
    <2>4. seen' = [seen EXCEPT ![c] = v]
      BY <1>3 DEF GetConfig
    <2>5. v.config = Config
      OBVIOUS
    <2>6. seen \in [Clients -> [config : {None, HandEdit} \cup Docs, validator : Nat]]
      BY <1>i DEF ConfigTypeOK
    <2> HIDE DEF v
    <2>7. Read' = [Read EXCEPT ![c] = Config]
      BY ZenonT(60), <2>4, <2>5, <2>6 DEF Read
    <2>8. UNCHANGED <<disk, after, h, answer>>
      BY <1>3 DEF GetConfig
    <2>9. Store!Get(c)
      BY <2>2, <2>3, <2>7, <2>8, <1>n, <1>h, <1>same DEF Store!Get
    <2> QED BY SMTT(60), <2>9 DEF Store!Next
  <1>4. CASE Recover
    BY <1>4, <1>quiet, <1>go DEF Recover
  <1>5. CASE Validate
    <2>1. CASE h' = [h EXCEPT !.pc = "publish", !.k = 1] /\ answer' = answer
      <3>1. h'.who = h.who /\ h'.want = h.want /\ h'.put = h.put /\ h'.job = h.job
        BY <2>1, <1>t DEF Holders
      <3> QED BY <1>5, <2>1, <3>1, SameOp, <1>quiet DEF Validate
    <2> QED BY <1>5, <2>1, <1>fail DEF Validate
  <1>6. CASE Publish
    <2>0. disk.manifest # None /\ UNCHANGED <<seen, answer>>
      BY <1>6, <1>i DEF Publish, At, ShapeInv, Rolling
    <2>1. CASE h' = [h EXCEPT !.k = @ + 1] /\ UNCHANGED <<disk, after>>
      <3>1. h'.who = h.who /\ h'.want = h.want /\ h'.put = h.put /\ h'.job = h.job
        BY <2>1, <1>t DEF Holders
      <3> QED BY <2>0, <2>1, <3>1, SameOp, <1>quiet
    <2>2. CASE Go("clean") /\ UNCHANGED <<disk, after>>
      BY SMTT(60), <2>0, <2>2, <1>go, <1>quiet
    <2>3. CASE /\ SetTarget(Order[h.k], disk.manifest.new[Order[h.k]]) /\ Go("syncTarget")
               /\ ~(h.k > Len(Order))
      <3>1. Order[h.k] \in Roles
        BY SMTT(60), <2>3, <1>t DEF Holders, Order, Roles
      <3>2. disk'.manifest = disk.manifest /\ after' = after \cup {disk'}
        BY ZenonT(60), <2>3, <3>1, <1>i, SetTargetEffect
      <3>3. View(disk)' = View(disk)
        BY <2>0, <3>2 DEF View
      <3>4. Back' = Back
        BY <3>2, <3>3, <1>b, <1>i, BackIs
      <3> QED BY SMTT(60), <2>0, <2>3, <3>3, <3>4, <1>b, <1>go, <1>settle
    <2> QED BY <1>6, <2>1, <2>2, <2>3, Zenon DEF Publish
  <1>7. CASE SyncTarget
    <2>1. h'.who = h.who /\ h'.want = h.want /\ h'.put = h.put /\ h'.job = h.job
      BY <1>7, <1>t DEF SyncTarget, Holders
    <2> QED BY <1>7, <2>1, SameOp, <1>sync, <1>b, <1>settle DEF SyncTarget
  <1>8. CASE PublishFails
    BY <1>8, <1>fail DEF PublishFails
  <1>9. CASE Clean
    <2>0. UNCHANGED <<seen, answer>> /\ Op' = Op
      BY SMTT(60), <1>9, <1>h, <1>go DEF Clean
    <2>1. ASSUME NEW e, Change(e), View(e) = View(disk) PROVE Store!Next
      BY <2>0, <2>1, <1>change, <1>b, <1>settle
    <2>2. CASE Change([disk EXCEPT !.manifest = None]) /\ disk.manifest # None
      <3> DEFINE e == [disk EXCEPT !.manifest = None]
      <3>1. e.manifest = None /\ e.target = disk.target
        BY <1>t DEF Disks
      <3>2. disk.target = disk.manifest.new
        BY <1>9, <2>2, <1>n DEF Clean, At, RollInv
      <3> HIDE DEF e
      <3>3. View(e) = View(disk)
        BY <2>2, <3>1, <3>2, ViewIs
      <3> QED BY <2>1, <2>2, <3>3 DEF e
    <2>3. CASE Change([disk EXCEPT !.images = {}]) /\ disk.manifest = None
      <3> DEFINE e == [disk EXCEPT !.images = {}]
      <3>1. e.manifest = None /\ e.target = disk.target
        BY <2>3, <1>t DEF Disks
      <3> HIDE DEF e
      <3>2. View(e) = View(disk)
        BY <2>3, <3>1, ViewIs
      <3> QED BY <2>1, <2>3, <3>2 DEF e
    <2>4. CASE Change([disk EXCEPT !.dir = FALSE]) /\ disk.manifest = None
      <3> DEFINE e == [disk EXCEPT !.dir = FALSE]
      <3>1. e.manifest = None /\ e.target = disk.target
        BY <2>4, <1>t DEF Disks
      <3> HIDE DEF e
      <3>2. View(e) = View(disk)
        BY SMTT(60), <2>4, <3>1, ViewIs
      <3> QED BY <2>1, <2>4, <3>2 DEF e
    <2> QED BY <1>9, <2>2, <2>3, <2>4 DEF Clean
  <1>cleaned. ASSUME Cleaned, At("clean") \/ At("syncClean"),
                     View(disk)' = View(disk), View(disk) \in Back', Back' \subseteq Back
              PROVE  Store!Next
    <2>1. CASE h.job = "recover"
      BY SMTT(60), <1>cleaned, <2>1, <1>go, <1>settle DEF Cleaned
    <2>2. CASE h.job = "abort"
      BY ZenonT(60), <1>cleaned, <2>2, <1>refuse DEF Cleaned
    <2>3. CASE h.job = "commit"
      <3>1. Release("ok") /\ h.who \in Clients /\ h.put # None
        BY ZenonT(60), <1>cleaned, <2>3, <1>i DEF Cleaned, ShapeInv
      <3>2. Op.client = h.who /\ Op.put = h.put /\ Op.want = h.want /\ h.who # None
        BY SMTT(60), <2>3, <3>1, OpIs, ConfigAssumption
      <3>3. Op' = Store!NoOp /\ answer' = [answer EXCEPT ![Op.client] = "ok"]
        BY SMTT(60), <3>1, <3>2, <1>i, NoOpIs DEF Release
      <3>4. \A d \in after : View(d) = h.put
        BY ZenonT(60), <1>cleaned, <2>3, <1>n DEF At, RollInv
      <3>5. View(disk) = h.put /\ Back = {View(disk)} /\ Back' = Back
        BY SMTT(60), <1>cleaned, <3>4, <1>t DEF Back
      <3> DEFINE v == [config |-> h.want, validator |-> h.put["managed_state"].validator]
      <3>6. seen' = [seen EXCEPT ![h.who] = v]
        BY SMTT(60), <1>cleaned, <2>3 DEF Cleaned
      <3>7. v.config = h.want
        OBVIOUS
      <3>8. seen \in [Clients -> [config : {None, HandEdit} \cup Docs, validator : Nat]]
        BY SMTT(60), <1>i DEF ConfigTypeOK
      <3> HIDE DEF v
      <3>9. Read' = [Read EXCEPT ![Op.client] = Op.want]
        BY ZenonT(60), <3>1, <3>2, <3>6, <3>7, <3>8 DEF Read
      <3>10. Store!Ok
        BY <1>cleaned, <3>1, <3>2, <3>3, <3>5, <3>9, <1>n DEF Store!Ok
      <3> QED BY SMTT(60), <3>10 DEF Store!Next
    <2> QED BY SMTT(60), <1>cleaned, <2>1, <2>2, <2>3 DEF Cleaned
  <1>10. CASE SyncClean
    BY <1>10, <1>cleaned, <1>sync, <1>b DEF SyncClean
  <1>11. CASE CleanFails
    BY SMTT(60), <1>11, <1>cleaned, <1>fail, <1>same, <1>b DEF CleanFails
  <1>12. CASE Migrate
    <2>1. disk.manifest = None /\ SetTarget("managed_state", NewState(Config)) /\ seen' = seen
      BY ZenonT(60), <1>12, <1>i DEF Migrate, At, ShapeInv
    <2>2. Op' = Op /\ answer' = answer
      <3>1. h.who = "reader" => h.who \notin Clients
        BY ConfigAssumption
      <3> QED BY <1>12, <3>1, <1>h, <1>done DEF Migrate
    <2>3. "managed_state" \in Roles
      BY DEF Roles
    <2> QED BY SMTT(60), <2>1, <2>2, <2>3, <1>write
  <1>13. CASE ReaderDone
    <2>1. h.who \notin Clients
      BY SMTT(60), <1>13, ConfigAssumption DEF ReaderDone
    <2> QED BY SMTT(60), <1>13, <2>1, <1>done, <1>quiet DEF ReaderDone
  <1>14. CASE Prepare
    <2>1. h'.who = h.who /\ h'.want = h.want /\ h'.job = h.job
      BY ZenonT(60), <1>14, <1>t DEF Prepare, Holders
    <2>2. h.job # "commit"
      BY ZenonT(60), <1>14, <1>i DEF Prepare, At, ShapeInv, Rolling
    <2> QED BY ZenonT(60), <1>14, <2>1, <2>2, SameOp, <1>quiet DEF Prepare
  <1>15. CASE Refuse
    <2>1. h.job # "commit"
      BY ZenonT(60), <1>15, <1>i DEF Refuse, At, ShapeInv, Rolling
    <2> QED BY SMTT(60), <1>15, <2>1, <1>refuse, <1>same, <1>b DEF Refuse
  <1>16. CASE Confirm
    <2>1. h.job # "commit" /\ h.who \in Clients /\ disk.manifest = None
      BY ZenonT(60), <1>16, <1>i DEF Confirm, At, ShapeInv, Rolling
    <2>2. UNCHANGED <<disk, after, seen>>
      BY SMTT(60), <1>16 DEF Confirm
    <2>3. CASE ~Expected
      BY SMTT(60), <1>16, <2>1, <2>2, <2>3, <1>refuse, <1>same, <1>b DEF Confirm
    <2>4. CASE Expected
      <3>1. Release("unchanged")
        BY SMTT(60), <1>16, <2>4 DEF Confirm
      <3>2. Op.client = h.who /\ Op.put = None /\ Op.want = h.want /\ h.who # None
        BY SMTT(60), <2>1, OpIs, ConfigAssumption
      <3>3. Op' = Store!NoOp /\ answer' = [answer EXCEPT ![Op.client] = "unchanged"]
        BY SMTT(60), <2>1, <3>1, <3>2, <1>i, NoOpIs DEF Release
      <3>4. h.expect["config"] = seen[h.who].config /\ h.expect["config"] = h.want
        BY SMTT(60), <1>16, <1>i DEF Confirm, At, PrepInv
      <3>5. View(disk)["config"] = Read[Op.client] /\ Read[Op.client] = Op.want
        BY ZenonT(60), <2>1, <2>4, <3>2, <3>4 DEF Expected, View, Read
      <3>6. Store!Unchanged
        BY <2>2, <3>2, <3>3, <3>5, <1>n, <1>seen, <1>same DEF Store!Unchanged
      <3> QED BY <3>6 DEF Store!Next
    <2> QED BY SMTT(60), <2>3, <2>4
  <1>17. CASE MakeDir
    <2>0. disk.manifest = None /\ UNCHANGED <<seen, answer>> /\ Op' = Op
      BY <1>17, <1>i, <1>go DEF MakeDir, At, ShapeInv, Preparing
    <2>1. CASE Change([disk EXCEPT !.dir = TRUE])
      <3> DEFINE e == [disk EXCEPT !.dir = TRUE]
      <3>1. e.manifest = disk.manifest /\ e.target = disk.target
        BY <1>t DEF Disks
      <3> HIDE DEF e
      <3>2. View(e) = View(disk)
        BY <3>1, ViewIs
      <3> QED BY <2>0, <2>1, <3>2, <1>change, <1>b, <1>settle DEF e
    <2> QED BY <1>17, <2>0, <2>1, <1>quiet DEF MakeDir
  <1>18. CASE SyncMkdir
    <2>1. h'.who = h.who /\ h'.want = h.want /\ h'.put = h.put /\ h'.job = h.job
      BY SMTT(60), <1>18, <1>t DEF SyncMkdir, Holders
    <2> QED BY <1>18, <2>1, SameOp, <1>sync, <1>b, <1>settle DEF SyncMkdir
  <1>abort. ASSUME Abort, h.job # "commit" PROVE Op' = Op
    <2>1. h'.who = h.who /\ h'.want = h.want /\ h'.job = "abort"
      BY <1>abort, <1>t DEF Abort, Holders
    <2> QED BY <1>abort, <2>1, SameOp
  <1>19. CASE Stage
    <2>0. h.job # "commit" /\ UNCHANGED <<seen, answer>>
      BY <1>19, <1>i DEF Stage, At, ShapeInv, Rolling
    <2>1. CASE (Abort \/ Go("manifest")) /\ UNCHANGED <<disk, after>>
      BY SMTT(60), <2>0, <2>1, <1>abort, <1>go, <1>quiet
    <2>2. ASSUME NEW r, Change([disk EXCEPT !.images = @ \cup {r}]), h' = [h EXCEPT !.k = @ + 1]
          PROVE  Store!Next
      <3> DEFINE e == [disk EXCEPT !.images = @ \cup {r}]
      <3>1. e.manifest = disk.manifest /\ e.target = disk.target
        BY <1>t DEF Disks
      <3> HIDE DEF e
      <3>2. View(e) = View(disk)
        BY <3>1, ViewIs
      <3>3. h'.who = h.who /\ h'.want = h.want /\ h'.put = h.put /\ h'.job = h.job
        BY <2>2, <1>t DEF Holders
      <3>4. Op' = Op
        BY <3>3, SameOp
      <3>5. Change(e)
        BY <2>2 DEF e
      <3> QED BY <2>0, <3>2, <3>4, <3>5, <1>change, <1>b, <1>settle
    <2> QED BY <1>19, <2>1, <2>2, Zenon DEF Stage
  <1>20. CASE PublishManifest
    <2>0. h.pc = "manifest" /\ UNCHANGED <<seen, answer>>
      BY SMTT(60), <1>20 DEF PublishManifest, At
    <2>1. /\ h.who \in Clients /\ h.job # "commit" /\ disk.manifest = None
          /\ h.put # None /\ h.put["config"] = h.want /\ h.expect # None
      <3>1. h.pc \in Preparing /\ h.pc \notin Rolling \cup {"syncManifest", "clean", "syncClean"}
        BY ZenonT(60), <2>0 DEF Preparing, Rolling
      <3> QED BY ZenonT(60), <3>1, <1>i DEF ShapeInv
    <2> DEFINE m == [old |-> h.expect, new |-> h.put]
    <2>2. m # None /\ m.new = h.put
      <3>1. h.expect \in Tuples /\ h.put \in Tuples
        BY <2>1, <1>t DEF Holders
      <3>2. m \in Manifests
        BY ZenonT(60), <3>1 DEF Manifests
      <3> QED BY <3>2, ConfigAssumption
    <2>3. disk' = [disk EXCEPT !.manifest = m] /\ after' = after \cup {disk'}
      BY <1>20 DEF PublishManifest, Change
    <2> HIDE DEF m
    <2>4. disk'.manifest = m
      BY <2>3, <1>t DEF Disks
    <2>5. View(disk)' = h.put
      BY <2>2, <2>4 DEF View
    <2>6. Back' = Back \cup {View(disk)'}
      BY <2>3, <1>i, BackIs
    <2>7. h'.who = h.who /\ h'.want = h.want /\ h'.put = h.put /\ h'.job = "commit"
      BY <1>20, <1>t DEF PublishManifest, Holders
    <2>8. Op.client = h.who /\ Op.put = None /\ Op.want = h.want /\ h.who # None
      BY ZenonT(60), <2>1, OpIs, ConfigAssumption
    <2>9. Op' = [Op EXCEPT !.put = View(disk)']
      BY SMTT(60), <2>5, <2>7 DEF Op
    <2>10. View(disk)["config"] = Read[Op.client]
      <3>1. h.expect["config"] = seen[h.who].config /\ disk.target = h.expect
        BY <2>0, <1>i, <1>n DEF PrepInv, Preparing, RollInv
      <3> QED BY ZenonT(60), <2>1, <2>8, <3>1 DEF View, Read
    <2>11. Store!Commit(View(disk)')
      BY SMTT(60), <2>0, <2>1, <2>5, <2>6, <2>8, <2>9, <2>10, <1>n, <1>seen DEF Store!Commit
    <2> QED BY <2>11 DEF Store!Next
  <1>21. CASE SyncManifest
    BY SMTT(60), <1>21, <1>go, <1>sync, <1>b, <1>settle DEF SyncManifest
  <1>22. CASE PrepareFails
    <2>1. CASE Abort /\ answer' = answer /\ (At("syncMkdir") \/ At("stage") \/ At("manifest"))
      <3>0. h.pc \notin Rolling \cup {"syncManifest", "clean", "syncClean"}
        BY ZenonT(60), <2>1 DEF At, Rolling
      <3>1. h.job # "commit"
        BY ZenonT(60), <3>0, <1>i DEF ShapeInv
      <3> QED BY SMTT(60), <1>22, <2>1, <3>1, <1>abort, <1>quiet DEF PrepareFails
    <2> QED BY SMTT(60), <1>22, <2>1, <1>fail DEF PrepareFails
  <1>cli. h.pc \in {"replace", "restore"} \/ h.who = "cli" => h.who \notin Clients
    BY SMTT(60), <1>i, ConfigAssumption DEF ShapeInv
  <1>23. CASE ImportBegin
    <2>1. h'.who = h.who /\ h'.want = h.want /\ h'.job \in {"import", "set"}
      BY ZenonT(60), <1>23, <1>t DEF ImportBegin, Holders
    <2>2. h.job # "commit"
      BY ZenonT(60), <1>23, <1>i DEF ImportBegin, At, ShapeInv, Rolling
    <2> QED BY ZenonT(60), <1>23, <2>1, <2>2, SameOp, <1>quiet DEF ImportBegin
  <1>24. CASE Replace
    <2>1. h'.who = h.who /\ h'.want = h.want /\ h'.put = h.put /\ h'.job = h.job
      BY <1>24, <1>t DEF Replace, Holders
    <2>2. Head(h.todo).role \in Roles
      BY <1>24, <1>t DEF Replace, Holders, Files
    <2>3. disk.manifest = None
      BY <1>24, <1>i DEF Replace, At, ShapeInv
    <2>4. SetTarget(Head(h.todo).role, Head(h.todo).data) /\ UNCHANGED <<seen, answer>>
      BY <1>24 DEF Replace
    <2> QED BY ZenonT(60), <2>1, <2>2, <2>3, <2>4, SameOp, <1>write
  <1>25. CASE ReplaceDone
    <2>1. CASE Release("none")
      BY <1>25, <2>1, <1>cli, <1>done, <1>quiet DEF ReplaceDone, At
    <2>2. CASE ~Release("none")
      <3>1. h'.who = h.who /\ h'.want = h.want /\ h'.job = "rollback" /\ h.job = "set"
            /\ answer' = answer
        BY ZenonT(60), <1>25, <2>2, <1>t DEF ReplaceDone, Holders
      <3> QED BY <1>25, <3>1, SameOp, <1>quiet DEF ReplaceDone
    <2> QED BY <2>1, <2>2
  <1>26. CASE ReplaceFails
    BY ZenonT(60), <1>26, <1>go, <1>quiet DEF ReplaceFails
  <1>27. CASE Restore
    <2>1. CASE h.undo = <<>>
      BY <1>27, <2>1, <1>cli, <1>done, <1>quiet DEF Restore, At
    <2>2. CASE h.undo # <<>>
      <3>1. h'.who = h.who /\ h'.want = h.want /\ h'.put = h.put /\ h'.job = h.job
        BY SMTT(60), <1>27, <2>2, <1>t DEF Restore, Holders
      <3>2. Head(h.undo).role \in Roles
        BY <2>2, <1>t DEF Holders, Files
      <3>3. disk.manifest = None
        BY <1>27, <1>i DEF Restore, At, ShapeInv
      <3>4. SetTarget(Head(h.undo).role, Head(h.undo).data) /\ UNCHANGED <<seen, answer>>
        BY SMTT(60), <1>27, <2>2 DEF Restore
      <3> QED BY ZenonT(60), <3>1, <3>2, <3>3, <3>4, SameOp, <1>write
    <2> QED BY <2>1, <2>2
  <1>28. CASE Crash
    <2>1. Op' = Store!NoOp /\ UNCHANGED <<disk, after, seen, answer>>
      BY SMTT(60), <1>28, <1>i, NoOpIs DEF Crash
    <2> QED BY SMTT(60), <2>1, <1>n, <1>seen, <1>same DEF Store!Next, Store!Crash
  <1>29. CASE PowerLoss
    <2>1. Op' = Store!NoOp /\ UNCHANGED <<seen, answer>>
      BY <1>29, <1>i, NoOpIs DEF PowerLoss
    <2>2. disk' \in after /\ after' = {disk'}
      BY <1>29 DEF PowerLoss
    <2>3. View(disk)' \in Back /\ Back' = {View(disk)'}
      BY <2>2 DEF Back, View
    <2> QED BY SMTT(60), <2>1, <2>3, <1>n, <1>seen DEF Store!Next, Store!PowerLoss
  <1>30. CASE Edit
    <2>1. disk.manifest = None /\ h' = h
      BY <1>30, <1>n, QuietEdit
    <2>2. "config" \in Roles /\ SetTarget("config", HandEdit) /\ UNCHANGED <<seen, answer>>
      BY <1>30 DEF Edit, Roles
    <2> QED BY <2>1, <2>2, <1>h, <1>write
  <1>31. CASE UNCHANGED vars
    BY <1>31, <1>h, <1>quiet DEF vars
  <1> QED BY SMTT(60), <1>1, <1>2, <1>3, <1>4, <1>5, <1>6, <1>7, <1>8, <1>9, <1>10, <1>11, <1>12, <1>13,
             <1>14, <1>15, <1>16, <1>17, <1>18, <1>19, <1>20, <1>21, <1>22, <1>23, <1>24, <1>25,
             <1>26, <1>27, <1>28, <1>29, <1>30, <1>31 DEF Next, Step, Failure, Lock

\* The transaction implements the register: for any clients, configurations,
\* faults and bounds, PutConfig and GetConfig keep the promises of ConfigStore
\* until an editor interferes with a transaction.
THEOREM TransactionImplementsStore == Spec => ImplementsStore
  BY IndInit, IndStep, RefineInit, RefineStep, PTL DEF Spec, ImplementsStore, Store!Spec

-----------------------------------------------------------------------------
(* A third writer's file.                                                    *)

EditInv ==
    /\ \A d \in after : d.manifest # None =>
         d.target["config"] \in {d.manifest.old["config"], d.manifest.new["config"], HandEdit}
    /\ h.pc = "manifest" => disk.target["config"] \in {h.expect["config"], HandEdit}
    /\ h.pc \in {"publish", "syncTarget"} /\ raced # "late" =>
         disk.target["config"] \in {disk.manifest.old["config"], disk.manifest.new["config"]}

\* Under a manifest config.yml is the old file, the new one, or the editor's;
\* after the validation and before a late edit it is not the editor's.
LEMMA EditStep == TypeInv /\ EditInv /\ [Next]_vars => EditInv'
  <1> SUFFICES ASSUME TypeInv, EditInv, [Next]_vars PROVE EditInv'
    BY SMTT(60)
  <1> DEFINE Kept(d) == d.manifest # None =>
         d.target["config"] \in {d.manifest.old["config"], d.manifest.new["config"], HandEdit}
             Hold == /\ h.pc = "manifest" => disk.target["config"] \in {h.expect["config"], HandEdit}
                     /\ h.pc \in {"publish", "syncTarget"} /\ raced # "late" =>
                          disk.target["config"] \in {disk.manifest.old["config"],
                                                     disk.manifest.new["config"]}
  <1>e. (\A d \in after : Kept(d)) /\ Hold
    BY ZenonT(60) DEF EditInv
  <1>p. (\A d \in after' : Kept(d)) /\ Hold' => EditInv'
    BY DEF EditInv
  <1>t. h \in Holders /\ disk \in Disks /\ disk \in after /\ ConfigTypeOK /\ ShapeInv
    BY SMTT(60) DEF TypeInv, ConfigTypeOK
  <1>o. h'.pc \notin {"manifest", "publish", "syncTarget"} => Hold'
    OBVIOUS
  <1>g. \A pc : Go(pc) => h'.pc = pc /\ h'.expect = h.expect /\ h'.k = h.k
    BY SMTT(60), <1>t DEF Go, Holders
  <1>f. h' = Free => Hold'
    <2>1. Free.pc \notin {"manifest", "publish", "syncTarget"}
      BY DEF Free
    <2> QED BY ZenonT(60), <1>o, <2>1
  <1>r. (\E a : Release(a)) \/ Fail \/ Abort => Hold'
    <2>1. Abort => h'.pc = "clean"
      BY SMTT(60), <1>t DEF Abort, Holders
    <2> QED BY ZenonT(60), <2>1, <1>f, <1>o DEF Release, Fail
  <1>u. after' = after => \A d \in after' : Kept(d)
    BY SMTT(60), <1>e
  <1>y. Sync => \A d \in after' : Kept(d)
    BY SMTT(60), <1>e, <1>t DEF Sync
  <1>c. ASSUME NEW d, Change(d), Kept(d) PROVE \A x \in after' : Kept(x)
    BY <1>c, <1>e DEF Change
  <1> HIDE DEF Kept
  <1>n. ASSUME NEW d, d.manifest = None PROVE Kept(d)
    BY <1>n DEF Kept
  <1>s. ASSUME NEW r, NEW x, SetTarget(r, x), disk.manifest = None PROVE \A d \in after' : Kept(d)
    <2>1. [disk EXCEPT !.target = [@ EXCEPT ![r] = x]].manifest = None
      BY <1>s, <1>t DEF Disks
    <2> QED BY ZenonT(60), <1>s, <2>1, <1>c, <1>n DEF SetTarget
  <1>1. CASE Validate
    <2>1. CASE /\ \A r \in Roles : Publishable(disk, r)
               /\ h' = [h EXCEPT !.pc = "publish", !.k = 1]
      <3>1. h'.pc = "publish" /\ disk' = disk /\ after' = after
        BY <1>1, <2>1, <1>t DEF Validate, Holders
      <3>2. Publishable(disk, "config")
        BY SMTT(60), <2>1 DEF Roles
      <3>3. Hold'
        BY <3>1, <3>2 DEF Publishable
      <3> QED BY <3>1, <3>3, <1>u, <1>p
    <2> QED BY <1>1, <2>1, <1>r, <1>u, <1>p DEF Validate
  <1>2. CASE Publish
    <2>0. h.pc = "publish" /\ disk.manifest # None /\ raced' = raced
      BY <1>2, <1>t DEF Publish, At, ShapeInv, Rolling
    <2>1. CASE UNCHANGED <<disk, after>> /\ (Go("clean") \/ h' = [h EXCEPT !.k = @ + 1])
      <3>1. h'.pc \in {"clean", "publish"}
        BY SMTT(60), <2>0, <2>1, <1>t, <1>g DEF Holders
      <3> QED BY <2>0, <2>1, <3>1, <1>e, <1>u, <1>p
    <2>2. CASE /\ SetTarget(Order[h.k], disk.manifest.new[Order[h.k]]) /\ Go("syncTarget")
               /\ ~(h.k > Len(Order))
      <3> DEFINE r == Order[h.k]
      <3>1. r \in Roles /\ "config" \in Roles
        BY SMTT(60), <2>2, <1>t DEF Holders, Order, Roles
      <3>a. SetTarget(r, disk.manifest.new[r])
        BY SMTT(60), <2>2
      <3> HIDE DEF r
      <3>b. /\ disk'.manifest = disk.manifest /\ after' = after \cup {disk'}
            /\ \A q \in Roles : disk'.target[q] = IF q = r THEN disk.manifest.new[r]
                                                         ELSE disk.target[q]
        BY ZenonT(60), <3>a, <3>1, <1>t, SetTargetEffect
      <3>2. /\ disk'.manifest = disk.manifest /\ after' = after \cup {disk'}
            /\ disk'.target["config"] \in {disk.manifest.new["config"], disk.target["config"]}
        BY <3>b, <3>1
      <3>3. Kept(disk')
        BY <3>2, <1>e, <1>t DEF Kept
      <3>4. \A d \in after' : Kept(d)
        BY SMTT(60), <3>2, <3>3, <1>e
      <3>5. Hold'
        <4>1. h'.pc = "syncTarget"
          BY <2>2, <1>g
        <4>2. raced # "late" => disk.target["config"] \in {disk.manifest.old["config"],
                                                          disk.manifest.new["config"]}
          BY <2>0, <1>e
        <4> QED BY <2>0, <3>2, <4>1, <4>2
      <3> QED BY SMTT(60), <3>4, <3>5, <1>p
    <2> QED BY <1>2, <2>1, <2>2, Zenon DEF Publish
  <1>3. CASE SyncTarget
    <2>1. h'.pc = "publish" /\ h.pc = "syncTarget" /\ disk' = disk /\ raced' = raced
      BY SMTT(60), <1>3, <1>t DEF SyncTarget, Sync, At, Holders
    <2>2. Hold'
      BY <2>1, <1>e
    <2> QED BY <1>3, <2>2, <1>y, <1>p DEF SyncTarget
  <1>4. CASE Clean
    <2>1. h'.pc \notin {"manifest", "publish", "syncTarget"}
      BY <1>4, <1>g DEF Clean, At
    <2>2. ASSUME NEW e, Change(e), e.manifest = None PROVE EditInv'
      BY ZenonT(60), <2>1, <2>2, <1>c, <1>n, <1>o, <1>p
    <2>3. [disk EXCEPT !.manifest = None].manifest = None
      BY <1>t DEF Disks
    <2>4. disk.manifest = None => /\ [disk EXCEPT !.images = {}].manifest = None
                                  /\ [disk EXCEPT !.dir = FALSE].manifest = None
      BY <1>t DEF Disks
    <2> QED BY ZenonT(60), <1>4, <2>2, <2>3, <2>4 DEF Clean
  <1>5. CASE MakeDir
    <2>1. disk.manifest = None
      BY <1>5, <1>t DEF MakeDir, At, ShapeInv, Preparing
    <2>2. [disk EXCEPT !.dir = TRUE].manifest = None
      BY <2>1, <1>t DEF Disks
    <2>3. Hold'
      BY <1>5, <1>g, <1>o DEF MakeDir
    <2> QED BY ZenonT(60), <1>5, <2>2, <2>3, <1>c, <1>n, <1>u, <1>p DEF MakeDir
  <1>6. CASE SyncMkdir
    <2>1. h'.pc = "stage"
      BY <1>6, <1>t DEF SyncMkdir, Holders
    <2> QED BY <1>6, <2>1, <1>o, <1>y, <1>p DEF SyncMkdir
  <1>7. CASE Stage
    <2>1. disk.manifest = None /\ h.pc = "stage"
      BY <1>7, <1>t DEF Stage, At, ShapeInv, Preparing
    <2>2. CASE Abort /\ UNCHANGED <<disk, after>>
      BY ZenonT(60), <2>2, <1>r, <1>u, <1>p
    <2>3. CASE Go("manifest") /\ Expected /\ UNCHANGED <<disk, after>>
      <3>0. /\ h'.pc = "manifest" /\ h'.expect = h.expect
            /\ disk' = disk /\ disk.target = h.expect
        BY ZenonT(60), <2>3, <1>g DEF Expected
      <3>1. Hold'
        BY <3>0
      <3> QED BY ZenonT(60), <2>3, <3>1, <1>u, <1>p
    <2>4. ASSUME NEW r, Change([disk EXCEPT !.images = @ \cup {r}]), h' = [h EXCEPT !.k = @ + 1]
          PROVE  EditInv'
      <3>1. h'.pc = "stage"
        BY <2>1, <2>4, <1>t DEF Holders
      <3>2. [disk EXCEPT !.images = @ \cup {r}].manifest = None
        BY <2>1, <1>t DEF Disks
      <3> QED BY ZenonT(60), <2>4, <3>1, <3>2, <1>c, <1>n, <1>o, <1>p
    <2> QED BY <1>7, <2>2, <2>3, <2>4, Zenon DEF Stage
  <1>8. CASE PublishManifest
    <2> DEFINE m == [old |-> h.expect, new |-> h.put]
               d == [disk EXCEPT !.manifest = m]
    <2>1. disk.target["config"] \in {h.expect["config"], HandEdit}
      BY <1>8, <1>e DEF PublishManifest, At
    <2>2. m.old = h.expect
      OBVIOUS
    <2>3. Change(d)
      BY <1>8 DEF PublishManifest
    <2> HIDE DEF m
    <2>4. d.target = disk.target /\ d.manifest = m
      BY SMTT(60), <1>t DEF Disks
    <2> HIDE DEF d
    <2>5. Kept(d)
      BY <2>1, <2>2, <2>4 DEF Kept
    <2>6. h'.pc = "syncManifest"
      BY SMTT(60), <1>8, <1>t DEF PublishManifest, Holders
    <2> QED BY <2>3, <2>5, <2>6, <1>c, <1>o, <1>p
  <1>9. CASE Edit
    <2>1. "config" \in Roles /\ SetTarget("config", HandEdit) /\ h' = h
      BY SMTT(60), <1>9 DEF Edit, Roles
    <2>2. /\ disk'.manifest = disk.manifest /\ after' = after \cup {disk'}
          /\ disk'.target["config"] = HandEdit
      BY ZenonT(60), <2>1, <1>t, SetTargetEffect
    <2>3. Kept(disk')
      BY <2>2 DEF Kept
    <2>4. h.pc \in {"publish", "syncTarget"} => raced' = "late"
      BY <1>9 DEF Edit, At
    <2>5. Hold'
      BY <2>1, <2>2, <2>4
    <2> QED BY ZenonT(60), <2>2, <2>3, <2>5, <1>e, <1>p
  <1>10. CASE PowerLoss
    <2>1. h' = Free /\ \A d \in after' : Kept(d)
      BY SMTT(60), <1>10, <1>e DEF PowerLoss
    <2> QED BY SMTT(60), <2>1, <1>f, <1>p
  <1>11. CASE Migrate \/ Replace \/ Restore
    <2>1. disk.manifest = None /\ h.pc \in {"locked", "replace", "restore"}
      BY <1>11, <1>t DEF Migrate, Replace, Restore, At, ShapeInv
    <2>2. \A d \in after' : Kept(d)
      BY <1>11, <2>1, <1>s, <1>u DEF Migrate, Replace, Restore
    <2>3. h'.pc = h.pc \/ Release("none")
      BY ZenonT(60), <1>11, <1>t DEF Migrate, Replace, Restore, Holders
    <2> QED BY ZenonT(60), <2>1, <2>2, <2>3, <1>o, <1>r, <1>p
  <1>go. (\E pc \in {"locked", "clean", "validate", "restore"} : Go(pc)) => Hold'
    BY <1>g, <1>o
  <1>cl. Cleaned => Hold'
    BY ZenonT(60), <1>go, <1>r DEF Cleaned
  <1>12. CASE SyncClean \/ SyncManifest
    <2>1. Hold'
      BY ZenonT(60), <1>12, <1>cl, <1>go DEF SyncClean, SyncManifest
    <2> QED BY ZenonT(60), <1>12, <2>1, <1>y, <1>p DEF SyncClean, SyncManifest
  <1>13. CASE \/ Recover \/ PublishFails \/ CleanFails \/ ReaderDone \/ Refuse \/ Confirm
              \/ PrepareFails \/ ReplaceFails \/ Crash
    <2>a. Recover => \E pc \in {"locked", "clean", "validate", "restore"} : Go(pc)
      BY ZenonT(60) DEF Recover
    <2>b. CleanFails => Fail \/ Cleaned
      BY ZenonT(60) DEF CleanFails
    <2>1. Hold'
      BY ZenonT(60), <1>13, <2>a, <2>b, <1>cl, <1>go, <1>r, <1>f DEF PublishFails,
         ReaderDone, Refuse, Confirm, PrepareFails, ReplaceFails, Crash
    <2>2. after' = after
      BY ZenonT(60), <1>13 DEF Recover, PublishFails, CleanFails, ReaderDone,
           Refuse, Confirm, PrepareFails, ReplaceFails, Crash
    <2> QED BY ZenonT(60), <2>1, <2>2, <1>u, <1>p
  <1>14. CASE Prepare \/ ImportBegin \/ ReplaceDone
    <2>1. h'.pc \in {"refuse", "unchanged", "mkdir", "replace"} \/ Release("none")
      BY ZenonT(60), <1>14, <1>t DEF Prepare, ImportBegin, ReplaceDone, Holders, At
    <2>2. after' = after
      BY ZenonT(60), <1>14 DEF Prepare, ImportBegin, ReplaceDone
    <2> QED BY ZenonT(60), <2>1, <2>2, <1>o, <1>r, <1>u, <1>p
  <1>15. ASSUME NEW who, NEW want, Acquire(who, want) PROVE EditInv'
    <2>1. h'.pc = "recover" /\ after' = after
      BY SMTT(60), <1>15 DEF Acquire, Free
    <2> QED BY <2>1, <1>o, <1>u, <1>p
  <1>16. CASE UNCHANGED vars \/ \E c \in Clients : GetConfig(c)
    <2>1. UNCHANGED <<disk, after, h, raced>>
      BY SMTT(60), <1>16 DEF vars, GetConfig
    <2>2. Hold'
      BY <2>1, <1>e
    <2> QED BY SMTT(60), <2>1, <2>2, <1>u, <1>p
  <1> QED BY SMTT(60), <1>1, <1>2, <1>3, <1>4, <1>5, <1>6, <1>7, <1>8, <1>9, <1>10, <1>11, <1>12, <1>13,
             <1>14, <1>15, <1>16 DEF Next, Step, Failure, Lock

\* Only an edit that comes after the validation is ever overwritten: a roll
\* forward that could have noticed a third content of config.yml fails closed.
THEOREM EditIsKept == Spec => EditKept
  <1>1. Init => EditInv
    <2> SUFFICES ASSUME Init PROVE EditInv
      OBVIOUS
    <2>1. disk.manifest = None
      BY DEF Init, NoDir
    <2>2. after = {disk} /\ h.pc = "free"
      BY DEF Init, Free
    <2> QED BY <2>1, <2>2 DEF EditInv
  <1>2. TypeInv /\ [Next]_vars => TypeInv'
    BY TypeStep, ShapeStep, DirStep DEF TypeInv
  <1>3. ASSUME TypeInv, EditInv, Next,
               disk.manifest # None,
               disk.target["config"] \notin {disk.manifest.old["config"], disk.manifest.new["config"]},
               disk'.target # disk.target
        PROVE  raced = "late" \/ PowerLoss
    <2>t. h \in Holders /\ disk \in Disks /\ disk \in after /\ ConfigTypeOK /\ ShapeInv
      BY <1>3 DEF TypeInv, ConfigTypeOK
    <2>1. disk.target["config"] = HandEdit /\ disk.target \in Tuples
      BY ZenonT(60), <1>3, <2>t, TargetType DEF EditInv
    <2>2. CASE Publish
      BY <1>3, <2>2 DEF EditInv, Publish, At
    <2>3. CASE Edit
      <3>1. disk'.target = [disk.target EXCEPT !["config"] = HandEdit]
        BY SMTT(60), <2>3, <2>t, SetTargetEffect DEF Edit, Roles
      <3>2. disk'.target = disk.target
        BY <3>1, <2>1 DEF Tuples
      <3> QED BY SMTT(60), <3>2, <1>3
    <2>4. ~(Migrate \/ Replace \/ Restore)
      BY <1>3, <2>t DEF Migrate, Replace, Restore, At, ShapeInv
    <2>5. ~Clean /\ ~MakeDir /\ ~Stage /\ ~PublishManifest
      <3>1. ASSUME NEW d, Change(d), d.target = disk.target PROVE FALSE
        BY <3>1, <1>3 DEF Change
      <3>2. /\ [disk EXCEPT !.manifest = None].target = disk.target
            /\ [disk EXCEPT !.images = {}].target = disk.target
            /\ [disk EXCEPT !.dir = FALSE].target = disk.target
        BY <2>t DEF Disks
      <3>3. ~Clean
        BY ZenonT(60), <3>1, <3>2 DEF Clean
      <3>4. ~MakeDir /\ ~Stage /\ ~PublishManifest
        BY <1>3, <2>t DEF MakeDir, Stage, PublishManifest, At, ShapeInv, Preparing
      <3> QED BY <3>3, <3>4
    <2>6. CASE disk' = disk
      BY <2>6, <1>3
    <2>7. CASE \/ SyncTarget \/ SyncClean \/ SyncMkdir \/ SyncManifest
               \/ Recover \/ Validate \/ ReaderDone \/ Prepare \/ Refuse \/ Confirm
               \/ ImportBegin \/ ReplaceDone \/ PublishFails \/ CleanFails \/ PrepareFails
               \/ ReplaceFails \/ Crash \/ Lock \/ \E c \in Clients : GetConfig(c)
      <3>1. disk' = disk
        BY ZenonT(60), <2>7 DEF SyncTarget, SyncClean, SyncMkdir, SyncManifest, Sync, Recover, Validate,
             ReaderDone, Prepare, Refuse, Confirm, ImportBegin, ReplaceDone, PublishFails,
             CleanFails, PrepareFails, ReplaceFails, Crash, Lock, Acquire, GetConfig
      <3> QED BY <3>1, <2>6
    <2> QED BY <1>3, <2>2, <2>3, <2>4, <2>5, <2>7 DEF Next, Step, Failure
  <1>4. TypeInv /\ EditInv /\ [Next]_vars =>
          [ /\ disk.manifest # None
            /\ disk.target["config"] \notin {disk.manifest.old["config"], disk.manifest.new["config"]}
            /\ disk'.target # disk.target
            => raced = "late" \/ PowerLoss ]_vars
    BY <1>3
  <1> QED BY TypeInvInit, EditStep, <1>1, <1>2, <1>4, PTL DEF Spec, EditKept
================================================================================
