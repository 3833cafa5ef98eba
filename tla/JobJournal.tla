----------------------------- MODULE JobJournal -----------------------------
(***************************************************************************)
(* Below JobStore: how consolejobs keeps the job table in jobs.jsonl.      *)
(* Several Store handles, in one process or in several, share the file     *)
(* under jobs.lock.  A handle caches the replayed state; appends, torn     *)
(* lines, fsync, checkpoint compaction by rename and the adoption of a     *)
(* replaced file are the steps here, with process crashes and power loss   *)
(* between any two of them.                                                *)
(*                                                                         *)
(* A file is named by its generation: a checkpoint of generation g becomes *)
(* file g+1, and a handle keeps an old file open after it lost its name.   *)
(* A line is a record; a torn last line has no newline.  Jobs are told     *)
(* apart by the idempotency key that created them.                         *)
(***************************************************************************)
EXTENDS Naturals, Sequences, SequencesExt, FiniteSets

CONSTANTS
  Handles,         \* Store handles
  Processes,       \* processes that open handles
  Keys,            \* idempotency identities, one job each
  Operations,      \* operations that occur, beyond creation
  MaxGeneration,   \* bound: how many checkpoints are written
  MaxAttempts,     \* bound: how many job IDs are drawn per key
  MaxFaults,       \* bound: how many faults occur
  Faults           \* "write", "sync", "rename", "crash", "power"

ASSUME JobJournalAssumption ==
  /\ MaxGeneration \in Nat /\ MaxAttempts \in Nat /\ MaxFaults \in Nat
  /\ Operations \subseteq {"start", "finish", "cancel", "reject"}
  /\ Faults \subseteq {"write", "sync", "rename", "crash", "power"}

VARIABLES
  files,     \* per generation: lines in the page cache, torn tail, fsynced lines
  path,      \* the file jobs.jsonl names
  durable,   \* the file jobs.jsonl names after a power loss
  handle,    \* per handle: descriptor, cached state, position in withState
  receipts,  \* journalReceiptRegistry: appends seen by a process
  attempts,  \* per key: job IDs drawn by newJobID
  faults,    \* faults so far
  acked,     \* history: job records whose write was reported as committed
  replies    \* history: per key, job IDs told to clients since power failed last

journalVars == <<files, path, durable, handle, receipts, attempts, faults,
                 acked, replies>>

Generations == 0..MaxGeneration
NoJob == [status |-> "absent", started |-> FALSE, rev |-> 0, id |-> 0]

(* storeState: jobs by key, retained events by key, generation.            *)
Empty == [gen |-> 0, jobs |-> [k \in Keys |-> NoJob], events |-> [k \in Keys |-> 0]]

JobLine(k, job)  == [kind |-> "job", key |-> k, job |-> job]
EventLine(k)     == [kind |-> "event", key |-> k]
SnapshotLine(s)  == [kind |-> "snapshot", state |-> s]

(* storeState.apply; a checkpoint's records are one line here, sealed by   *)
(* its snapshot_end, since a checkpoint is fsynced before it has a name.   *)
Apply(s, line) ==
  CASE line.kind = "job"      -> [s EXCEPT !.jobs[line.key] = line.job]
    [] line.kind = "event"    -> [s EXCEPT !.events[line.key] = @ + 1]
    [] line.kind = "snapshot" -> line.state

Replay(s, lines) == FoldLeft(Apply, s, lines)
Recovered(f)     == Replay(Empty, files[f].lines)
Compacted(f)     == files[f].lines # <<>> /\ files[f].lines[1].kind = "snapshot"

NewFile(lines) == [lines |-> lines, torn |-> FALSE, epoch |-> 0, synced |-> Len(lines)]
Closed == [open |-> FALSE, unavailable |-> "no", pc |-> "out", file |-> 0,
           state |-> Empty, size |-> 0, epoch |-> 0, next |-> Empty, body |-> <<>>,
           process |-> "none"]

JournalInit ==
  /\ files = [f \in Generations |-> NewFile(<<>>)]
  /\ path = 0 /\ durable = 0
  /\ handle = [h \in Handles |-> Closed]
  /\ receipts = {} /\ attempts = [k \in Keys |-> 0] /\ faults = 0
  /\ acked = {} /\ replies = [k \in Keys |-> {}]

Inside(h)    == handle[h].pc # "out"
LockFree     == \A h \in Handles : ~Inside(h)
Set(h, rec)  == handle' = [handle EXCEPT ![h] = rec]
Fault(kind)  == kind \in Faults /\ faults < MaxFaults /\ faults' = faults + 1

(* journalReceiptHandle.close: a process keeps the receipts of a file as   *)
(* long as one of its handles has the file open.                           *)
ReceiptsKept == receipts' = {rc \in receipts : \E h \in Handles :
  handle'[h].process = rc.process /\ handle'[h].file = rc.file}

(* applyJournalTail drops a residual final line; the truncation changes    *)
(* the file's times, which is what epoch stands for.                       *)
Truncated(file) ==
  IF file.torn THEN [file EXCEPT !.torn = FALSE, !.epoch = @ + 1,
                                 !.synced = Len(file.lines)]
  ELSE file

-----------------------------------------------------------------------------
(* OpenContext and Close.                                                  *)

OpenContext(h, p) ==
  /\ ~handle[h].open /\ LockFree
  /\ files' = [files EXCEPT ![path] = Truncated(@)]
  /\ Set(h, [Closed EXCEPT !.open = TRUE, !.process = p, !.file = path,
               !.state = Recovered(path), !.size = Len(files[path].lines), !.epoch = files'[path].epoch])
  /\ UNCHANGED <<path, durable, receipts, attempts, acked, replies, faults>>

Close(h) ==
  /\ handle[h].open /\ ~Inside(h)
  /\ Set(h, Closed)
  /\ ReceiptsKept
  /\ UNCHANGED <<files, path, durable, attempts, acked, replies, faults>>

-----------------------------------------------------------------------------
(* withState: adopt the canonical file, then bring the cached state up to  *)
(* date.                                                                   *)

(* Mutant: only one update since the cached state is accepted.             *)
ValidPersistedJobAdvanceOnce(old, new) ==
  \/ old.status = "queued" /\ new.status \in {"running", "canceled"}
  \/ old.status = "running" /\ new.status # "queued"

(* validPersistedJobAdvance.                                               *)
ValidPersistedJobAdvance(old, new) ==
  CASE old.status = "queued" ->
         \/ new.status \in {"running", "canceled"}
         \/ new.status \in {"succeeded", "failed"} /\ new.started
                                                   /\ new.rev >= old.rev + 2
    [] old.status = "running" -> new.status # "queued"
    [] OTHER -> FALSE

StateAdvances(old, new) ==
  /\ new.gen > old.gen
  /\ \A k \in Keys : old.jobs[k].status # "absent" =>
       /\ new.jobs[k].id = old.jobs[k].id
       /\ new.jobs[k].rev >= old.jobs[k].rev
       /\ new.jobs[k].rev = old.jobs[k].rev => new.jobs[k] = old.jobs[k]
       /\ new.jobs[k].rev > old.jobs[k].rev =>
            ValidPersistedJobAdvance(old.jobs[k], new.jobs[k])
       /\ new.events[k] >= old.events[k]

(* Mutant: the opened descriptor is taken for the canonical file.          *)
EnsureCanonicalNever(h) == handle[h]

(* ensureCanonicalJournalLocked: the handle after it, or a refusal.        *)
EnsureCanonical(h) ==
  IF path = handle[h].file THEN handle[h]
  ELSE IF Compacted(path) /\ StateAdvances(handle[h].state, Recovered(path))
  THEN [handle[h] EXCEPT !.file = path, !.state = Recovered(path),
          !.size = Len(files[path].lines), !.epoch = Truncated(files[path]).epoch]
  ELSE [handle[h] EXCEPT !.unavailable = "refused"]

(* confirmsAppendChain: appends of this process lead from one snapshot of  *)
(* the file to the other.                                                  *)
ConfirmsAppendChain(r) ==
  /\ r.size < Len(files[r.file].lines)
  /\ \A i \in r.size + 1 .. Len(files[r.file].lines) :
       \E n \in r.size .. i - 1, m \in i .. Len(files[r.file].lines) :
         [process |-> r.process, file |-> r.file, epoch |-> r.epoch,
          before |-> n, after |-> m] \in receipts

(* refreshJournal on the adopted descriptor r.                             *)
Refreshed(r) ==
  LET file == files[r.file]
      now  == [r EXCEPT !.size = Len(file.lines), !.epoch = Truncated(file).epoch]
  IN  IF r.unavailable # "no" THEN r
      ELSE IF Len(file.lines) < r.size THEN [r EXCEPT !.unavailable = "refused"]
      ELSE IF ~file.torn /\ file.epoch = r.epoch /\ Len(file.lines) = r.size THEN r
      ELSE IF ~file.torn /\ file.epoch = r.epoch /\ ConfirmsAppendChain(r)
      THEN [now EXCEPT !.state = Replay(r.state, SubSeq(file.lines, r.size + 1, Len(file.lines)))]
      ELSE [now EXCEPT !.state = Recovered(r.file)]

(* Mutant: jobs.lock is not taken.                                         *)
WithStateUnlocked(h) ==
  LET r == Refreshed(EnsureCanonical(h))
  IN  /\ handle[h].open /\ handle[h].unavailable = "no" /\ ~Inside(h)
      /\ Set(h, [r EXCEPT !.pc = IF r.unavailable = "no" THEN "in" ELSE "out"])
      /\ UNCHANGED <<files, path, durable, receipts, attempts, acked, replies, faults>>

WithState(h) ==
  LET r == Refreshed(EnsureCanonical(h))
  IN  /\ handle[h].open /\ handle[h].unavailable = "no" /\ LockFree
      /\ Set(h, [r EXCEPT !.pc = IF r.unavailable = "no" THEN "in" ELSE "out"])
      /\ files' = IF r.unavailable = "no"
                  THEN [files EXCEPT ![r.file] = Truncated(@)] ELSE files
      /\ ReceiptsKept
      /\ UNCHANGED <<path, durable, attempts, acked, replies, faults>>

-----------------------------------------------------------------------------
(* What an operation decides inside withState.                             *)

Updated(job, status) == [job EXCEPT !.status = status, !.rev = @ + 1,
                           !.started = @ \/ status = "running"]

NewJobLines(k) == <<JobLine(k, [NoJob EXCEPT !.status = "queued", !.rev = 1,
                                  !.id = attempts[k] + 1])>>

(* The queued job's last event and its terminal state are two lines.       *)
TransitionLines(job, op, k) ==
  CASE op = "start" /\ job.status = "queued" -> <<JobLine(k, Updated(job, "running"))>>
    [] op = "finish" /\ job.status = "running" -> <<JobLine(k, Updated(job, "succeeded"))>>
    [] op = "cancel" /\ job.status = "queued" ->
         <<EventLine(k), JobLine(k, Updated(job, "canceled"))>>
    [] op = "reject" /\ job.status = "queued" ->
         <<EventLine(k), JobLine(k, Updated(job, "failed"))>>
    [] OTHER -> <<>>

(* Mutant: the idempotency index is not consulted.                         *)
BodyWithoutLookup(s, op, k) ==
  IF op = "create" THEN NewJobLines(k) ELSE TransitionLines(s.jobs[k], op, k)

(* The records an operation persists, <<>> when it changes nothing.        *)
Body(s, op, k) ==
  IF op = "create" /\ s.jobs[k].status = "absent" THEN NewJobLines(k)
  ELSE TransitionLines(s.jobs[k], op, k)

DrawsId(op, k) ==
  IF op = "create" THEN /\ attempts[k] < MaxAttempts
                        /\ attempts' = [attempts EXCEPT ![k] = @ + 1]
  ELSE UNCHANGED attempts

Told(k, s) == replies' = [replies EXCEPT ![k] = @ \cup {s.jobs[k].id}]

(* An operation that reads, or finds nothing to do.                        *)
Leave(h) ==
  /\ handle[h].pc = "in"
  /\ Set(h, [handle[h] EXCEPT !.pc = "out"])
  /\ UNCHANGED <<files, path, durable, receipts, attempts, acked, replies, faults>>

(* A retry of a creation finds its job.                                    *)
CreateOrGetExisting(h, k) ==
  /\ handle[h].pc = "in" /\ handle[h].state.jobs[k].status # "absent"
  /\ Set(h, [handle[h] EXCEPT !.pc = "out"])
  /\ Told(k, handle[h].state)
  /\ UNCHANGED <<files, path, durable, receipts, attempts, acked, faults>>

Fail(h) == [handle[h] EXCEPT !.pc = "out", !.unavailable = "fault",
                             !.body = <<>>, !.next = Empty]

(* commitJournalAppendLocked: fsync what is there, then write.  A write    *)
(* that fails leaves a prefix of the lines, perhaps a torn one.            *)
WriteAppend(h, op, k) ==
  LET r == handle[h]
      body == Body(r.state, op, k)
  IN  /\ r.pc = "in" /\ body # <<>> /\ DrawsId(op, k)
      /\ \/ /\ files' = [files EXCEPT ![r.file].synced = Len(files[r.file].lines),
                                      ![r.file].lines = @ \o body]
            /\ Set(h, [r EXCEPT !.pc = "written", !.body = body,
                                !.next = Replay(r.state, body)])
            /\ UNCHANGED faults
         \/ /\ Fault("write")
            /\ \E n \in 0 .. Len(body) - 1, torn \in BOOLEAN :
                 files' = [files EXCEPT ![r.file].synced = Len(files[r.file].lines),
                                        ![r.file].lines = @ \o SubSeq(body, 1, n),
                                        ![r.file].torn = torn]
            /\ Set(h, Fail(h))
         \/ Fault("sync") /\ Set(h, Fail(h)) /\ UNCHANGED files
      /\ UNCHANGED <<path, durable, receipts, acked, replies>>

Ack(h) ==
  /\ acked' = acked \cup {handle[h].body[i] : i \in
                {i \in DOMAIN handle[h].body : handle[h].body[i].kind = "job"}}
  /\ replies' = [k \in Keys |->
       IF \E i \in DOMAIN handle[h].body :
            handle[h].body[i].kind = "job" /\ handle[h].body[i].key = k
       THEN replies[k] \cup {handle[h].next.jobs[k].id} ELSE replies[k]]

(* Mutant: the directory is not synced, so a rename before it may be lost. *)
SyncAppendFileOnly(h) ==
  LET r == handle[h]
  IN  /\ r.pc = "written"
      /\ files' = [files EXCEPT ![r.file].synced = Len(files[r.file].lines)]
      /\ Set(h, [r EXCEPT !.pc = "out", !.state = r.next,
                          !.size = Len(files[r.file].lines), !.body = <<>>, !.next = Empty])
      /\ Ack(h)
      /\ UNCHANGED <<path, durable, receipts, attempts, faults>>

(* The appended lines and the directory are fsynced: the operation is      *)
(* committed and a receipt is published.                                   *)
SyncAppend(h) ==
  LET r == handle[h]
      size == Len(files[r.file].lines)
  IN  /\ r.pc = "written"
      /\ \/ /\ files' = [files EXCEPT ![r.file].synced = size]
            /\ durable' = path
            /\ Set(h, [r EXCEPT !.pc = "out", !.state = r.next, !.size = size,
                                !.body = <<>>, !.next = Empty])
            /\ receipts' = receipts \cup
                 {[process |-> r.process, file |-> r.file, epoch |-> r.epoch,
                   before |-> r.size, after |-> size]}
            /\ Ack(h) /\ UNCHANGED faults
         \/ /\ Fault("sync")
            /\ Set(h, Fail(h))
            /\ UNCHANGED <<files, durable, receipts, acked, replies>>
      /\ UNCHANGED <<path, attempts>>

-----------------------------------------------------------------------------
(* compactJournalStateLocked: the state an operation leads to, or the      *)
(* current one, is written to a new file that replaces jobs.jsonl.         *)

(* writeCompactedJournal: the temporary file is written and fsynced.       *)
WriteCompacted(h, body) ==
  LET r == handle[h]
      next == [Replay(r.state, body) EXCEPT !.gen = @ + 1]
  IN  /\ r.pc = "in" /\ r.state.gen < MaxGeneration
      /\ files' = [files EXCEPT ![next.gen] = NewFile(<<SnapshotLine(next)>>)]
      /\ Set(h, [r EXCEPT !.pc = "temp", !.next = next, !.body = body])
      /\ UNCHANGED <<path, durable, receipts, acked, replies, faults>>

PersistCompacting(h, op, k) ==
  /\ Body(handle[h].state, op, k) # <<>> /\ DrawsId(op, k)
  /\ WriteCompacted(h, Body(handle[h].state, op, k))

Compact(h) == WriteCompacted(h, <<>>) /\ UNCHANGED attempts

(* A failure up to the rename removes the temporary file; the operation    *)
(* fails and the handle stays usable.                                      *)
AbortCompaction(h) ==
  /\ handle[h].pc = "temp" /\ Fault("rename")
  /\ Set(h, [handle[h] EXCEPT !.pc = "out", !.body = <<>>, !.next = Empty])
  /\ files' = [files EXCEPT ![handle[h].next.gen] = NewFile(<<>>)]
  /\ UNCHANGED <<path, durable, receipts, attempts, acked, replies>>

Rename(h) ==
  /\ handle[h].pc = "temp"
  /\ path' = handle[h].next.gen
  /\ Set(h, [handle[h] EXCEPT !.pc = "renamed"])
  /\ UNCHANGED <<files, durable, receipts, attempts, acked, replies, faults>>

(* The directory is fsynced, the handle adopts its new file and the old    *)
(* one is truncated.  When the fsync fails the handle becomes unavailable  *)
(* and either file may be the one found after a power loss.                *)
SyncDirectory(h) ==
  LET r == handle[h]
  IN  /\ r.pc = "renamed"
      /\ \/ /\ durable' = path
            /\ files' = [files EXCEPT ![r.file] = NewFile(<<>>)]
            /\ Set(h, [r EXCEPT !.pc = "out", !.file = path, !.state = r.next,
                                !.size = 1, !.epoch = 0, !.next = Empty, !.body = <<>>])
            /\ Ack(h) /\ UNCHANGED faults
         \/ /\ Fault("rename")
            /\ Set(h, [Fail(h) EXCEPT !.file = path, !.state = r.next,
                                      !.size = 1, !.epoch = 0])
            /\ UNCHANGED <<files, durable, acked, replies>>
      /\ ReceiptsKept
      /\ UNCHANGED <<path, attempts>>

-----------------------------------------------------------------------------
(* Crashes.                                                                *)

(* A process dies: its locks and receipts go, the page cache stays.        *)
ProcessCrash(p) ==
  /\ Fault("crash")
  /\ \E h \in Handles : handle[h].process = p
  /\ handle' = [h \in Handles |-> IF handle[h].process = p THEN Closed ELSE handle[h]]
  /\ receipts' = {rc \in receipts : rc.process # p}
  /\ UNCHANGED <<files, path, durable, attempts, acked, replies>>

(* A line that was not fsynced may survive, be torn or be lost; the name   *)
(* may have moved or not.                                                  *)
PowerLoss ==
  /\ Fault("power")
  /\ \E p \in {durable, path} :
       \E n \in files[p].synced .. Len(files[p].lines), torn \in BOOLEAN :
         /\ torn => files[p].torn \/ n < Len(files[p].lines)
         /\ path' = p /\ durable' = p
         /\ files' = [f \in Generations |->
              IF f = p THEN [NewFile(SubSeq(files[p].lines, 1, n)) EXCEPT !.torn = torn]
              ELSE NewFile(<<>>)]
  /\ handle' = [h \in Handles |-> Closed]
  /\ receipts' = {} /\ replies' = [k \in Keys |-> {}]
  /\ UNCHANGED <<attempts, acked>>

-----------------------------------------------------------------------------
JournalNext ==
  \/ \E h \in Handles : \/ \E p \in Processes : OpenContext(h, p)
                        \/ Close(h) \/ WithState(h) \/ Leave(h)
                        \/ SyncAppend(h) \/ Compact(h) \/ AbortCompaction(h)
                        \/ Rename(h) \/ SyncDirectory(h)
  \/ \E h \in Handles, k \in Keys :
       \/ CreateOrGetExisting(h, k)
       \/ \E op \in Operations \cup {"create"} :
            WriteAppend(h, op, k) \/ PersistCompacting(h, op, k)
  \/ \E p \in Processes : ProcessCrash(p)
  \/ PowerLoss

JournalSpec == JournalInit /\ [][JournalNext]_journalVars

-----------------------------------------------------------------------------
JobType == [status : {"absent", "queued", "running", "succeeded", "failed", "canceled"},
            started : BOOLEAN, rev : Nat, id : 0..MaxAttempts]
StateType(s) == /\ s.gen \in Generations /\ s.jobs \in [Keys -> JobType]
                /\ s.events \in [Keys -> Nat]

(* Type invariant: every file replays to a job table, and every handle's   *)
(* descriptor names a file.                                                *)
JournalTypeOK ==
  /\ path \in Generations /\ durable \in {path} \cup 0 .. path
  /\ \A f \in Generations : /\ StateType(Recovered(f))
                            /\ files[f].synced \in 0 .. Len(files[f].lines)
  /\ \A h \in Handles :
       /\ handle[h].pc \in {"out", "in", "written", "temp", "renamed"}
       /\ handle[h].unavailable \in {"no", "refused", "fault"}
       /\ handle[h].file \in Generations /\ StateType(handle[h].state)
  /\ \A h, g \in Handles : Inside(h) /\ Inside(g) => h = g

(* An operation decides on the state of the canonical file: whatever peers *)
(* appended, truncated or compacted since, the cached state inside         *)
(* withState is the replay of jobs.jsonl, receipts or not.                 *)
InsideIsCurrent ==
  \A h \in Handles : handle[h].pc = "in" =>
    /\ handle[h].file = path /\ handle[h].state = Recovered(path)
    /\ handle[h].size = Len(files[path].lines)

(* A job write that was reported as committed is in what a power loss at   *)
(* this moment leaves: the same job, at that revision or a later one, in   *)
(* the fsynced lines of the file the name durably leads to.                *)
AcknowledgedIsDurable ==
  LET kept == Replay(Empty, SubSeq(files[durable].lines, 1, files[durable].synced))
  IN  \A a \in acked : /\ kept.jobs[a.key].id = a.job.id
                       /\ kept.jobs[a.key].rev >= a.job.rev

(* Between two power failures, retries of a creation are answered with one *)
(* job ID, across handles, failed writes, compactions and crashes.         *)
OneJobPerKey == \A k \in Keys : Cardinality(replies[k]) <= 1

(* Which progress of a peer a Store refuses to adopt.  compaction.go:582   *)
(* promises the transitive closure of the supported updates; the one       *)
(* update the code leaves out is the rejection of a queued job, failed and *)
(* never started.  A handle that cached the job as queued and finds it     *)
(* rejected in a newer generation turns itself unavailable; no other       *)
(* sequence of peer writes, compactions, faults and crashes does that.     *)
RefusesOnlyRejected ==
  \A h \in Handles : handle[h].unavailable = "refused" =>
    \E k \in Keys :
      LET old == handle[h].state.jobs[k]
          new == Recovered(path).jobs[k]
      IN  /\ old.status = "queued" /\ new.id = old.id
          /\ new.status = "failed" /\ ~new.started
=============================================================================
