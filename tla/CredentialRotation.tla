------------------------- MODULE CredentialRotation -------------------------
(***************************************************************************)
(* Rotating credentials: a candidate deployment with the new values is     *)
(* made, the affected modules are switched to it, the Secret Store is      *)
(* committed and the candidate is promoted, each step noted in a journal   *)
(* first.  Recovery, which runs when the lock is next taken, restores the  *)
(* previous deployment before the commit and finishes promotion after it.  *)
(*                                                                         *)
(* Cred is the plan's activation order, the closure of the selected        *)
(* credentials; rotation of all credentials is Cred = Modules.  run.rec    *)
(* says that recovery is at work, run.err that stopping the candidate      *)
(* failed, run.then who is closing the journal.                            *)
(***************************************************************************)
EXTENDS Workspace

Cand == disk.jrn.cand
Prev == disk.jrn.prev

\* Recovery that ends well lets the operation that took the lock go on.
Closed == IF run.rec THEN [run EXCEPT !.pc = "op", !.rec = FALSE, !.err = FALSE, !.then = "none"] ELSE Idle

\* Every step below writes one file or moves one set of containers.
WriteStep(l, new, ok, bad) ==
  run.pc = l /\ Save(new, ok, bad) /\ UNCHANGED <<ctr, ops, hist>>
StateStep(l, new, ok, bad) ==
  run.pc = l /\ SaveIndexed(new, ok, bad) /\ UNCHANGED <<ctr, ops, hist>>
StartStep(l, d, ok, bad) ==
  run.pc = l /\ Start(d, Cred, FALSE, ok, bad) /\ UNCHANGED <<disk, ops>>
StopStep(l, ok, bad) ==
  run.pc = l /\ Stop(Cred, ok, bad, bad) /\ UNCHANGED <<disk, ops>>
Jump(to) == run' = to /\ NoFault /\ UNCHANGED <<disk, ctr, ops, hist>>

----------------------------------------------------------------------------
(* executeCredentialRotation *)

Rotatable == disk.active.run = "running" /\ StoreMatches(disk.active.dep)

rotationRefused ==
  run.pc = "op" /\ run.op = "rotate" /\ ~Rotatable /\ Jump(Idle)

beginCredentialRotationTransaction ==
  /\ run.op = "rotate" /\ Rotatable /\ DepLeft
  /\ WriteStep("op", [disk EXCEPT !.jrn = [phase |-> "planned", prev |-> disk.active.dep,
                                          cand |-> NextDep, committed |-> FALSE]],
               At("cr_note"), Idle)

\* Whether the active deployment names the rotation.
Claim(b) == [disk EXCEPT !.active.txn = b]

\* The affected modules are added to the journal.
noteAffected == WriteStep("cr_note", disk, At("cr_claim"), At("cr_abandon"))
claimActive == WriteStep("cr_claim", Claim(TRUE), At("cr_make"), At("cr_abandon"))

\* materializeCredentialCandidate: the artifact, its state, the journal.
Candidate ==
  [gen |-> disk.art[Prev].gen + 1,
   ren |-> [m \in Modules |-> IF m \in Cred THEN Cand ELSE disk.art[Prev].ren[m]]]
materializeArtifact ==
  WriteStep("cr_make", [disk EXCEPT !.art[Cand] = Candidate], At("cr_state"), At("cr_abandon"))
materializeState ==
  StateStep("cr_state", SetStatus(Cand, "candidate"), At("cr_created"), At("cr_abandon"))
materializeDone ==
  WriteStep("cr_created", Journal("candidate_created"), At("cr_intent"), At("cr_abandon"))

noteStop == WriteStep("cr_intent", Journal("previous_stopped"), At("cr_stop"), At("cr_abandon"))
stopPrevious == StopStep("cr_stop", At("cr_activating"), At("cr_comp"))
noteActivating ==
  WriteStep("cr_activating", Journal("candidate_activating"), At("cr_start"), At("cr_comp"))
activateCredentialCandidate == StartStep("cr_start", Cand, At("cr_verified"), At("cr_comp"))
noteVerified ==
  WriteStep("cr_verified", Journal("candidate_verified"), At("cr_commit"), At("cr_comp"))
\* Mutant: the new values are stored under the old generation.
commitCredentialStoreRotationInPlace ==
  WriteStep("cr_commit", [disk EXCEPT !.store.by = Cand], At("cr_committed"), At("cr_comp"))
commitCredentialStoreRotation ==
  WriteStep("cr_commit", [disk EXCEPT !.store = [gen |-> disk.art[Cand].gen, by |-> Cand]],
            At("cr_committed"), At("cr_comp"))
noteCommitted ==
  WriteStep("cr_committed", [disk EXCEPT !.jrn.phase = "store_committed", !.jrn.committed = TRUE],
            At("cr_promote"), Idle)

\* promoteCredentialCandidate
PromoteFailed == IF run.rec THEN Idle ELSE At("cr_pfail")
promotePrevious ==
  IF disk.active.dep = Cand
  THEN run.pc = "cr_promote" /\ Jump(At("cr_active"))
  ELSE StateStep("cr_promote", SetStatus(Prev, "previous"), At("cr_active"), PromoteFailed)
promoteActive ==
  WriteStep("cr_active", SetActive(Cand, "running"), At("cr_pstate"), PromoteFailed)
promoteState ==
  StateStep("cr_pstate", SetStatus(Cand, "active"),
            IF run.rec THEN At("cr_release") ELSE At("cr_promoted"), PromoteFailed)
notePromotionPending ==
  WriteStep("cr_pfail", Journal("recovery_required"), Idle, Idle)
notePromoted ==
  WriteStep("cr_promoted", Journal("candidate_promoted"), At("cr_release"), Idle)

\* completeCredentialRotation: compensation turns its failure into a journal
\* that requires recovery, and so it does when the candidate was not stopped.
CloseFailed == IF run.then = "compensate" THEN At("cr_required") ELSE Idle
releaseActive == WriteStep("cr_release", Claim(FALSE), At("cr_close"), CloseFailed)
closeJournal ==
  WriteStep("cr_close", Journal("complete"), IF run.err THEN CloseFailed ELSE Closed, CloseFailed)

\* abandonCredentialRotation
abandonCredentialRotation ==
  IF Cand \in Made
  THEN StateStep("cr_abandon", SetStatus(Cand, "failed"), At("cr_release"), At("cr_release"))
  ELSE run.pc = "cr_abandon" /\ Jump(At("cr_release"))

----------------------------------------------------------------------------
(* compensateCredentialRotation *)

noteRestoring ==
  LET next == [run EXCEPT !.pc = IF Cand \in Made THEN "cr_cstop" ELSE "cr_cstart",
                          !.then = "compensate"]
  IN WriteStep("cr_comp", Journal("restoring_previous"), next, next)
stopCandidate ==
  StopStep("cr_cstop", At("cr_cstart"), [run EXCEPT !.pc = "cr_cstart", !.err = TRUE])
restorePrevious == StartStep("cr_cstart", Prev, At("cr_restored"), At("cr_required"))
\* Mutant: a phase the journal does not know.
noteRestoredUnknown ==
  WriteStep("cr_restored", Journal("restored"), At("cr_cfail"), At("cr_required"))
noteRestored ==
  WriteStep("cr_restored", Journal("previous_restored"), At("cr_cfail"), At("cr_required"))
markCredentialCandidateFailed ==
  StateStep("cr_cfail", SetStatus(Cand, "failed"), At("cr_release"), At("cr_release"))
noteRequired == WriteStep("cr_required", Journal("recovery_required"), Idle, Idle)

----------------------------------------------------------------------------
(* recoverCredentialRotation *)

\* credentialStoreReflectsTransaction
StoreReflects ==
  /\ Cand \in Made
  /\ disk.store = [gen |-> disk.art[Cand].gen, by |-> Cand]
Abandoned ==
  disk.jrn.phase \in {"planned", "candidate_created"} /\ disk.active.dep = Prev

Recovering(l) == [run EXCEPT !.pc = l, !.rec = TRUE]
\* Mutant: recovery believes the journal and not the Store.
NextRecoveryStepByJournal ==
  IF ~Unfinished THEN At("op")
  ELSE IF Abandoned THEN Recovering("cr_abandon")
  ELSE IF disk.jrn.committed THEN Recovering("cr_rstart") ELSE Recovering("cr_comp")
NextRecoveryStep ==
  IF ~Unfinished THEN At("op")
  ELSE IF Abandoned THEN Recovering("cr_abandon")
  ELSE IF disk.jrn.committed /\ ~StoreReflects THEN Idle
  ELSE IF StoreReflects THEN Recovering("cr_rstart") ELSE Recovering("cr_comp")

\* Mutant: recovery only finishes rotations that were committed.
recoverCredentialRotationCommittedOnly ==
  run.pc = "cred" /\ Jump(IF Unfinished /\ ~StoreReflects THEN Idle ELSE NextRecoveryStep)
recoverCredentialRotation == run.pc = "cred" /\ Jump(NextRecoveryStep)
restartCandidate == StartStep("cr_rstart", Cand, At("cr_committed"), Idle)

CredentialNext ==
  \/ rotationRefused \/ beginCredentialRotationTransaction \/ noteAffected \/ claimActive
  \/ materializeArtifact \/ materializeState \/ materializeDone \/ noteStop
  \/ stopPrevious \/ noteActivating \/ activateCredentialCandidate \/ noteVerified
  \/ commitCredentialStoreRotation \/ noteCommitted \/ promotePrevious \/ promoteActive
  \/ promoteState \/ notePromotionPending \/ notePromoted \/ releaseActive \/ closeJournal
  \/ abandonCredentialRotation \/ noteRestoring \/ stopCandidate \/ restorePrevious
  \/ noteRestored \/ markCredentialCandidateFailed \/ noteRequired
  \/ recoverCredentialRotation \/ restartCandidate
=============================================================================
