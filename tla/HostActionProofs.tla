-------------------------- MODULE HostActionProofs --------------------------
(***************************************************************************)
(* Proofs about HostAction, for any number of jobs, deliveries, failures   *)
(* and restarts, in layers that each rest on the ones before:              *)
(*   TypeInv    types, and the count of failed queries                     *)
(*   LedgerInv  one process per invocation past the lock file              *)
(*   TruthInv   what is sent, recorded and committed agrees                *)
(*   SerialInv  a hostd that may change the host has a running job or the  *)
(*              barrier                                                    *)
(*   QuietInv   a job that was not started is harmless                     *)
(* The last two are about requests that are delivered once.                *)
(***************************************************************************)
EXTENDS HostAction, TLAPS

-----------------------------------------------------------------------------
(* The ledger.  Whatever is delivered, the exclusive creation of the lock  *)
(* file lets one process per invocation past it.                           *)

Stage(d) == hostd[d].pc

Ahead      == {"created", "locked", "begun", "announced", "claiming", "applying"}
Unrecorded == Ahead \cup {"changing", "returned", "finishing"}
Inside     == Unrecorded \cup {"releasing", "sending", "sent"}

InsideInv(d) ==
  /\ Stage(d) \in Inside => lockFile[d[1]] # "absent"
  /\ Stage(d) \in Ahead => effects[d[1]] = 0
  /\ Stage(d) \in Unrecorded => record[d[1]] \notin Recorded

OneInside(d, e) ==
  d[1] = e[1] /\ Stage(d) \in Inside /\ Stage(e) \in Inside => d = e

EntryInv(i) ==
  /\ lockFile[i] = "absent" => effects[i] = 0 /\ record[i] = "none"
  /\ effects[i] <= 1

(* As long as retention has left the entry of an invocation alone.         *)
LedgerInv ==
  /\ \A d \in Deliveries : d[1] \notin pruned => InsideInv(d)
  /\ \A d, e \in Deliveries : d[1] \notin pruned => OneInside(d, e)
  /\ \A i \in JobIds : i \notin pruned => EntryInv(i)

(* Without retention: what a process says and records is what it did.      *)
TermInv(d) ==
  /\ Stage(d) = "returned" => hostd[d].term \in {"succeeded", "action_failed"}
  /\ Stage(d) = "finishing" => hostd[d].term \in Recorded
  /\ Stage(d) \in {"returned", "finishing"} /\ hostd[d].term = "succeeded" => d[1] \in done
  /\ Stage(d) \in {"sending", "sent"} \/ (Stage(d) = "releasing" /\ hostd[d].clean) =>
       hostd[d].term \in Recorded /\ record[d[1]] = hostd[d].term

TruthInv ==
  /\ pruned = {}
  /\ \A d \in Deliveries : TermInv(d)
  /\ \A i \in JobIds : record[i] = "succeeded" => i \in done
  /\ At("completing") /\ owner.outcome \in Recorded \ {"not_started"} =>
       record[Inv] = owner.outcome
  /\ \A i \in JobIds : job[i].code \in Recorded \ {"not_started"} => record[i] = job[i].code

-----------------------------------------------------------------------------
(* Serialization, for requests that are delivered once.                    *)

Early  == {"accepted", "received", "created", "locked", "begun"}
Acting == {"announced", "claiming", "applying", "changing"}
Past   == {"releasing", "sending", "sent", "gone"}
H(i)   == Stage(<<i, 1>>)

(* A hostd that has changed the host, or that nothing keeps from it.       *)
Advancing(i) == H(i) \in Acting \/ (H(i) \in Early /\ <<i, 1>> \in open)
Menace(i)    == i \in Mutating /\ (Unaccounted(i) \/ Advancing(i))
Harmless(i)  == effects[i] = 0 /\ (i \in Mutating => ~Advancing(i))

BarrierCode(i) == job[i].code \in {"containment", "daemon_restarted"}

ChannelInv(i) ==
  /\ H(i) = "none" => <<i, 1>> \notin open
  /\ H(i) \in {"none", "accepted", "received"} => effects[i] = 0
  /\ record[i] \in Recorded => H(i) \in Past
  /\ i \notin Mutating => effects[i] = 0
  /\ lockFile[i] = "absent" => H(i) \in {"none", "accepted", "received", "gone"}

JobInv(i) ==
  /\ job[i].status \in {"none", "queued"} => H(i) = "none"
  /\ job[i].status \in {"none", "queued", "running", "canceled"} => job[i].code = "none"
  /\ Menace(i) => job[i].status = "running" \/ BarrierCode(i)

Executing == {"started", "dialing", "streaming", "settling", "probing", "sharing",
              "rereading", "waiting", "completing", "containing", "unfinished"}

OwnerInv ==
  /\ owner.pc \in Executing => Inv \in JobIds /\ job[Inv].status = "running"
  /\ At("idle") => \A i \in JobIds : job[i].status # "running"
  /\ \A i, k \in JobIds :
       job[i].status = "running" =>
         ~BarrierCode(k) /\ (job[k].status = "running" => i = k)
  /\ owner.pc \in {"started", "dialing"} => H(Inv) = "none"
  /\ owner.pc \in {"settling", "probing", "sharing", "rereading", "waiting"} =>
       <<Inv, 1>> \notin open
  /\ At("completing") => ~Menace(Inv) /\ owner.outcome # "none"

SerialInv ==
  /\ \A i \in JobIds : ChannelInv(i) /\ JobInv(i)
  /\ OwnerInv

(* Not-started claims, when every result fits its frame.                   *)
QuietInv ==
  /\ \A i \in JobIds : 
       /\ H(i) \in {"finishing", "releasing"} /\ hostd[<<i, 1>>].term = "not_started" => effects[i] = 0
       /\ record[i] = "not_started" => effects[i] = 0
       /\ job[i].code \in Unstarted => Harmless(i)
  /\ At("completing") /\ owner.outcome \in Unstarted => Harmless(Inv)
-----------------------------------------------------------------------------
(* Types.                                                                  *)

Querying == {"idle", "started", "dialing", "streaming", "settling", "probing",
             "sharing", "rereading", "waiting"}

TypeInv ==
  /\ HostTypeOK
  /\ owner.pc \in Executing => Inv \in JobIds
  /\ owner.pc \in Querying => owner.failures < QueryFailures

JobType   == [status : JobStates, check : BOOLEAN,
              code : Outcomes \cup {"none", "rejected"}]
OwnerType == [pc : OwnerStages, inv : 0..Jobs, outcome : Outcomes \cup {"none"},
              found : BOOLEAN, failures : 0..QueryFailures]
HostdType == [pc : HostdStages, term : Recorded \cup {"none"}, clean : BOOLEAN]

(* The steps of anasd and its users that leave hostd and its ledger alone. *)
OwnerStep ==
  \/ \E i \in JobIds :
       \/ CreateAction(i) \/ CancelQueued(i) \/ SettleFailedHostActions(i)
       \/ AcknowledgeCompensation(i) \/ Advance(i) \/ Revoke(i)
  \/ AdvanceRefused
  \/ Authorize \/ FollowStream \/ QueryFails \/ ReadRecord \/ ProbeLock
  \/ Unshare \/ Reread \/ Poll \/ Deadline
  \/ CompleteAction \/ Containment \/ ContainUnfinished
  \/ Shutdown \/ Crash \/ Restart

(* The steps of a hostd process.                                           *)
ProcessStep(d) == HostdStep(d) \/ Die(d)

LEMMA Steps ==
  ASSUME Next
  PROVE  \/ OwnerStep
         \/ Dial
         \/ \E d \in Deliveries : Redeliver(d) \/ ProcessStep(d)
         \/ \E i \in JobIds : Prune(i)
BY DEF Next, RunnerStep, OwnerStep, ProcessStep

LEMMA TypeInit == Init => TypeInv
<1> SUFFICES ASSUME Init PROVE TypeInv
  OBVIOUS
<1>1. owner = [pc |-> "idle", inv |-> 0, outcome |-> "none", found |-> FALSE,
               failures |-> 0]
  BY Zenon DEF Init, Idle, Down
<1>2. job \in [JobIds -> JobType]
  BY DEF Init, NewJob, JobType, JobStates
<1>3. hostd \in [Deliveries -> HostdType]
  BY DEF Init, Unserved, HostdType, HostdStages
<1>4. owner \in OwnerType /\ owner.failures < QueryFailures
  BY <1>1, HostAssumption DEF OwnerType, OwnerStages
<1> QED
  BY <1>1, <1>2, <1>3, <1>4, HostAssumption
  DEF Init, TypeInv, HostTypeOK, JobType, OwnerType, HostdType, Executing

(* Steps of anasd: jobs, owner, approvals and connections.                 *)
LEMMA OwnerStepTypes ==
  ASSUME TypeInv, OwnerStep
  PROVE  TypeInv'
<1>t. /\ job \in [JobIds -> JobType] /\ owner \in OwnerType
      /\ hostd \in [Deliveries -> HostdType]
      /\ open \subseteq Deliveries /\ revoked \subseteq JobIds
      /\ approval \in [JobIds -> {"none", "issued", "consumed", "claimed"}]
      /\ record \in [JobIds -> {"none", "begun"} \cup Recorded]
      /\ restarts \in 0..MaxRestarts
  BY DEF TypeInv, HostTypeOK, JobType, OwnerType, HostdType
<1> DEFINE Rest == UNCHANGED <<hostd, lockFile, record, effects, done, pruned>>
           Control == /\ owner' \in OwnerType
                      /\ owner'.pc \in Executing => owner'.inv \in JobIds
                      /\ owner'.pc \in Querying => owner'.failures < QueryFailures
<1>q. ASSUME Rest, Control, job' \in [JobIds -> JobType],
             open' \subseteq Deliveries, revoked' \subseteq JobIds,
             approval' \in [JobIds -> {"none", "issued", "consumed", "claimed"}],
             restarts' \in 0..MaxRestarts
      PROVE  TypeInv'
  BY <1>q, <1>t DEF TypeInv, HostTypeOK, JobType, OwnerType, HostdType, Inv
<1>o. ASSUME UNCHANGED owner PROVE Control
  BY <1>o, <1>t DEF TypeInv, Inv
<1>idle. ASSUME owner' = Idle PROVE Control
  <2>1. owner' = [pc |-> "idle", inv |-> 0, outcome |-> "none", found |-> FALSE,
                  failures |-> 0]
    BY Zenon, <1>idle DEF Idle, Down
  <2> QED
    BY <2>1, HostAssumption DEF OwnerType, OwnerStages, Executing
<1>down. ASSUME owner' = Down PROVE Control
  BY <1>down, HostAssumption DEF Down, OwnerType, OwnerStages, Executing, Querying
<1>1. ASSUME NEW i \in JobIds, CreateAction(i) PROVE TypeInv'
  <2>1. job' \in [JobIds -> JobType]
    BY ZenonT(60), <1>1, <1>t DEF CreateAction, JobType, JobStates
  <2> QED
    BY <1>1, <1>t, <1>q, <1>o, <2>1 DEF CreateAction
<1>2. ASSUME NEW i \in JobIds, CancelQueued(i) PROVE TypeInv'
  <2>1. job' \in [JobIds -> JobType]
    BY <1>2, <1>t DEF CancelQueued, JobType, JobStates
  <2> QED
    BY <1>2, <1>t, <1>q, <1>o, <2>1 DEF CancelQueued, hostVars
<1>3. ASSUME NEW i \in JobIds,
             SettleFailedHostActions(i) \/ AcknowledgeCompensation(i)
      PROVE  TypeInv'
  <2>1. job' \in [JobIds -> JobType]
    <3>1. [job EXCEPT ![i].check = FALSE] \in [JobIds -> JobType]
      BY ZenonT(60), <1>t DEF JobType
    <3> QED
      BY Zenon, <1>3, <3>1 DEF SettleFailedHostActions, AcknowledgeCompensation
  <2> QED
    BY <1>3, <1>t, <1>q, <1>o, <2>1
    DEF SettleFailedHostActions, AcknowledgeCompensation, hostVars
<1>4. ASSUME NEW i \in JobIds, Advance(i) PROVE TypeInv'
  <2>1. job' \in [JobIds -> JobType]
    <3>1. CASE i \in revoked
      <4>1. job' = [job EXCEPT ![i] = [job[i] EXCEPT !.status = "failed", !.code = "rejected"]]
        BY Zenon, <1>4, <1>t, <3>1 DEF Advance
      <4>2. [job[i] EXCEPT !.status = "failed", !.code = "rejected"] \in JobType
        BY ZenonT(60), <1>t DEF JobType, JobStates
      <4> QED
        BY <1>t, <4>1, <4>2
    <3>2. CASE i \notin revoked
      BY SMTT(60), <1>4, <1>t, <3>2 DEF Advance, JobType, JobStates
    <3> QED
      BY <3>1, <3>2
  <2>2. Control
    <3>1. CASE owner' = [Idle EXCEPT !.pc = "started", !.inv = i]
      <4>1. owner' = [pc |-> "started", inv |-> i, outcome |-> "none",
                      found |-> FALSE, failures |-> 0]
        BY Zenon, <3>1 DEF Idle, Down
      <4> QED
        BY <4>1, HostAssumption DEF OwnerType, OwnerStages, JobIds
    <3> QED
      BY <1>4, <1>o, <3>1 DEF Advance
  <2> QED
    BY <1>4, <1>t, <1>q, <2>1, <2>2 DEF Advance, hostVars
<1>5. ASSUME NEW i \in JobIds, Revoke(i) PROVE TypeInv'
  BY <1>5, <1>t, <1>q, <1>o DEF Revoke, hostVars
<1>6. ASSUME NEW pc \in OwnerStages, GoTo(pc),
             pc \in Executing => owner.pc \in Executing,
             pc \in Querying => owner.pc \in Querying
      PROVE  Control
  BY <1>6, <1>t DEF GoTo, OwnerType, TypeInv, Inv
<1>7. ASSUME NEW outcome \in Outcomes \cup {"none"}, Complete(outcome), owner.pc \in Executing
      PROVE  Control
  BY ZenonT(60), <1>7, <1>t DEF Complete, OwnerType, OwnerStages, Querying, TypeInv, Inv
<1>8. CASE AdvanceRefused
  <2>1. Control
    BY <1>8, <1>6 DEF AdvanceRefused, OwnerStages, Executing, Querying
  <2> QED
    BY <1>8, <1>t, <1>q, <2>1 DEF AdvanceRefused, hostVars
<1>9. CASE Authorize
  <2>1. Control
    BY <1>9, <1>6, <1>7 DEF Authorize, At, OwnerStages, Executing, Querying, Outcomes, Unstarted
  <2> QED
    BY <1>9, <1>t, <1>q, <2>1 DEF Authorize, hostVars
<1>10. CASE FollowStream
  <2>1. <<Inv, 1>> \in Deliveries /\ owner.pc \in Executing
    BY <1>10, HostAssumption DEF FollowStream, At, Executing, TypeInv
  <2>2. hostd[<<Inv, 1>>].term \in Outcomes \cup {"none"}
    BY ZenonT(60), <1>t, <2>1 DEF HostdType, Outcomes
  <2>3. Control
    BY <1>10, <1>6, <1>7, <2>1, <2>2 DEF FollowStream, At, OwnerStages, Executing, Querying
  <2> QED
    BY <1>10, <1>t, <1>q, <2>3 DEF FollowStream, hostVars
<1>11. CASE QueryFails
  <2>1. owner.failures + 1 \in 0..QueryFailures /\ owner.pc \in Executing
    BY <1>11, <1>t, HostAssumption DEF QueryFails, TypeInv, Querying, Executing, OwnerType
  <2>2. CASE TooMany(owner.failures + 1)
    <3>1. owner' = [owner EXCEPT !.failures = owner.failures + 1, !.pc = "containing"]
      BY <1>11, <2>2 DEF QueryFails
    <3>2. Control
      BY Zenon, <3>1, <1>t, <2>1 DEF OwnerType, OwnerStages, Querying, TypeInv, Inv
    <3> QED
      BY <1>11, <1>t, <1>q, <3>2 DEF QueryFails, hostVars
  <2>3. CASE ~TooMany(owner.failures + 1)
    <3>1. owner' = [owner EXCEPT !.failures = owner.failures + 1, !.pc = "waiting"]
      BY <1>11, <2>3 DEF QueryFails
    <3>2. owner.failures + 1 < QueryFailures
      BY <2>1, <2>3, HostAssumption DEF TooMany
    <3>3. Control
      BY Zenon, <3>1, <3>2, <1>t, <2>1 DEF OwnerType, OwnerStages, TypeInv, Inv
    <3> QED
      BY <1>11, <1>t, <1>q, <3>3 DEF QueryFails, hostVars
  <2> QED
    BY <2>2, <2>3
<1>12. ASSUME owner.pc \in Executing, NEW terminal \in Recorded, Answer(terminal)
       PROVE  Control
  BY <1>12, <1>6, <1>7 DEF Answer, Outcomes, OwnerStages, Executing, Querying
<1>13. CASE ReadRecord
  <2>0. owner.pc \in Executing \cap Querying /\ Inv \in JobIds
    BY <1>13 DEF ReadRecord, At, Executing, Querying, TypeInv
  <2>1. CASE record[Inv] \in Recorded
    <3>1. Control
      BY <1>13, <1>12, <2>0, <2>1 DEF ReadRecord
    <3> QED
      BY <1>13, <1>t, <1>q, <3>1 DEF ReadRecord, hostVars
  <2>2. CASE record[Inv] \notin Recorded
    <3>1. owner' = [owner EXCEPT !.pc = "probing", !.found = record[Inv] = "begun"]
      BY <1>13, <2>2 DEF ReadRecord
    <3>2. Control
      BY Zenon, <1>t, <2>0, <3>1 DEF OwnerType, OwnerStages, TypeInv, Inv
    <3> QED
      BY <1>13, <1>t, <1>q, <3>2 DEF ReadRecord, hostVars
  <2> QED
    BY <2>1, <2>2
<1>14. CASE ProbeLock
  <2>0. owner.pc \in Executing \cap Querying /\ Inv \in JobIds
    BY <1>14 DEF ProbeLock, At, Executing, Querying, TypeInv
  <2>1. ASSUME owner' = [owner EXCEPT !.pc = "waiting", !.failures = 0] PROVE Control
    <3>1. 0 \in 0..QueryFailures /\ 0 < QueryFailures
      BY HostAssumption
    <3>2. owner' \in OwnerType
      BY Zenon, <1>t, <2>1, <3>1 DEF OwnerType, OwnerStages
    <3>3. owner'.inv = Inv /\ owner'.failures = 0
      BY <1>t, <2>1 DEF OwnerType, Inv
    <3> QED
      BY <2>0, <3>1, <3>2, <3>3
  <2>2. \/ owner' = [owner EXCEPT !.pc = "waiting", !.failures = 0]
        \/ Complete("not_started") \/ GoTo("sharing") \/ GoTo("rereading")
    BY <1>14 DEF ProbeLock
  <2>3. Control
    BY <1>6, <1>7, <2>0, <2>1, <2>2
    DEF OwnerStages, Executing, Querying, Outcomes, Unstarted
  <2> QED
    BY <1>14, <1>t, <1>q, <2>3 DEF ProbeLock, hostVars
<1>15. CASE Unshare \/ Poll \/ Deadline
  <2>1. Control
    BY <1>15, <1>6 DEF Unshare, Poll, Deadline, At, OwnerStages, Executing, Querying
  <2> QED
    BY <1>15, <1>t, <1>q, <2>1 DEF Unshare, Poll, Deadline, hostVars
<1>16. CASE Reread
  <2>0. owner.pc \in Executing /\ Inv \in JobIds
    BY <1>16 DEF Reread, At, Executing, TypeInv
  <2>1. Control
    BY <1>16, <1>6, <1>12, <2>0 DEF Reread, At, OwnerStages, Executing, Querying
  <2> QED
    BY <1>16, <1>t, <1>q, <2>1 DEF Reread, hostVars
<1>17. ASSUME NEW outcome \in Outcomes \cup {"none"}, owner.pc \in Executing,
              CommitAction(outcome)
       PROVE  job' \in [JobIds -> JobType]
  <2>1. StatusOf(outcome) \in JobStates
    BY DEF StatusOf, JobStates
  <2>2. ActionJobAfterEvent(Inv, outcome) \in JobType
    BY <2>1 DEF ActionJobAfterEvent, JobType
  <2> QED
    BY <1>17, <1>t, <2>2 DEF CommitAction, TypeInv
<1>18. CASE CompleteAction
  <2>1. owner.outcome \in Outcomes \cup {"none"} /\ owner.pc \in Executing
    BY <1>18, <1>t DEF CompleteAction, At, Executing, OwnerType
  <2>2. job' \in [JobIds -> JobType]
    BY <1>18, <1>t, <1>17, <2>1 DEF CompleteAction
  <2>3. Control
    BY <1>18, <1>idle, <1>6, <2>1 DEF CompleteAction, OwnerStages, Querying
  <2> QED
    BY <1>18, <1>t, <1>q, <2>2, <2>3 DEF CompleteAction, hostVars
<1>19. CASE Containment \/ ContainUnfinished
  <2>1. owner.pc \in Executing /\ "containment" \in Outcomes
    BY <1>19 DEF Containment, ContainUnfinished, At, Executing, Outcomes, Unknowns
  <2>2. job' \in [JobIds -> JobType]
    BY <1>19, <1>t, <1>17, <2>1 DEF Containment, ContainUnfinished
  <2>3. Control
    BY <1>19, <1>6, <2>1 DEF Containment, ContainUnfinished, OwnerStages, Executing, Querying
  <2> QED
    BY <1>19, <1>t, <1>q, <2>2, <2>3 DEF Containment, ContainUnfinished, hostVars
<1>20. CASE Shutdown \/ Crash
  <2>1. Control
    BY <1>20, <1>down DEF Shutdown, Crash
  <2>2. restarts' \in 0..MaxRestarts
    BY <1>20, <1>t, HostAssumption DEF Shutdown, Crash
  <2>3. open' \subseteq Deliveries
    BY <1>20, <1>t DEF Shutdown, Crash
  <2> QED
    BY <1>20, <1>t, <1>q, <2>1, <2>2, <2>3 DEF Shutdown, Crash, hostVars
<1>21. CASE Restart
  <2>1. \A i \in JobIds : ActionJobAfterEvent(i, "daemon_restarted") \in JobType
    BY DEF ActionJobAfterEvent, StatusOf, JobType, JobStates, Outcomes, Unknowns
  <2>2. job' \in [JobIds -> JobType]
    BY <1>21, <1>t, <2>1 DEF Restart
  <2>3. Control
    BY <1>21, <1>idle DEF Restart
  <2> QED
    BY <1>21, <1>t, <1>q, <2>2, <2>3 DEF Restart, hostVars
<1> QED
  BY <1>1, <1>2, <1>3, <1>4, <1>5, <1>8, <1>9, <1>10, <1>11, <1>13, <1>14, <1>15,
     <1>16, <1>18, <1>19, <1>20, <1>21 DEF OwnerStep

(* The other steps move one hostd process and its ledger entry.            *)
LEMMA ProcessTypes ==
  ASSUME TypeInv, NEW d \in Deliveries, ProcessStep(d)
  PROVE  TypeInv'
<1>i. d[1] \in JobIds
  BY HostAssumption
<1>t. /\ hostd \in [Deliveries -> HostdType]
      /\ lockFile \in [JobIds -> {"absent", "free", "held"}]
      /\ record \in [JobIds -> {"none", "begun"} \cup Recorded]
      /\ approval \in [JobIds -> {"none", "issued", "consumed", "claimed"}]
      /\ effects \in [JobIds -> Nat] /\ done \subseteq JobIds
  BY DEF TypeInv, HostTypeOK, HostdType
<1>q. ASSUME OwnerUnchanged, hostd' \in [Deliveries -> HostdType],
             lockFile' \in [JobIds -> {"absent", "free", "held"}],
             record' \in [JobIds -> {"none", "begun"} \cup Recorded],
             approval' \in [JobIds -> {"none", "issued", "consumed", "claimed"}],
             effects' \in [JobIds -> Nat], done' \subseteq JobIds, UNCHANGED pruned
      PROVE  TypeInv'
  BY <1>q DEF TypeInv, HostTypeOK, HostdType, OwnerUnchanged, Inv
<1>s. ASSUME NEW from, NEW to \in HostdStages, Step(d, from, to)
      PROVE  hostd' \in [Deliveries -> HostdType]
  BY <1>s, <1>t DEF Step, HostdType
<1>f. ASSUME NEW term \in Recorded \cup {"none"}, NEW clean \in BOOLEAN,
             Terminal(d, term, clean)
      PROVE  hostd' \in [Deliveries -> HostdType]
  BY <1>f, <1>t DEF Terminal, HostdType, HostdStages
<1>r. ASSUME NEW term \in Recorded, Returned(d, term)
      PROVE  hostd' \in [Deliveries -> HostdType]
  <2>1. hostd' = [hostd EXCEPT ![d] = [hostd[d] EXCEPT !.pc = "returned", !.term = term]]
    BY Zenon, <1>r, <1>t DEF Returned
  <2>2. [hostd[d] EXCEPT !.pc = "returned", !.term = term] \in HostdType
    BY ZenonT(60), <1>t DEF HostdType, HostdStages
  <2> QED
    BY <1>t, <2>1, <2>2
<1>1. CASE Receive(d)
  BY <1>1, <1>q, <1>s, <1>t DEF Receive, Ends, HostdStages
<1>2. CASE CreateLock(d)
  BY <1>2, <1>q, <1>s, <1>t, <1>i DEF CreateLock, Ends, HostdStages
<1>3. CASE Flock(d)
  BY <1>3, <1>q, <1>s, <1>t, <1>i DEF Flock, Ends, HostdStages
<1>4. CASE WriteRecord(d)
  BY <1>4, <1>q, <1>s, <1>t, <1>i DEF WriteRecord, Ends, HostdStages
<1>5. CASE Announce(d)
  BY Zenon, <1>5, <1>q, <1>s, <1>f, <1>t DEF Announce, HostdStages, Recorded
<1>6. CASE AuditStarted(d)
  BY Zenon, <1>6, <1>q, <1>s, <1>f, <1>t DEF AuditStarted, HostdStages, Recorded
<1>7. CASE ClaimApproval(d)
  BY <1>7, <1>q, <1>s, <1>r, <1>t, <1>i DEF ClaimApproval, HostdStages, Recorded
<1>8. CASE BeginEffect(d)
  BY <1>8, <1>q, <1>s, <1>t, <1>i DEF BeginEffect, HostdStages
<1>9. CASE HandlerReturns(d)
  BY <1>9, <1>q, <1>r, <1>t, <1>i DEF HandlerReturns, Recorded
<1>10. CASE AuditCompleted(d)
  BY Zenon, <1>10, <1>q, <1>f, <1>t DEF AuditCompleted, Recorded, HostdType
<1>11. CASE Finish(d)
  <2>1. FinishError(d) = [hostd EXCEPT ![d] = [hostd[d] EXCEPT !.pc = "releasing",
                                                              !.clean = FALSE]]
    BY Zenon, <1>t DEF FinishError
  <2>2. [hostd[d] EXCEPT !.pc = "releasing", !.clean = FALSE] \in HostdType
    BY ZenonT(60), <1>t DEF HostdType, HostdStages
  <2>3. FinishError(d) \in [Deliveries -> HostdType]
    BY <1>t, <2>1, <2>2
  <2>4. [record EXCEPT ![d[1]] = hostd[d].term] \in [JobIds -> {"none", "begun"} \cup Recorded]
    BY <1>t, <1>i DEF HostdType
  <2> QED
    BY <1>11, <1>q, <1>s, <1>t, <2>3, <2>4 DEF Finish, HostdStages
<1>12. CASE ReleaseLock(d)
  BY <1>12, <1>q, <1>s, <1>t, <1>i DEF ReleaseLock, HostdStages
<1>13. CASE Send(d)
  BY <1>13, <1>q, <1>s, <1>t DEF Send, Ends, HostdStages
<1>14. CASE Die(d)
  BY <1>14, <1>q, <1>t, <1>i DEF Die, HostdType, HostdStages
<1> QED
  BY <1>1, <1>2, <1>3, <1>4, <1>5, <1>6, <1>7, <1>8, <1>9, <1>10, <1>11, <1>12,
     <1>13, <1>14 DEF ProcessStep, HostdStep

LEMMA TypeStep == TypeInv /\ [Next]_vars => TypeInv'
<1> SUFFICES ASSUME TypeInv, [Next]_vars PROVE TypeInv'
  OBVIOUS
<1>t. /\ hostd \in [Deliveries -> HostdType] /\ owner \in OwnerType
      /\ open \subseteq Deliveries /\ pruned \subseteq JobIds
      /\ lockFile \in [JobIds -> {"absent", "free", "held"}]
      /\ record \in [JobIds -> {"none", "begun"} \cup Recorded]
  BY DEF TypeInv, HostTypeOK, HostdType, OwnerType
<1>1. CASE Dial
  <2>0. <<Inv, 1>> \in Deliveries /\ owner.pc \in Executing \cap Querying
    BY <1>1, HostAssumption DEF Dial, At, Executing, Querying, TypeInv
  <2>h. [hostd EXCEPT ![<<Inv, 1>>].pc = "accepted"] \in [Deliveries -> HostdType]
    BY <1>t, <2>0 DEF HostdType, HostdStages
  <2>1. hostd' \in [Deliveries -> HostdType] /\ open' \subseteq Deliveries
    BY <1>1, <1>t, <2>0, <2>h DEF Dial
  <2>2. owner' \in OwnerType /\ owner'.inv = Inv /\ owner'.failures = owner.failures
    BY ZenonT(60), <1>1, <1>t DEF Dial, GoTo, Complete, OwnerType, OwnerStages, Outcomes, Unstarted, Inv
  <2>3. /\ UNCHANGED <<job, revoked, lockFile, record, approval, effects, done,
                       pruned, restarts>>
        /\ Inv \in JobIds /\ owner.failures < QueryFailures
    BY <1>1, <2>0 DEF Dial, TypeInv
  <2> QED
    BY <2>1, <2>2, <2>3 DEF TypeInv, HostTypeOK, HostdType, OwnerType, Inv
<1>2. ASSUME NEW d \in Deliveries, Redeliver(d) PROVE TypeInv'
  <2>1. hostd' \in [Deliveries -> HostdType] /\ open' \subseteq Deliveries
    BY ZenonT(60), <1>2, <1>t DEF Redeliver, Step, HostdType, HostdStages
  <2> QED
    BY <1>2, <2>1 DEF Redeliver, TypeInv, HostTypeOK, HostdType, Inv
<1>3. ASSUME NEW i \in JobIds, Prune(i) PROVE TypeInv'
  <2>1. /\ lockFile' \in [JobIds -> {"absent", "free", "held"}]
        /\ record' \in [JobIds -> {"none", "begun"} \cup Recorded]
        /\ pruned' \subseteq JobIds
    BY <1>3, <1>t DEF Prune
  <2> QED
    BY <1>3, <2>1 DEF Prune, OwnerUnchanged, TypeInv, HostTypeOK, Inv
<1>4. CASE UNCHANGED vars
  BY <1>4 DEF TypeInv, HostTypeOK, vars, hostVars, Inv
<1> QED
  BY <1>1, <1>2, <1>3, <1>4, Steps, OwnerStepTypes, ProcessTypes

(* Every variable of the owner, the hostd processes and the ledger keeps   *)
(* its type; in particular the count of failed queries never passes its    *)
(* limit.                                                                  *)
THEOREM HostTypeCorrect == HostSpec => []HostTypeOK
<1>1. TypeInv => HostTypeOK
  BY ZenonT(60) DEF TypeInv
<1> QED
  BY <1>1, TypeInit, TypeStep, PTL DEF HostSpec
-----------------------------------------------------------------------------
(* What a step of a hostd process does, without the functions.             *)

Others(d) ==
  /\ \A e \in Deliveries : e # d => hostd'[e] = hostd[e]
  /\ \A k \in JobIds : k # d[1] =>
       /\ lockFile'[k] = lockFile[k] /\ record'[k] = record[k]
       /\ effects'[k] = effects[k]
  /\ done \subseteq done'
  /\ UNCHANGED <<job, owner, revoked, open, restarts, pruned>>

From(d, from, to) == hostd[d].pc \in from /\ hostd'[d].pc = to
SameLock(d)    == lockFile'[d[1]] = lockFile[d[1]]
SameRecord(d)  == record'[d[1]] = record[d[1]]
SameEffects(d) == effects'[d[1]] = effects[d[1]]
SameTerm(d)    == hostd'[d].term = hostd[d].term

Leaves(d) ==
  /\ hostd[d].pc \notin {"none", "sent", "gone"} /\ hostd'[d].pc = "gone"
  /\ SameLock(d) \/ lockFile'[d[1]] = "free"
  /\ SameRecord(d) \/ (hostd[d].pc = "locked" /\ record'[d[1]] = "begun")
  /\ SameLock(d) \/ hostd[d].pc \in Holding
  /\ SameEffects(d)

Enters(d) ==
  /\ \/ From(d, {"accepted"}, "received") /\ SameLock(d) /\ SameRecord(d)
     \/ From(d, {"received"}, "created") /\ SameRecord(d)
        /\ lockFile[d[1]] = "absent" /\ lockFile'[d[1]] = "free"
     \/ From(d, {"created"}, "locked") /\ lockFile'[d[1]] = "held" /\ SameRecord(d)
     \/ From(d, {"locked"}, "begun") /\ SameLock(d) /\ record'[d[1]] = "begun"
  /\ SameEffects(d)

Works(d) ==
  /\ \/ /\ \/ From(d, {"begun"}, "announced") /\ (d[1] \in Mutating => d \in open)
           \/ From(d, {"announced"}, "claiming")
           \/ From(d, {"announced", "claiming"}, "applying")
           \/ From(d, {"begun", "announced"}, "finishing")
              /\ hostd'[d].term = "not_started"
           \/ From(d, {"claiming"}, "returned") /\ hostd'[d].term = "action_failed"
           \/ From(d, {"changing"}, "returned")
              /\ \/ hostd'[d].term = "succeeded" /\ d[1] \in done'
                 \/ hostd'[d].term = "action_failed"
           \/ From(d, {"returned"}, "finishing")
              /\ \/ SameTerm(d)
                 \/ hostd'[d].term = "audit_unconfirmed"
                 \/ Fault("oversize") /\ hostd'[d].term = "not_started"
        /\ SameEffects(d)
     \/ /\ From(d, {"applying"}, "changing")
        /\ IF d[1] \in Mutating THEN effects'[d[1]] = effects[d[1]] + 1
                                ELSE SameEffects(d)
  /\ SameLock(d) /\ SameRecord(d)

Reports(d) ==
  /\ SameTerm(d) /\ SameEffects(d)
  /\ \/ From(d, {"finishing"}, "releasing") /\ SameLock(d)
        /\ \/ record'[d[1]] = hostd[d].term
           \/ ~hostd'[d].clean /\ SameRecord(d)
     \/ From(d, {"releasing"}, "sending") /\ hostd[d].clean
        /\ lockFile'[d[1]] = "free" /\ SameRecord(d)
     \/ From(d, {"sending"}, "sent") /\ SameLock(d) /\ SameRecord(d)

LEMMA ProcessMoves ==
  ASSUME TypeInv, NEW d \in Deliveries, ProcessStep(d)
  PROVE  Others(d) /\ (Leaves(d) \/ Enters(d) \/ Works(d) \/ Reports(d))
<1>i. d[1] \in JobIds
  BY HostAssumption
<1>t. /\ hostd \in [Deliveries -> HostdType]
      /\ lockFile \in [JobIds -> {"absent", "free", "held"}]
      /\ record \in [JobIds -> {"none", "begun"} \cup Recorded]
      /\ effects \in [JobIds -> Nat]
  BY DEF TypeInv, HostTypeOK, HostdType
<1>s. ASSUME NEW from, NEW to, Step(d, from, to)
      PROVE  /\ \A e \in Deliveries : e # d => hostd'[e] = hostd[e]
             /\ hostd[d].pc = from /\ hostd'[d].pc = to
             /\ SameTerm(d) /\ hostd'[d].clean = hostd[d].clean
  BY <1>s, <1>t DEF Step, HostdType, SameTerm
<1>e. ASSUME NEW from, Ends(d, from)
      PROVE  /\ \A e \in Deliveries : e # d => hostd'[e] = hostd[e]
             /\ hostd[d].pc = from /\ hostd'[d].pc = "gone"
  BY <1>s, <1>e DEF Ends
<1>q. ASSUME hostd[d].pc \in {"accepted", "received", "created", "sending"},
             hostd'[d].pc = "gone", SameLock(d), SameRecord(d), SameEffects(d)
      PROVE  Leaves(d)
  BY <1>q DEF Leaves
<1>f. ASSUME NEW term, NEW clean, Terminal(d, term, clean)
      PROVE  /\ \A e \in Deliveries : e # d => hostd'[e] = hostd[e]
             /\ hostd'[d].pc = "finishing" /\ hostd'[d].term = term
  BY <1>f, <1>t DEF Terminal
<1>r. ASSUME NEW term, Returned(d, term)
      PROVE  /\ \A e \in Deliveries : e # d => hostd'[e] = hostd[e]
             /\ hostd'[d].pc = "returned" /\ hostd'[d].term = term
  <2>1. hostd' = [hostd EXCEPT ![d] = [hostd[d] EXCEPT !.pc = "returned", !.term = term]]
    BY Zenon, <1>r, <1>t DEF Returned
  <2> QED
    BY <1>t, <2>1 DEF HostdType
<1>l. ASSUME NEW v, lockFile' = [lockFile EXCEPT ![d[1]] = v]
      PROVE  lockFile'[d[1]] = v /\ \A k \in JobIds : k # d[1] => lockFile'[k] = lockFile[k]
  BY <1>l, <1>t, <1>i
<1>w. ASSUME NEW v, record' = [record EXCEPT ![d[1]] = v]
      PROVE  record'[d[1]] = v /\ \A k \in JobIds : k # d[1] => record'[k] = record[k]
  BY ZenonT(60), <1>w, <1>t, <1>i
<1> USE DEF Others, From, SameLock, SameRecord, SameEffects, OwnerUnchanged
<1>1. CASE Receive(d)
  <2>1. CASE Step(d, "accepted", "received")
    BY <1>1, <1>s, <2>1 DEF Receive, Enters
  <2>2. CASE Ends(d, "accepted")
    <3>1. hostd[d].pc = "accepted" /\ hostd'[d].pc = "gone"
      BY Zenon, <1>e, <2>2
    <3>2. Others(d) /\ SameLock(d) /\ SameRecord(d) /\ SameEffects(d)
      BY ZenonT(60), <1>1, <1>e, <2>2 DEF Receive
    <3> QED
      BY Zenon, <1>q, <3>1, <3>2
  <2> QED
    BY ZenonT(60), <1>1, <2>1, <2>2 DEF Receive
<1>2. CASE CreateLock(d)
  <2>1. CASE /\ lockFile[d[1]] = "absent" /\ Step(d, "received", "created")
             /\ lockFile' = [lockFile EXCEPT ![d[1]] = "free"]
    BY ZenonT(60), <1>2, <1>s, <1>l, <2>1 DEF CreateLock, Enters
  <2>2. CASE Ends(d, "received") /\ UNCHANGED lockFile
    <3>1. hostd[d].pc = "received" /\ hostd'[d].pc = "gone"
      BY Zenon, <1>e, <2>2
    <3>2. Others(d) /\ SameLock(d) /\ SameRecord(d) /\ SameEffects(d)
      BY ZenonT(60), <1>2, <1>e, <2>2 DEF CreateLock
    <3> QED
      BY Zenon, <1>q, <3>1, <3>2
  <2> QED
    BY <1>2, <2>1, <2>2 DEF CreateLock, Creatable
<1>3. CASE Flock(d)
  <2>1. CASE Step(d, "created", "locked") /\ lockFile' = [lockFile EXCEPT ![d[1]] = "held"]
    BY ZenonT(60), <1>3, <1>s, <1>l, <2>1 DEF Flock, Enters
  <2>2. CASE Ends(d, "created") /\ UNCHANGED lockFile
    <3>1. hostd[d].pc = "created" /\ hostd'[d].pc = "gone"
      BY Zenon, <1>e, <2>2
    <3>2. Others(d) /\ SameLock(d) /\ SameRecord(d) /\ SameEffects(d)
      BY Zenon, <1>3, <1>e, <2>2 DEF Flock
    <3> QED
      BY Zenon, <1>q, <3>1, <3>2
  <2> QED
    BY <1>3, <2>1, <2>2 DEF Flock
<1>4. CASE WriteRecord(d)
  <2>1. CASE /\ Step(d, "locked", "begun") /\ UNCHANGED lockFile
             /\ record' = [record EXCEPT ![d[1]] = "begun"]
    BY ZenonT(60), <1>4, <1>s, <1>w, <2>1 DEF WriteRecord, Enters
  <2>2. CASE /\ Ends(d, "locked") /\ lockFile' = [lockFile EXCEPT ![d[1]] = "free"]
             /\ record' \in {record, [record EXCEPT ![d[1]] = "begun"]}
    <3>1. SameRecord(d) \/ record'[d[1]] = "begun"
      BY Zenon, <1>w, <2>2
    <3>2. \A k \in JobIds : k # d[1] => record'[k] = record[k]
      BY Zenon, <1>w, <2>2
    <3>3. /\ Others(d) /\ SameEffects(d) /\ lockFile'[d[1]] = "free"
          /\ hostd[d].pc = "locked" /\ hostd'[d].pc = "gone"
      BY Zenon, <1>4, <1>e, <1>l, <2>2, <3>2 DEF WriteRecord
    <3> QED
      BY <3>1, <3>3 DEF Leaves, Holding
  <2> QED
    BY <1>4, <2>1, <2>2 DEF WriteRecord
<1>5. CASE Announce(d)
  BY Zenon, <1>5, <1>s, <1>f DEF Announce, Progress, Works
<1>6. CASE AuditStarted(d)
  BY ZenonT(60), <1>6, <1>s, <1>f DEF AuditStarted, Works
<1>7. CASE ClaimApproval(d)
  BY ZenonT(60), <1>7, <1>s, <1>r DEF ClaimApproval, Works
<1>8. CASE BeginEffect(d)
  <2>1. /\ \A k \in JobIds : k # d[1] => effects'[k] = effects[k]
        /\ IF d[1] \in Mutating THEN effects'[d[1]] = effects[d[1]] + 1 ELSE SameEffects(d)
    BY ZenonT(60), <1>8, <1>t, <1>i DEF BeginEffect
  <2> QED
    BY ZenonT(60), <1>8, <1>s, <2>1 DEF BeginEffect, Works
<1>9. CASE HandlerReturns(d)
  BY ZenonT(60), <1>9, <1>r DEF HandlerReturns, Works
<1>10. CASE AuditCompleted(d)
  BY ZenonT(60), <1>10, <1>f DEF AuditCompleted, Works, SameTerm
<1>11. CASE Finish(d)
  <2>1. CASE Step(d, "finishing", "releasing")
             /\ record' = [record EXCEPT ![d[1]] = hostd[d].term]
    BY ZenonT(60), <1>11, <1>s, <1>w, <2>1 DEF Finish, Reports
  <2>2. CASE /\ hostd' = FinishError(d)
             /\ record' \in {record, [record EXCEPT ![d[1]] = hostd[d].term]}
    <3>1. hostd' = [hostd EXCEPT ![d] = [hostd[d] EXCEPT !.pc = "releasing", !.clean = FALSE]]
      BY Zenon, <2>2, <1>t DEF FinishError
    <3>2. /\ \A e \in Deliveries : e # d => hostd'[e] = hostd[e]
          /\ hostd'[d].pc = "releasing" /\ SameTerm(d) /\ ~hostd'[d].clean
      BY ZenonT(60), <3>1, <1>t DEF HostdType, SameTerm
    <3> QED
      BY <1>11, <1>w, <2>2, <3>2 DEF Finish, Reports
  <2> QED
    BY <1>11, <2>1, <2>2 DEF Finish
<1>12. CASE ReleaseLock(d)
  <2>1. CASE hostd[d].clean
    <3>1. Step(d, "releasing", "sending")
      BY Zenon, <1>12, <2>1 DEF ReleaseLock
    <3> QED
      BY ZenonT(60), <1>12, <1>s, <1>l, <2>1, <3>1 DEF ReleaseLock, Reports
  <2>2. CASE ~hostd[d].clean
    <3>1. Step(d, "releasing", "gone")
      BY Zenon, <1>12, <2>2 DEF ReleaseLock
    <3>2. /\ Others(d) /\ SameRecord(d) /\ SameEffects(d) /\ lockFile'[d[1]] = "free"
          /\ hostd[d].pc = "releasing" /\ hostd'[d].pc = "gone"
      BY Zenon, <1>12, <1>s, <1>l, <3>1 DEF ReleaseLock
    <3> QED
      BY <3>2 DEF Leaves, Holding
  <2> QED
    BY <2>1, <2>2
<1>13. CASE Send(d)
  <2>1. CASE Step(d, "sending", "sent")
    BY Zenon, <1>13, <1>s, <2>1 DEF Send, Reports
  <2>2. CASE Ends(d, "sending")
    <3>1. hostd[d].pc = "sending" /\ hostd'[d].pc = "gone"
      BY Zenon, <1>e, <2>2
    <3>2. Others(d) /\ SameLock(d) /\ SameRecord(d) /\ SameEffects(d)
      BY Zenon, <1>13, <1>e, <2>2 DEF Send
    <3> QED
      BY Zenon, <1>q, <3>1, <3>2
  <2> QED
    BY Zenon, <1>13, <2>1, <2>2 DEF Send
<1>14. CASE Die(d)
  <2>1. /\ \A e \in Deliveries : e # d => hostd'[e] = hostd[e]
        /\ hostd'[d].pc = "gone"
    BY <1>14, <1>t DEF Die, HostdType
  <2> QED
    BY <1>14, <1>l, <2>1 DEF Die, Leaves
<1> QED
  BY ZenonT(60), <1>1, <1>2, <1>3, <1>4, <1>5, <1>6, <1>7, <1>8, <1>9, <1>10, <1>11, <1>12,
     <1>13, <1>14 DEF ProcessStep, HostdStep
-----------------------------------------------------------------------------
(* The ledger invariant.                                                   *)

LEMMA StillSteps ==
  ASSUME OwnerStep
  PROVE  UNCHANGED <<hostd, lockFile, record, effects, done, pruned>>
BY Zenon DEF OwnerStep, CreateAction, CancelQueued, SettleFailedHostActions,
       AcknowledgeCompensation, Advance, Revoke, AdvanceRefused, Authorize,
       FollowStream, QueryFails, ReadRecord, ProbeLock, Unshare, Reread, Poll,
       Deadline, CompleteAction, Containment, ContainUnfinished, Shutdown,
       Crash, Restart, hostVars

(* A request that arrives: a process that has not yet read it.             *)
LEMMA Arrivals ==
  ASSUME TypeInv, Dial \/ \E d \in Deliveries : Redeliver(d)
  PROVE  /\ \A e \in Deliveries :
              \/ hostd'[e] = hostd[e]
              \/ hostd[e].term = hostd'[e].term /\ hostd'[e].pc = "accepted"
         /\ UNCHANGED <<lockFile, record, effects, done, pruned>>
<1>t. hostd \in [Deliveries -> HostdType]
  BY DEF TypeInv, HostTypeOK, HostdType
<1>1. ASSUME NEW d \in Deliveries, hostd' = [hostd EXCEPT ![d].pc = "accepted"]
      PROVE  \A e \in Deliveries :
               \/ hostd'[e] = hostd[e]
               \/ hostd[e].term = hostd'[e].term /\ hostd'[e].pc = "accepted"
  BY <1>1, <1>t DEF HostdType
<1>2. Dial => <<Inv, 1>> \in Deliveries
  BY HostAssumption DEF Dial, At, TypeInv, Executing
<1> QED
  BY Zenon, <1>1, <1>2 DEF Dial, Redeliver, Step

LEMMA LedgerInit == Init => LedgerInv
<1> SUFFICES ASSUME Init PROVE LedgerInv
  OBVIOUS
<1>1. \A d \in Deliveries : Stage(d) = "none"
  BY ZenonT(60) DEF Init, Unserved, Stage
<1> QED
  BY <1>1 DEF Init, LedgerInv, InsideInv, OneInside, EntryInv, Ahead, Unrecorded, Inside

LEMMA ProcessLedger ==
  ASSUME TypeInv, LedgerInv, NEW d \in Deliveries, ProcessStep(d)
  PROVE  LedgerInv'
<1>i. d[1] \in JobIds /\ \A e \in Deliveries : e[1] \in JobIds
  BY HostAssumption
<1>m. Others(d) /\ (Leaves(d) \/ Enters(d) \/ Works(d) \/ Reports(d))
  BY ProcessMoves
<1>t. effects[d[1]] \in Nat
  BY ZenonT(60), <1>i DEF TypeInv, HostTypeOK
<1>p. pruned' = pruned
  BY <1>m DEF Others
<1>o. ASSUME NEW e \in Deliveries, e # d PROVE Stage(e)' = Stage(e)
  BY <1>m, <1>o DEF Others, Stage
<1>d. ASSUME d[1] \notin pruned
      PROVE  InsideInv(d) /\ EntryInv(d[1]) /\ \A e \in Deliveries : OneInside(d, e) /\ OneInside(e, d)
  BY <1>d, <1>i DEF LedgerInv, OneInside
<1> USE DEF From, SameLock, SameRecord, SameEffects, Stage, Ahead, Unrecorded, Inside
<1>1. ASSUME d[1] \notin pruned PROVE InsideInv(d)' /\ EntryInv(d[1])'
  <2>1. CASE Leaves(d)
    BY ZenonT(60), <1>1, <1>d, <2>1 DEF Leaves, InsideInv, EntryInv, Holding
  <2>2. CASE Enters(d)
    BY ZenonT(60), <1>1, <1>d, <2>2 DEF Enters, InsideInv, EntryInv, Recorded
  <2>3. CASE Works(d)
    BY SMTT(60), <1>1, <1>d, <1>t, <2>3 DEF Works, InsideInv, EntryInv
  <2>4. CASE Reports(d)
    BY ZenonT(60), <1>1, <1>d, <2>4 DEF Reports, InsideInv, EntryInv
  <2> QED
    BY ZenonT(60), <1>m, <2>1, <2>2, <2>3, <2>4
(* A process that gets past the lock file finds no other one there, and    *)
(* what the one inside does to the entry disturbs no other process.        *)
<1>2. ASSUME NEW e \in Deliveries, e # d, e[1] = d[1], d[1] \notin pruned
      PROVE  InsideInv(e)' /\ ~(Stage(d)' \in Inside /\ Stage(e)' \in Inside)
  <2>0. /\ InsideInv(e) /\ InsideInv(d) /\ Stage(e)' = Stage(e)
        /\ ~(Stage(d) \in Inside /\ Stage(e) \in Inside)
    BY ZenonT(60), <1>2, <1>o DEF LedgerInv, OneInside
  <2>1. CASE Leaves(d)
    BY <1>2, <2>0, <2>1 DEF Leaves, InsideInv, Holding
  <2>2. CASE Enters(d)
    BY ZenonT(60), ZenonT(30), <1>2, <2>0, <2>2 DEF Enters, InsideInv, Recorded
  <2>3. CASE Works(d)
    BY Zenon, <1>2, <2>0, <2>3 DEF Works, InsideInv
  <2>4. CASE Reports(d)
    BY Zenon, <1>2, <2>0, <2>4 DEF Reports, InsideInv
  <2> QED
    BY ZenonT(60), <1>m, <2>1, <2>2, <2>3, <2>4
<1>3. ASSUME NEW e \in Deliveries, e[1] # d[1], e[1] \notin pruned PROVE InsideInv(e)'
  BY ZenonT(60), <1>3, <1>m, <1>o, <1>i DEF Others, LedgerInv, InsideInv
<1>4. ASSUME NEW i \in JobIds, i # d[1], i \notin pruned PROVE EntryInv(i)'
  BY <1>4, <1>m DEF Others, LedgerInv, EntryInv
<1>5. ASSUME NEW a \in Deliveries, NEW b \in Deliveries, a[1] \notin pruned
      PROVE  OneInside(a, b)'
  <2>1. CASE a # d /\ b # d
    BY <1>5, <1>o, <2>1 DEF LedgerInv, OneInside
  <2>2. CASE a = d \/ b = d
    BY ZenonT(60), <1>5, <1>2, <2>2 DEF OneInside
  <2> QED
    BY <2>1, <2>2
<1> QED
  BY <1>1, <1>2, <1>3, <1>4, <1>5, <1>p, <1>i DEF LedgerInv

LEMMA LedgerStep == TypeInv /\ LedgerInv /\ [Next]_vars => LedgerInv'
<1> SUFFICES ASSUME TypeInv, LedgerInv, [Next]_vars PROVE LedgerInv'
  BY ZenonT(60)
<1> USE DEF LedgerInv, InsideInv, OneInside, EntryInv, Stage
<1>1. ASSUME UNCHANGED <<hostd, lockFile, record, effects, done, pruned>> PROVE LedgerInv'
  BY ZenonT(60), <1>1
<1>2. CASE Dial \/ \E d \in Deliveries : Redeliver(d)
  <2>1. \A e \in Deliveries : Stage(e)' = Stage(e) \/ Stage(e)' = "accepted"
    BY <1>2, Arrivals
  <2>2. UNCHANGED <<lockFile, record, effects, pruned>>
    BY <1>2, Arrivals
  <2>3. "accepted" \notin Ahead \cup Unrecorded \cup Inside
    BY DEF Ahead, Unrecorded, Inside
  <2> HIDE DEF Stage
  <2> QED
    BY ZenonT(60), <2>1, <2>2, <2>3
<1>3. ASSUME NEW i \in JobIds, Prune(i) PROVE LedgerInv'
  <2>1. /\ UNCHANGED <<hostd, effects>> /\ pruned' = pruned \cup {i}
        /\ \A k \in JobIds : k # i => lockFile'[k] = lockFile[k] /\ record'[k] = record[k]
    BY <1>3 DEF Prune, TypeInv, HostTypeOK
  <2>2. \A d \in Deliveries : d[1] \in JobIds
    BY ZenonT(60), HostAssumption
  <2> QED
    BY ZenonT(60), <2>1, <2>2
<1>4. CASE UNCHANGED vars
  BY <1>1, <1>4 DEF vars, hostVars
<1> QED
  BY <1>1, <1>2, <1>3, <1>4, Steps, StillSteps, ProcessLedger

LEMMA LedgerHolds == HostSpec => [](TypeInv /\ LedgerInv)
BY TypeInit, TypeStep, LedgerInit, LedgerStep, PTL DEF HostSpec

(* However often a request is delivered, and whatever fails or dies on the *)
(* way, hostd changes the host for it at most once until retention removes *)
(* its entry: Begin's exclusive creation of the lock file is the one step  *)
(* that decides.                                                           *)
THEOREM ChangedOnce == HostSpec => []EffectOnce
<1>1. TypeInv /\ LedgerInv => EffectOnce
  BY Zenon DEF LedgerInv, EntryInv, EffectOnce
<1> QED
  BY <1>1, LedgerHolds, PTL
-----------------------------------------------------------------------------
(* Outcomes, as long as retention removes no entry.                        *)

(* A recorded terminal is never overwritten.                               *)
LEMMA RecordStays ==
  ASSUME TypeInv, LedgerInv, pruned = {}, NEW d \in Deliveries, ProcessStep(d),
         NEW i \in JobIds, record[i] \in Recorded
  PROVE  record'[i] = record[i]
<1>1. Others(d) /\ (Leaves(d) \/ Enters(d) \/ Works(d) \/ Reports(d))
  BY ProcessMoves
<1>2. InsideInv(d) /\ d[1] \in JobIds
  BY ZenonT(60), HostAssumption DEF LedgerInv
<1> QED
  BY Zenon, <1>1, <1>2 DEF Others, Leaves, Enters, Works, Reports, From, SameRecord,
     InsideInv, Stage, Unrecorded, Ahead

LEMMA ProcessTruth ==
  ASSUME TypeInv, LedgerInv, TruthInv, NEW d \in Deliveries, ProcessStep(d)
  PROVE  TruthInv'
<1>i. d[1] \in JobIds /\ \A e \in Deliveries : e[1] \in JobIds
  BY HostAssumption
<1>m. Others(d) /\ (Leaves(d) \/ Enters(d) \/ Works(d) \/ Reports(d))
  BY ProcessMoves
<1>d. InsideInv(d) /\ TermInv(d) /\ pruned = {}
  BY ZenonT(60) DEF LedgerInv, TruthInv
<1>p. UNCHANGED <<job, owner, pruned>> /\ done \subseteq done'
  BY <1>m DEF Others
<1> USE DEF From, SameLock, SameRecord, SameEffects, SameTerm, Stage
<1>1. TermInv(d)'
  <2>1. CASE Leaves(d)
    BY ZenonT(60), <1>d, <2>1 DEF Leaves, TermInv
  <2>2. CASE Enters(d)
    BY <1>d, <2>2 DEF Enters, TermInv
  <2>3. CASE Works(d)
    BY Zenon, <1>d, <1>p, <2>3 DEF Works, TermInv, Recorded
  <2>4. CASE Reports(d)
    BY Zenon, <1>d, <1>p, <2>4 DEF Reports, TermInv
  <2> QED
    BY ZenonT(60), <1>m, <2>1, <2>2, <2>3, <2>4
<1>2. ASSUME NEW e \in Deliveries, e # d PROVE TermInv(e)'
  <2>1. hostd'[e] = hostd[e] /\ TermInv(e) /\ OneInside(d, e)
    BY ZenonT(60), <1>2, <1>m, <1>d DEF Others, LedgerInv, TruthInv
  <2>2. record'[e[1]] = record[e[1]] \/ (e[1] = d[1] /\ hostd[d].pc \in {"locked", "finishing"})
    BY <1>m, <1>i DEF Others, Leaves, Enters, Works, Reports
  <2>3. hostd[d].pc \in {"locked", "finishing"} /\ e[1] = d[1] => hostd[e].pc \notin Inside
    BY Zenon, <1>2, <2>1 DEF OneInside, Inside, Unrecorded, Ahead
  <2> QED
    BY Zenon, <1>p, <2>1, <2>2, <2>3 DEF TermInv, Inside, Unrecorded, Ahead
<1>3. ASSUME NEW i \in JobIds, record'[i] = "succeeded" PROVE i \in done'
  <2>1. record'[i] = record[i] \/ (i = d[1] /\ hostd[d].pc = "finishing" /\ hostd[d].term = "succeeded")
    BY ZenonT(60), <1>3, <1>m DEF Others, Leaves, Enters, Works, Reports
  <2> QED
    BY ZenonT(60), <1>3, <1>d, <1>p, <2>1 DEF TermInv, TruthInv
<1>4. ASSUME At("completing"), owner.outcome \in Recorded \ {"not_started"}
      PROVE  record'[Inv] = owner.outcome
  <2>1. record[Inv] = owner.outcome /\ Inv \in JobIds
    BY ZenonT(60), <1>4 DEF TruthInv, TypeInv, Executing, At
  <2> QED
    BY <1>4, <1>d, <2>1, RecordStays
<1>5. ASSUME NEW i \in JobIds, job[i].code \in Recorded \ {"not_started"}
      PROVE  record'[i] = job[i].code
  BY <1>5, <1>d, RecordStays DEF TruthInv
<1> QED
  BY <1>1, <1>2, <1>3, <1>4, <1>5, <1>d, <1>p DEF TruthInv, At, Inv

LEMMA OwnerTruth ==
  ASSUME TypeInv, LedgerInv, TruthInv, OwnerStep
  PROVE  TruthInv'
<1>s. UNCHANGED <<hostd, lockFile, record, effects, done, pruned>>
  BY StillSteps
<1>t. job \in [JobIds -> JobType] /\ owner \in OwnerType
  BY ZenonT(60) DEF TypeInv, HostTypeOK, JobType, OwnerType
<1> DEFINE Taken == /\ At("completing")' /\ owner'.outcome \in Recorded \ {"not_started"}
                       => record[owner'.inv] = owner'.outcome
           Codes == \A i \in JobIds : job'[i].code \in Recorded \ {"not_started"}
                                        => record[i] = job'[i].code
<1>q. ASSUME Taken, Codes PROVE TruthInv'
  BY <1>q, <1>s DEF TruthInv, TermInv, Stage, Inv
<1>o. ASSUME UNCHANGED owner PROVE Taken
  BY <1>o DEF TruthInv, At, Inv
<1>g. ASSUME NEW pc, GoTo(pc), pc # "completing" PROVE Taken
  BY <1>g, <1>t DEF GoTo, At, OwnerType
<1>c. ASSUME NEW outcome, Complete(outcome),
             outcome \in Recorded \ {"not_started"} => record[Inv] = outcome
      PROVE  Taken
  BY ZenonT(60), <1>c, <1>t DEF Complete, At, Inv, OwnerType
<1>n. ASSUME \A i \in JobIds : job'[i].code = job[i].code PROVE Codes
  BY ZenonT(60), <1>n DEF TruthInv
<1>k. ASSUME NEW i \in JobIds, NEW outcome, 
             outcome \in Recorded \ {"not_started"} => record[i] = outcome,
             job' = [job EXCEPT ![i] = ActionJobAfterEvent(i, outcome)]
      PROVE  Codes
  BY <1>k, <1>t DEF ActionJobAfterEvent, TruthInv
<1>1. ASSUME NEW i \in JobIds,
             \/ CreateAction(i) \/ CancelQueued(i) \/ Revoke(i)
             \/ SettleFailedHostActions(i) \/ AcknowledgeCompensation(i)
      PROVE  TruthInv'
  <2>1. \A k \in JobIds : job'[k].code = job[k].code
    BY <1>1, <1>t DEF CreateAction, CancelQueued, SettleFailedHostActions,
       AcknowledgeCompensation, Revoke, JobType
  <2> QED
    BY <1>1, <1>q, <1>o, <1>n, <2>1 DEF CreateAction, CancelQueued,
       SettleFailedHostActions, AcknowledgeCompensation, Revoke
<1>2. ASSUME NEW i \in JobIds, Advance(i) PROVE TruthInv'
  <2>1. \A k \in JobIds : job'[k].code \in {job[k].code, "rejected"}
    <3>1. CASE i \in revoked
      <4>1. job' = [job EXCEPT ![i] = [job[i] EXCEPT !.status = "failed", !.code = "rejected"]]
        BY Zenon, <1>2, <1>t, <3>1 DEF Advance
      <4> QED
        BY <1>t, <4>1 DEF JobType
    <3>2. CASE i \notin revoked
      BY SMTT(60), <1>2, <1>t, <3>2 DEF Advance, JobType
    <3> QED
      BY <3>1, <3>2
  <2>2. Codes
    BY <2>1 DEF TruthInv, Recorded
  <2>3. Taken
    <3>1. CASE owner' = [Idle EXCEPT !.pc = "started", !.inv = i]
      BY <3>1 DEF Idle, Down, At
    <3> QED
      BY <1>2, <1>o, <3>1 DEF Advance
  <2> QED
    BY ZenonT(60), <1>q, <2>2, <2>3
<1>3. CASE AdvanceRefused \/ Authorize \/ ProbeLock \/ Unshare \/ Poll \/ Deadline
  <2>1. Codes
    BY <1>3, <1>n DEF AdvanceRefused, Authorize, ProbeLock, Unshare, Poll, Deadline
  <2>2. ProbeLock => \/ owner' = [owner EXCEPT !.pc = "waiting", !.failures = 0]
                     \/ Complete("not_started") \/ GoTo("sharing") \/ GoTo("rereading")
    BY DEF ProbeLock
  <2>3. owner' = [owner EXCEPT !.pc = "waiting", !.failures = 0] => Taken
    BY <1>t DEF OwnerType, At
  <2>4. Taken
    BY ZenonT(60), <1>3, <1>g, <1>c, <2>2, <2>3
    DEF AdvanceRefused, Authorize, Unshare, Poll, Deadline, Recorded
  <2> QED
    BY <1>q, <2>1, <2>4
<1>4. CASE FollowStream
  <2>1. <<Inv, 1>> \in Deliveries
    BY ZenonT(60), <1>4, HostAssumption DEF FollowStream, At, Executing, TypeInv
  <2>2. hostd[<<Inv, 1>>].pc = "sent" => record[Inv] = hostd[<<Inv, 1>>].term
    BY <2>1 DEF TruthInv, TermInv, Stage
  <2> QED
    BY ZenonT(60), <1>4, <1>q, <1>n, <1>g, <1>c, <2>2 DEF FollowStream
<1>5. CASE QueryFails
  <2>1. Taken
    BY <1>5, <1>t DEF QueryFails, At, OwnerType
  <2> QED
    BY <1>5, <1>q, <1>n, <2>1 DEF QueryFails
<1>6. CASE ReadRecord
  <2>1. CASE record[Inv] \in Recorded
    BY <1>6, <1>q, <1>n, <1>g, <1>c, <2>1 DEF ReadRecord, Answer
  <2>2. CASE record[Inv] \notin Recorded
    <3>1. Taken
      BY ZenonT(60), <1>6, <1>t, <2>2 DEF ReadRecord, At, OwnerType
    <3> QED
      BY <1>6, <1>q, <1>n, <3>1 DEF ReadRecord
  <2> QED
    BY <2>1, <2>2
<1>7. CASE Reread
  BY ZenonT(60), <1>7, <1>q, <1>n, <1>g, <1>c DEF Reread, Answer
<1>8. CASE CompleteAction \/ Containment \/ ContainUnfinished
  <2>1. Inv \in JobIds
    BY <1>8 DEF CompleteAction, Containment, ContainUnfinished, At, Executing, TypeInv
  <2>2. At("completing") /\ owner.outcome \in Recorded \ {"not_started"}
          => record[Inv] = owner.outcome
    BY ZenonT(60) DEF TruthInv
  <2>3. Codes
    BY <1>8, <1>n, <1>k, <2>1, <2>2
    DEF CompleteAction, Containment, ContainUnfinished, CommitAction, Recorded
  <2>4. owner' = Idle => Taken
    BY DEF Idle, Down, At
  <2> QED
    BY <1>8, <1>q, <1>g, <2>3, <2>4 DEF CompleteAction, Containment, ContainUnfinished
<1>9. CASE Shutdown \/ Crash \/ Restart
  <2>1. Taken
    BY SMTT(60), <1>9 DEF Shutdown, Crash, Restart, Idle, Down, At
  <2>2. Codes
    BY <1>9, <1>t DEF Shutdown, Crash, Restart, ActionJobAfterEvent, TruthInv, Recorded
  <2> QED
    BY <1>q, <2>1, <2>2
<1> QED
  BY <1>1, <1>2, <1>3, <1>4, <1>5, <1>6, <1>7, <1>8, <1>9 DEF OwnerStep

LEMMA TruthInit == Init => TruthInv
<1> SUFFICES ASSUME Init PROVE TruthInv
  OBVIOUS
<1>1. owner.pc = "idle"
  BY ZenonT(60) DEF Init, Idle, Down
<1>2. \A d \in Deliveries : TermInv(d)
  BY DEF Init, Unserved, Stage, TermInv
<1> QED
  BY <1>1, <1>2 DEF Init, NewJob, TruthInv, At, Recorded

LEMMA TruthStep ==
  ASSUME "retain" \notin Faults
  PROVE  TypeInv /\ LedgerInv /\ TruthInv /\ [Next]_vars => TruthInv'
<1> SUFFICES ASSUME TypeInv, LedgerInv, TruthInv, [Next]_vars PROVE TruthInv'
  BY ZenonT(60)
<1>1. CASE Dial \/ \E d \in Deliveries : Redeliver(d)
  <2>1. UNCHANGED <<job, record, done, pruned>>
    BY ZenonT(60), <1>1 DEF Dial, Redeliver
  <2>2. \A e \in Deliveries : TermInv(e)'
    BY <1>1, <2>1, Arrivals DEF TruthInv, TermInv, Stage
  <2>3. At("completing")' /\ owner'.outcome \in Recorded \ {"not_started"}
          => record[owner'.inv] = owner'.outcome
    <3>1. CASE Dial
      BY ZenonT(60), <3>1 DEF Dial, GoTo, Complete, At, TypeInv, HostTypeOK, Recorded
    <3> QED
      BY Zenon, <1>1, <3>1 DEF Redeliver, TruthInv, At, Inv
  <2> QED
    BY <2>1, <2>2, <2>3 DEF TruthInv, Inv
<1>2. ~\E i \in JobIds : Prune(i)
  BY DEF Prune, Fault
<1>3. CASE UNCHANGED vars
  BY <1>3 DEF vars, hostVars, TruthInv, TermInv, Stage, At, Inv
<1> QED
  BY <1>1, <1>2, <1>3, Steps, OwnerTruth, ProcessTruth

(* The outcome a job took over from hostd is the one in hostd's ledger, by *)
(* whichever way it came, and a job that succeeded carried its change      *)
(* through: for any number of jobs and of deliveries of their requests, as *)
(* long as retention has removed nothing.                                  *)
THEOREM OutcomesAreRecorded ==
  ASSUME "retain" \notin Faults
  PROVE  HostSpec => []OutcomeIsRecorded
<1>1. TruthInv => OutcomeIsRecorded
  BY DEF TruthInv, OutcomeIsRecorded
<1>2. TypeInv /\ LedgerInv /\ TruthInv /\ [Next]_vars => TruthInv'
  BY TruthStep
<1> QED
  BY <1>1, <1>2, TruthInit, LedgerHolds, PTL DEF HostSpec
-----------------------------------------------------------------------------
(* Serialization.                                                          *)

LEMMA DeliveredOnce ==
  ASSUME Deliveries = JobIds \X {1}
  PROVE  /\ \A i \in JobIds : <<i, 1>> \in Deliveries /\ <<i, 1>>[1] = i
         /\ \A d \in Deliveries : d[1] \in JobIds /\ d = <<d[1], 1>>
         /\ \A d \in Deliveries : ~Redeliver(d)
BY SMTT(60) DEF Redeliver

(* No step of a hostd makes a harmless invocation a danger.                *)
LEMMA ProcessCalm ==
  ASSUME Deliveries = JobIds \X {1}, TypeInv, LedgerInv, pruned = {},
         NEW d \in Deliveries, ProcessStep(d), NEW i \in JobIds, ChannelInv(i)
  PROVE  /\ Menace(i)' => Menace(i)
         /\ Harmless(i) => Harmless(i)'
         /\ H(i)' = "none" <=> H(i) = "none"
         /\ ChannelInv(i)'
<1>i. d[1] \in JobIds /\ <<i, 1>> \in Deliveries /\ <<i, 1>>[1] = i
  BY DeliveredOnce
<1>m. Others(d) /\ (Leaves(d) \/ Enters(d) \/ Works(d) \/ Reports(d))
  BY ProcessMoves
<1>t. effects[i] \in Nat
  BY DEF TypeInv, HostTypeOK
<1>o. open' = open
  BY Zenon, <1>m DEF Others
<1> USE DEF Menace, Harmless, Unaccounted, Advancing, H, Stage, ChannelInv
<1>1. CASE i # d[1]
  <2>1. <<i, 1>> # d
    BY Zenon, <1>1, <1>i
  <2>2. /\ hostd'[<<i, 1>>] = hostd[<<i, 1>>] /\ lockFile'[i] = lockFile[i]
        /\ record'[i] = record[i] /\ effects'[i] = effects[i]
    BY Zenon, <1>1, <1>i, <1>m, <2>1 DEF Others
  <2> QED
    BY Zenon, <1>o, <2>2
<1>2. CASE i = d[1]
  <2>0. d = <<i, 1>>
    BY <1>2, DeliveredOnce
  <2>r. record[i] \in Recorded => record'[i] = record[i]
    BY ZenonT(60), RecordStays
  <2> DEFINE p == hostd[d].pc
             q == hostd'[d].pc
  <2>1. /\ p # "none" /\ q # "none"
        /\ q \in Acting => p \in Acting \/ (p = "begun" /\ (i \in Mutating => d \in open))
        /\ q \in Early => p \in Early
        /\ effects'[i] = effects[i] \/ (p = "applying" /\ i \in Mutating)
        /\ q = "received" => p = "accepted" /\ effects'[i] = effects[i]
        /\ q # "accepted"
        /\ p \in Past => q \in Past
        /\ record'[i] \in Recorded => record[i] \in Recorded \/ q \in Past
        /\ lockFile'[i] = "absent" => lockFile[i] = "absent" /\ (p = "received" => q = "gone")
        /\ p \in {"accepted", "received"} => q \in {"received", "created", "gone"}
        /\ p = "gone" => q = "gone"
        /\ q = "created" => lockFile'[i] # "absent"
    BY <1>2, <1>m
    DEF Leaves, Enters, Works, Reports, From, SameLock, SameRecord, SameEffects,
        Acting, Early, Past, HostdStages, Recorded
  <2> HIDE DEF p, q
  <2>2. H(i) = p /\ H(i)' = q
    BY Zenon, <2>0 DEF p, q
  <2> HIDE DEF H
  <2>3. ChannelInv(i)'
    BY ZenonT(60), <2>1, <2>2, <2>r DEF Past
  <2>4. Advancing(i)' /\ i \in Mutating => Advancing(i)
    BY ZenonT(60), <2>0, <2>1, <2>2, <1>o DEF Acting, Early
  <2>5. effects'[i] = effects[i] \/ (Advancing(i) /\ i \in Mutating)
    BY <2>1, <2>2 DEF Acting
  <2> HIDE DEF Advancing, ChannelInv
  <2> QED
    BY ZenonT(60), <2>1, <2>2, <2>3, <2>4, <2>5, <2>r, <1>t
<1> QED
  BY <1>1, <1>2

LEMMA ProcessSerial ==
  ASSUME Deliveries = JobIds \X {1}, TypeInv, LedgerInv, TruthInv, SerialInv,
         NEW d \in Deliveries, ProcessStep(d)
  PROVE  SerialInv'
<1>1. UNCHANGED <<job, owner, open>> /\ pruned = {}
  BY ProcessMoves DEF Others, TruthInv
<1>2. \A i \in JobIds : /\ Menace(i)' => Menace(i)
                        /\ H(i)' = "none" <=> H(i) = "none"
                        /\ ChannelInv(i)'
  BY ZenonT(60), <1>1, ProcessCalm DEF SerialInv
<1>3. \A i \in JobIds : JobInv(i)'
  BY <1>1, <1>2 DEF SerialInv, JobInv, BarrierCode
<1>4. owner.pc \in Executing => Inv \in JobIds
  BY ZenonT(60) DEF TypeInv
<1>5. OwnerInv'
  BY ZenonT(60), <1>1, <1>2, <1>4 DEF SerialInv, OwnerInv, BarrierCode, At, Inv, Executing
<1> QED
  BY ZenonT(60), <1>2, <1>3, <1>5 DEF SerialInv

LEMMA OwnerCalm ==
  ASSUME OwnerStep
  PROVE  /\ UNCHANGED <<hostd, lockFile, record, effects, done, pruned>>
         /\ open' \subseteq open
         /\ \A i \in JobIds : /\ Menace(i)' => Menace(i)
                              /\ Harmless(i) => Harmless(i)'
                              /\ H(i)' = H(i)
<1>1. UNCHANGED <<hostd, lockFile, record, effects, done, pruned>>
  BY Zenon, StillSteps
<1>2. open' \subseteq open
  BY ZenonT(60) DEF OwnerStep, CreateAction, CancelQueued, SettleFailedHostActions,
         AcknowledgeCompensation, Advance, Revoke, AdvanceRefused, Authorize,
         FollowStream, QueryFails, ReadRecord, ProbeLock, Unshare, Reread, Poll,
         Deadline, CompleteAction, Containment, ContainUnfinished, Shutdown,
         Crash, Restart
<1> QED
  BY <1>1, <1>2 DEF Menace, Harmless, Unaccounted, Advancing, H, Stage

(* The ledger's answers are safe to complete with.                         *)
LEMMA SafeAnswers ==
  ASSUME Deliveries = JobIds \X {1}, LedgerInv, pruned = {}, NEW i \in JobIds,
         ChannelInv(i)
  PROVE  /\ record[i] \in Recorded => ~Menace(i) /\ ~Advancing(i)
         /\ H(i) = "none" => ~Menace(i) /\ Harmless(i)
         /\ lockFile[i] = "absent" /\ <<i, 1>> \notin open => ~Menace(i) /\ Harmless(i)
<1>1. lockFile[i] = "absent" => effects[i] = 0
  BY DEF LedgerInv, EntryInv
<1> QED
  BY <1>1 DEF ChannelInv, Menace, Harmless, Unaccounted, Advancing, Acting, Early, Past

LEMMA OwnerSerial ==
  ASSUME Deliveries = JobIds \X {1}, TypeInv, LedgerInv, TruthInv, SerialInv,
         OwnerStep
  PROVE  SerialInv'
<1>t. /\ job \in [JobIds -> JobType] /\ owner \in OwnerType /\ pruned = {}
      /\ owner.pc \in Executing => Inv \in JobIds
  BY DEF TypeInv, HostTypeOK, JobType, OwnerType, TruthInv
<1>s. /\ open' \subseteq open
      /\ \A i \in JobIds : (Menace(i)' => Menace(i)) /\ H(i)' = H(i)
      /\ \A i \in JobIds : ChannelInv(i)'
  BY OwnerCalm DEF SerialInv, ChannelInv
<1>a. \A i \in JobIds : ChannelInv(i) /\ JobInv(i)
  BY DEF SerialInv
<1>v. OwnerInv
  BY DEF SerialInv
<1> DEFINE Same(i) == job'[i].status = job[i].status /\ job'[i].code = job[i].code
           Settling == {"settling", "probing", "sharing", "rereading", "waiting"}
<1>q. ASSUME \A i \in JobIds : JobInv(i)', OwnerInv' PROVE SerialInv'
  BY ZenonT(60), <1>q, <1>s DEF SerialInv
<1>j. ASSUME NEW i \in JobIds, Same(i) PROVE JobInv(i)'
  BY <1>j, <1>s, <1>a DEF JobInv, BarrierCode
(* Steps of the owner that leave the jobs alone.                           *)
<1>w. ASSUME UNCHANGED job, owner'.inv = Inv, owner.pc \in Executing,
             owner'.pc # "idle",
             owner'.pc \in {"started", "dialing"} => H(Inv) = "none",
             owner'.pc \in Settling => <<Inv, 1>> \notin open',
             owner'.pc = "completing" => ~Menace(Inv) /\ owner'.outcome # "none"
      PROVE  SerialInv'
  <2>1. OwnerInv'
    BY <1>w, <1>s, <1>t, <1>v DEF OwnerInv, BarrierCode, At, Inv
  <2> QED
    BY ZenonT(60), <1>w, <1>q, <1>j, <2>1
<1>g. ASSUME UNCHANGED job, NEW pc, GoTo(pc), owner.pc \in Executing,
             pc \notin {"idle", "started", "completing"},
             pc = "dialing" => H(Inv) = "none",
             pc \in Settling => <<Inv, 1>> \notin open'
      PROVE  SerialInv'
  <2>1. owner'.pc = pc /\ owner'.inv = Inv
    BY <1>g, <1>t DEF GoTo, OwnerType, Inv
  <2> QED
    BY <1>g, <1>w, <2>1
<1>c. ASSUME UNCHANGED job, NEW outcome, Complete(outcome), owner.pc \in Executing,
             outcome # "none", ~Menace(Inv)
      PROVE  SerialInv'
  <2>1. owner'.pc = "completing" /\ owner'.inv = Inv /\ owner'.outcome = outcome
    BY <1>c, <1>t DEF Complete, OwnerType, Inv
  <2> QED
    BY <1>c, <1>w, <2>1
(* Steps that stop the owner.                                              *)
<1>x. ASSUME UNCHANGED job, owner'.pc \in {"stopped", "down"} PROVE SerialInv'
  <2>1. OwnerInv'
    BY ZenonT(60), <1>x, <1>v DEF OwnerInv, BarrierCode, At, Executing
  <2> QED
    BY ZenonT(60), <1>x, <1>q, <1>j, <2>1
(* Steps that leave the owner alone and start nothing.                     *)
<1>k. ASSUME UNCHANGED owner, NEW i \in JobIds,
             \A k \in JobIds : k # i => Same(k),
             job[i].status # "running", job'[i].status # "running",
             job'[i].code = job[i].code \/ ~BarrierCode(i)', JobInv(i)'
      PROVE  SerialInv'
  <2>1. \A k \in JobIds : job'[k].status = "running" <=> job[k].status = "running"
    BY <1>k
  <2>2. \A k \in JobIds : BarrierCode(k)' => BarrierCode(k)
    BY ZenonT(60), <1>k DEF BarrierCode
  <2>3. OwnerInv'
    BY <1>k, <1>s, <1>t, <1>v, <2>1, <2>2 DEF OwnerInv, At, Inv, Executing
  <2> QED
    BY ZenonT(60), <1>k, <1>q, <1>j, <2>3
<1>1. ASSUME NEW i \in JobIds, CreateAction(i) PROVE SerialInv'
  <2>1. CASE UNCHANGED job
    <3>1. OwnerInv'
      BY <1>1, <1>s, <1>t, <1>v, <2>1 DEF CreateAction, OwnerInv, BarrierCode, At, Inv, Executing
    <3> QED
      BY <1>q, <1>j, <2>1, <3>1
  <2>2. CASE job' = [job EXCEPT ![i].status = "queued"]
    <3>1. job[i].status = "none" /\ job[i].code = "none"
      BY <1>1, HostAssumption DEF CreateAction, NewJob, JobIds
    <3>2. job'[i].status = "queued" /\ job'[i].code = "none" /\ \A k \in JobIds : k # i => Same(k)
      BY ZenonT(60), <1>t, <2>2, <3>1 DEF JobType
    <3>3. JobInv(i)'
      BY <1>s, <1>a, <3>1, <3>2 DEF JobInv, BarrierCode
    <3> QED
      BY <1>1, <1>k, <3>1, <3>2, <3>3 DEF CreateAction
  <2> QED
    BY <1>1, <2>1, <2>2 DEF CreateAction
<1>2. ASSUME NEW i \in JobIds, CancelQueued(i) PROVE SerialInv'
  <2>1. job[i].status = "queued" /\ job[i].code = "none"
    BY <1>2, <1>a DEF CancelQueued, JobInv
  <2>2. job'[i].status = "canceled" /\ job'[i].code = "none" /\ \A k \in JobIds : k # i => Same(k)
    BY ZenonT(60), <1>2, <1>t, <2>1 DEF CancelQueued, JobType
  <2>3. JobInv(i)'
    BY ZenonT(60), <1>s, <1>a, <2>1, <2>2 DEF JobInv, BarrierCode
  <2> QED
    BY <1>2, <1>k, <2>1, <2>2, <2>3 DEF CancelQueued
<1>3. ASSUME NEW i \in JobIds,
             SettleFailedHostActions(i) \/ AcknowledgeCompensation(i) \/ Revoke(i)
      PROVE  SerialInv'
  <2>1. \A k \in JobIds : Same(k)
    BY <1>3, <1>t DEF SettleFailedHostActions, AcknowledgeCompensation, Revoke, JobType
  <2>2. OwnerInv'
    BY <1>3, <1>s, <1>t, <1>v, <2>1
    DEF SettleFailedHostActions, AcknowledgeCompensation, Revoke, OwnerInv,
        BarrierCode, At, Inv, Executing
  <2> QED
    BY <1>q, <1>j, <2>1, <2>2
<1>4. ASSUME NEW i \in JobIds, Advance(i) PROVE SerialInv'
  <2>0. job[i].status = "queued" /\ job[i].code = "none" /\ H(i) = "none" /\ ~Menace(i)
    BY <1>4, <1>a DEF Advance, Startable, JobInv, BarrierCode
  <2>1. CASE i \in revoked
    <3>1. job' = [job EXCEPT ![i] = [job[i] EXCEPT !.status = "failed", !.code = "rejected"]]
      BY Zenon, <1>4, <1>t, <2>1 DEF Advance
    <3>2. job'[i].status = "failed" /\ job'[i].code = "rejected" /\ \A k \in JobIds : k # i => Same(k)
      BY ZenonT(60), <1>t, <3>1 DEF JobType
    <3>3. JobInv(i)'
      BY ZenonT(60), <1>s, <2>0, <3>2 DEF JobInv, BarrierCode
    <3> QED
      BY <1>4, <1>k, <2>0, <2>1, <3>2, <3>3 DEF Advance, BarrierCode
  <2>2. CASE i \notin revoked
    <3>1. job'[i].status = "running" /\ job'[i].code = "none" /\ \A k \in JobIds : k # i => Same(k)
      BY <1>4, <1>t, <2>0, <2>2 DEF Advance, JobType
    <3>2. owner'.pc = "started" /\ owner'.inv = i
      <4>1. owner' = [Idle EXCEPT !.pc = "started", !.inv = i]
        BY <1>4, <2>2 DEF Advance
      <4> QED
        BY <4>1 DEF Idle, Down
    <3>3. \A k \in JobIds : job[k].status # "running" /\ ~BarrierCode(k)
      BY ZenonT(60), <1>4 DEF Advance, Barrier, BarrierCode
    <3>4. JobInv(i)'
      BY ZenonT(60), <2>0, <1>s, <3>1 DEF JobInv
    <3>5. OwnerInv'
      BY ZenonT(60), <1>s, <2>0, <3>1, <3>2, <3>3 DEF OwnerInv, BarrierCode, At, Inv
    <3> QED
      BY <1>q, <1>j, <3>1, <3>4, <3>5
  <2> QED
    BY <2>1, <2>2
<1>5. CASE AdvanceRefused \/ Shutdown \/ Crash
  <2>1. owner'.pc \in {"stopped", "down"}
    BY <1>5, <1>t DEF AdvanceRefused, GoTo, Shutdown, Crash, Down, OwnerType
  <2> QED
    BY <1>5, <1>x, <2>1 DEF AdvanceRefused, Shutdown, Crash
<1>6. CASE Authorize
  <2>1. H(Inv) = "none" /\ owner.pc \in Executing
    BY <1>6, <1>v DEF Authorize, At, OwnerInv, Executing
  <2>2. ~Menace(Inv)
    BY ZenonT(60), <1>a, <1>t, <2>1, SafeAnswers
  <2> QED
    BY ZenonT(60), <1>6, <1>g, <1>c, <2>1, <2>2 DEF Authorize
<1>7. CASE FollowStream
  <2>0. owner.pc \in Executing /\ Inv \in JobIds /\ <<Inv, 1>> \in Deliveries
    BY ZenonT(60), <1>7, <1>t, DeliveredOnce DEF FollowStream, At, Executing
  <2>1. CASE hostd[<<Inv, 1>>].pc = "sent" /\ Complete(hostd[<<Inv, 1>>].term)
    <3>1. hostd[<<Inv, 1>>].term \in Recorded /\ record[Inv] = hostd[<<Inv, 1>>].term
      BY ZenonT(60), <2>0, <2>1 DEF TruthInv, TermInv, Stage
    <3>2. ~Menace(Inv)
      BY ZenonT(60), <1>a, <1>t, <2>0, <3>1, SafeAnswers
    <3> QED
      BY ZenonT(60), <1>7, <1>c, <2>0, <2>1, <3>1, <3>2 DEF FollowStream, Recorded
  <2>2. CASE GoTo("settling")
    BY <1>7, <1>g, <2>0, <2>2 DEF FollowStream
  <2> QED
    BY ZenonT(60), <1>7, <2>1, <2>2 DEF FollowStream
<1>8. CASE QueryFails
  <2>1. /\ owner'.pc \in {"containing", "waiting"} /\ owner'.inv = Inv
        /\ owner.pc \in Executing
    BY <1>8, <1>t DEF QueryFails, OwnerType, Inv, Executing
  <2>2. <<Inv, 1>> \notin open'
    BY ZenonT(60), <1>8, <1>s, <1>v DEF QueryFails, OwnerInv
  <2> QED
    BY <1>8, <1>w, <2>1, <2>2 DEF QueryFails
<1>9. ASSUME UNCHANGED job, owner.pc \in Executing, record[Inv] \in Recorded,
             Answer(record[Inv])
      PROVE  SerialInv'
  <2>1. ~Menace(Inv) /\ record[Inv] # "none"
    BY Zenon, <1>9, <1>a, <1>t, SafeAnswers DEF Recorded
  <2> QED
    BY <1>9, <1>g, <1>c, <2>1 DEF Answer
<1>10. CASE ReadRecord
  <2>0. owner.pc \in Executing /\ <<Inv, 1>> \notin open'
    BY <1>10, <1>s, <1>v DEF ReadRecord, At, Executing, OwnerInv
  <2>1. CASE record[Inv] \in Recorded
    BY <1>10, <1>9, <2>0, <2>1 DEF ReadRecord
  <2>2. CASE record[Inv] \notin Recorded
    <3>1. owner'.pc = "probing" /\ owner'.inv = Inv
      BY Zenon, <1>10, <1>t, <2>2 DEF ReadRecord, OwnerType, Inv
    <3> QED
      BY <1>10, <1>w, <2>0, <3>1 DEF ReadRecord
  <2> QED
    BY <2>1, <2>2
<1>11. CASE ProbeLock
  <2>0. /\ owner.pc \in Executing /\ Inv \in JobIds /\ <<Inv, 1>> \notin open
        /\ <<Inv, 1>> \notin open'
    BY <1>11, <1>s, <1>t, <1>v DEF ProbeLock, At, Executing, OwnerInv
  <2>1. \/ owner' = [owner EXCEPT !.pc = "waiting", !.failures = 0]
        \/ lockFile[Inv] = "absent" /\ Complete("not_started")
        \/ GoTo("sharing") \/ GoTo("rereading")
    BY <1>11 DEF ProbeLock
  <2>2. owner' = [owner EXCEPT !.pc = "waiting", !.failures = 0]
          => owner'.pc = "waiting" /\ owner'.inv = Inv
    BY <1>t DEF OwnerType, Inv
  <2>3. lockFile[Inv] = "absent" => ~Menace(Inv)
    BY <1>a, <1>t, <2>0, SafeAnswers
  <2>4. UNCHANGED job
    BY <1>11 DEF ProbeLock
  <2>5. CASE owner' = [owner EXCEPT !.pc = "waiting", !.failures = 0]
    BY ZenonT(60), <1>w, <2>0, <2>2, <2>4, <2>5
  <2>6. CASE lockFile[Inv] = "absent" /\ Complete("not_started")
    BY ZenonT(60), <1>c, <2>0, <2>3, <2>4, <2>6
  <2>7. CASE GoTo("sharing") \/ GoTo("rereading")
    BY ZenonT(60), <1>g, <2>0, <2>4, <2>7
  <2> QED
    BY <2>1, <2>5, <2>6, <2>7
<1>12. CASE Unshare \/ Poll \/ Deadline
  <2>1. owner.pc \in Executing /\ <<Inv, 1>> \notin open'
    BY ZenonT(60), <1>12, <1>s, <1>v DEF Unshare, Poll, Deadline, At, Executing, OwnerInv
  <2> QED
    BY ZenonT(60), <1>12, <1>g, <2>1 DEF Unshare, Poll, Deadline
<1>13. CASE Reread
  <2>1. owner.pc \in Executing
    BY ZenonT(60), <1>13 DEF Reread, At, Executing
  <2> QED
    BY <1>13, <1>9, <1>g, <2>1 DEF Reread
(* The commit of an outcome ends the only running job.                     *)
<1>14. ASSUME owner.pc \in Executing, NEW outcome, CommitAction(outcome),
              outcome # "none",
              ~Menace(Inv) \/ outcome = "containment",
              owner'.pc \in {"idle", "stopped"}
       PROVE  SerialInv'
  <2>0. PICK i \in JobIds : i = Inv
    BY <1>14, <1>t
  <2>1. /\ job'[i].code = outcome
        /\ job'[i].status \in {"succeeded", "failed", "interrupted"}
        /\ \A k \in JobIds : k # i => Same(k)
    BY ZenonT(60), <1>14, <1>t, <2>0 DEF CommitAction, ActionJobAfterEvent, StatusOf
  <2>2. job[i].status = "running" /\ \A k \in JobIds : job'[k].status # "running"
    BY ZenonT(60), <1>14, <1>v, <2>0, <2>1 DEF OwnerInv
  <2>3. JobInv(i)'
    BY ZenonT(60), <1>14, <1>s, <2>0, <2>1 DEF JobInv, BarrierCode
  <2>4. OwnerInv'
    BY ZenonT(60), <1>14, <2>2 DEF OwnerInv, At, Executing
  <2> QED
    BY <1>q, <1>j, <2>1, <2>3, <2>4
<1>15. CASE CompleteAction
  <2>0. owner.pc \in Executing /\ ~Menace(Inv) /\ owner.outcome # "none"
    BY <1>15, <1>v DEF CompleteAction, At, Executing, OwnerInv
  <2>1. owner' = Idle => owner'.pc = "idle"
    BY ZenonT(60) DEF Idle, Down
  <2> QED
    BY ZenonT(60), <1>15, <1>14, <1>g, <2>0, <2>1 DEF CompleteAction
<1>16. CASE Containment \/ ContainUnfinished
  <2>0. owner.pc \in Executing
    BY <1>16 DEF Containment, ContainUnfinished, At, Executing
  <2>1. GoTo("stopped") => owner'.pc = "stopped"
    BY <1>t DEF GoTo, OwnerType
  <2> QED
    BY ZenonT(60), <1>16, <1>14, <1>g, <2>0, <2>1 DEF Containment, ContainUnfinished
<1>17. CASE Restart
  <2>1. \A i \in JobIds :
          IF job[i].status = "running"
          THEN job'[i].status = "interrupted" /\ job'[i].code = "daemon_restarted"
          ELSE Same(i)
    BY <1>17 DEF Restart, ActionJobAfterEvent, StatusOf, Unknowns
  <2>2. owner'.pc = "idle"
    BY ZenonT(60), <1>17 DEF Restart, Idle, Down
  <2>3. \A i \in JobIds : JobInv(i)'
    BY ZenonT(60), <1>j, <2>1 DEF JobInv, BarrierCode
  <2>4. OwnerInv'
    BY <2>1, <2>2 DEF OwnerInv, At, Executing
  <2> QED
    BY ZenonT(60), <1>q, <2>3, <2>4
<1> QED
  BY ZenonT(60), <1>1, <1>2, <1>3, <1>4, <1>5, <1>6, <1>7, <1>8, <1>10, <1>11, <1>12, <1>13,
     <1>15, <1>16, <1>17 DEF OwnerStep

LEMMA DialSerial ==
  ASSUME Deliveries = JobIds \X {1}, TypeInv, LedgerInv, TruthInv, SerialInv, Dial
  PROVE  SerialInv'
<1>t. /\ hostd \in [Deliveries -> HostdType] /\ owner \in OwnerType /\ pruned = {}
      /\ owner.pc = "dialing"
  BY DEF TypeInv, HostTypeOK, HostdType, OwnerType, TruthInv, Dial, At
<1>0. PICK i \in JobIds : i = Inv
  BY ZenonT(60), <1>t DEF TypeInv, Executing
<1>1. H(i) = "none" /\ <<i, 1>> \notin open /\ job[i].status = "running" /\ ChannelInv(i)
  BY ZenonT(60), <1>0, <1>t DEF SerialInv, OwnerInv, ChannelInv, Executing
<1>2. UNCHANGED <<job, lockFile, record, effects>>
  BY DEF Dial
<1>3. \A k \in JobIds : k # i =>
        H(k)' = H(k) /\ (<<k, 1>> \in open' <=> <<k, 1>> \in open)
  BY <1>0, <1>t, DeliveredOnce DEF Dial, H, Stage
<1>4. \/ H(i)' = "accepted"
      \/ H(i)' = "none" /\ <<i, 1>> \notin open'
  BY <1>0, <1>1, <1>t, DeliveredOnce DEF Dial, H, Stage, HostdType
<1>5. \/ owner'.pc \in {"streaming", "settling"} /\ owner'.inv = i
         /\ (owner'.pc = "settling" => <<i, 1>> \notin open')
      \/ owner'.pc = "completing" /\ owner'.outcome = "unavailable" /\ owner'.inv = i
         /\ H(i)' = "none" /\ <<i, 1>> \notin open'
  BY Zenon, <1>0, <1>1, <1>t DEF Dial, GoTo, Complete, OwnerType, Inv, H, Stage
<1>6. \A k \in JobIds : ChannelInv(k)'
  BY ZenonT(60), <1>1, <1>2, <1>3, <1>4 DEF SerialInv, ChannelInv, Past
<1>7. \A k \in JobIds : k # i => (Menace(k)' => Menace(k))
  BY <1>2, <1>3 DEF Menace, Unaccounted, Advancing
<1>8. \A k \in JobIds : JobInv(k)'
  BY ZenonT(60), <1>1, <1>2, <1>3, <1>7 DEF SerialInv, JobInv, BarrierCode
<1>9. H(i)' = "none" /\ <<i, 1>> \notin open' => ~Menace(i)'
  BY SMTT(60), <1>1, <1>2 DEF ChannelInv, Menace, Unaccounted, Advancing, Acting, Early
<1>10. OwnerInv'
  BY <1>1, <1>2, <1>5, <1>9 DEF SerialInv, OwnerInv, BarrierCode, At, Inv
<1> QED
  BY <1>6, <1>8, <1>10 DEF SerialInv

LEMMA SerialInit ==
  ASSUME Deliveries = JobIds \X {1}
  PROVE  Init => SerialInv
<1> SUFFICES ASSUME Init PROVE SerialInv
  OBVIOUS
<1>1. owner.pc = "idle"
  BY DEF Init, Idle, Down
<1>2. \A i \in JobIds : /\ H(i) = "none" /\ effects[i] = 0 /\ record[i] = "none"
                        /\ job[i].status = "none" /\ job[i].code = "none"
  BY ZenonT(60), DeliveredOnce DEF Init, Unserved, NewJob, H, Stage
<1>3. \A i \in JobIds : ChannelInv(i) /\ ~Menace(i)
  BY SMTT(60), <1>2 DEF Init, ChannelInv, Menace, Unaccounted, Advancing, Acting, Early, Recorded
<1>4. \A i \in JobIds : JobInv(i)
  BY ZenonT(60), <1>2, <1>3 DEF JobInv
<1>5. OwnerInv
  BY ZenonT(60), <1>1, <1>2 DEF OwnerInv, At, Executing
<1> QED
  BY <1>3, <1>4, <1>5 DEF SerialInv

LEMMA SerialStep ==
  ASSUME Deliveries = JobIds \X {1}, "retain" \notin Faults
  PROVE  TypeInv /\ LedgerInv /\ TruthInv /\ SerialInv /\ [Next]_vars => SerialInv'
<1> SUFFICES ASSUME TypeInv, LedgerInv, TruthInv, SerialInv, [Next]_vars PROVE SerialInv'
  BY ZenonT(60)
<1>1. ~\E i \in JobIds : Prune(i)
  BY DEF Prune, Fault
<1>2. ~\E d \in Deliveries : Redeliver(d)
  BY ZenonT(60), DeliveredOnce
<1>3. CASE UNCHANGED vars
  BY ZenonT(60), <1>3 DEF vars, hostVars, SerialInv, ChannelInv, JobInv, OwnerInv, Menace,
     Unaccounted, Advancing, BarrierCode, H, Stage, At, Inv
<1> QED
  BY <1>1, <1>2, <1>3, Steps, OwnerSerial, DialSerial, ProcessSerial

(* For any number of jobs: while a job runs, no other invocation has       *)
(* changed the host without its outcome on record.  The barrier of advance *)
(* and the rule that a mutating hostd announces itself on a stream that is *)
(* still open keep the next job from starting beside a lost one.  The      *)
(* runner sends each request once, and retention has removed nothing.      *)
THEOREM ChangesAreSerialized ==
  ASSUME Deliveries = JobIds \X {1}, "retain" \notin Faults
  PROVE  HostSpec => []ChangesSerialized
<1>1. TypeInv /\ SerialInv => ChangesSerialized
  <2> SUFFICES ASSUME TypeInv, SerialInv, NEW i \in JobIds, NEW k \in JobIds,
                      Unaccounted(i), job[k].status = "running"
               PROVE  i = k
    BY ZenonT(60) DEF ChangesSerialized
  <2>0. effects[i] # 0
    BY DEF Unaccounted, TypeInv, HostTypeOK
  <2>1. Menace(i)
    BY Zenon, <2>0 DEF SerialInv, ChannelInv, Menace
  <2> QED
    BY <2>1 DEF SerialInv, JobInv, OwnerInv
<1>2. TypeInv /\ LedgerInv /\ TruthInv /\ [Next]_vars => TruthInv'
  BY TruthStep
<1>3. TypeInv /\ LedgerInv /\ TruthInv /\ SerialInv /\ [Next]_vars => SerialInv'
  BY SerialStep
<1>4. Init => SerialInv
  BY SerialInit
<1> QED
  BY <1>1, <1>2, <1>3, <1>4, TruthInit, LedgerHolds, PTL DEF HostSpec

-----------------------------------------------------------------------------
(* Actions that were not started, when every result fits its frame.        *)

LEMMA ProcessQuiet ==
  ASSUME Deliveries = JobIds \X {1}, "oversize" \notin Faults, TypeInv, LedgerInv,
         TruthInv, SerialInv, QuietInv, NEW d \in Deliveries, ProcessStep(d)
  PROVE  QuietInv'
<1>1. UNCHANGED <<job, owner, open>> /\ pruned = {}
  BY ZenonT(60), ProcessMoves DEF Others, TruthInv
<1>2. \A i \in JobIds : Harmless(i) => Harmless(i)'
  BY <1>1, ProcessCalm DEF SerialInv
<1>3. owner.pc \in Executing => Inv \in JobIds
  BY ZenonT(60) DEF TypeInv
<1>4. ASSUME NEW i \in JobIds
      PROVE  /\ H(i)' \in {"finishing", "releasing"} /\ hostd'[<<i, 1>>].term = "not_started"
                  => effects'[i] = 0
             /\ record'[i] = "not_started" => effects'[i] = 0
  <2>i. d[1] \in JobIds /\ <<i, 1>> \in Deliveries
    BY DeliveredOnce
  <2>m. Others(d) /\ (Leaves(d) \/ Enters(d) \/ Works(d) \/ Reports(d))
    BY ZenonT(60), ProcessMoves
  <2>q. /\ H(i) \in {"finishing", "releasing"} /\ hostd[<<i, 1>>].term = "not_started"
             => effects[i] = 0
        /\ record[i] = "not_started" => effects[i] = 0
    BY ZenonT(60) DEF QuietInv
  <2>1. CASE i # d[1]
    <3>1. <<i, 1>> # d
      BY SMTT(60), <2>1
    <3> QED
      BY <2>1, <2>i, <2>m, <2>q, <3>1 DEF Others, H, Stage
  <2>2. CASE i = d[1]
    <3>0. d = <<i, 1>>
      BY ZenonT(60), <2>2, DeliveredOnce
    <3>1. InsideInv(d) /\ TermInv(d) /\ ChannelInv(i)
      BY <1>1 DEF LedgerInv, TruthInv, SerialInv
    <3>2. (H(i) \in Ahead => effects[i] = 0) /\ H(i) = hostd[d].pc
      BY ZenonT(60), <2>2, <3>0, <3>1 DEF InsideInv, H, Stage
    <3> USE DEF From, SameRecord, SameEffects, SameTerm
    <3>3. CASE Leaves(d) \/ Enters(d)
      BY <2>2, <2>q, <3>0, <3>3 DEF Leaves, Enters, H, Stage
    <3>4. CASE Works(d)
      <4>1. CASE hostd[d].pc = "applying"
        BY Zenon, <2>2, <3>0, <3>1, <3>4, <4>1
        DEF Works, InsideInv, H, Stage, Ahead, Unrecorded, Recorded
      <4>2. CASE hostd[d].pc # "applying"
        <5>1. effects'[i] = effects[i] /\ record'[i] = record[i]
          BY Zenon, <2>2, <3>4, <4>2 DEF Works
        <5>2. H(i)' \in {"finishing", "releasing"} /\ hostd'[d].term = "not_started"
                => hostd[d].pc \in {"begun", "announced"}
          BY ZenonT(60), <3>0, <3>1, <3>4 DEF Works, TermInv, H, Stage, Fault
        <5> QED
          BY Zenon, <2>q, <3>0, <3>2, <5>1, <5>2 DEF Ahead
      <4> QED
        BY Zenon, <4>1, <4>2
    <3>5. CASE Reports(d)
      BY ZenonT(60), <2>2, <2>q, <3>0, <3>5 DEF Reports, H, Stage
    <3> QED
      BY ZenonT(60), <2>m, <3>3, <3>4, <3>5
  <2> QED
    BY ZenonT(60), <2>1, <2>2
<1> QED
  BY ZenonT(60), <1>1, <1>2, <1>3, <1>4 DEF QuietInv, At, Inv, Executing

LEMMA OwnerQuiet ==
  ASSUME Deliveries = JobIds \X {1}, TypeInv, LedgerInv, TruthInv, SerialInv,
         QuietInv, OwnerStep
  PROVE  QuietInv'
<1>t. /\ job \in [JobIds -> JobType] /\ owner \in OwnerType /\ pruned = {}
      /\ owner.pc \in Executing => Inv \in JobIds
  BY DEF TypeInv, HostTypeOK, JobType, OwnerType, TruthInv
<1>s. /\ UNCHANGED <<hostd, record, effects>>
      /\ \A i \in JobIds : Harmless(i) => Harmless(i)'
  BY OwnerCalm
<1>v. OwnerInv /\ \A i \in JobIds : ChannelInv(i)
  BY ZenonT(60) DEF SerialInv
<1> DEFINE Claim == At("completing")' /\ owner'.outcome \in Unstarted
                      => owner'.inv \in JobIds /\ Harmless(owner'.inv)
           Codes == \A i \in JobIds : job'[i].code \in Unstarted => Harmless(i)
<1>q. ASSUME Claim, Codes PROVE QuietInv'
  <2>1. At("completing")' /\ owner'.outcome \in Unstarted => Harmless(Inv)'
    <3> SUFFICES ASSUME At("completing")', owner'.outcome \in Unstarted
                 PROVE  Harmless(Inv)'
      OBVIOUS
    <3>1. PICK i \in JobIds : i = owner'.inv /\ Harmless(i)
      BY <1>q
    <3>2. Harmless(i)'
      BY ZenonT(60), <1>s, <3>1
    <3> QED
      BY <3>1, <3>2 DEF Harmless, Advancing, H, Stage, Inv
  <2> QED
    BY ZenonT(60), <1>q, <1>s, <2>1 DEF QuietInv, H, Stage
<1>o. ASSUME UNCHANGED owner PROVE Claim
  BY <1>o, <1>t DEF QuietInv, At, Inv, Executing
<1>g. ASSUME owner'.pc # "completing" PROVE Claim
  BY <1>g DEF At
<1>c. ASSUME NEW outcome, Complete(outcome), owner.pc \in Executing,
             outcome \in Unstarted => Harmless(Inv)
      PROVE  Claim
  BY <1>c, <1>t DEF Complete, At, Inv, OwnerType
<1>p. ASSUME NEW pc, GoTo(pc) PROVE owner'.pc = pc
  BY <1>p, <1>t DEF GoTo, OwnerType
<1>n. ASSUME \A i \in JobIds : job'[i].code = job[i].code PROVE Codes
  BY Zenon, <1>n DEF QuietInv
<1>1. ASSUME NEW i \in JobIds,
             \/ CreateAction(i) \/ CancelQueued(i) \/ Revoke(i)
             \/ SettleFailedHostActions(i) \/ AcknowledgeCompensation(i)
      PROVE  QuietInv'
  <2>1. \A k \in JobIds : job'[k].code = job[k].code
    BY SMTT(60), <1>1, <1>t DEF CreateAction, CancelQueued, SettleFailedHostActions,
       AcknowledgeCompensation, Revoke, JobType
  <2> QED
    BY <1>1, <1>q, <1>o, <1>n, <2>1 DEF CreateAction, CancelQueued,
       SettleFailedHostActions, AcknowledgeCompensation, Revoke
<1>2. ASSUME NEW i \in JobIds, Advance(i) PROVE QuietInv'
  <2>1. \A k \in JobIds : job'[k].code \in {job[k].code, "rejected"}
    <3>1. CASE i \in revoked
      <4>1. job' = [job EXCEPT ![i] = [job[i] EXCEPT !.status = "failed", !.code = "rejected"]]
        BY Zenon, <1>2, <1>t, <3>1 DEF Advance
      <4> QED
        BY <1>t, <4>1 DEF JobType
    <3>2. CASE i \notin revoked
      BY <1>2, <1>t, <3>2 DEF Advance, JobType
    <3> QED
      BY <3>1, <3>2
  <2>2. Codes
    BY Zenon, <2>1 DEF QuietInv, Unstarted
  <2>3. Claim
    <3>1. CASE owner' = [Idle EXCEPT !.pc = "started", !.inv = i]
      BY ZenonT(60), <3>1 DEF Idle, Down, At
    <3> QED
      BY <1>2, <1>o, <3>1 DEF Advance
  <2> QED
    BY ZenonT(60), <1>q, <2>2, <2>3
<1>3. CASE AdvanceRefused \/ Unshare \/ Poll \/ Deadline
  BY ZenonT(60), <1>3, <1>q, <1>n, <1>g, <1>p DEF AdvanceRefused, Unshare, Poll, Deadline
<1>4. CASE Authorize
  <2>1. owner.pc \in Executing /\ Harmless(Inv)
    BY Zenon, <1>4, <1>v, <1>t, SafeAnswers DEF Authorize, At, OwnerInv, Executing
  <2> QED
    BY <1>4, <1>q, <1>n, <1>g, <1>p, <1>c, <2>1 DEF Authorize
(* A recorded terminal: Harmless when it says not started.                 *)
<1>5. ASSUME Inv \in JobIds, record[Inv] \in Recorded, record[Inv] \in Unstarted
      PROVE  Harmless(Inv)
  <2>1. record[Inv] = "not_started" /\ ~Advancing(Inv)
    BY ZenonT(60), <1>5, <1>t, <1>v, SafeAnswers DEF Recorded, Unstarted
  <2> QED
    BY Zenon, <1>5, <2>1 DEF QuietInv, Harmless
<1>6. CASE FollowStream
  <2>0. owner.pc \in Executing /\ Inv \in JobIds /\ <<Inv, 1>> \in Deliveries
    BY ZenonT(60), <1>6, <1>t, DeliveredOnce DEF FollowStream, At, Executing
  <2>1. hostd[<<Inv, 1>>].pc = "sent" =>
          hostd[<<Inv, 1>>].term \in Recorded /\ record[Inv] = hostd[<<Inv, 1>>].term
    BY <2>0 DEF TruthInv, TermInv, Stage
  <2> QED
    BY ZenonT(60), <1>6, <1>q, <1>n, <1>g, <1>p, <1>c, <1>5, <2>0, <2>1 DEF FollowStream
<1>7. CASE QueryFails
  <2>1. owner'.pc # "completing"
    BY <1>7, <1>t DEF QueryFails, OwnerType
  <2> QED
    BY <1>7, <1>q, <1>n, <1>g, <2>1 DEF QueryFails
<1>8. CASE ReadRecord \/ Reread
  <2>0. owner.pc \in Executing /\ Inv \in JobIds
    BY <1>8, <1>t DEF ReadRecord, Reread, At, Executing
  <2>1. CASE record[Inv] \in Recorded
    BY ZenonT(60), <1>8, <1>q, <1>n, <1>g, <1>p, <1>c, <1>5, <2>0, <2>1 DEF ReadRecord, Reread, Answer
  <2>2. CASE record[Inv] \notin Recorded
    <3>1. owner'.pc # "completing"
      BY Zenon, <1>8, <1>t, <1>p, <2>2 DEF ReadRecord, Reread, OwnerType
    <3> QED
      BY <1>8, <1>q, <1>n, <1>g, <3>1 DEF ReadRecord, Reread
  <2> QED
    BY <2>1, <2>2
<1>9. CASE ProbeLock
  <2>0. owner.pc \in Executing /\ Inv \in JobIds /\ <<Inv, 1>> \notin open
    BY <1>9, <1>t, <1>v DEF ProbeLock, At, Executing, OwnerInv
  <2>1. \/ owner' = [owner EXCEPT !.pc = "waiting", !.failures = 0]
        \/ lockFile[Inv] = "absent" /\ Complete("not_started")
        \/ GoTo("sharing") \/ GoTo("rereading")
    BY <1>9 DEF ProbeLock
  <2>2. owner' = [owner EXCEPT !.pc = "waiting", !.failures = 0] => owner'.pc = "waiting"
    BY ZenonT(60), <1>t DEF OwnerType
  <2>3. lockFile[Inv] = "absent" => Harmless(Inv)
    BY <1>t, <1>v, <2>0, SafeAnswers
  <2>4. Claim
    BY ZenonT(60), <1>g, <1>p, <1>c, <2>0, <2>1, <2>2, <2>3
  <2> QED
    BY <1>9, <1>q, <1>n, <2>4 DEF ProbeLock
<1>10. CASE CompleteAction \/ Containment \/ ContainUnfinished
  <2>1. Inv \in JobIds
    BY ZenonT(60), <1>10, <1>t DEF CompleteAction, Containment, ContainUnfinished, At, Executing
  <2>2. At("completing") /\ owner.outcome \in Unstarted => Harmless(Inv)
    BY DEF QuietInv
  <2>3. ASSUME NEW outcome, CommitAction(outcome), outcome \in Unstarted => Harmless(Inv)
        PROVE  Codes
    BY ZenonT(60), <1>t, <2>1, <2>3 DEF CommitAction, ActionJobAfterEvent, QuietInv
  <2>4. Codes
    BY <1>10, <1>n, <2>2, <2>3
    DEF CompleteAction, Containment, ContainUnfinished, Unstarted
  <2>5. owner' = Idle => owner'.pc = "idle"
    BY ZenonT(60) DEF Idle, Down
  <2> QED
    BY ZenonT(60), <1>10, <1>q, <1>g, <1>p, <2>4, <2>5 DEF CompleteAction, Containment, ContainUnfinished
<1>11. CASE Shutdown \/ Crash \/ Restart
  <2>1. owner'.pc # "completing"
    BY <1>11 DEF Shutdown, Crash, Restart, Idle, Down
  <2>2. \A i \in JobIds : job'[i].code \in {job[i].code, "daemon_restarted"}
    <3>1. CASE Restart
      BY <3>1 DEF Restart, ActionJobAfterEvent
    <3> QED
      BY ZenonT(60), <1>11, <3>1 DEF Shutdown, Crash
  <2>3. Codes
    BY ZenonT(60), <2>2 DEF QuietInv, Unstarted
  <2> QED
    BY <1>q, <1>g, <2>1, <2>3
<1> QED
  BY ZenonT(60), <1>1, <1>2, <1>3, <1>4, <1>6, <1>7, <1>8, <1>9, <1>10, <1>11 DEF OwnerStep

LEMMA DialQuiet ==
  ASSUME Deliveries = JobIds \X {1}, TypeInv, LedgerInv, TruthInv, SerialInv,
         QuietInv, Dial
  PROVE  QuietInv'
<1>t. /\ hostd \in [Deliveries -> HostdType] /\ owner \in OwnerType /\ pruned = {}
      /\ owner.pc = "dialing"
  BY DEF TypeInv, HostTypeOK, HostdType, OwnerType, TruthInv, Dial, At
<1>0. PICK i \in JobIds : i = Inv
  BY ZenonT(60), <1>t DEF TypeInv, Executing
<1>1. /\ H(i) = "none" /\ <<i, 1>> \notin open /\ effects[i] = 0
      /\ job[i].status = "running" /\ job[i].code = "none"
  BY <1>0, <1>t DEF SerialInv, OwnerInv, ChannelInv, JobInv, Executing
<1>2. UNCHANGED <<job, lockFile, record, effects>>
  BY DEF Dial
<1>3. \A k \in JobIds : k # i =>
        /\ hostd'[<<k, 1>>] = hostd[<<k, 1>>]
        /\ <<k, 1>> \in open' <=> <<k, 1>> \in open
  BY ZenonT(60), <1>0, <1>t, DeliveredOnce DEF Dial
<1>4. \A k \in JobIds : k # i /\ Harmless(k) => Harmless(k)'
  BY <1>2, <1>3 DEF Harmless, Advancing, H, Stage
<1>5. At("completing")' => H(i)' = "none" /\ <<i, 1>> \notin open' /\ owner'.inv = i
  BY ZenonT(60), <1>0, <1>1, <1>t DEF Dial, GoTo, Complete, OwnerType, At, Inv, H, Stage
<1>6. At("completing")' => Harmless(Inv)'
  BY <1>1, <1>2, <1>5 DEF Harmless, Advancing, H, Acting, Early, Inv
<1>7. \A k \in JobIds : job'[k].code \in Unstarted => Harmless(k)'
  BY ZenonT(60), <1>1, <1>2, <1>4 DEF QuietInv, Unstarted
<1> QED
  BY <1>1, <1>2, <1>3, <1>6, <1>7 DEF QuietInv, H, Stage

LEMMA QuietInit ==
  ASSUME Deliveries = JobIds \X {1}
  PROVE  Init => QuietInv
<1> SUFFICES ASSUME Init PROVE QuietInv
  OBVIOUS
<1>1. owner.pc = "idle"
  BY DEF Init, Idle, Down
<1> QED
  BY ZenonT(60), <1>1 DEF Init, NewJob, QuietInv, At, Unstarted

LEMMA QuietStep ==
  ASSUME Deliveries = JobIds \X {1}, "retain" \notin Faults, "oversize" \notin Faults
  PROVE  TypeInv /\ LedgerInv /\ TruthInv /\ SerialInv /\ QuietInv /\ [Next]_vars => QuietInv'
<1> SUFFICES ASSUME TypeInv, LedgerInv, TruthInv, SerialInv, QuietInv, [Next]_vars
             PROVE  QuietInv'
  BY ZenonT(60)
<1>1. ~\E i \in JobIds : Prune(i)
  BY DEF Prune, Fault
<1>2. ~\E d \in Deliveries : Redeliver(d)
  BY Zenon, DeliveredOnce
<1>3. CASE UNCHANGED vars
  BY Zenon, <1>3 DEF vars, hostVars, QuietInv, Harmless, Advancing, H, Stage, At, Inv
<1> QED
  BY ZenonT(60), <1>1, <1>2, <1>3, Steps, OwnerQuiet, DialQuiet, ProcessQuiet

(* For any number of jobs: a job that says its action was not started has  *)
(* not changed the host and never will, also when its hostd was only slow. *)
(* Needed: the runner sends each request once, every result fits a frame   *)
(* (the run with an oversized result refutes it otherwise), and retention  *)
(* has removed nothing.                                                    *)
THEOREM NotStartedStaysTrue ==
  ASSUME Deliveries = JobIds \X {1}, "retain" \notin Faults, "oversize" \notin Faults
  PROVE  HostSpec => []NotStartedIsTrue
<1>1. QuietInv => NotStartedIsTrue
  BY Zenon DEF QuietInv, Harmless, NotStartedIsTrue
<1>2. TypeInv /\ LedgerInv /\ TruthInv /\ [Next]_vars => TruthInv'
  BY TruthStep
<1>3. TypeInv /\ LedgerInv /\ TruthInv /\ SerialInv /\ [Next]_vars => SerialInv'
  BY SerialStep
<1>4. TypeInv /\ LedgerInv /\ TruthInv /\ SerialInv /\ QuietInv /\ [Next]_vars => QuietInv'
  BY QuietStep
<1>5. Init => SerialInv /\ QuietInv
  BY SerialInit, QuietInit
<1> QED
  BY <1>1, <1>2, <1>3, <1>4, <1>5, TruthInit, LedgerHolds, PTL DEF HostSpec
=============================================================================
