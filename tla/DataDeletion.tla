---------------------------- MODULE DataDeletion ----------------------------
(***************************************************************************)
(* dataDeletionWorkflow (core/workflow/workflows/data-deletion.workflow.ts)*)
(* and its activities (approval.activities.impl.ts), against legal holds   *)
(* that come and go.  Temporal (external) runs the workflow code once and  *)
(* each activity at least once: an attempt whose worker is lost, or which  *)
(* runs for five minutes (no activity sends a heartbeat), is given up and  *)
(* tried again, up to MaxAttempts times.  An attempt that is given up may  *)
(* still be running: its effects happen, its result is discarded.          *)
(***************************************************************************)
EXTENDS Naturals, FiniteSets

CONSTANTS
  Assets,      \* assets of one tenant
  Runs,        \* executions of the workflow, one policy
  MaxAttempts  \* retry.maximumAttempts

ASSUME AttemptsAssumption == MaxAttempts \in Nat \ {0}

VARIABLES
  held,          \* assets with a row in legal_holds that is neither released nor expired
  policyActive,  \* retention_policies.status = 'active'
  deleted,       \* assets whose deletedAt is set
  run,           \* run[r]: where the workflow code of r is
  tasks,         \* the attempts running on some worker
  certificates,  \* the data_deletion.certificate_generated entries
  deletedBy,     \* history: <<r, a>>, an attempt of r set deletedAt of a
  guarded,       \* history: guarded[r], assets held when r started and since
  repeated       \* history: runs that gave up an attempt of executeDisposal

vars == <<held, policyActive, deleted, run, tasks, certificates, deletedBy, guarded, repeated>>

Activities ==
  {"checkLegalHolds", "requestDeletionApproval", "executeDisposal",
   "generateCertificate", "notifyDeletionComplete"}
Closed == {"completed", "all_assets_on_hold", "approval_denied", "failed"}

(* assets: the list the workflow passes on; attempt: how many attempts its *)
(* current activity has had; waiting: for the last of them.                *)
NewRun == [step |-> "new", assets |-> {}, attempt |-> 0, waiting |-> FALSE]

(* done: the assets an attempt answers with, todo: those it has yet to     *)
(* look at (executeDisposal goes through them one by one).                 *)
Task(r) ==
  [run |-> r, step |-> run[r].step, attempt |-> run[r].attempt + 1,
   todo |-> run[r].assets, done |-> {}, ended |-> FALSE]

(* Somebody still waits for the result of t.                               *)
Current(t) ==
  run[t.run].waiting /\ t.step = run[t.run].step /\ t.attempt = run[t.run].attempt

Init ==
  /\ held \in SUBSET Assets
  /\ policyActive \in BOOLEAN
  /\ deleted = {}
  /\ run = [r \in Runs |-> NewRun]
  /\ tasks = {} /\ certificates = {}
  /\ deletedBy = {}
  /\ guarded = [r \in Runs |-> {}]
  /\ repeated = {}

-----------------------------------------------------------------------------
(* Around the workflow                                                     *)

PlaceHold(a) ==
  /\ a \notin held
  /\ held' = held \union {a}
  /\ UNCHANGED <<policyActive, deleted, run, tasks, certificates, deletedBy, guarded, repeated>>

(* Released, or past its expiry date.                                      *)
EndHold(a) ==
  /\ a \in held
  /\ held' = held \ {a}
  /\ guarded' = [r \in Runs |-> guarded[r] \ {a}]
  /\ UNCHANGED <<policyActive, deleted, run, tasks, certificates, deletedBy, repeated>>

(* create, update and delete of retention.service.ts.                      *)
SetPolicyStatus(active) ==
  /\ policyActive # active
  /\ policyActive' = active
  /\ UNCHANGED <<held, deleted, run, tasks, certificates, deletedBy, guarded, repeated>>

-----------------------------------------------------------------------------
(* The workflow, as Temporal runs it                                       *)

GoTo(r, step, assets) ==
  run' = [run EXCEPT ![r] = [step |-> step, assets |-> assets, attempt |-> 0, waiting |-> FALSE]]

(* startDataDeletionWorkflow; the list may be empty (data.assetIds || []). *)
Start(r) ==
  /\ run[r].step = "new"
  /\ \E assets \in SUBSET Assets : GoTo(r, "checkLegalHolds", assets)
  /\ guarded' = [guarded EXCEPT ![r] = held]
  /\ UNCHANGED <<held, policyActive, deleted, tasks, certificates, deletedBy, repeated>>

Schedule(r) ==
  /\ run[r].step \in Activities /\ ~run[r].waiting
  /\ tasks' = tasks \union {Task(r)}
  /\ run' = [run EXCEPT ![r].attempt = @ + 1, ![r].waiting = TRUE]
  /\ UNCHANGED <<held, policyActive, deleted, certificates, deletedBy, guarded, repeated>>

(* Mutant: attempts without limit.                                         *)
GiveUp_Unlimited(r) == run' = [run EXCEPT ![r].waiting = FALSE]

(* Mutant: the last attempt starts the count again.                        *)
GiveUp_CountsAgain(r) ==
  IF run[r].attempt < MaxAttempts
  THEN run' = [run EXCEPT ![r].waiting = FALSE]
  ELSE GoTo(r, run[r].step, run[r].assets)

(* The server gives the attempt up; after the last the workflow fails.     *)
GiveUp(r) ==
  IF run[r].attempt < MaxAttempts
  THEN run' = [run EXCEPT ![r].waiting = FALSE]
  ELSE GoTo(r, "failed", {})

(* Of the attempts given up, those that can still change something.        *)
Effective(t) == t.step \in {"executeDisposal", "generateCertificate"} /\ ~t.ended

AttemptTimesOut(r) ==
  /\ run[r].waiting
  /\ GiveUp(r)
  /\ tasks' = {t \in tasks : t.run = r => Effective(t)}
  /\ repeated' = IF run[r].step = "executeDisposal" THEN repeated \union {r} ELSE repeated
  /\ UNCHANGED <<held, policyActive, deleted, certificates, deletedBy, guarded>>

WorkerLost(t) ==
  /\ tasks' = tasks \ {t}
  /\ UNCHANGED <<held, policyActive, deleted, run, certificates, deletedBy, guarded, repeated>>

-----------------------------------------------------------------------------
(* The activities                                                          *)

Update(t, s) == tasks' = (tasks \ {t}) \union {s}
Answer(t, assets) == Update(t, [t EXCEPT !.todo = {}, !.done = assets, !.ended = TRUE])

(* The loop of executeDisposal goes past a.                                *)
LoopPast(t, a, done) ==
  Update(t, [t EXCEPT !.todo = @ \ {a}, !.done = done, !.ended = t.todo = {a}])

(* Mutant: what is held is logged, and stays on the list.                  *)
CheckLegalHolds_NotFiltered(t) ==
  /\ t.step = "checkLegalHolds" /\ ~t.ended
  /\ Answer(t, IF t.todo \subseteq held THEN {} ELSE t.todo)
  /\ UNCHANGED <<held, policyActive, deleted, run, certificates, deletedBy, guarded, repeated>>

(* One query, and an audit entry for what is held.                         *)
CheckLegalHolds(t) ==
  /\ t.step = "checkLegalHolds" /\ ~t.ended
  /\ Answer(t, t.todo \ held)
  /\ UNCHANGED <<held, policyActive, deleted, run, certificates, deletedBy, guarded, repeated>>

(* Approves all of the list or, the policy not being active, nothing.      *)
RequestDeletionApproval(t) ==
  /\ t.step = "requestDeletionApproval" /\ ~t.ended
  /\ Answer(t, IF policyActive THEN t.todo ELSE {})
  /\ UNCHANGED <<held, policyActive, deleted, run, certificates, deletedBy, guarded, repeated>>

Dispose(t, a) ==
  /\ t.step = "executeDisposal" /\ a \in t.todo
  /\ deleted' = deleted \union {a}
  /\ deletedBy' = deletedBy \union {<<t.run, a>>}
  /\ LoopPast(t, a, t.done \union {a})
  /\ UNCHANGED <<held, policyActive, run, certificates, guarded, repeated>>

(* Mutant: an asset that could not be deleted is reported all the same.    *)
DisposeFails_Reported(t, a) ==
  /\ t.step = "executeDisposal" /\ a \in t.todo
  /\ LoopPast(t, a, t.done \union {a})
  /\ UNCHANGED <<held, policyActive, deleted, run, certificates, deletedBy, guarded, repeated>>

(* The update throws: logged, and left out of deletedAssetIds.             *)
DisposeFails(t, a) ==
  /\ t.step = "executeDisposal" /\ a \in t.todo
  /\ LoopPast(t, a, t.done)
  /\ UNCHANGED <<held, policyActive, deleted, run, certificates, deletedBy, guarded, repeated>>

(* A fresh certificate id for every attempt.  The code's entry holds the   *)
(* number of assets; here the assets it counts.                            *)
GenerateCertificate(t) ==
  /\ t.step = "generateCertificate" /\ ~t.ended
  /\ certificates' = certificates \union {[run |-> t.run, attempt |-> t.attempt, assets |-> t.todo]}
  /\ Answer(t, t.todo)
  /\ UNCHANGED <<held, policyActive, deleted, run, deletedBy, guarded, repeated>>

NotifyDeletionComplete(t) ==
  /\ t.step = "notifyDeletionComplete" /\ ~t.ended
  /\ Answer(t, t.todo)
  /\ UNCHANGED <<held, policyActive, deleted, run, certificates, deletedBy, guarded, repeated>>

(* Mutant: approval is asked for after the disposal.                       *)
NextStep_LateApproval(step, answer) ==
  CASE step = "checkLegalHolds" ->
         IF answer = {} THEN "all_assets_on_hold" ELSE "executeDisposal"
    [] step = "executeDisposal" -> "requestDeletionApproval"
    [] step = "requestDeletionApproval" ->
         IF answer = {} THEN "approval_denied" ELSE "generateCertificate"
    [] step = "generateCertificate" -> "notifyDeletionComplete"
    [] OTHER                        -> "completed"

(* Where the workflow goes with an answer.                                 *)
NextStep(step, answer) ==
  CASE step = "checkLegalHolds" ->
         IF answer = {} THEN "all_assets_on_hold" ELSE "requestDeletionApproval"
    [] step = "requestDeletionApproval" ->
         IF answer = {} THEN "approval_denied" ELSE "executeDisposal"
    [] step = "executeDisposal"     -> "generateCertificate"
    [] step = "generateCertificate" -> "notifyDeletionComplete"
    [] OTHER                        -> "completed"

ActivityReturns(t) ==
  /\ t.ended
  /\ tasks' = tasks \ {t}
  /\ IF Current(t) THEN GoTo(t.run, NextStep(t.step, t.done), t.done) ELSE UNCHANGED run
  /\ UNCHANGED <<held, policyActive, deleted, certificates, deletedBy, guarded, repeated>>

(* The database or the audit log fails, before or after the effect.        *)
(* executeDisposal catches what it can throw.                              *)
ActivityThrows(t) ==
  /\ t.step # "executeDisposal"
  /\ tasks' = tasks \ {t}
  /\ IF Current(t) THEN GiveUp(t.run) ELSE UNCHANGED run
  /\ UNCHANGED <<held, policyActive, deleted, certificates, deletedBy, guarded, repeated>>

-----------------------------------------------------------------------------
Activity(t) ==
  \/ CheckLegalHolds(t) \/ RequestDeletionApproval(t)
  \/ \E a \in Assets : Dispose(t, a) \/ DisposeFails(t, a)
  \/ GenerateCertificate(t) \/ NotifyDeletionComplete(t)
  \/ ActivityReturns(t) \/ ActivityThrows(t) \/ WorkerLost(t)

Next ==
  \/ \E a \in Assets : PlaceHold(a) \/ EndHold(a)
  \/ \E active \in BOOLEAN : SetPolicyStatus(active)
  \/ \E r \in Runs : Start(r) \/ Schedule(r) \/ AttemptTimesOut(r)
  \/ \E t \in tasks : Activity(t)

Spec == Init /\ [][Next]_vars

(* The Temporal server dispatches and times out what it has accepted.      *)
FairSpec ==
  Spec /\ \A r \in Runs : WF_vars(Schedule(r)) /\ WF_vars(AttemptTimesOut(r))

-----------------------------------------------------------------------------
(* Properties                                                              *)

RunType ==
  [step : {"new"} \union Activities \union Closed, assets : SUBSET Assets,
   attempt : 0..MaxAttempts, waiting : BOOLEAN]
TaskType ==
  [run : Runs, step : Activities, attempt : 1..MaxAttempts,
   todo : SUBSET Assets, done : SUBSET Assets, ended : BOOLEAN]
CertificateType == [run : Runs, attempt : 1..MaxAttempts, assets : SUBSET Assets]

(* Type invariant; a run waits only for activities, and when it does not   *)
(* wait it has an attempt left.                                            *)
TypeOK ==
  /\ held \subseteq Assets /\ deleted \subseteq Assets
  /\ policyActive \in BOOLEAN
  /\ run \in [Runs -> RunType]
  /\ \A r \in Runs :
       IF run[r].waiting THEN run[r].step \in Activities ELSE run[r].attempt < MaxAttempts
  /\ tasks \subseteq TaskType
  /\ certificates \subseteq CertificateType
  /\ deletedBy \subseteq Runs \X Assets
  /\ guarded \in [Runs -> SUBSET Assets]
  /\ repeated \subseteq Runs

(* A hold that is in place when a run starts, and stays, protects the      *)
(* asset from that run, whatever is retried or still runs unattended.      *)
EarlierHoldProtects ==
  \A r \in Runs : \A a \in guarded[r] : <<r, a>> \notin deletedBy

(* Why: once the holds are checked nothing that a run or an attempt works  *)
(* on is guarded, and a run that has not started has done nothing.         *)
TaskUnguarded(t) ==
  /\ t.ended \/ t.step # "checkLegalHolds" => \A a \in guarded[t.run] : a \notin t.done
  /\ t.step # "checkLegalHolds" => \A a \in guarded[t.run] : a \notin t.todo

RunUnguarded(r) ==
  run[r].step \notin {"new", "checkLegalHolds"} =>
    \A a \in guarded[r] : a \notin run[r].assets

Unstarted(r) ==
  run[r].step = "new" =>
    (\A t \in tasks : t.run # r) /\ (\A a \in Assets : <<r, a>> \notin deletedBy)

IInv ==
  /\ TypeOK
  /\ \A t \in tasks : TaskUnguarded(t)
  /\ \A r \in Runs : RunUnguarded(r) /\ Unstarted(r) /\ guarded[r] \subseteq held
  /\ EarlierHoldProtects

(* A run that ends without approval has deleted nothing, and never will.   *)
UnapprovedDeletesNothing ==
  \A r \in Runs : run[r].step \in {"all_assets_on_hold", "approval_denied"} =>
    \A a \in Assets : <<r, a>> \notin deletedBy

(* A certificate never lists an asset that its run has not deleted; and    *)
(* unless an attempt of executeDisposal was given up, the certificates of  *)
(* a run list all it has deleted (an attempt given up may delete assets    *)
(* that no certificate names).                                             *)
CertificatesTrue ==
  \A c \in certificates :
    /\ \A a \in c.assets : <<c.run, a>> \in deletedBy
    /\ c.run \notin repeated => \A a \in Assets : <<c.run, a>> \in deletedBy => a \in c.assets

(* Every run comes to an end.                                              *)
RunsEnd == \A r \in Runs : run[r].step \in Activities ~> run[r].step \in Closed

(* docs/policies/data-retention-policy.md:171, when a legal hold is active *)
(* on data: "Data is not deleted regardless of retention period expiry."   *)
HeldNotDeleted == [][\A a \in Assets : a \in deleted' \ deleted => a \notin held]_vars
=============================================================================
