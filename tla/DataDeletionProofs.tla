------------------------- MODULE DataDeletionProofs -------------------------
(***************************************************************************)
(* Proofs about DataDeletion, for any assets, any number of runs and any   *)
(* number of attempts.  First that every action keeps the types, then the  *)
(* inductive invariant IInv, conjunct by conjunct, and on top of it the    *)
(* approval and the certificates: CertificateInv, which follows what was   *)
(* deleted through the attempts, the runs and the entries that report it.  *)
(***************************************************************************)
EXTENDS DataDeletion, TLAPS

Steps == {"new"} \union Activities \union Closed

USE AttemptsAssumption

LEMMA InitIInv == Init => IInv
<1> SUFFICES ASSUME Init PROVE IInv
  OBVIOUS
<1>1. TypeOK
  BY DEF Init, TypeOK, NewRun, RunType
<1> QED
  BY <1>1 DEF Init, NewRun, IInv, RunUnguarded, Unstarted, EarlierHoldProtects

-----------------------------------------------------------------------------
(* Types                                                                   *)

RunsTyped ==
  /\ run \in [Runs -> RunType]
  /\ \A r \in Runs :
       IF run[r].waiting THEN run[r].step \in Activities ELSE run[r].attempt < MaxAttempts

LEMMA RunUpdate ==
  ASSUME RunsTyped, NEW r \in Runs, NEW w \in RunType, run' = [run EXCEPT ![r] = w],
         IF w.waiting THEN w.step \in Activities ELSE w.attempt < MaxAttempts
  PROVE  RunsTyped'
  BY DEF RunsTyped

LEMMA GoToType ==
  ASSUME RunsTyped, NEW r \in Runs, NEW step \in Steps, NEW assets \in SUBSET Assets,
         GoTo(r, step, assets)
  PROVE  RunsTyped'
<1> DEFINE w == [step |-> step, assets |-> assets, attempt |-> 0, waiting |-> FALSE]
<1>1. w \in RunType /\ w.attempt < MaxAttempts /\ ~w.waiting
  BY DEF RunType, Steps
<1> QED
  BY <1>1, RunUpdate DEF GoTo

LEMMA GiveUpType ==
  ASSUME RunsTyped, NEW r \in Runs, GiveUp(r)
  PROVE  RunsTyped'
<1>1. CASE run[r].attempt < MaxAttempts
  <2> DEFINE w == [run[r] EXCEPT !.waiting = FALSE]
  <2>1. w \in RunType /\ w.attempt < MaxAttempts /\ ~w.waiting
    BY <1>1 DEF RunsTyped, RunType
  <2> QED
    BY <1>1, <2>1, RunUpdate DEF GiveUp
<1>2. CASE ~(run[r].attempt < MaxAttempts)
  BY <1>2, GoToType DEF GiveUp, Steps, Closed
<1> QED
  BY <1>1, <1>2

LEMMA AnswerType ==
  ASSUME TypeOK, NEW t \in tasks, NEW assets \in SUBSET Assets, Answer(t, assets)
  PROVE  tasks' \subseteq TaskType
  BY DEF Answer, Update, TypeOK, TaskType

LEMMA LoopPastType ==
  ASSUME TypeOK, NEW t \in tasks, NEW a \in Assets, NEW done \in SUBSET Assets,
         LoopPast(t, a, done)
  PROVE  tasks' \subseteq TaskType
<1>1. t \in TaskType
  BY DEF TypeOK
<1>2. [t EXCEPT !.todo = t.todo \ {a}, !.done = done, !.ended = t.todo = {a}] \in TaskType
  BY <1>1 DEF TaskType
<1> QED
  BY <1>2 DEF LoopPast, Update, TypeOK

LEMMA NextStepType ==
  ASSUME NEW step \in Activities, NEW answer
  PROVE  NextStep(step, answer) \in Steps \ {"new", "checkLegalHolds"}
  BY DEF NextStep, Steps, Activities, Closed

LEMMA StepType == ASSUME TypeOK, [Next]_vars PROVE TypeOK'
<1>0. RunsTyped
  BY DEF TypeOK, RunsTyped
<1>1. CASE UNCHANGED vars
  BY <1>1 DEF vars, TypeOK
<1>2. ASSUME NEW a \in Assets, PlaceHold(a) \/ EndHold(a) PROVE TypeOK'
  BY <1>2 DEF PlaceHold, EndHold, TypeOK
<1>3. ASSUME NEW active \in BOOLEAN, SetPolicyStatus(active) PROVE TypeOK'
  BY <1>3 DEF SetPolicyStatus, TypeOK
<1>4. ASSUME NEW r \in Runs, Start(r) PROVE TypeOK'
  <2>1. RunsTyped'
    BY <1>0, <1>4, GoToType DEF Start, Steps, Activities
  <2> QED
    BY <1>4, <2>1 DEF Start, TypeOK, RunsTyped
<1>5. ASSUME NEW r \in Runs, Schedule(r) PROVE TypeOK'
  <2>1. run[r] \in RunType /\ run[r].attempt < MaxAttempts /\ run[r].step \in Activities
    BY <1>5 DEF Schedule, TypeOK
  <2>2. Task(r) \in TaskType
    BY <2>1 DEF Task, RunType, TaskType
  <2> DEFINE w == [run[r] EXCEPT !.attempt = run[r].attempt + 1, !.waiting = TRUE]
  <2>2a. run[r].attempt + 1 \in 0..MaxAttempts
    BY <2>1 DEF RunType
  <2>3. w \in RunType /\ w.waiting /\ w.step \in Activities
    BY <2>1, <2>2a DEF RunType
  <2>4. run' = [run EXCEPT ![r] = w]
    BY <1>5 DEF Schedule
  <2>5. RunsTyped'
    BY <1>0, <2>3, <2>4, RunUpdate
  <2> QED
    BY <1>5, <2>2, <2>5 DEF Schedule, TypeOK, RunsTyped
<1>6. ASSUME NEW r \in Runs, AttemptTimesOut(r) PROVE TypeOK'
  <2>1. RunsTyped'
    BY <1>0, <1>6, GiveUpType DEF AttemptTimesOut
  <2> QED
    BY <1>6, <2>1 DEF AttemptTimesOut, TypeOK, RunsTyped
<1>7. ASSUME NEW t \in tasks, Activity(t) PROVE TypeOK'
  <2>1. t \in TaskType /\ t.run \in Runs /\ t.step \in Activities
    BY DEF TypeOK, TaskType
  <2>2. CASE CheckLegalHolds(t) \/ RequestDeletionApproval(t) \/ NotifyDeletionComplete(t)
    BY <2>1, <2>2, AnswerType
       DEF CheckLegalHolds, RequestDeletionApproval, NotifyDeletionComplete, TypeOK, TaskType
  <2>3. ASSUME NEW a \in Assets, Dispose(t, a) \/ DisposeFails(t, a) PROVE TypeOK'
    BY <2>1, <2>3, LoopPastType DEF Dispose, DisposeFails, TypeOK, TaskType
  <2>4. CASE GenerateCertificate(t)
    <3>1. tasks' \subseteq TaskType
      BY <2>1, <2>4, AnswerType DEF GenerateCertificate, TaskType
    <3> QED
      BY <2>1, <2>4, <3>1 DEF GenerateCertificate, TypeOK, TaskType, CertificateType
  <2>5. CASE ActivityReturns(t)
    <3>1. CASE Current(t)
      <4>1. GoTo(t.run, NextStep(t.step, t.done), t.done)
        BY <2>5, <3>1 DEF ActivityReturns
      <4>2. RunsTyped'
        BY <1>0, <2>1, <4>1, GoToType, NextStepType DEF TaskType
      <4> QED
        BY <2>5, <4>2 DEF ActivityReturns, TypeOK, RunsTyped
    <3>2. CASE ~Current(t)
      BY <2>5, <3>2 DEF ActivityReturns, TypeOK
    <3> QED
      BY <3>1, <3>2
  <2>6. CASE ActivityThrows(t)
    <3>1. CASE Current(t)
      <4>1. RunsTyped'
        BY <1>0, <2>1, <2>6, <3>1, GiveUpType DEF ActivityThrows
      <4> QED
        BY <2>6, <4>1 DEF ActivityThrows, TypeOK, RunsTyped
    <3>2. CASE ~Current(t)
      BY <2>6, <3>2 DEF ActivityThrows, TypeOK
    <3> QED
      BY <3>1, <3>2
  <2>7. CASE WorkerLost(t)
    BY <2>7 DEF WorkerLost, TypeOK
  <2> QED
    BY <1>7, <2>2, <2>3, <2>4, <2>5, <2>6, <2>7 DEF Activity
<1> QED
  BY <1>1, <1>2, <1>3, <1>4, <1>5, <1>6, <1>7 DEF Next

-----------------------------------------------------------------------------
(* The invariant.  Its conjuncts, for the proofs of the steps.             *)

TasksInv == \A t \in tasks : TaskUnguarded(t)
RunsInv == \A r \in Runs : RunUnguarded(r)
StartInv == \A r \in Runs : Unstarted(r)
GuardedInv == \A r \in Runs : guarded[r] \subseteq held

LEMMA IInvParts ==
  IInv <=> TypeOK /\ TasksInv /\ RunsInv /\ StartInv /\ GuardedInv /\ EarlierHoldProtects
  BY DEF IInv, TasksInv, RunsInv, StartInv, GuardedInv

(* A run that goes on with an unguarded list.                              *)
LEMMA GoToUnguarded ==
  ASSUME TypeOK, RunsInv, StartInv, NEW r \in Runs, NEW step \in Steps \ {"new"},
         NEW assets, GoTo(r, step, assets),
         step # "checkLegalHolds" => \A a \in guarded[r] : a \notin assets,
         guarded' = guarded, tasks' \subseteq tasks, deletedBy' = deletedBy
  PROVE  RunsInv' /\ StartInv'
<1>1. /\ run'[r].step = step /\ run'[r].assets = assets
      /\ \A c \in Runs \ {r} : run'[c] = run[c]
  BY DEF GoTo, TypeOK
<1> QED
  BY <1>1 DEF RunsInv, RunUnguarded, StartInv, Unstarted

LEMMA GiveUpUnguarded ==
  ASSUME TypeOK, RunsInv, StartInv, NEW r \in Runs, run[r].step # "new", GiveUp(r),
         guarded' = guarded, tasks' \subseteq tasks, deletedBy' = deletedBy
  PROVE  RunsInv' /\ StartInv'
<1>1. CASE run[r].attempt < MaxAttempts
  <2>1. \A c \in Runs : run'[c].step = run[c].step /\ run'[c].assets = run[c].assets
    BY <1>1 DEF GiveUp, TypeOK, RunType
  <2> QED
    BY <2>1 DEF RunsInv, RunUnguarded, StartInv, Unstarted
<1>2. CASE ~(run[r].attempt < MaxAttempts)
  <2>1. GoTo(r, "failed", {})
    BY <1>2 DEF GiveUp
  <2> QED
    BY <2>1, GoToUnguarded DEF Steps, Closed
<1> QED
  BY <1>1, <1>2

LEMMA HoldStep ==
  ASSUME IInv, NEW a \in Assets, PlaceHold(a) \/ EndHold(a)
  PROVE  TasksInv' /\ RunsInv' /\ StartInv' /\ EarlierHoldProtects'
<1>1. /\ \A r \in Runs : guarded'[r] \subseteq guarded[r]
      /\ UNCHANGED <<run, tasks, deletedBy>>
  BY DEF PlaceHold, EndHold
<1>2. \A t \in tasks : t.run \in Runs
  BY DEF IInv, TypeOK, TaskType
<1> QED
  BY <1>1, <1>2, IInvParts
     DEF TasksInv, TaskUnguarded, RunsInv, RunUnguarded, StartInv, Unstarted, EarlierHoldProtects

LEMMA StartStep ==
  ASSUME IInv, NEW r \in Runs, Start(r)
  PROVE  TasksInv' /\ RunsInv' /\ StartInv' /\ EarlierHoldProtects'
<1>1. /\ run'[r].step = "checkLegalHolds"
      /\ \A c \in Runs \ {r} : run'[c] = run[c] /\ guarded'[c] = guarded[c]
      /\ UNCHANGED <<tasks, deletedBy>>
  BY DEF Start, GoTo, IInv, TypeOK
<1>2. /\ \A t \in tasks : t.run # r /\ t.run \in Runs
      /\ \A a \in Assets : <<r, a>> \notin deletedBy
      /\ guarded'[r] \subseteq Assets
  BY IInvParts DEF Start, StartInv, Unstarted, TypeOK, TaskType
<1> QED
  BY <1>1, <1>2, IInvParts
     DEF TasksInv, TaskUnguarded, RunsInv, RunUnguarded, StartInv, Unstarted, EarlierHoldProtects

LEMMA ScheduleStep ==
  ASSUME IInv, NEW r \in Runs, Schedule(r)
  PROVE  TasksInv' /\ RunsInv' /\ StartInv' /\ EarlierHoldProtects'
<1>1. /\ \A c \in Runs : run'[c].step = run[c].step /\ run'[c].assets = run[c].assets
      /\ UNCHANGED <<deletedBy, guarded>> /\ tasks' = tasks \union {Task(r)}
      /\ run[r].step \in Activities
  BY DEF Schedule, IInv, TypeOK, RunType
<1>2. TaskUnguarded(Task(r))
  BY <1>1, IInvParts DEF Task, TaskUnguarded, RunsInv, RunUnguarded, Activities
<1>3. TasksInv'
  BY <1>1, <1>2, IInvParts DEF TasksInv, TaskUnguarded
<1>4. RunsInv' /\ StartInv'
  BY <1>1, IInvParts DEF RunsInv, RunUnguarded, StartInv, Unstarted, Task, Activities
<1> QED
  BY <1>1, <1>3, <1>4, IInvParts DEF EarlierHoldProtects

LEMMA TimeOutStep ==
  ASSUME IInv, NEW r \in Runs, AttemptTimesOut(r)
  PROVE  TasksInv' /\ RunsInv' /\ StartInv' /\ EarlierHoldProtects'
<1>1. /\ UNCHANGED <<deletedBy, guarded>> /\ tasks' \subseteq tasks /\ GiveUp(r)
  BY DEF AttemptTimesOut
<1>2. TasksInv' /\ EarlierHoldProtects'
  BY <1>1, IInvParts DEF TasksInv, TaskUnguarded, EarlierHoldProtects
<1>3. run[r].step # "new"
  BY IInvParts DEF AttemptTimesOut, TypeOK, Activities
<1> QED
  BY <1>1, <1>2, <1>3, GiveUpUnguarded, IInvParts

(* An attempt replaced by one of the same run that is still unguarded.     *)
LEMMA UpdateUnguarded ==
  ASSUME IInv, NEW t \in tasks, NEW s, s.run = t.run, TaskUnguarded(s),
         Update(t, s), guarded' = guarded, run' = run
  PROVE  TasksInv' /\ RunsInv' /\ (deletedBy' = deletedBy => StartInv')
<1>1. TasksInv'
  BY IInvParts DEF Update, TasksInv, TaskUnguarded
<1>2. RunsInv'
  BY IInvParts DEF RunsInv, RunUnguarded
<1>3. deletedBy' = deletedBy => StartInv'
  BY IInvParts DEF Update, StartInv, Unstarted
<1> QED
  BY <1>1, <1>2, <1>3

LEMMA AnswerStep ==
  ASSUME IInv, NEW t \in tasks,
         CheckLegalHolds(t) \/ RequestDeletionApproval(t)
           \/ GenerateCertificate(t) \/ NotifyDeletionComplete(t)
  PROVE  TasksInv' /\ RunsInv' /\ StartInv' /\ EarlierHoldProtects'
<1>1. t \in TaskType /\ t.run \in Runs /\ TaskUnguarded(t)
  BY IInvParts DEF TypeOK, TaskType, TasksInv
<1>2. \A a \in guarded[t.run] : a \in held
  BY IInvParts, <1>1 DEF GuardedInv
<1>3. PICK answer : /\ Answer(t, answer)
                    /\ answer \subseteq t.todo
                    /\ \A a \in guarded[t.run] : a \notin answer
  BY <1>1, <1>2
     DEF CheckLegalHolds, RequestDeletionApproval, GenerateCertificate, NotifyDeletionComplete,
         TaskUnguarded
<1> DEFINE s == [t EXCEPT !.todo = {}, !.done = answer, !.ended = TRUE]
<1>4. s.run = t.run /\ TaskUnguarded(s)
  BY <1>1, <1>3 DEF TaskType, TaskUnguarded
<1>5. Update(t, s)
  BY <1>3 DEF Answer
<1>6. UNCHANGED <<run, guarded, deletedBy>>
  BY DEF CheckLegalHolds, RequestDeletionApproval, GenerateCertificate, NotifyDeletionComplete
<1> HIDE DEF s
<1> QED
  BY <1>4, <1>5, <1>6, UpdateUnguarded, IInvParts DEF EarlierHoldProtects

LEMMA DisposeStep ==
  ASSUME IInv, NEW t \in tasks, NEW a \in Assets, Dispose(t, a) \/ DisposeFails(t, a)
  PROVE  TasksInv' /\ RunsInv' /\ StartInv' /\ EarlierHoldProtects'
<1>1. t \in TaskType /\ t.run \in Runs /\ TaskUnguarded(t) /\ run[t.run].step # "new"
  BY IInvParts DEF TypeOK, TaskType, TasksInv, StartInv, Unstarted
<1>2. a \notin guarded[t.run]
  BY <1>1 DEF Dispose, DisposeFails, TaskUnguarded
<1>3. /\ deletedBy' = deletedBy \/ deletedBy' = deletedBy \union {<<t.run, a>>}
      /\ UNCHANGED <<run, guarded>>
      /\ t.step = "executeDisposal"
  BY DEF Dispose, DisposeFails
<1>4. PICK done : LoopPast(t, a, done) /\ done \subseteq t.done \union {a}
  BY DEF Dispose, DisposeFails
<1> DEFINE s == [t EXCEPT !.todo = t.todo \ {a}, !.done = done, !.ended = t.todo = {a}]
<1>5. s.run = t.run /\ s.todo \subseteq t.todo /\ s.done = done /\ s.step = t.step
  BY <1>1 DEF TaskType
<1>6. Update(t, s)
  BY <1>4 DEF LoopPast
<1> HIDE DEF s
<1>7. TaskUnguarded(s)
  BY <1>1, <1>2, <1>3, <1>4, <1>5 DEF TaskUnguarded
<1>8. TasksInv' /\ RunsInv'
  BY <1>3, <1>5, <1>6, <1>7, UpdateUnguarded
<1>9. StartInv'
  BY <1>1, <1>3, <1>5, <1>6, IInvParts DEF Update, StartInv, Unstarted
<1>10. EarlierHoldProtects'
  BY <1>2, <1>3, IInvParts DEF EarlierHoldProtects
<1> QED
  BY <1>8, <1>9, <1>10

LEMMA EndStep ==
  ASSUME IInv, NEW t \in tasks, ActivityReturns(t) \/ ActivityThrows(t) \/ WorkerLost(t)
  PROVE  TasksInv' /\ RunsInv' /\ StartInv' /\ EarlierHoldProtects'
<1>1. t \in TaskType /\ t.run \in Runs /\ TaskUnguarded(t) /\ run[t.run].step # "new"
  BY IInvParts DEF TypeOK, TaskType, TasksInv, StartInv, Unstarted
<1>2. tasks' \subseteq tasks /\ UNCHANGED <<guarded, deletedBy>>
  BY DEF ActivityReturns, ActivityThrows, WorkerLost
<1>3. TasksInv' /\ EarlierHoldProtects'
  BY <1>2, IInvParts DEF TasksInv, TaskUnguarded, EarlierHoldProtects
<1>4. RunsInv' /\ StartInv'
  <2>1. CASE UNCHANGED run
    BY <1>2, <2>1, IInvParts DEF RunsInv, RunUnguarded, StartInv, Unstarted
  <2>2. CASE GiveUp(t.run)
    BY <1>1, <1>2, <2>2, GiveUpUnguarded, IInvParts
  <2>3. CASE ActivityReturns(t) /\ GoTo(t.run, NextStep(t.step, t.done), t.done)
    <3>1. NextStep(t.step, t.done) \in Steps \ {"new"}
      BY <1>1, NextStepType DEF TaskType
    <3>2. \A a \in guarded[t.run] : a \notin t.done
      BY <1>1, <2>3 DEF ActivityReturns, TaskUnguarded
    <3> QED
      BY <1>1, <1>2, <2>3, <3>1, <3>2, GoToUnguarded, IInvParts
  <2> QED
    BY <2>1, <2>2, <2>3 DEF ActivityReturns, ActivityThrows, WorkerLost
<1> QED
  BY <1>3, <1>4

LEMMA StepIInv == IInv /\ [Next]_vars => IInv'
<1> SUFFICES ASSUME IInv, [Next]_vars PROVE IInv'
  OBVIOUS
<1>1. TypeOK'
  BY StepType, IInvParts
<1>2. TasksInv' /\ RunsInv' /\ StartInv' /\ EarlierHoldProtects'
  <2>1. CASE UNCHANGED vars \/ \E active \in BOOLEAN : SetPolicyStatus(active)
    BY <2>1, IInvParts
       DEF vars, SetPolicyStatus, TasksInv, TaskUnguarded, RunsInv, RunUnguarded, StartInv,
           Unstarted, EarlierHoldProtects
  <2>2. ASSUME NEW t \in tasks, Activity(t)
        PROVE  TasksInv' /\ RunsInv' /\ StartInv' /\ EarlierHoldProtects'
    BY <2>2, AnswerStep, DisposeStep, EndStep DEF Activity
  <2> QED
    BY <2>1, <2>2, HoldStep, StartStep, ScheduleStep, TimeOutStep DEF Next
<1>3. GuardedInv'
  <2>1. ASSUME NEW a \in Assets, PlaceHold(a) \/ EndHold(a) PROVE GuardedInv'
    BY <2>1, IInvParts DEF PlaceHold, EndHold, GuardedInv, TypeOK
  <2>2. ASSUME NEW r \in Runs, Start(r) PROVE GuardedInv'
    BY <2>2, IInvParts DEF Start, GuardedInv, TypeOK
  <2>3. CASE UNCHANGED <<held, guarded>>
    BY <2>3, IInvParts DEF GuardedInv
  <2> QED
    BY <2>1, <2>2, <2>3
       DEF Next, vars, SetPolicyStatus, Schedule, AttemptTimesOut, Activity, CheckLegalHolds,
           RequestDeletionApproval, Dispose, DisposeFails, GenerateCertificate,
           NotifyDeletionComplete, ActivityReturns, ActivityThrows, WorkerLost
<1> QED
  BY <1>1, <1>2, <1>3 DEF IInv, TasksInv, RunsInv, StartInv, GuardedInv

LEMMA IInvAlways == Spec => []IInv
  BY InitIInv, StepIInv, PTL DEF Spec

(* Every reachable state is well typed: no activity has more attempts than *)
(* its retry policy allows.                                                *)
THEOREM TypeCorrect == Spec => []TypeOK
  BY IInvAlways, PTL DEF IInv

(* A legal hold that is in place when dataDeletionWorkflow starts, and     *)
(* stays, is respected by all of its attempts, the abandoned included.     *)
THEOREM EarlierHoldRespected == Spec => []EarlierHoldProtects
  BY IInvAlways, PTL DEF IInv

-----------------------------------------------------------------------------
(* What deletions and certificates tell of their run.                      *)

(* Where a run has deleted nothing, and where it has no certificate.       *)
Undisposed ==
  {"new", "checkLegalHolds", "requestDeletionApproval", "all_assets_on_hold", "approval_denied"}
Uncertified == Undisposed \union {"executeDisposal"}

Deleted(r) == {a \in Assets : <<r, a>> \in deletedBy}

(* Attempts, deletions and certificates are never ahead of their run.      *)
OrderInv ==
  /\ \A t \in tasks : t.step = "executeDisposal" => run[t.run].step \notin Undisposed
  /\ \A t \in tasks : t.step = "generateCertificate" => run[t.run].step \notin Uncertified
  /\ \A r \in Runs : Deleted(r) # {} => run[r].step \notin Undisposed
  /\ \A c \in certificates : run[c.run].step \notin Uncertified

(* What is reported as deleted was deleted: by an attempt of the disposal, *)
(* in the list for the certificate, in an attempt to write it, in itself.  *)
TrueInv ==
  /\ \A t \in tasks : t.step = "executeDisposal" => t.done \subseteq Deleted(t.run)
  /\ \A t \in tasks : t.step = "generateCertificate" => t.todo \subseteq Deleted(t.run)
  /\ \A r \in Runs : run[r].step = "generateCertificate" => run[r].assets \subseteq Deleted(r)
  /\ \A c \in certificates : c.assets \subseteq Deleted(c.run)

(* And what was deleted is reported, unless an attempt of executeDisposal  *)
(* was given up: the one attempt there is reports all of it.               *)
DisposalComplete(r) ==
  /\ \A t \in tasks : t.run = r /\ t.step = "executeDisposal" =>
       run[r].step = "executeDisposal" /\ run[r].waiting /\ Deleted(r) \subseteq t.done
  /\ \A t, s \in tasks :
       t.run = r /\ t.step = "executeDisposal" /\ s.run = r /\ s.step = "executeDisposal" => t = s
  /\ run[r].step = "executeDisposal" /\ ~run[r].waiting => Deleted(r) = {}

ReportComplete(r) ==
  /\ run[r].step = "generateCertificate" => Deleted(r) \subseteq run[r].assets
  /\ \A t \in tasks : t.run = r /\ t.step = "generateCertificate" /\ ~t.ended =>
       Deleted(r) \subseteq t.todo
  /\ \A c \in certificates : c.run = r => Deleted(r) \subseteq c.assets

CompleteInv == \A r \in Runs \ repeated : DisposalComplete(r) /\ ReportComplete(r)

LEMMA GoToRun ==
  ASSUME TypeOK, NEW r \in Runs, NEW step, NEW assets, GoTo(r, step, assets)
  PROVE  /\ run'[r].step = step /\ run'[r].assets = assets /\ ~run'[r].waiting
         /\ \A c \in Runs \ {r} : run'[c] = run[c]
  BY DEF GoTo, TypeOK

LEMMA GiveUpRun ==
  ASSUME TypeOK, NEW r \in Runs, GiveUp(r)
  PROVE  /\ \/ run'[r].step = run[r].step /\ run'[r].assets = run[r].assets
            \/ run'[r].step = "failed"
         /\ ~run'[r].waiting
         /\ \A c \in Runs \ {r} : run'[c] = run[c]
<1>1. CASE run[r].attempt < MaxAttempts
  BY <1>1 DEF GiveUp, TypeOK, RunType
<1>2. CASE ~(run[r].attempt < MaxAttempts)
  BY <1>2, GoToRun DEF GiveUp
<1> QED
  BY <1>1, <1>2

LEMMA ScheduleRun ==
  ASSUME TypeOK, NEW r \in Runs, Schedule(r)
  PROVE  /\ run'[r].step = run[r].step /\ run'[r].assets = run[r].assets /\ run'[r].waiting
         /\ \A c \in Runs \ {r} : run'[c] = run[c]
  BY DEF Schedule, TypeOK, RunType

(* How a step moves a run: not at all, to failure, from its start, or to   *)
(* where the answer of its current attempt sends it.                       *)
Moved(r) ==
  \/ run'[r].step = run[r].step /\ run'[r].assets = run[r].assets
  \/ run'[r].step = "failed"
  \/ run[r].step = "new" /\ run'[r].step = "checkLegalHolds"
  \/ \E t \in tasks :
       /\ ActivityReturns(t) /\ t.run = r /\ t.step = run[r].step
       /\ run'[r].step = NextStep(t.step, t.done) /\ run'[r].assets = t.done

LEMMA RunsMove == ASSUME TypeOK, [Next]_vars PROVE \A r \in Runs : Moved(r)
<1>1. CASE UNCHANGED run
  BY <1>1 DEF Moved
<1>2. ASSUME NEW r \in Runs, Start(r) PROVE \A c \in Runs : Moved(c)
  BY <1>2, GoToRun DEF Start, Moved
<1>3. ASSUME NEW r \in Runs, Schedule(r) PROVE \A c \in Runs : Moved(c)
  BY <1>3, ScheduleRun DEF Moved
<1>4. ASSUME NEW r \in Runs, GiveUp(r) PROVE \A c \in Runs : Moved(c)
  BY <1>4, GiveUpRun DEF Moved
<1>5. ASSUME NEW t \in tasks, ActivityReturns(t) PROVE \A c \in Runs : Moved(c)
  <2>1. t.run \in Runs
    BY DEF TypeOK, TaskType
  <2>2. CASE Current(t)
    <3>1. t.step = run[t.run].step /\ GoTo(t.run, NextStep(t.step, t.done), t.done)
      BY <1>5, <2>2 DEF ActivityReturns, Current
    <3>2. /\ run'[t.run].step = NextStep(t.step, t.done) /\ run'[t.run].assets = t.done
          /\ \A c \in Runs \ {t.run} : run'[c] = run[c]
      BY <2>1, <3>1, GoToRun
    <3> QED
      BY <1>5, <3>1, <3>2 DEF Moved
  <2>3. CASE ~Current(t)
    BY <1>1, <1>5, <2>3 DEF ActivityReturns
  <2> QED
    BY <2>2, <2>3
<1>6. ASSUME NEW t \in tasks, Activity(t) PROVE \A c \in Runs : Moved(c)
  <2>1. t.run \in Runs
    BY DEF TypeOK, TaskType
  <2>2. UNCHANGED run \/ GiveUp(t.run) \/ ActivityReturns(t)
    BY <1>6
       DEF Activity, CheckLegalHolds, RequestDeletionApproval, Dispose, DisposeFails,
           GenerateCertificate, NotifyDeletionComplete, ActivityThrows, WorkerLost
  <2> QED
    BY <1>1, <1>4, <1>5, <2>1, <2>2
<1> QED
  BY <1>1, <1>2, <1>3, <1>4, <1>6
     DEF Next, vars, PlaceHold, EndHold, SetPolicyStatus, AttemptTimesOut

(* A run never goes back behind its approval, nor behind its disposal.     *)
LEMMA RunsGoOn ==
  ASSUME TypeOK, [Next]_vars, NEW r \in Runs
  PROVE  /\ run[r].step \notin Undisposed => run'[r].step \notin Undisposed
         /\ run[r].step \notin Uncertified => run'[r].step \notin Uncertified
<1>1. Moved(r)
  BY RunsMove
<1>2. ASSUME NEW answer
      PROVE  /\ run[r].step \notin Undisposed => NextStep(run[r].step, answer) \notin Undisposed
             /\ run[r].step \notin Uncertified => NextStep(run[r].step, answer) \notin Uncertified
  BY DEF NextStep, Undisposed, Uncertified
<1> QED
  BY <1>1, <1>2 DEF Moved, Undisposed, Uncertified

(* Where attempts, deletions and certificates come from.                   *)
LEMMA TasksComeFrom ==
  ASSUME TypeOK, [Next]_vars, NEW s \in tasks'
  PROVE  \/ \E t \in tasks : s.run = t.run /\ s.step = t.step
         \/ \E r \in Runs : Schedule(r) /\ s = Task(r)
<1>1. CASE tasks' \subseteq tasks
  BY <1>1
<1>2. ASSUME NEW r \in Runs, Schedule(r)
      PROVE  s \in tasks \/ s = Task(r)
  BY <1>2 DEF Schedule
<1>3. ASSUME NEW t \in tasks, NEW assets, Answer(t, assets)
      PROVE  \E q \in tasks : s.run = q.run /\ s.step = q.step
  <2>1. t \in TaskType
    BY DEF TypeOK
  <2>2. s \in tasks \/ s = [t EXCEPT !.todo = {}, !.done = assets, !.ended = TRUE]
    BY <1>3 DEF Answer, Update
  <2> QED
    BY <2>1, <2>2 DEF TaskType
<1>4. ASSUME NEW t \in tasks, NEW a, NEW done, LoopPast(t, a, done)
      PROVE  \E q \in tasks : s.run = q.run /\ s.step = q.step
  <2>1. t \in TaskType
    BY DEF TypeOK
  <2>2. s \in tasks \/ s = [t EXCEPT !.todo = t.todo \ {a}, !.done = done, !.ended = t.todo = {a}]
    BY <1>4 DEF LoopPast, Update
  <2> QED
    BY <2>1, <2>2 DEF TaskType
<1>5. ASSUME NEW t \in tasks, Activity(t)
      PROVE  \E q \in tasks : s.run = q.run /\ s.step = q.step
  BY <1>1, <1>3, <1>4, <1>5
     DEF Activity, CheckLegalHolds, RequestDeletionApproval, Dispose, DisposeFails,
         GenerateCertificate, NotifyDeletionComplete, ActivityReturns, ActivityThrows, WorkerLost
<1> QED
  BY <1>1, <1>2, <1>5
     DEF Next, vars, PlaceHold, EndHold, SetPolicyStatus, Start, AttemptTimesOut

LEMMA DeletionsComeFrom ==
  ASSUME [Next]_vars, NEW r \in Runs, NEW a \in Assets, <<r, a>> \in deletedBy'
  PROVE  <<r, a>> \in deletedBy \/ \E t \in tasks : t.run = r /\ Dispose(t, a)
<1>1. CASE UNCHANGED deletedBy
  BY <1>1
<1>2. ASSUME NEW t \in tasks, NEW b \in Assets, Dispose(t, b)
      PROVE  <<r, a>> \in deletedBy \/ (t.run = r /\ b = a)
  BY <1>2 DEF Dispose
<1>3. ASSUME NEW t \in tasks, Activity(t), \A b \in Assets : ~Dispose(t, b)
      PROVE  UNCHANGED deletedBy
  BY <1>3
     DEF Activity, CheckLegalHolds, RequestDeletionApproval, DisposeFails,
         GenerateCertificate, NotifyDeletionComplete, ActivityReturns, ActivityThrows, WorkerLost
<1> QED
  BY <1>1, <1>2, <1>3
     DEF Next, vars, PlaceHold, EndHold, SetPolicyStatus, Start, Schedule, AttemptTimesOut

LEMMA CertificatesComeFrom ==
  ASSUME [Next]_vars, NEW c \in certificates'
  PROVE  \/ c \in certificates
         \/ \E t \in tasks : GenerateCertificate(t) /\ c.run = t.run /\ c.assets = t.todo
<1>1. CASE UNCHANGED certificates
  BY <1>1
<1>2. ASSUME NEW t \in tasks, GenerateCertificate(t)
      PROVE  c \in certificates \/ (c.run = t.run /\ c.assets = t.todo)
  BY <1>2 DEF GenerateCertificate
<1>3. ASSUME NEW t \in tasks, Activity(t), ~GenerateCertificate(t)
      PROVE  UNCHANGED certificates
  BY <1>3
     DEF Activity, CheckLegalHolds, RequestDeletionApproval, Dispose, DisposeFails,
         NotifyDeletionComplete, ActivityReturns, ActivityThrows, WorkerLost
<1> QED
  BY <1>1, <1>2, <1>3
     DEF Next, vars, PlaceHold, EndHold, SetPolicyStatus, Start, Schedule, AttemptTimesOut

LEMMA StepOrder == ASSUME TypeOK, OrderInv, [Next]_vars PROVE OrderInv'
<1>1. \A t \in tasks : t.run \in Runs
  BY DEF TypeOK, TaskType
<1>2. ASSUME NEW s \in tasks'
      PROVE  /\ s.step = "executeDisposal" => run'[s.run].step \notin Undisposed
             /\ s.step = "generateCertificate" => run'[s.run].step \notin Uncertified
  <2>1. CASE \E t \in tasks : s.run = t.run /\ s.step = t.step
    BY <1>1, <2>1, RunsGoOn DEF OrderInv
  <2>2. ASSUME NEW r \in Runs, Schedule(r), s = Task(r)
        PROVE  /\ s.run = r /\ s.step = run'[r].step
    BY <2>2, ScheduleRun DEF Task
  <2> QED
    BY <2>1, <2>2, TasksComeFrom DEF Undisposed, Uncertified
<1>3. ASSUME NEW r \in Runs, Deleted(r)' # {} PROVE run'[r].step \notin Undisposed
  <2>1. PICK a \in Assets : <<r, a>> \in deletedBy'
    BY <1>3 DEF Deleted
  <2>2. run[r].step \notin Undisposed
    BY <2>1, DeletionsComeFrom DEF OrderInv, Deleted, Dispose
  <2> QED
    BY <2>2, RunsGoOn
<1>4. ASSUME NEW c \in certificates' PROVE run'[c.run].step \notin Uncertified
  <2>1. c.run \in Runs /\ run[c.run].step \notin Uncertified
    BY <1>1, CertificatesComeFrom DEF OrderInv, GenerateCertificate, TypeOK, CertificateType
  <2> QED
    BY <2>1, RunsGoOn
<1> QED
  BY <1>2, <1>3, <1>4 DEF OrderInv

(* Every attempt, as it is after a step: as before, one just scheduled, or *)
(* one that an activity has worked on.                                     *)
LEMMA AnswerEffect ==
  ASSUME TypeOK, NEW t \in tasks, NEW assets, Answer(t, assets), NEW s \in tasks', s \notin tasks
  PROVE  s.run = t.run /\ s.step = t.step /\ s.todo = {} /\ s.done = assets /\ s.ended
<1>1. t \in TaskType
  BY DEF TypeOK
<1>2. s = [t EXCEPT !.todo = {}, !.done = assets, !.ended = TRUE]
  BY DEF Answer, Update
<1> QED
  BY <1>1, <1>2 DEF TaskType

LEMMA LoopPastEffect ==
  ASSUME TypeOK, NEW t \in tasks, NEW a, NEW done, LoopPast(t, a, done),
         NEW s \in tasks', s \notin tasks \ {t}
  PROVE  s.run = t.run /\ s.step = t.step /\ s.done = done
<1>1. t \in TaskType
  BY DEF TypeOK
<1>2. s = [t EXCEPT !.todo = t.todo \ {a}, !.done = done, !.ended = t.todo = {a}]
  BY DEF LoopPast, Update
<1> QED
  BY <1>1, <1>2 DEF TaskType

LEMMA DeletedGrows == ASSUME [Next]_vars, NEW r PROVE Deleted(r) \subseteq Deleted(r)'
  BY DEF Deleted, Next, vars, PlaceHold, EndHold, SetPolicyStatus, Start, Schedule,
         AttemptTimesOut, Activity, CheckLegalHolds, RequestDeletionApproval, Dispose,
         DisposeFails, GenerateCertificate, NotifyDeletionComplete, ActivityReturns,
         ActivityThrows, WorkerLost

TaskTrue(t) ==
  /\ t.step = "executeDisposal" => t.done \subseteq Deleted(t.run)
  /\ t.step = "generateCertificate" => t.todo \subseteq Deleted(t.run)

LEMMA StepTrue == ASSUME TypeOK, TrueInv, [Next]_vars PROVE TrueInv'
<1>0. \A t \in tasks : TaskTrue(t) /\ t.run \in Runs
  BY DEF TrueInv, TaskTrue, TypeOK, TaskType
<1>1. ASSUME NEW s \in tasks, s \in tasks' PROVE TaskTrue(s)'
  BY <1>0, <1>1, DeletedGrows DEF TaskTrue
<1>2. ASSUME NEW t \in tasks, Activity(t), NEW s \in tasks', s \notin tasks
      PROVE  TaskTrue(s)'
  <2>1. ASSUME NEW assets, Answer(t, assets), t.step # "executeDisposal"
        PROVE  TaskTrue(s)'
    <3>1. s.step = t.step /\ s.todo = {}
      BY <1>2, <2>1, AnswerEffect
    <3> QED
      BY <2>1, <3>1 DEF TaskTrue
  <2>2. ASSUME NEW a \in Assets, Dispose(t, a)
        PROVE  TaskTrue(s)'
    <3>1. /\ s.run = t.run /\ s.step = "executeDisposal" /\ s.done = t.done \union {a}
          /\ t.step = "executeDisposal"
      BY <1>2, <2>2, LoopPastEffect DEF Dispose
    <3>2. a \in Deleted(t.run)'
      BY <1>0, <2>2 DEF Dispose, Deleted
    <3>3. t.done \subseteq Deleted(t.run)'
      BY <1>0, <3>1, DeletedGrows DEF TaskTrue
    <3> QED
      BY <3>1, <3>2, <3>3 DEF TaskTrue
  <2>3. ASSUME NEW a \in Assets, DisposeFails(t, a)
        PROVE  TaskTrue(s)'
    <3>1. /\ s.run = t.run /\ s.step = "executeDisposal" /\ s.done = t.done
          /\ t.step = "executeDisposal"
      BY <1>2, <2>3, LoopPastEffect DEF DisposeFails
    <3>2. t.done \subseteq Deleted(t.run)'
      BY <1>0, <3>1, DeletedGrows DEF TaskTrue
    <3> QED
      BY <3>1, <3>2 DEF TaskTrue
  <2> QED
    BY <1>2, <2>1, <2>2, <2>3
       DEF Activity, CheckLegalHolds, RequestDeletionApproval, GenerateCertificate,
           NotifyDeletionComplete, ActivityReturns, ActivityThrows, WorkerLost
<1>3. ASSUME NEW r \in Runs, Schedule(r), NEW s \in tasks', s \notin tasks
      PROVE  TaskTrue(s)'
  <2>1. s = Task(r)
    BY <1>3 DEF Schedule
  <2>2. s.run = r /\ s.step = run[r].step /\ s.todo = run[r].assets /\ s.done = {}
    BY <2>1 DEF Task
  <2>3. s.step = "generateCertificate" => s.todo \subseteq Deleted(r)
    BY <2>2 DEF TrueInv
  <2> QED
    BY <2>2, <2>3, DeletedGrows DEF TaskTrue
<1>4. \A s \in tasks' : TaskTrue(s)'
  <2> SUFFICES ASSUME NEW s \in tasks', s \notin tasks PROVE TaskTrue(s)'
    BY <1>1
  <2> QED
    BY <1>2, <1>3
       DEF Next, vars, PlaceHold, EndHold, SetPolicyStatus, Start, AttemptTimesOut
<1>5. ASSUME NEW r \in Runs, run'[r].step = "generateCertificate"
      PROVE  run'[r].assets \subseteq Deleted(r)'
  <2>1. CASE run[r].step = "generateCertificate" /\ run'[r].assets = run[r].assets
    BY <2>1, DeletedGrows DEF TrueInv
  <2>2. ASSUME NEW t \in tasks, t.run = r, run'[r].assets = t.done,
               NextStep(t.step, t.done) = "generateCertificate"
        PROVE  run'[r].assets \subseteq Deleted(r)'
    <3>1. t.step = "executeDisposal"
      BY <2>2 DEF NextStep, TypeOK, TaskType, Activities
    <3> QED
      BY <1>0, <2>2, <3>1, DeletedGrows DEF TaskTrue
  <2> QED
    BY <1>5, <2>1, <2>2, RunsMove DEF Moved
<1>6. ASSUME NEW c \in certificates' PROVE c.assets \subseteq Deleted(c.run)'
  <2>1. c.assets \subseteq Deleted(c.run)
    BY <1>0, CertificatesComeFrom DEF TrueInv, TaskTrue, GenerateCertificate
  <2> QED
    BY <2>1, DeletedGrows
<1> QED
  BY <1>4, <1>5, <1>6 DEF TrueInv, TaskTrue

Complete(r) == DisposalComplete(r) /\ ReportComplete(r)

(* A step that adds neither attempts nor deletions nor certificates to a   *)
(* run, and leaves the run where it is.                                    *)
LEMMA StaysComplete ==
  ASSUME NEW r \in Runs, Complete(r), run'[r] = run[r], Deleted(r)' = Deleted(r),
         \A t \in tasks' : t.run = r => t \in tasks,
         \A c \in certificates' : c.run = r => c \in certificates
  PROVE  Complete(r)'
  BY DEF Complete, DisposalComplete, ReportComplete

(* One whose disposal is not under way, if it adds no attempts.            *)
LEMMA MovesComplete ==
  ASSUME NEW r \in Runs, Complete(r), Deleted(r)' = Deleted(r),
         \A t \in tasks' : t.run = r => t \in tasks /\ t.step # "executeDisposal",
         certificates' = certificates,
         run'[r].step = "executeDisposal" => Deleted(r) = {},
         run'[r].step = "generateCertificate" => Deleted(r) \subseteq run'[r].assets
  PROVE  Complete(r)'
  BY DEF Complete, DisposalComplete, ReportComplete

LEMMA ScheduleComplete ==
  ASSUME TypeOK, OrderInv, NEW r \in Runs, Complete(r), Schedule(r)
  PROVE  Complete(r)'
<1>1. /\ run'[r].step = run[r].step /\ run'[r].assets = run[r].assets /\ run'[r].waiting
      /\ tasks' = tasks \union {Task(r)} /\ Deleted(r)' = Deleted(r)
      /\ certificates' = certificates /\ ~run[r].waiting
  BY ScheduleRun DEF Schedule, Deleted
<1> DEFINE s == Task(r)
<1>2. s.run = r /\ s.step = run[r].step /\ s.todo = run[r].assets
  BY DEF Task
<1> HIDE DEF s
<1>3. \A t \in tasks : t.run = r => t.step # "executeDisposal"
  BY <1>1 DEF Complete, DisposalComplete
<1>4. run[r].step = "executeDisposal" => Deleted(r) = {}
  BY <1>1 DEF Complete, DisposalComplete
<1>5. DisposalComplete(r)'
  BY <1>1, <1>2, <1>3, <1>4 DEF DisposalComplete, s
<1>6. ReportComplete(r)'
  BY <1>1, <1>2 DEF Complete, ReportComplete, s
<1> QED
  BY <1>5, <1>6 DEF Complete

LEMMA DisposeComplete ==
  ASSUME TypeOK, OrderInv, NEW t \in tasks, NEW a \in Assets, Complete(t.run),
         Dispose(t, a) \/ DisposeFails(t, a)
  PROVE  \A r \in Runs : r = t.run => Complete(r)'
<1> SUFFICES ASSUME NEW r \in Runs, r = t.run PROVE Complete(r)'
  OBVIOUS
<1>1. /\ t.step = "executeDisposal" /\ run' = run /\ certificates' = certificates
      /\ \A s \in tasks : s.run = r /\ s.step = "executeDisposal" => s = t
      /\ run[r].step = "executeDisposal" /\ run[r].waiting
      /\ Deleted(r) \subseteq t.done
  BY DEF Dispose, DisposeFails, Complete, DisposalComplete
<1>2. /\ \A s \in tasks : s.step = "generateCertificate" => s.run # r
      /\ \A c \in certificates : c.run # r
  BY <1>1 DEF OrderInv, Uncertified
<1>3. PICK done : LoopPast(t, a, done) /\ Deleted(r)' \subseteq done
  BY <1>1 DEF Dispose, DisposeFails, Deleted
<1>4. \A s \in tasks' : s \in tasks \ {t} \/ (s.run = r /\ s.step = t.step /\ s.done = done)
  BY <1>3, LoopPastEffect
<1>5. \A s, q \in tasks' : s \notin tasks \ {t} /\ q \notin tasks \ {t} => s = q
  BY <1>3 DEF LoopPast, Update
<1>6. DisposalComplete(r)'
  BY <1>1, <1>3, <1>4, <1>5 DEF DisposalComplete
<1>7. ReportComplete(r)'
  BY <1>1, <1>2, <1>4 DEF ReportComplete
<1> QED
  BY <1>6, <1>7 DEF Complete

LEMMA AnswerComplete ==
  ASSUME TypeOK, NEW t \in tasks, NEW assets, Answer(t, assets), t.step # "executeDisposal",
         UNCHANGED <<run, deletedBy>>, NEW r \in Runs, Complete(r),
         \A c \in certificates' : c \in certificates \/ (c.run = t.run /\ c.assets = t.todo),
         certificates' = certificates \/ (t.step = "generateCertificate" /\ ~t.ended)
  PROVE  Complete(r)'
<1>1. Deleted(r)' = Deleted(r)
  BY DEF Deleted
<1>2. \A s \in tasks' : s \in tasks \/ (s.step # "executeDisposal" /\ s.ended)
  BY AnswerEffect
<1>3. DisposalComplete(r)'
  BY <1>1, <1>2 DEF Complete, DisposalComplete
<1>4. ReportComplete(r)'
  BY <1>1, <1>2 DEF Complete, ReportComplete
<1> QED
  BY <1>3, <1>4 DEF Complete

LEMMA ReturnComplete ==
  ASSUME TypeOK, OrderInv, NEW t \in tasks, ActivityReturns(t), NEW r \in Runs, Complete(r)
  PROVE  Complete(r)'
<1>1. /\ tasks' = tasks \ {t} /\ Deleted(r)' = Deleted(r) /\ certificates' = certificates
      /\ t.run \in Runs /\ t.step \in Activities
  BY DEF ActivityReturns, Deleted, TypeOK, TaskType
<1>2. CASE run'[r] = run[r]
  BY <1>1, <1>2, StaysComplete
<1>3. CASE r = t.run /\ Current(t)
  <2>1. /\ run[r].step = t.step /\ run'[r].step = NextStep(t.step, t.done)
        /\ run'[r].assets = t.done
    BY <1>1, <1>3, GoToRun DEF ActivityReturns, Current
  <2>2. \A s \in tasks' : s.run = r => s \in tasks /\ s.step # "executeDisposal"
    BY <1>1, <1>3, <2>1 DEF Complete, DisposalComplete
  <2>3. run'[r].step = "executeDisposal" => Deleted(r) = {}
    BY <1>1, <2>1 DEF NextStep, OrderInv, Undisposed, Activities
  <2>4. run'[r].step = "generateCertificate" => Deleted(r) \subseteq run'[r].assets
    BY <1>1, <1>3, <2>1 DEF NextStep, Activities, Complete, DisposalComplete
  <2> QED
    BY <1>1, <2>2, <2>3, <2>4, MovesComplete
<1> QED
  BY <1>1, <1>2, <1>3, GoToRun DEF ActivityReturns

(* An attempt given up, but not of the disposal.                           *)
LEMMA GiveUpComplete ==
  ASSUME TypeOK, NEW r \in Runs, GiveUp(r), run[r].step # "executeDisposal",
         tasks' \subseteq tasks, UNCHANGED <<deletedBy, certificates>>,
         NEW c \in Runs, Complete(c)
  PROVE  Complete(c)'
<1>1. Deleted(c)' = Deleted(c)
  BY DEF Deleted
<1>2. CASE c # r
  BY <1>1, <1>2, GiveUpRun, StaysComplete
<1>3. CASE c = r
  <2>1. \A s \in tasks' : s.run = r => s \in tasks /\ s.step # "executeDisposal"
    BY <1>3 DEF Complete, DisposalComplete
  <2>2. run'[r].step = "generateCertificate" => Deleted(r) \subseteq run'[r].assets
    BY <1>3, GiveUpRun DEF Complete, ReportComplete
  <2> QED
    BY <1>1, <1>3, <2>1, <2>2, GiveUpRun, MovesComplete
<1> QED
  BY <1>2, <1>3

LEMMA StepComplete ==
  ASSUME TypeOK, OrderInv, CompleteInv, [Next]_vars
  PROVE  CompleteInv'
<1> SUFFICES ASSUME NEW c \in Runs, c \notin repeated' PROVE Complete(c)'
  BY DEF CompleteInv, Complete
<1>1. repeated \subseteq repeated'
  BY DEF Next, vars, PlaceHold, EndHold, SetPolicyStatus, Start, Schedule, AttemptTimesOut,
         Activity, CheckLegalHolds, RequestDeletionApproval, Dispose, DisposeFails,
         GenerateCertificate, NotifyDeletionComplete, ActivityReturns, ActivityThrows, WorkerLost
<1>2. Complete(c)
  BY <1>1 DEF CompleteInv, Complete
<1>3. CASE UNCHANGED <<run, tasks, deletedBy, certificates>>
  BY <1>2, <1>3, StaysComplete DEF Deleted
<1>4. ASSUME NEW r \in Runs, Start(r) PROVE Complete(c)'
  <2>1. /\ Deleted(c)' = Deleted(c) /\ tasks' = tasks /\ certificates' = certificates
        /\ run[r].step = "new" /\ run'[r].step = "checkLegalHolds"
        /\ \A q \in Runs \ {r} : run'[q] = run[q]
    BY <1>4, GoToRun DEF Start, Deleted
  <2>2. CASE c = r
    <3>1. \A t \in tasks : t.run = r => t.step # "executeDisposal"
      BY <1>2, <2>1, <2>2 DEF Complete, DisposalComplete
    <3> QED
      BY <1>2, <2>1, <2>2, <3>1, MovesComplete
  <2> QED
    BY <1>2, <2>1, <2>2, StaysComplete
<1>5. ASSUME NEW r \in Runs, Schedule(r) PROVE Complete(c)'
  <2>1. CASE c # r
    <3>1. /\ Deleted(c)' = Deleted(c) /\ certificates' = certificates
          /\ tasks' = tasks \union {Task(r)} /\ Task(r).run = r
      BY <1>5 DEF Schedule, Task, Deleted
    <3>2. \A t \in tasks' : t.run = c => t \in tasks
      BY <2>1, <3>1
    <3> QED
      BY <1>2, <1>5, <2>1, <3>1, <3>2, ScheduleRun, StaysComplete
  <2> QED
    BY <1>2, <1>5, <2>1, ScheduleComplete
<1>6. ASSUME NEW r \in Runs, AttemptTimesOut(r) PROVE Complete(c)'
  <2>1. /\ GiveUp(r) /\ tasks' \subseteq tasks /\ UNCHANGED <<deletedBy, certificates>>
        /\ run[r].step = "executeDisposal" => c # r
    BY <1>6 DEF AttemptTimesOut
  <2>2. CASE run[r].step # "executeDisposal"
    BY <1>2, <2>1, <2>2, GiveUpComplete
  <2>3. CASE run[r].step = "executeDisposal"
    BY <1>2, <2>1, <2>3, GiveUpRun, StaysComplete DEF Deleted
  <2> QED
    BY <2>2, <2>3
<1>7. ASSUME NEW t \in tasks, Activity(t) PROVE Complete(c)'
  <2>1. t.run \in Runs
    BY DEF TypeOK, TaskType
  <2>2. ASSUME NEW a \in Assets, Dispose(t, a) \/ DisposeFails(t, a) PROVE Complete(c)'
    <3>1. CASE c = t.run
      BY <1>2, <2>2, <3>1, DisposeComplete
    <3>2. CASE c # t.run
      <4>1. PICK done : LoopPast(t, a, done)
        BY <2>2 DEF Dispose, DisposeFails
      <4>2. \A s \in tasks' : s.run = c => s \in tasks
        BY <3>2, <4>1, LoopPastEffect
      <4>3. run' = run /\ certificates' = certificates /\ Deleted(c)' = Deleted(c)
        BY <2>2, <3>2 DEF Dispose, DisposeFails, Deleted
      <4> QED
        BY <1>2, <4>2, <4>3, StaysComplete
    <3> QED
      BY <3>1, <3>2
  <2>3. CASE CheckLegalHolds(t) \/ RequestDeletionApproval(t) \/ NotifyDeletionComplete(t)
    BY <1>2, <2>3, AnswerComplete
       DEF CheckLegalHolds, RequestDeletionApproval, NotifyDeletionComplete
  <2>4. CASE GenerateCertificate(t)
    BY <1>2, <2>4, AnswerComplete DEF GenerateCertificate
  <2>5. CASE ActivityReturns(t)
    BY <1>2, <2>5, ReturnComplete
  <2>6. CASE ActivityThrows(t)
    <3>1. /\ tasks' \subseteq tasks /\ UNCHANGED <<deletedBy, certificates>>
          /\ UNCHANGED run \/ (GiveUp(t.run) /\ run[t.run].step # "executeDisposal")
      BY <2>6 DEF ActivityThrows, Current
    <3> QED
      BY <1>2, <2>1, <3>1, GiveUpComplete, StaysComplete DEF Deleted
  <2>7. CASE WorkerLost(t)
    BY <1>2, <2>7, StaysComplete DEF WorkerLost, Deleted
  <2> QED
    BY <1>7, <2>2, <2>3, <2>4, <2>5, <2>6, <2>7 DEF Activity
<1> QED
  BY <1>3, <1>4, <1>5, <1>6, <1>7 DEF Next, vars, PlaceHold, EndHold, SetPolicyStatus

CertificateInv == OrderInv /\ TrueInv /\ CompleteInv

LEMMA CertificateInvAlways == Spec => []CertificateInv
<1>1. Init => CertificateInv
  BY DEF Init, NewRun, CertificateInv, OrderInv, TrueInv, CompleteInv, DisposalComplete,
         ReportComplete, Deleted
<1>2. TypeOK /\ CertificateInv /\ [Next]_vars => CertificateInv'
  BY StepOrder, StepTrue, StepComplete DEF CertificateInv
<1> QED
  BY <1>1, <1>2, TypeCorrect, PTL DEF Spec

(* A run that ends because everything is on hold, or is denied its         *)
(* approval, has deleted nothing and never will: no attempt of the         *)
(* disposal is ever ahead of its run.                                      *)
THEOREM NothingUnapproved == Spec => []UnapprovedDeletesNothing
<1>1. CertificateInv => UnapprovedDeletesNothing
  BY DEF CertificateInv, OrderInv, Undisposed, UnapprovedDeletesNothing, Deleted
<1> QED
  BY <1>1, CertificateInvAlways, PTL

(* A certificate lists what its run deleted, nothing else; and all of it,  *)
(* unless an attempt of executeDisposal was given up.                      *)
THEOREM CertificatesAreTrue == Spec => []CertificatesTrue
<1>1. TypeOK /\ CertificateInv => CertificatesTrue
  BY DEF CertificateInv, TrueInv, CompleteInv, ReportComplete, TypeOK, CertificateType,
         CertificatesTrue, Deleted
<1> QED
  BY <1>1, TypeCorrect, CertificateInvAlways, PTL
=============================================================================
