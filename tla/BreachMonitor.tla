---------------------------- MODULE BreachMonitor ----------------------------
(***************************************************************************)
(* modules/incidents/incidents.service.ts (create and update, the two of   *)
(* its operations on incidents that have a caller) and monitorBreachSlas   *)
(* of core/workflow/scheduled-jobs.service.ts, a job every replica starts  *)
(* at each quarter of an hour and a Redis lock gives to one of them.       *)
(*                                                                         *)
(* Time passes in ticks.  A replica starts the job at most MaxDelay ticks  *)
(* after the cron time (the clocks' skew, a busy event loop).  An          *)
(* execution takes any time: it awaits every channel of every alert, the   *)
(* lock is not extended while it does, and nothing keeps the next one from *)
(* starting.  PostgreSQL and Redis are external and atomic per statement.  *)
(***************************************************************************)
EXTENDS Naturals

CONSTANTS
  Incidents,   \* incidents of all tenants
  Statuses,    \* the statuses that updates give them
  Dtos,        \* bound: what an update() can be asked to change
  Updaters,    \* update() calls that overlap at most
  Replicas,    \* API processes
  Jobs,        \* executions of the job that overlap at most
  Interval,    \* ticks from one cron time to the next
  LockTTL,     \* ticks until the lock expires
  MaxDelay,    \* ticks a replica can be late
  Deadline,    \* the 72 hours, in ticks
  Warning,     \* the last 12 of them
  MaxCrashes   \* bound: crashes of a replica or failed executions

ASSUME TimeAssumption ==
  /\ Interval \in Nat /\ LockTTL \in Nat /\ MaxDelay \in Nat
  /\ MaxDelay < LockTTL /\ LockTTL < Interval
  /\ Deadline \in Nat /\ Warning \in Nat /\ MaxCrashes \in Nat

(* What a dto leaves out is NoChange.                                      *)
NoChange == "no change"
Values == {NoChange, "yes", "no"}
ASSUME DtoAssumption ==
  /\ "absent" \notin Statuses
  /\ Dtos \subseteq [status : Statuses \union {NoChange}, breach : Values]

VARIABLES
  incident,  \* incident[i]: the Incident row
  update,    \* update[u]: what update() u is about to write
  clock,     \* ticks since the last cron time
  due,       \* replicas whose cron timer is still to go off for it
  lock,      \* ticks until scheduled_lock:breach-sla-monitoring expires
  job,       \* job[j]: an execution of monitorBreachSlas
  alerts,    \* alerts[i]: the kinds of alerts sent about i
  crashes,   \* how many there were
  executed,  \* history: executions that got the lock since the cron time
  overran,   \* history: was an execution at work when the lock expired?
  late       \* history: incidents with a warning after the deadline alert

incidentVars == <<incident, update>>
jobVars == <<clock, due, lock, job, alerts, crashes, executed, overran, late>>
vars == <<incidentVars, jobVars>>

Absent == [status |-> "absent", breach |-> FALSE, deadlines |-> FALSE,
           resolved |-> FALSE, age |-> 0]
NoUpdate == [of |-> "nothing"]
NoJob == [stage |-> "none"]

Init ==
  /\ incident = [i \in Incidents |-> Absent]
  /\ update = [u \in Updaters |-> NoUpdate]
  /\ clock = 0 /\ due = {} /\ lock = 0
  /\ job = [j \in Jobs |-> NoJob]
  /\ alerts = [i \in Incidents |-> {}]
  /\ crashes = 0 /\ executed = 0 /\ overran = FALSE /\ late = {}

-----------------------------------------------------------------------------
(* incidents.service.ts.  deadlines and resolved: is                       *)
(* regulatoryNotifications.deadlines, is resolvedAt not null?  (What the   *)
(* deadlines are follows from reportedAt, which nothing changes; age is    *)
(* the time since, of which only Deadline ticks matter.)                   *)

(* Mutant: the status the monitor's query begins with.                     *)
FirstStatus_Open == "open"
FirstStatus == "reported"

Exists(i) == incident[i].status # "absent"

Create(i, breach) ==
  /\ ~Exists(i)
  /\ incident' = [incident EXCEPT ![i] =
       [status |-> FirstStatus, breach |-> breach, deadlines |-> breach,
        resolved |-> FALSE, age |-> 0]]
  /\ UNCHANGED <<update, jobVars>>

(* "no" stands for false, and for null.                                    *)
Closes(status) == status \in {"resolved", "closed"}
Put(column, value) == IF value = NoChange THEN column ELSE value = "yes"

(* Mutants: an incident that is no breach any more loses its deadlines; a  *)
(* status that reopens the incident takes resolvedAt back.                 *)
UpdateData_DropsDeadlines(i, dto) ==
  [of |-> i, status |-> dto.status, breach |-> dto.breach,
   deadlines |-> IF dto.breach = "yes" /\ incident[i].breach THEN NoChange ELSE dto.breach,
   resolved |-> IF Closes(dto.status) /\ ~incident[i].resolved THEN "yes" ELSE NoChange]
UpdateData_ClearsResolvedAt(i, dto) ==
  [of |-> i, status |-> dto.status, breach |-> dto.breach,
   deadlines |-> IF dto.breach = "yes" /\ ~incident[i].breach THEN "yes" ELSE NoChange,
   resolved |-> IF dto.status = NoChange \/ (Closes(dto.status) /\ incident[i].resolved)
                THEN NoChange ELSE IF Closes(dto.status) THEN "yes" ELSE "no"]

(* updateData, from the dto and the row as it is read.                     *)
UpdateData(i, dto) ==
  [of |-> i, status |-> dto.status, breach |-> dto.breach,
   deadlines |-> IF dto.breach = "yes" /\ ~incident[i].breach THEN "yes" ELSE NoChange,
   resolved |-> IF Closes(dto.status) /\ ~incident[i].resolved THEN "yes" ELSE NoChange]

ReadExisting(u, i, dto) ==
  /\ update[u] = NoUpdate /\ Exists(i)
  /\ update' = [update EXCEPT ![u] = UpdateData(i, dto)]
  /\ UNCHANGED <<incident, jobVars>>

(* By now the row may be another; the update writes its columns over it.   *)
Written(row, data) ==
  [status |-> IF data.status = NoChange THEN row.status ELSE data.status,
   breach |-> Put(row.breach, data.breach),
   deadlines |-> Put(row.deadlines, data.deadlines),
   resolved |-> Put(row.resolved, data.resolved),
   age |-> row.age]

WriteUpdate(u) ==
  /\ update[u] # NoUpdate
  /\ incident' = [incident EXCEPT ![update[u].of] = Written(@, update[u])]
  /\ update' = [update EXCEPT ![u] = NoUpdate]
  /\ UNCHANGED jobVars

-----------------------------------------------------------------------------
(* monitorBreachSlas                                                       *)

(* Mutant: SET without NX.                                                 *)
LockFree_Always == TRUE
LockFree == lock = 0

(* The timer goes off and acquireLock gets the lock.                       *)
Acquire(r, j) ==
  /\ r \in due /\ LockFree
  /\ job[j] = NoJob
  /\ due' = due \ {r}
  /\ lock' = LockTTL
  /\ job' = [job EXCEPT ![j] = [stage |-> "locked"]]
  /\ executed' = executed + 1
  /\ UNCHANGED <<incidentVars, clock, alerts, crashes, overran, late>>

(* Another replica holds it, or did and died.                              *)
Skip(r) ==
  /\ r \in due /\ ~LockFree
  /\ due' = due \ {r}
  /\ UNCHANGED <<incidentVars, clock, lock, job, alerts, crashes, executed, overran, late>>

(* The query's where.  No create or update gives the status 'open'.        *)
Watched(i) ==
  /\ incident[i].breach
  /\ incident[i].status \in {"open", "investigating", "contained"}
  /\ ~incident[i].resolved

Kinds == {"warning", "exceeded"}

(* Mutant: every breach in its last hours, and after them, is warned of.   *)
Due_NoLowerBound(kind, age) ==
  IF kind = "exceeded" THEN age >= Deadline ELSE age + Warning > Deadline
Due(kind, age) ==
  IF kind = "exceeded" THEN age >= Deadline ELSE age < Deadline /\ age + Warning > Deadline

(* The job returns after its last alert; it does not release the lock.     *)
Sending(todo) ==
  IF todo = {} THEN NoJob ELSE [stage |-> "sending", todo |-> todo]

(* The breaches are read, and what to send follows from the time then.     *)
ReadBreaches(j) ==
  /\ job[j].stage = "locked"
  /\ job' = [job EXCEPT ![j] =
       Sending({t \in Incidents \X Kinds : Watched(t[1]) /\ Due(t[2], incident[t[1]].age)})]
  /\ UNCHANGED <<incidentVars, clock, due, lock, alerts, crashes, executed, overran, late>>

(* One alert; findMany has no order.  send() catches its channels' errors. *)
Send(j, i, kind) ==
  /\ job[j].stage = "sending" /\ <<i, kind>> \in job[j].todo
  /\ job' = [job EXCEPT ![j] = Sending(@.todo \ {<<i, kind>>})]
  /\ alerts' = [alerts EXCEPT ![i] = @ \union {kind}]
  /\ late' = IF kind = "warning" /\ "exceeded" \in alerts[i] THEN late \union {i} ELSE late
  /\ UNCHANGED <<incidentVars, clock, due, lock, crashes, executed, overran>>

(* The query of an execution fails, or its process dies: the lock stays    *)
(* until it expires.                                                       *)
Abort(j) ==
  /\ job[j] # NoJob /\ crashes < MaxCrashes
  /\ crashes' = crashes + 1
  /\ job' = [job EXCEPT ![j] = NoJob]
  /\ UNCHANGED <<incidentVars, clock, due, lock, alerts, executed, overran, late>>

(* A replica is down at the cron time, or SET fails.                       *)
MissTimer(r) ==
  /\ r \in due /\ crashes < MaxCrashes
  /\ crashes' = crashes + 1
  /\ due' = due \ {r}
  /\ UNCHANGED <<incidentVars, clock, lock, job, alerts, executed, overran, late>>

-----------------------------------------------------------------------------
(* Mutant: SET without EX.                                                 *)
Expiring_Never == lock
Expiring == IF lock = 0 THEN 0 ELSE lock - 1

OlderIncident(row) ==
  IF row.status = "absent" \/ row.age >= Deadline THEN row ELSE [row EXCEPT !.age = @ + 1]

(* One tick.  At the cron time every replica's timer is set off; a replica *)
(* has MaxDelay ticks to follow.                                           *)
Tick ==
  /\ due # {} => clock < MaxDelay
  /\ clock' = IF clock + 1 = Interval THEN 0 ELSE clock + 1
  /\ due' = IF clock' = 0 THEN Replicas ELSE due
  /\ executed' = IF clock' = 0 THEN 0 ELSE executed
  /\ lock' = Expiring
  /\ incident' = [i \in Incidents |-> OlderIncident(incident[i])]
  /\ overran' = (overran \/ (lock = 1 /\ \E j \in Jobs : job[j] # NoJob))
  /\ UNCHANGED <<update, job, alerts, crashes, late>>

-----------------------------------------------------------------------------
Updating(u) ==
  \/ \E i \in Incidents, dto \in Dtos : ReadExisting(u, i, dto)
  \/ WriteUpdate(u)

Execute(j) ==
  \/ ReadBreaches(j)
  \/ \E i \in Incidents, kind \in Kinds : Send(j, i, kind)

TimerGoesOff(r) == Skip(r) \/ \E j \in Jobs : Acquire(r, j)

Next ==
  \/ \E i \in Incidents, breach \in BOOLEAN : Create(i, breach)
  \/ \E u \in Updaters : Updating(u)
  \/ \E r \in Replicas : TimerGoesOff(r) \/ MissTimer(r)
  \/ \E j \in Jobs : Execute(j) \/ Abort(j)
  \/ Tick

Spec == Init /\ [][Next]_vars

(* Time passes, timers go off, and an execution that was started goes on.  *)
FairSpec ==
  /\ Spec /\ WF_vars(Tick)
  /\ \A r \in Replicas : WF_vars(TimerGoesOff(r))
  /\ \A j \in Jobs : WF_vars(Execute(j))

-----------------------------------------------------------------------------
Rows ==
  [status : Statuses \union {"absent", "reported"}, breach : BOOLEAN,
   deadlines : BOOLEAN, resolved : BOOLEAN, age : 0 .. Deadline]
UpdatesData ==
  [of : Incidents, status : Statuses \union {NoChange},
   breach : Values, deadlines : Values, resolved : Values]
Todos == SUBSET (Incidents \X Kinds)

TypeOK ==
  /\ incident \in [Incidents -> Rows]
  /\ update \in [Updaters -> {NoUpdate} \union UpdatesData]
  /\ clock \in 0 .. Interval - 1 /\ due \subseteq Replicas /\ lock \in 0 .. LockTTL
  /\ job \in [Jobs -> {NoJob} \union [stage : {"locked"}]
       \union [stage : {"sending"}, todo : Todos]]
  /\ alerts \in [Incidents -> SUBSET Kinds]
  /\ crashes \in 0 .. MaxCrashes /\ executed \in Nat
  /\ overran \in BOOLEAN /\ late \subseteq Incidents

(* However late its replicas are and whichever of them die, a cron time is *)
(* served once at most: the lock outlives the delay.                       *)
OncePerCronTime == executed <= 1

(* Two executions are at work together only after one of them outlived its *)
(* lock, which is neither extended nor checked again.                      *)
RunsAlone ==
  \A j, k \in Jobs : j # k /\ job[j] # NoJob /\ job[k] # NoJob => overran

(* Nobody is told that there are hours left after having been told that    *)
(* the deadline has passed, unless an execution outlived its lock.         *)
WarningsComeFirst == late # {} => overran

(* A breach has its notification deadlines, however updates that classify, *)
(* declassify and reclassify the incident overlap.                         *)
BreachHasDeadlines == \A i \in Incidents : incident[i].breach => incident[i].deadlines

(* A resolved or closed incident has its resolvedAt, however updates that  *)
(* close and reopen it overlap: the monitor and the statistics rely on it. *)
ClosedIsStamped ==
  \A i \in Incidents : Closes(incident[i].status) => incident[i].resolved

(* A breach that stays in a status the monitor looks for, and was never    *)
(* resolved, is reported overdue, although executions fail, replicas die   *)
(* with the lock, and cron times are skipped because of it.                *)
OverdueIsAlerted ==
  \A i \in Incidents : <>[]Watched(i) => <>("exceeded" \in alerts[i])
=============================================================================
