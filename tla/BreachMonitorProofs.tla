------------------------ MODULE BreachMonitorProofs ------------------------
(***************************************************************************)
(* The breach monitor and its lock, and the rows it reads, for any number  *)
(* of incidents, updates, replicas and executions and any lengths of time  *)
(* that keep the order of TimeAssumption.  The proof is in four layers,    *)
(* each an invariant relative to those before it: the types; RowInv, what  *)
(* pending updates know about the rows; LockInv, how long the lock lasts;  *)
(* AlertInv, what was and is to be sent.                                   *)
(***************************************************************************)
EXTENDS BreachMonitor, TLAPS

(* A pending update that classifies an incident as a breach, or closes it, *)
(* brings the column that goes with that, or the row has it; and no update *)
(* takes these columns back.                                               *)
PendingOK(u) ==
  LET dto == update[u] IN
  dto # NoUpdate =>
    /\ Exists(dto.of)
    /\ dto.deadlines \in {NoChange, "yes"} /\ dto.resolved \in {NoChange, "yes"}
    /\ dto.breach = "yes" => dto.deadlines = "yes" \/ incident[dto.of].deadlines
    /\ Closes(dto.status) => dto.resolved = "yes" \/ incident[dto.of].resolved

RowInv == BreachHasDeadlines /\ ClosedIsStamped /\ \A u \in Updaters : PendingOK(u)

(* The lock got at this cron time is held for LockTTL ticks from it on, so *)
(* longer than a timer can be late; and whoever runs holds it, or overran. *)
LockInv ==
  /\ due # {} => clock <= MaxDelay
  /\ OncePerCronTime
  /\ executed = 1 => lock + clock >= LockTTL
  /\ ~overran => \A j \in Jobs : job[j] # NoJob => lock > 0
  /\ RunsAlone

(* What a run is about to send about an incident follows from its age.     *)
AlertInv ==
  /\ \A i \in Incidents :
       "exceeded" \in alerts[i] => Exists(i) /\ incident[i].age = Deadline
  /\ \A j \in Jobs, i \in Incidents : job[j].stage = "sending" =>
       /\ <<i, "exceeded">> \in job[j].todo =>
            Exists(i) /\ incident[i].age = Deadline /\ <<i, "warning">> \notin job[j].todo
       /\ <<i, "warning">> \in job[j].todo => overran \/ "exceeded" \notin alerts[i]
  /\ WarningsComeFirst

-----------------------------------------------------------------------------
(* Every variable keeps its type.                                          *)
LEMMA TypeInitially == Init => TypeOK
<1> SUFFICES ASSUME Init PROVE TypeOK OBVIOUS
<1>1. Absent \in Rows BY TimeAssumption DEF Absent, Rows
<1>2. clock \in 0 .. Interval - 1 /\ lock \in 0 .. LockTTL /\ crashes \in 0 .. MaxCrashes
  BY TimeAssumption DEF Init
<1> QED BY <1>1, <1>2 DEF Init, TypeOK

LEMMA PutType == ASSUME NEW column \in BOOLEAN, NEW value PROVE Put(column, value) \in BOOLEAN
BY DEF Put

LEMMA WrittenType ==
  ASSUME NEW row \in Rows, NEW data \in UpdatesData
  PROVE  Written(row, data) \in Rows
<1>1. Put(row.breach, data.breach) \in BOOLEAN /\ Put(row.deadlines, data.deadlines) \in BOOLEAN
      /\ Put(row.resolved, data.resolved) \in BOOLEAN
  BY PutType DEF Rows
<1>2. (IF data.status = NoChange THEN row.status ELSE data.status)
        \in Statuses \union {"absent", "reported"}
  BY DEF Rows, UpdatesData
<1> QED BY <1>1, <1>2 DEF Written, Rows

LEMMA UpdateDataType ==
  ASSUME NEW i \in Incidents, NEW dto \in Dtos
  PROVE  UpdateData(i, dto) \in UpdatesData
BY DtoAssumption DEF UpdateData, UpdatesData, Values

LEMMA SendingType ==
  ASSUME NEW todo \in Todos
  PROVE  Sending(todo) \in {NoJob} \union [stage : {"sending"}, todo : Todos]
BY DEF Sending

LEMMA TypeInductive == TypeOK /\ [Next]_vars => TypeOK'
<1> SUFFICES ASSUME TypeOK, [Next]_vars PROVE TypeOK' OBVIOUS
<1> USE DEF TypeOK, incidentVars, jobVars
<1>1. ASSUME NEW i \in Incidents, NEW breach \in BOOLEAN, Create(i, breach) PROVE TypeOK'
  <2>1. [status |-> FirstStatus, breach |-> breach, deadlines |-> breach,
         resolved |-> FALSE, age |-> 0] \in Rows
    BY TimeAssumption DEF FirstStatus, Rows
  <2> QED BY <1>1, <2>1 DEF Create
<1>2. ASSUME NEW u \in Updaters, NEW i \in Incidents, NEW dto \in Dtos, ReadExisting(u, i, dto)
      PROVE  TypeOK'
  BY <1>2, UpdateDataType DEF ReadExisting
<1>3. ASSUME NEW u \in Updaters, WriteUpdate(u) PROVE TypeOK'
  <2>1. update[u] \in UpdatesData /\ update[u].of \in Incidents
    BY <1>3 DEF WriteUpdate, UpdatesData
  <2>2. Written(incident[update[u].of], update[u]) \in Rows
    BY <2>1, WrittenType
  <2> QED BY <1>3, <2>2 DEF WriteUpdate
<1>4. ASSUME NEW r \in Replicas, NEW j \in Jobs, Acquire(r, j) PROVE TypeOK'
  BY <1>4, TimeAssumption DEF Acquire
<1>5. ASSUME NEW r \in Replicas, Skip(r) \/ MissTimer(r) PROVE TypeOK'
  BY <1>5, TimeAssumption DEF Skip, MissTimer
<1>6. ASSUME NEW j \in Jobs, ReadBreaches(j) PROVE TypeOK'
  <2> DEFINE todo == {t \in Incidents \X Kinds : Watched(t[1]) /\ Due(t[2], incident[t[1]].age)}
  <2>1. todo \in Todos BY DEF Todos
  <2>2. Sending(todo) \in {NoJob} \union [stage : {"sending"}, todo : Todos]
    BY <2>1, SendingType
  <2> QED BY <1>6, <2>2 DEF ReadBreaches
<1>7. ASSUME NEW j \in Jobs, NEW i \in Incidents, NEW kind \in Kinds, Send(j, i, kind) PROVE TypeOK'
  <2>1. job[j].todo \ {<<i, kind>>} \in Todos BY <1>7 DEF Send, NoJob, Todos
  <2>2. Sending(job[j].todo \ {<<i, kind>>}) \in {NoJob} \union [stage : {"sending"}, todo : Todos]
    BY <2>1, SendingType
  <2> QED BY <1>7, <2>2 DEF Send
<1>8. ASSUME NEW j \in Jobs, Abort(j) PROVE TypeOK'
  BY <1>8, TimeAssumption DEF Abort
<1>9. CASE Tick
  <2>1. clock' \in 0 .. Interval - 1 /\ lock' \in 0 .. LockTTL /\ executed' \in Nat
    BY <1>9, TimeAssumption DEF Tick, Expiring
  <2>2. \A row \in Rows : OlderIncident(row) \in Rows
    BY TimeAssumption DEF OlderIncident, Rows
  <2> QED BY <1>9, <2>1, <2>2 DEF Tick
<1>10. CASE UNCHANGED vars BY <1>10 DEF vars
<1> QED
  BY <1>1, <1>2, <1>3, <1>4, <1>5, <1>6, <1>7, <1>8, <1>9, <1>10
  DEF Next, Updating, TimerGoesOff, Execute

(* All the values the model's variables take are of the expected kind.     *)
THEOREM TypeCorrect == Spec => []TypeOK
BY TypeInitially, TypeInductive, PTL DEF Spec

-----------------------------------------------------------------------------
(* What updates know and bring.                                            *)
LEMMA RowInitially == Init => RowInv
BY DEF Init, RowInv, BreachHasDeadlines, ClosedIsStamped, PendingOK, Closes, Absent

(* A written row keeps what PendingOK says of the row and the update.      *)
LEMMA WrittenRow ==
  ASSUME NEW row \in Rows, NEW data \in UpdatesData,
         data.deadlines \in {NoChange, "yes"}, data.resolved \in {NoChange, "yes"},
         row.status # "absent"
  PROVE  LET new == Written(row, data) IN
         /\ new.status # "absent" /\ new.age = row.age
         /\ row.deadlines \/ data.deadlines = "yes" => new.deadlines
         /\ row.resolved \/ data.resolved = "yes" => new.resolved
         /\ new.breach => row.breach \/ data.breach = "yes"
         /\ Closes(new.status) => Closes(row.status) \/ Closes(data.status)
BY DtoAssumption DEF Written, Put, Rows, UpdatesData, Values, NoChange

LEMMA RowInductive == TypeOK /\ RowInv /\ [Next]_vars => RowInv'
<1> SUFFICES ASSUME TypeOK, RowInv, [Next]_vars PROVE RowInv' OBVIOUS
<1>0. ASSUME UNCHANGED incidentVars PROVE RowInv'
  BY <1>0 DEF incidentVars, RowInv, BreachHasDeadlines, ClosedIsStamped, PendingOK, Exists
<1>1. ASSUME NEW i \in Incidents, NEW breach \in BOOLEAN, Create(i, breach) PROVE RowInv'
  BY <1>1 DEF Create, TypeOK, Rows, UpdatesData, RowInv, BreachHasDeadlines, ClosedIsStamped,
              PendingOK, Exists, Closes, FirstStatus
<1>2. ASSUME NEW u \in Updaters, NEW i \in Incidents, NEW dto \in Dtos, ReadExisting(u, i, dto)
      PROVE  RowInv'
  <2>1. PendingOK(u)'
    BY <1>2 DEF ReadExisting, UpdateData, TypeOK, RowInv, BreachHasDeadlines, ClosedIsStamped,
                PendingOK, Exists
  <2> QED
    BY <1>2, <2>1 DEF ReadExisting, TypeOK, RowInv, BreachHasDeadlines, ClosedIsStamped,
                      PendingOK, Exists
<1>3. ASSUME NEW u \in Updaters, WriteUpdate(u) PROVE RowInv'
  <2> DEFINE i == update[u].of
  <2> DEFINE new == Written(incident[i], update[u])
  <2>1. update[u] \in UpdatesData /\ i \in Incidents /\ incident[i] \in Rows
    BY <1>3 DEF WriteUpdate, TypeOK, UpdatesData
  <2>2. incident' = [incident EXCEPT ![i] = new] /\ update' = [update EXCEPT ![u] = NoUpdate]
    BY <1>3 DEF WriteUpdate
  <2>3. PendingOK(u) /\ update[u] # NoUpdate BY <1>3 DEF WriteUpdate, RowInv
  <2>4. /\ new.status # "absent"
        /\ incident[i].deadlines \/ update[u].deadlines = "yes" => new.deadlines
        /\ incident[i].resolved \/ update[u].resolved = "yes" => new.resolved
        /\ new.breach => incident[i].breach \/ update[u].breach = "yes"
        /\ Closes(new.status) => Closes(incident[i].status) \/ Closes(update[u].status)
    BY <2>1, <2>3, WrittenRow DEF PendingOK, Exists
  <2> HIDE DEF new
  <2>5. (BreachHasDeadlines /\ ClosedIsStamped)'
    BY <2>1, <2>2, <2>3, <2>4 DEF TypeOK, RowInv, BreachHasDeadlines, ClosedIsStamped, PendingOK
  <2>6. ASSUME NEW v \in Updaters PROVE PendingOK(v)'
    BY <2>1, <2>2, <2>4 DEF TypeOK, RowInv, PendingOK, Exists
  <2> QED BY <2>5, <2>6 DEF RowInv
<1>4. CASE Tick
  <2>1. \A i \in Incidents :
          /\ incident'[i].status = incident[i].status /\ incident'[i].breach = incident[i].breach
          /\ incident'[i].deadlines = incident[i].deadlines
          /\ incident'[i].resolved = incident[i].resolved
    BY <1>4 DEF Tick, OlderIncident, TypeOK, Rows
  <2>2. update' = update BY <1>4 DEF Tick
  <2>3. \A u \in Updaters : update[u] # NoUpdate => update[u].of \in Incidents
    BY DEF TypeOK, UpdatesData
  <2> QED
    BY <2>1, <2>2, <2>3 DEF RowInv, BreachHasDeadlines, ClosedIsStamped, PendingOK, Exists
<1> QED
  BY <1>0, <1>1, <1>2, <1>3, <1>4
  DEF Next, Updating, TimerGoesOff, Execute, Acquire, Skip, MissTimer, ReadBreaches, Send, Abort,
      vars

(* A breach has its deadlines, however updates overlap.                    *)
THEOREM DeadlinesKept == Spec => []BreachHasDeadlines
<1>1. RowInv => BreachHasDeadlines BY DEF RowInv
<1> QED BY RowInitially, RowInductive, TypeCorrect, <1>1, PTL DEF Spec

(* A resolved or closed incident has its resolvedAt, however updates       *)
(* overlap.                                                                *)
THEOREM ClosedStamped == Spec => []ClosedIsStamped
<1>1. RowInv => ClosedIsStamped BY DEF RowInv
<1> QED BY RowInitially, RowInductive, TypeCorrect, <1>1, PTL DEF Spec

-----------------------------------------------------------------------------
(* The lock.                                                               *)
LEMMA LockInitially == Init => LockInv
BY DEF Init, LockInv, OncePerCronTime, RunsAlone

LEMMA LockInductive == TypeOK /\ LockInv /\ [Next]_vars => LockInv'
<1> SUFFICES ASSUME TypeOK, LockInv, [Next]_vars PROVE LockInv' OBVIOUS
<1> USE DEF LockInv, OncePerCronTime, RunsAlone
<1>0. ASSUME UNCHANGED <<clock, lock, overran, executed>>, due' \subseteq due,
             \A j \in Jobs : job[j] = NoJob => job'[j] = NoJob
      PROVE  LockInv'
  BY <1>0
<1>1. ASSUME NEW i \in Incidents, NEW breach \in BOOLEAN, Create(i, breach) PROVE LockInv'
  BY <1>1, <1>0 DEF Create, jobVars
<1>2. ASSUME NEW u \in Updaters, Updating(u) PROVE LockInv'
  BY <1>2, <1>0 DEF Updating, ReadExisting, WriteUpdate, jobVars
<1>3. ASSUME NEW r \in Replicas, NEW j \in Jobs, Acquire(r, j) PROVE LockInv'
  <2>1. clock <= MaxDelay /\ lock = 0 BY <1>3 DEF Acquire, LockFree
  <2>2. executed = 0 BY <2>1, TimeAssumption DEF TypeOK
  <2>3. lock' = LockTTL /\ clock' = clock /\ executed' = 1 /\ due' \subseteq due /\ overran' = overran
    BY <1>3, <2>2 DEF Acquire
  <2>4. lock' + clock' >= LockTTL /\ lock' > 0 BY <2>3, TimeAssumption DEF TypeOK
  <2>5. ~overran => \A k \in Jobs : k # j => job'[k] = NoJob
    BY <1>3, <2>1 DEF Acquire, TypeOK
  <2> QED BY <2>1, <2>3, <2>4, <2>5
<1>4. ASSUME NEW r \in Replicas, Skip(r) \/ MissTimer(r) PROVE LockInv'
  BY <1>4, <1>0 DEF Skip, MissTimer
<1>5. ASSUME NEW j \in Jobs, ReadBreaches(j) PROVE LockInv'
  <2>1. job[j] # NoJob BY <1>5 DEF ReadBreaches, NoJob
  <2> QED BY <1>5, <2>1, <1>0 DEF ReadBreaches, TypeOK
<1>6. ASSUME NEW j \in Jobs, NEW i \in Incidents, NEW kind \in Kinds, Send(j, i, kind) PROVE LockInv'
  <2>1. job[j] # NoJob BY <1>6 DEF Send, NoJob
  <2> QED BY <1>6, <2>1, <1>0 DEF Send, TypeOK
<1>7. ASSUME NEW j \in Jobs, Abort(j) PROVE LockInv'
  BY <1>7, <1>0 DEF Abort, TypeOK
<1>8. CASE Tick
  <2>1. job' = job /\ lock' = Expiring BY <1>8 DEF Tick
  <2>2. overran' => overran \/ (lock = 1 /\ \E j \in Jobs : job[j] # NoJob)
    BY <1>8 DEF Tick
  <2>3. overran \/ (lock = 1 /\ \E j \in Jobs : job[j] # NoJob) => overran'
    BY <1>8 DEF Tick
  <2>4. (due # {} => clock <= MaxDelay)'
    BY <1>8, TimeAssumption DEF Tick, TypeOK
  <2>5. executed' <= 1 /\ (executed' = 1 => lock' + clock' >= LockTTL)
    BY <1>8, TimeAssumption DEF Tick, TypeOK, Expiring
  <2>6. ~overran' => \A j \in Jobs : job'[j] # NoJob => lock' > 0
    BY <2>1, <2>3 DEF Expiring, TypeOK
  <2>7. RunsAlone' BY <2>1, <2>3
  <2> QED BY <2>4, <2>5, <2>6, <2>7
<1>9. CASE UNCHANGED vars BY <1>9, <1>0 DEF vars, jobVars
<1> QED
  BY <1>1, <1>2, <1>3, <1>4, <1>5, <1>6, <1>7, <1>8, <1>9 DEF Next, TimerGoesOff, Execute

(* A cron time is served once at most.                                     *)
THEOREM ServedOnce == Spec => []OncePerCronTime
<1>1. LockInv => OncePerCronTime BY DEF LockInv
<1> QED BY LockInitially, LockInductive, TypeCorrect, <1>1, PTL DEF Spec

(* Two executions are at work together only after one outlived its lock.   *)
THEOREM Alone == Spec => []RunsAlone
<1>1. LockInv => RunsAlone BY DEF LockInv
<1> QED BY LockInitially, LockInductive, TypeCorrect, <1>1, PTL DEF Spec

-----------------------------------------------------------------------------
(* The alerts.                                                             *)
LEMMA AlertInitially == Init => AlertInv
BY DEF Init, AlertInv, WarningsComeFirst, NoJob

LEMMA AlertInductive == TypeOK /\ LockInv /\ AlertInv /\ [Next]_vars => AlertInv'
<1> SUFFICES ASSUME TypeOK, LockInv, AlertInv, [Next]_vars PROVE AlertInv' OBVIOUS
<1> USE DEF AlertInv, WarningsComeFirst
(* A row may change as long as it stays and its age, once full, does too;  *)
(* runs may end; a run that outlived its lock is not forgotten.            *)
<1>0. ASSUME alerts' = alerts, late' = late, overran => overran',
             \A i \in Incidents : Exists(i) => Exists(i)' /\ (incident[i].age = Deadline => incident'[i].age = Deadline),
             \A j \in Jobs : job'[j] = job[j] \/ job'[j].stage # "sending"
      PROVE  AlertInv'
  <2>1. ASSUME NEW i \in Incidents, "exceeded" \in alerts'[i]
        PROVE  Exists(i)' /\ incident'[i].age = Deadline
    BY <2>1, <1>0
  <2>2. ASSUME NEW j \in Jobs, NEW i \in Incidents, job'[j].stage = "sending"
        PROVE  /\ <<i, "exceeded">> \in job'[j].todo =>
                    Exists(i)' /\ incident'[i].age = Deadline /\ <<i, "warning">> \notin job'[j].todo
               /\ <<i, "warning">> \in job'[j].todo => overran' \/ "exceeded" \notin alerts'[i]
    BY <2>2, <1>0
  <2>3. (late # {} => overran)' BY <1>0
  <2> QED BY <2>1, <2>2, <2>3 DEF Exists
<1>1. ASSUME NEW i \in Incidents, NEW breach \in BOOLEAN, Create(i, breach) PROVE AlertInv'
  BY <1>1, <1>0 DEF Create, TypeOK, Rows, FirstStatus, Exists, jobVars
<1>2. ASSUME NEW u \in Updaters, Updating(u) PROVE AlertInv'
  <2>1. CASE incident' = incident
    BY <2>1, <1>2, <1>0 DEF Updating, ReadExisting, WriteUpdate, jobVars, Exists
  <2>2. CASE WriteUpdate(u)
    <3> DEFINE i == update[u].of
    <3>1. update[u] \in UpdatesData /\ i \in Incidents /\ incident[i] \in Rows
      BY <2>2 DEF WriteUpdate, TypeOK, UpdatesData
    <3>2. \A row \in Rows : Written(row, update[u]).age = row.age
      BY DEF Written
    <3>3. \A row \in Rows : row.status # "absent" => Written(row, update[u]).status # "absent"
      BY <3>1, DtoAssumption DEF Written, UpdatesData, NoChange
    <3> QED BY <2>2, <3>1, <3>2, <3>3, <1>0 DEF WriteUpdate, TypeOK, jobVars, Exists
  <2> QED BY <2>1, <2>2, <1>2 DEF Updating, ReadExisting
<1>3. ASSUME NEW r \in Replicas, NEW j \in Jobs, Acquire(r, j) PROVE AlertInv'
  BY <1>3, <1>0 DEF Acquire, incidentVars, Exists, TypeOK
<1>4. ASSUME NEW r \in Replicas, Skip(r) \/ MissTimer(r) PROVE AlertInv'
  BY <1>4, <1>0 DEF Skip, MissTimer, incidentVars, Exists
<1>5. ASSUME NEW j \in Jobs, ReadBreaches(j) PROVE AlertInv'
  <2> DEFINE todo == {t \in Incidents \X Kinds : Watched(t[1]) /\ Due(t[2], incident[t[1]].age)}
  <2>1. UNCHANGED <<incident, alerts, overran, late>> /\ job' = [job EXCEPT ![j] = Sending(todo)]
    BY <1>5 DEF ReadBreaches, incidentVars
  <2>2. ASSUME NEW i \in Incidents
        PROVE  /\ <<i, "exceeded">> \in todo =>
                    Exists(i) /\ incident[i].age = Deadline /\ <<i, "warning">> \notin todo
               /\ <<i, "warning">> \in todo => "exceeded" \notin alerts[i]
    <3>1. incident[i].age \in 0 .. Deadline BY DEF TypeOK, Rows
    <3>2. \A kind \in Kinds : <<i, kind>> \in todo => Watched(i) /\ Due(kind, incident[i].age)
      OBVIOUS
    <3>3. Watched(i) => Exists(i) BY DEF Watched, Exists
    <3>4. /\ Due("exceeded", incident[i].age) => incident[i].age = Deadline
          /\ Due("warning", incident[i].age) => incident[i].age # Deadline
      BY <3>1, TimeAssumption DEF Due
    <3> QED BY <3>2, <3>3, <3>4 DEF Kinds
  <2> HIDE DEF todo
  <2>3. Sending(todo).stage = "sending" => Sending(todo).todo = todo BY DEF Sending, NoJob
  <2>4. ASSUME NEW k \in Jobs, NEW i \in Incidents, job'[k].stage = "sending"
        PROVE  /\ <<i, "exceeded">> \in job'[k].todo =>
                    Exists(i) /\ incident[i].age = Deadline /\ <<i, "warning">> \notin job'[k].todo
               /\ <<i, "warning">> \in job'[k].todo => overran \/ "exceeded" \notin alerts[i]
    <3>1. CASE k = j BY <3>1, <2>1, <2>2, <2>3, <2>4 DEF TypeOK
    <3>2. CASE k # j BY <3>2, <2>1, <2>4 DEF TypeOK
    <3> QED BY <3>1, <3>2
  <2> QED BY <2>1, <2>4 DEF Exists
<1>6. ASSUME NEW j \in Jobs, NEW i \in Incidents, NEW kind \in Kinds, Send(j, i, kind) PROVE AlertInv'
  <2> DEFINE rest == job[j].todo \ {<<i, kind>>}
  <2>1. /\ UNCHANGED <<incident, overran>> /\ job' = [job EXCEPT ![j] = Sending(rest)]
        /\ alerts' = [alerts EXCEPT ![i] = @ \union {kind}]
        /\ job[j].stage = "sending" /\ <<i, kind>> \in job[j].todo
        /\ late' = IF kind = "warning" /\ "exceeded" \in alerts[i] THEN late \union {i} ELSE late
    BY <1>6 DEF Send, incidentVars
  <2>2. ASSUME NEW k \in Jobs, job'[k].stage = "sending"
        PROVE  job[k].stage = "sending" /\ job'[k].todo \subseteq job[k].todo
               /\ (k = j => <<i, kind>> \notin job'[k].todo)
    BY <2>1, <2>2 DEF TypeOK, Sending, NoJob
  <2>3. ASSUME NEW m \in Incidents, "exceeded" \in alerts'[m]
        PROVE  Exists(m) /\ incident[m].age = Deadline
    BY <2>1, <2>3 DEF TypeOK
  <2>4. ASSUME NEW k \in Jobs, NEW m \in Incidents, job'[k].stage = "sending",
               <<m, "warning">> \in job'[k].todo, "exceeded" \in alerts'[m]
        PROVE  overran
    <3>1. <<m, "warning">> \in job[k].todo /\ job[k].stage = "sending" BY <2>2, <2>4
    <3>2. CASE "exceeded" \in alerts[m] BY <3>1, <3>2
    <3>3. CASE "exceeded" \notin alerts[m]
      <4>1. m = i /\ kind = "exceeded" BY <3>3, <2>1, <2>4 DEF TypeOK
      <4>2. k # j BY <4>1, <3>1, <2>1
      <4> QED BY <4>2, <3>1, <2>1 DEF LockInv, RunsAlone, NoJob
    <3> QED BY <3>2, <3>3
  <2>5. ASSUME NEW k \in Jobs, NEW m \in Incidents, job'[k].stage = "sending",
               <<m, "exceeded">> \in job'[k].todo
        PROVE  Exists(m) /\ incident[m].age = Deadline /\ <<m, "warning">> \notin job'[k].todo
    BY <2>2, <2>5
  <2>6. (late # {} => overran)' BY <2>1
  <2> QED BY <2>1, <2>3, <2>4, <2>5, <2>6 DEF Exists
<1>7. ASSUME NEW j \in Jobs, Abort(j) PROVE AlertInv'
  BY <1>7, <1>0 DEF Abort, TypeOK, NoJob, incidentVars, Exists
<1>8. CASE Tick
  <2>1. \A i \in Incidents : Exists(i) => Exists(i)' /\ (incident[i].age = Deadline => incident'[i].age = Deadline)
    BY <1>8, TimeAssumption DEF Tick, OlderIncident, TypeOK, Rows, Exists
  <2>2. overran => overran' BY <1>8 DEF Tick
  <2> QED BY <1>8, <2>1, <2>2, <1>0 DEF Tick
<1>9. CASE UNCHANGED vars BY <1>9, <1>0 DEF vars, incidentVars, jobVars, Exists
<1> QED
  BY <1>1, <1>2, <1>3, <1>4, <1>5, <1>6, <1>7, <1>8, <1>9 DEF Next, TimerGoesOff, Execute

(* No warning follows the alert that the deadline has passed, unless an    *)
(* execution outlived its lock.                                            *)
THEOREM WarnedFirst == Spec => []WarningsComeFirst
<1>1. AlertInv => WarningsComeFirst BY DEF AlertInv
<1> QED BY AlertInitially, AlertInductive, LockInitially, LockInductive, TypeCorrect, <1>1, PTL DEF Spec

=============================================================================
