---------------------------- MODULE BillingProofs ----------------------------
(***************************************************************************)
(* How stale an entitlement can be, and what overlapping webhooks leave,   *)
(* for any number of processes, readers, subscriptions and invoices and    *)
(* any TTL and Lag.                                                        *)
(***************************************************************************)
EXTENDS Billing, TLAPS

(* An answer is as stale as it is late at most, an entry as stale as it is *)
(* old and its answer was late.                                            *)
AgeInv ==
  /\ \A r \in Readers : Answered(r) => fill[r].stale <= fill[r].lag
  /\ \A p \in Processes : Fresh(p) => cache[p].stale <= cache[p].age + Lag

(* A transaction writes a row and a Tenant.planId that match.              *)
Matches(r, plan) == r.sub # NoSub => r.plan = PlanOf[r.sub] /\ plan = r.plan
Writing(p) == hook[p].stage \in {"written", "invalidated"}
HookInv ==
  /\ \A p \in Processes : Writing(p) => Matches(hook[p].row, hook[p].plan)
  /\ Matches(row, tenantPlan)

(* Unless one crossed, a status on its way to a row was reported of the    *)
(* subscription it was found with, and rows and writes have such statuses. *)
Reported(r) == r.sub # NoSub => r.status = "active" \/ <<r.sub, r.status>> \in Says
StatusInv ==
  ~crossed =>
    /\ Reported(row)
    /\ \A p \in Processes :
         /\ hook[p].stage \in {"located", "canceling"} => Reported(hook[p])
         /\ Writing(p) => Reported(hook[p].row)

Found(r, h) == r = NoRow => \A p \in Processes : h[p].stage \notin {"located", "canceling"}
Founds == [stage : {"found"}, sub : Subs]
Changes == [stage : {"located", "canceling"}, sub : Subs \union {NoSub}, status : Statuses]
Writes == [stage : {"written", "invalidated"}, row : Subscriptions, plan : Plans \union {"none"}]
Hooks == {Idle} \union Founds \union Changes \union Writes
Entries == {NoEntry} \union [plan : Values, age : 0 .. TTL - 1, stale : Nat]
Fills ==
  {Idle, [stage |-> "asked"]}
    \union [stage : {"answered"}, plan : Values, lag : 0 .. Lag, stale : Nat]

-----------------------------------------------------------------------------
(* Every variable keeps its type.                                          *)
LEMMA TypeInitially == Init => TypeOK
<1> SUFFICES ASSUME Init PROVE TypeOK OBVIOUS
<1>1. row \in {NoRow} \union Subscriptions /\ tenantPlan \in Plans \union {"none"}
  BY PlanAssumption DEF Init, Subscriptions, Statuses
<1>2. invoice \in [Invoices -> InvoiceRows] BY DEF Init, InvoiceRows
<1> QED BY <1>1, <1>2 DEF Init, TypeOK, Idle

LEMMA EntitlementType == row \in {NoRow} \union Subscriptions => Entitlement \in Values
BY DEF Entitlement, Subscriptions, Values

LEMMA OlderType ==
  ASSUME NEW entry \in Entries PROVE Older(entry) \in Entries
<1>1. CASE entry = NoEntry BY <1>1 DEF Older, Entries
<1>2. CASE entry # NoEntry
  <2>1. entry \in [plan : Values, age : 0 .. TTL - 1, stale : Nat] BY <1>2 DEF Entries
  <2>2. StaleFor(entry) \in Nat BY <2>1 DEF StaleFor
  <2>3. CASE entry.age + 1 = TTL BY <2>3 DEF Older, Entries
  <2>4. CASE entry.age + 1 # TTL
    <3>1. entry.age + 1 \in 0 .. TTL - 1 BY <2>1, <2>4, TimeAssumption
    <3>2. [entry EXCEPT !.age = @ + 1, !.stale = StaleFor(entry)] \in Entries
      BY <2>1, <2>2, <3>1 DEF Entries
    <3> QED BY <1>2, <2>4, <3>2 DEF Older
  <2> QED BY <2>3, <2>4
<1> QED BY <1>1, <1>2

LEMMA TypeInductive == TypeOK /\ [Next]_vars => TypeOK'
<1> SUFFICES ASSUME TypeOK, [Next]_vars PROVE TypeOK' OBVIOUS
<1>0. /\ TypeOK <=>
           /\ row \in {NoRow} \union Subscriptions /\ tenantPlan \in Plans \union {"none"}
           /\ invoice \in [Invoices -> InvoiceRows]
           /\ hook \in [Processes -> Hooks] /\ lock \subseteq Processes
           /\ cache \in [Processes -> Entries] /\ fill \in [Readers -> Fills]
           /\ crossed \in BOOLEAN /\ Found(row, hook)
      /\ TypeOK' <=>
           /\ row' \in {NoRow} \union Subscriptions /\ tenantPlan' \in Plans \union {"none"}
           /\ invoice' \in [Invoices -> InvoiceRows]
           /\ hook' \in [Processes -> Hooks] /\ lock' \subseteq Processes
           /\ cache' \in [Processes -> Entries] /\ fill' \in [Readers -> Fills]
           /\ crossed' \in BOOLEAN /\ Found(row', hook')
  BY DEF TypeOK, Found, Hooks, Founds, Changes, Writes, Entries, Fills
<1>h. Idle \in Hooks /\ NoEntry \in Entries BY DEF Hooks, Entries
<1>w. ASSUME NEW p \in Processes, NEW new \in Subscriptions, NEW plan \in Plans \union {"none"},
             LockAndWrite(p, new, plan)
      PROVE  /\ hook' \in [Processes -> Hooks] /\ lock' \subseteq Processes
             /\ Found(row, hook')
  <2>1. [stage |-> "written", row |-> new, plan |-> plan] \in Hooks BY DEF Hooks, Writes
  <2> QED BY <1>w, <2>1, <1>0 DEF LockAndWrite, Found
<1>s. ASSUME NEW status \in Statuses, row # NoRow
      PROVE  WithStatus(status) \in Subscriptions /\ WithStatus(status) # NoRow
  BY <1>s, <1>0 DEF WithStatus, Subscriptions, NoRow, Statuses
<1>1. ASSUME NEW p \in Processes, NEW s \in Subs, BeginCheckout(p, s) PROVE TypeOK'
  <2>1. [stage |-> "found", sub |-> s] \in Hooks BY DEF Hooks, Founds
  <2> QED BY <1>1, <2>1, <1>0 DEF BeginCheckout, Found
<1>2. ASSUME NEW p \in Processes, UpsertSubscription(p) PROVE TypeOK'
  <2>1. hook[p].sub \in Subs
    BY <1>2, <1>0 DEF UpsertSubscription, Hooks, Founds, Changes, Writes, Idle
  <2>2. Upserted(hook[p].sub) \in Subscriptions /\ PlanOf[hook[p].sub] \in Plans
    BY <2>1, PlanAssumption DEF Upserted, Subscriptions, Statuses
  <2> QED BY <1>2, <2>2, <1>w, <1>0 DEF UpsertSubscription
<1>3. ASSUME NEW p \in Processes, NEW s \in Subs, NEW status \in Statuses,
             FindSubscription(p, s, status)
      PROVE  TypeOK'
  <2>1. row # NoRow BY <1>3, PlanAssumption DEF FindSubscription, NoRow
  <2>2. [stage |-> "located", sub |-> s, status |-> status] \in Hooks
    BY DEF Hooks, Changes
  <2> QED BY <1>3, <2>1, <2>2, <1>0 DEF FindSubscription, Found
<1>4. ASSUME NEW p \in Processes, WriteStatus(p) PROVE TypeOK'
  <2>1. hook[p].status \in Statuses /\ row # NoRow
    BY <1>4, <1>0 DEF WriteStatus, Found, Hooks, Founds, Changes, Writes, Idle
  <2> QED BY <1>4, <2>1, <1>s, <1>w, <1>0, PlanAssumption DEF WriteStatus
<1>5. ASSUME NEW p \in Processes, InvalidateInTransaction(p) PROVE TypeOK'
  <2>1. hook[p] \in Writes
    BY <1>5, <1>0 DEF InvalidateInTransaction, Hooks, Founds, Changes, Writes, Idle
  <2>2. [hook[p] EXCEPT !.stage = "invalidated"] \in Hooks BY <2>1 DEF Hooks, Writes
  <2> QED BY <1>5, <2>2, <1>h, <1>0 DEF InvalidateInTransaction, Found, Writes
<1>6. ASSUME NEW p \in Processes, CommitWebhook(p) PROVE TypeOK'
  <2>1. hook[p] \in Writes
    BY <1>6, <1>0 DEF CommitWebhook, Hooks, Founds, Changes, Writes, Idle
  <2> QED BY <1>6, <2>1, <1>h, <1>0 DEF CommitWebhook, Found, Writes, Subscriptions, NoRow, Statuses
<1>7. ASSUME NEW p \in Processes, Rollback(p) PROVE TypeOK'
  BY <1>7, <1>h, <1>0 DEF Rollback, Found, Idle
<1>8. ASSUME NEW p \in Processes, NEW status \in Statuses, AskToCancel(p, status)
       PROVE  TypeOK'
  <2>1. row.sub \in Subs \union {NoSub} BY <1>0 DEF Subscriptions, NoRow
  <2>2. [stage |-> "canceling", sub |-> row.sub, status |-> status] \in Hooks
    BY <2>1 DEF Hooks, Changes
  <2> QED BY <1>8, <2>2, <1>0 DEF AskToCancel, Found
<1>9. ASSUME NEW p \in Processes, WriteCanceled(p) PROVE TypeOK'
  <2>1. hook[p].status \in Statuses /\ row # NoRow
    BY <1>9, <1>0 DEF WriteCanceled, Found, Hooks, Founds, Changes, Writes, Idle
  <2> QED BY <1>9, <2>1, <1>s, <1>h, <1>0 DEF WriteCanceled, Found
<1>10. ASSUME NEW e \in InvoiceEvents, ApplyInvoice(e) PROVE TypeOK'
  <2>1. /\ e.invoice \in Invoices /\ e.paid \in BOOLEAN
        /\ e.status \in InvoiceStatuses \union {Unsaid}
    BY InvoiceAssumption
  <2> DEFINE before == invoice[e.invoice]
  <2>2. before \in InvoiceRows BY <2>1, <1>0
  <2>3. before.paid \in BOOLEAN /\ (before # NoInvoice => before.status \in InvoiceStatuses)
    <3>1. CASE before = NoInvoice BY <3>1 DEF NoInvoice
    <3>2. CASE before \in [status : InvoiceStatuses, paid : BOOLEAN] BY <3>2
    <3> HIDE DEF before
    <3> QED BY <2>2, <3>1, <3>2 DEF InvoiceRows
  <2> HIDE DEF before
  <2>4. InvoiceAfter(e, before) \in InvoiceRows
    BY <2>1, <2>3 DEF InvoiceAfter, InvoiceRows, InvoiceStatuses
  <2>5. invoice' = [invoice EXCEPT ![e.invoice] = InvoiceAfter(e, before)]
    BY <1>10 DEF ApplyInvoice, before
  <2>6. invoice' \in [Invoices -> InvoiceRows] BY <2>4, <2>5, <1>0
  <2> QED BY <1>10, <2>6, <1>0 DEF ApplyInvoice
<1>11. ASSUME NEW r \in Readers, StartRead(r) PROVE TypeOK'
  <2>1. [stage |-> "asked"] \in Fills BY DEF Fills
  <2> QED BY <1>11, <2>1, <1>0 DEF StartRead
<1>12. ASSUME NEW r \in Readers, NEW answer \in {Entitlement, Denied}, DatabaseAnswers(r, answer)
      PROVE  TypeOK'
  <2>1. answer \in Values BY <1>0, EntitlementType DEF Values
  <2>2. [stage |-> "answered", plan |-> answer, lag |-> 0, stale |-> 0] \in Fills
    BY <2>1, TimeAssumption DEF Fills
  <2> QED BY <1>12, <2>2, <1>0 DEF DatabaseAnswers
<1>13. ASSUME NEW r \in Readers, PutCache(r) PROVE TypeOK'
  <2>1. fill[r].plan \in Values /\ fill[r].stale \in Nat
    BY <1>13, <1>0 DEF PutCache, Answered, Fills, Idle
  <2>2. [plan |-> fill[r].plan, age |-> 0, stale |-> fill[r].stale] \in Entries
    BY <2>1, TimeAssumption DEF Entries
  <2>3. Idle \in Fills BY DEF Fills
  <2> QED BY <1>13, <2>2, <2>3, <1>0 DEF PutCache
<1>14. ASSUME NEW p \in Processes, Evict(p) PROVE TypeOK'
  <2>1. NoEntry \in Entries BY DEF Entries
  <2> QED BY <1>14, <2>1, <1>0 DEF Evict
<1>15. CASE Tick
  <2>1. ASSUME NEW r \in Readers, Answered(r)
        PROVE  [fill[r] EXCEPT !.lag = @ + 1, !.stale = StaleFor(fill[r])] \in Fills
    <3>1. fill[r] \in [stage : {"answered"}, plan : Values, lag : 0 .. Lag, stale : Nat]
      BY <2>1, <1>0 DEF Answered, Fills, Idle
    <3>2. StaleFor(fill[r]) \in Nat BY <3>1 DEF StaleFor
    <3>3. fill[r].lag < Lag BY <2>1, <1>15 DEF Tick
    <3>4. fill[r].lag + 1 \in 0 .. Lag BY <3>1, <3>3, TimeAssumption
    <3> QED BY <3>1, <3>2, <3>4 DEF Fills
  <2>2. fill' \in [Readers -> Fills] BY <1>15, <2>1, <1>0 DEF Tick
  <2>3. cache' \in [Processes -> Entries] BY <1>15, <1>0, OlderType DEF Tick
  <2> QED BY <1>15, <2>2, <2>3, <1>0 DEF Tick
<1>16. CASE UNCHANGED vars BY <1>16, <1>0 DEF vars
<1> QED
  BY <1>1, <1>2, <1>3, <1>4, <1>5, <1>6, <1>7, <1>8,
     <1>9, <1>10, <1>11, <1>12, <1>13, <1>14, <1>15, <1>16
  DEF Next, Webhook, Cancel, Read

(* All the values the model's variables take are of the expected kind.     *)
THEOREM TypeCorrect == Spec => []TypeOK
BY TypeInitially, TypeInductive, PTL DEF Spec

-----------------------------------------------------------------------------
(* The age and the staleness of entries.                                   *)
LEMMA AgeInitially == Init => AgeInv
BY DEF Init, AgeInv, Answered, Fresh, Idle

LEMMA AgeInductive == TypeOK /\ AgeInv /\ [Next]_vars => AgeInv'
<1> SUFFICES ASSUME TypeOK, AgeInv, [Next]_vars PROVE AgeInv' OBVIOUS
<1> USE DEF AgeInv, Answered, Fresh
<1>0. /\ hook \in [Processes -> Hooks] /\ cache \in [Processes -> Entries]
      /\ fill \in [Readers -> Fills]
  BY DEF TypeOK, Hooks, Founds, Changes, Writes, Entries, Fills
<1>1. ASSUME NEW p \in Processes, Webhook(p) PROVE AgeInv'
  BY <1>1, <1>0 DEF Webhook, BeginCheckout, UpsertSubscription, FindSubscription, WriteStatus,
                    LockAndWrite, InvalidateInTransaction, CommitWebhook, Rollback
<1>2. ASSUME NEW r \in Readers, StartRead(r) PROVE AgeInv' BY <1>2, <1>0 DEF StartRead
<1>3. ASSUME NEW r \in Readers, NEW answer \in {Entitlement, Denied}, DatabaseAnswers(r, answer)
      PROVE  AgeInv'
  BY <1>3, <1>0 DEF DatabaseAnswers
<1>4. ASSUME NEW r \in Readers, PutCache(r) PROVE AgeInv'
  <2>1. fill[r].stale \in Nat /\ fill[r].lag \in 0 .. Lag /\ fill[r].stale <= fill[r].lag
    BY <1>4, <1>0 DEF PutCache, Fills, Idle
  <2>2. fill[r].stale <= 0 + Lag BY <2>1, TimeAssumption
  <2> QED BY <1>4, <2>2, <1>0 DEF PutCache, Idle
<1>5. ASSUME NEW p \in Processes, Evict(p) PROVE AgeInv' BY <1>5, <1>0 DEF Evict
<1>6. CASE Tick
  <2>1. ASSUME NEW r \in Readers, Answered(r)' PROVE (fill[r].stale <= fill[r].lag)'
    <3>1. Answered(r) /\ fill'[r] = [fill[r] EXCEPT !.lag = @ + 1, !.stale = StaleFor(fill[r])]
      BY <2>1, <1>6, <1>0 DEF Tick
    <3>2. fill[r] \in [stage : {"answered"}, plan : Values, lag : 0 .. Lag, stale : Nat]
      BY <3>1, <1>0 DEF Fills, Idle
    <3>3. StaleFor(fill[r]) <= fill[r].stale + 1 BY <3>2 DEF StaleFor
    <3> QED BY <3>1, <3>2, <3>3, TimeAssumption DEF StaleFor
  <2>2. ASSUME NEW p \in Processes, Fresh(p)' PROVE (cache[p].stale <= cache[p].age + Lag)'
    <3>1. /\ cache[p] # NoEntry
          /\ cache'[p] = [cache[p] EXCEPT !.age = @ + 1, !.stale = StaleFor(cache[p])]
      BY <2>2, <1>6, <1>0 DEF Tick, Older
    <3>2. cache[p] \in [plan : Values, age : 0 .. TTL - 1, stale : Nat]
      BY <3>1, <1>0 DEF Entries
    <3>3. cache[p].stale <= cache[p].age + Lag BY <3>1
    <3> QED BY <3>1, <3>2, <3>3, TimeAssumption DEF StaleFor
  <2> QED BY <2>1, <2>2
<1>7. ASSUME NEW p \in Processes, NEW status \in Statuses, AskToCancel(p, status) PROVE AgeInv'
  BY <1>7, <1>0 DEF AskToCancel
<1>8. ASSUME NEW p \in Processes, WriteCanceled(p) PROVE AgeInv' BY <1>8, <1>0 DEF WriteCanceled
<1>9. CASE UNCHANGED <<cache, fill>> BY <1>9
<1> QED
  BY <1>1, <1>2, <1>3, <1>4, <1>5, <1>6, <1>7, <1>8, <1>9
  DEF Next, Cancel, Read, ApplyInvoice, vars

(* What a process serves was committed less than TTL + Lag ticks ago.      *)
THEOREM Stale == Spec => []StalenessBounded
<1>1. TypeOK /\ AgeInv => StalenessBounded
  <2> SUFFICES ASSUME TypeOK, AgeInv, NEW p \in Processes, Fresh(p)
               PROVE  cache[p].stale < TTL + Lag
    BY DEF StalenessBounded
  <2>1. cache[p] \in [plan : Values, age : 0 .. TTL - 1, stale : Nat] BY DEF TypeOK, Fresh
  <2>2. cache[p].stale <= cache[p].age + Lag BY DEF AgeInv
  <2> QED BY <2>1, <2>2, TimeAssumption
<1> QED BY AgeInitially, AgeInductive, TypeCorrect, <1>1, PTL DEF Spec

-----------------------------------------------------------------------------
(* The rows the webhooks write.                                            *)
LEMMA HookInitially == Init => HookInv
BY PlanAssumption DEF Init, HookInv, Matches, Writing, NoRow, Idle

LEMMA HookInductive == TypeOK /\ HookInv /\ [Next]_vars => HookInv'
<1> SUFFICES ASSUME TypeOK, HookInv, [Next]_vars PROVE HookInv' OBVIOUS
<1> USE DEF HookInv, Writing
<1>0. hook \in [Processes -> Hooks] BY DEF TypeOK, Hooks, Founds, Changes, Writes
<1>1. ASSUME NEW p \in Processes, NEW s \in Subs, BeginCheckout(p, s) PROVE HookInv'
  BY <1>1, <1>0 DEF BeginCheckout
<1>2. ASSUME NEW p \in Processes, UpsertSubscription(p) PROVE HookInv'
  BY <1>2, <1>0 DEF UpsertSubscription, LockAndWrite, Upserted, Matches
<1>3. ASSUME NEW p \in Processes, NEW s \in Subs, NEW status \in Statuses,
             FindSubscription(p, s, status)
      PROVE  HookInv'
  BY <1>3, <1>0 DEF FindSubscription
<1>4. ASSUME NEW p \in Processes, WriteStatus(p) PROVE HookInv'
  <2>1. row # NoRow BY <1>4 DEF WriteStatus, TypeOK
  <2>2. WithStatus(hook[p].status).sub = row.sub /\ WithStatus(hook[p].status).plan = row.plan
    BY <2>1 DEF WithStatus, TypeOK, Subscriptions
  <2>3. Matches(WithStatus(hook[p].status), tenantPlan) BY <2>2 DEF Matches
  <2> QED BY <1>4, <2>3, <1>0 DEF WriteStatus, LockAndWrite
<1>5. ASSUME NEW p \in Processes, InvalidateInTransaction(p) PROVE HookInv'
  <2>1. hook[p] \in Writes
    BY <1>5, <1>0 DEF InvalidateInTransaction, Hooks, Founds, Changes, Writes, Idle
  <2>2. hook'[p].row = hook[p].row /\ hook'[p].plan = hook[p].plan
    BY <1>5, <2>1, <1>0 DEF InvalidateInTransaction, Writes
  <2> QED BY <1>5, <2>2, <1>0 DEF InvalidateInTransaction
<1>6. ASSUME NEW p \in Processes, CommitWebhook(p) PROVE HookInv'
  BY <1>6, <1>0 DEF CommitWebhook, Idle
<1>7. ASSUME NEW p \in Processes, Rollback(p) PROVE HookInv'
  BY <1>7, <1>0 DEF Rollback, Idle
<1>8. ASSUME NEW p \in Processes, NEW status \in Statuses, AskToCancel(p, status)
      PROVE  HookInv'
  BY <1>8, <1>0 DEF AskToCancel
<1>9. ASSUME NEW p \in Processes, WriteCanceled(p) PROVE HookInv'
  <2>1. row # NoRow BY <1>9 DEF WriteCanceled, TypeOK
  <2>2. row'.sub = row.sub /\ row'.plan = row.plan /\ tenantPlan' = tenantPlan
    BY <1>9, <2>1 DEF WriteCanceled, WithStatus, TypeOK, Subscriptions
  <2>3. Matches(row', tenantPlan') BY <2>2 DEF Matches
  <2>4. hook' = [hook EXCEPT ![p] = Idle] BY <1>9 DEF WriteCanceled
  <2> QED BY <2>3, <2>4, <1>0 DEF Idle
<1>10. CASE UNCHANGED <<row, tenantPlan, hook>> BY <1>10
<1> QED
  BY <1>1, <1>2, <1>3, <1>4, <1>5, <1>6, <1>7, <1>8, <1>9, <1>10
  DEF Next, Webhook, Cancel, Read, ApplyInvoice, Evict, StartRead, DatabaseAnswers, PutCache,
      Tick, vars

(* The row and the tenant name the plan of the row's subscription.         *)
THEOREM PlanMatches == Spec => []PlanMatchesSubscription
<1>1. HookInv => PlanMatchesSubscription BY DEF HookInv, Matches, PlanMatchesSubscription
<1> QED BY HookInitially, HookInductive, TypeCorrect, <1>1, PTL DEF Spec

-----------------------------------------------------------------------------
(* The statuses they write.                                                *)
LEMMA StatusInitially == Init => StatusInv
BY PlanAssumption DEF Init, StatusInv, Reported, Writing, NoRow, Idle

LEMMA StatusInductive == TypeOK /\ StatusInv /\ [Next]_vars => StatusInv'
<1> SUFFICES ASSUME TypeOK, StatusInv, [Next]_vars PROVE StatusInv' OBVIOUS
<1> USE DEF StatusInv, Writing
<1>0. hook \in [Processes -> Hooks] /\ crossed \in BOOLEAN
  BY DEF TypeOK, Hooks, Founds, Changes, Writes
<1>w. ASSUME NEW p \in Processes, hook[p].stage \in {"located", "canceling"},
             ~crossed, ~Crosses(p)
      PROVE  Reported(WithStatus(hook[p].status))
  <2>1. row \in Subscriptions BY <1>w DEF TypeOK
  <2>2. /\ WithStatus(hook[p].status).sub = hook[p].sub
        /\ WithStatus(hook[p].status).status = hook[p].status
    BY <1>w, <2>1 DEF WithStatus, Crosses, Subscriptions
  <2> QED BY <1>w, <2>2 DEF Reported
<1>1. ASSUME NEW p \in Processes, NEW s \in Subs, BeginCheckout(p, s) PROVE StatusInv'
  BY <1>1, <1>0 DEF BeginCheckout
<1>2. ASSUME NEW p \in Processes, UpsertSubscription(p) PROVE StatusInv'
  <2>1. Reported(Upserted(hook[p].sub)) BY DEF Reported, Upserted
  <2> QED BY <1>2, <2>1, <1>0 DEF UpsertSubscription, LockAndWrite
<1>3. ASSUME NEW p \in Processes, NEW s \in Subs, NEW status \in Statuses,
             FindSubscription(p, s, status)
      PROVE  StatusInv'
  <2>1. ~crossed => Reported([stage |-> "located", sub |-> s, status |-> status])
    BY <1>3 DEF FindSubscription, Reported
  <2> QED BY <1>3, <2>1, <1>0 DEF FindSubscription
<1>4. ASSUME NEW p \in Processes, WriteStatus(p) PROVE StatusInv'
  <2>1. ~crossed' => ~crossed /\ Reported(WithStatus(hook[p].status))
    BY <1>4, <1>w DEF WriteStatus
  <2> QED BY <1>4, <2>1, <1>0 DEF WriteStatus, LockAndWrite
<1>5. ASSUME NEW p \in Processes, InvalidateInTransaction(p) PROVE StatusInv'
  <2>1. hook[p] \in Writes
    BY <1>5, <1>0 DEF InvalidateInTransaction, Hooks, Founds, Changes, Writes, Idle
  <2>2. hook'[p].row = hook[p].row /\ hook'[p].stage = "invalidated"
    BY <1>5, <2>1, <1>0 DEF InvalidateInTransaction, Writes
  <2> QED BY <1>5, <2>2, <1>0 DEF InvalidateInTransaction
<1>6. ASSUME NEW p \in Processes, CommitWebhook(p) PROVE StatusInv'
  BY <1>6, <1>0 DEF CommitWebhook, Idle
<1>7. ASSUME NEW p \in Processes, Rollback(p) PROVE StatusInv'
  BY <1>7, <1>0 DEF Rollback, Idle
<1>8. ASSUME NEW p \in Processes, NEW status \in Statuses, AskToCancel(p, status)
      PROVE  StatusInv'
  <2>1. Reported([stage |-> "canceling", sub |-> row.sub, status |-> status])
    BY <1>8 DEF AskToCancel, Reported
  <2> QED BY <1>8, <2>1, <1>0 DEF AskToCancel
<1>9. ASSUME NEW p \in Processes, WriteCanceled(p) PROVE StatusInv'
  <2>1. ~crossed' => ~crossed /\ Reported(row')
    BY <1>9, <1>w DEF WriteCanceled
  <2> QED BY <1>9, <2>1, <1>0 DEF WriteCanceled, Idle
<1>10. CASE UNCHANGED <<row, hook, crossed>> BY <1>10
<1> QED
  BY <1>1, <1>2, <1>3, <1>4, <1>5, <1>6, <1>7, <1>8, <1>9, <1>10
  DEF Next, Webhook, Cancel, Read, ApplyInvoice, Evict, StartRead, DatabaseAnswers, PutCache,
      Tick, vars

(* The status of the row was reported of the row's subscription, unless a  *)
(* write crossed another.                                                  *)
THEOREM StatusRight == Spec => []StatusOfSubscription
<1>1. StatusInv => StatusOfSubscription BY DEF StatusInv, Reported, StatusOfSubscription
<1> QED BY StatusInitially, StatusInductive, TypeCorrect, <1>1, PTL DEF Spec

=============================================================================
