------------------------------- MODULE Billing -------------------------------
(***************************************************************************)
(* core/billing/billing.service.ts and core/licensing/licensing.service.ts *)
(* for one tenant: the provider's webhooks, which change its subscription  *)
(* and its invoices, cancelSubscription, and the entitlement cache every   *)
(* process keeps for a few minutes and that a change invalidates in its    *)
(* own process only.                                                       *)
(*                                                                         *)
(* The provider (external) delivers each event at least once and in any    *)
(* order, so every event it ever sends can arrive at any time.  PostgreSQL *)
(* (external) runs READ COMMITTED: a write waits for the row's lock and    *)
(* sees what was committed last.  The features a tenant has follow from    *)
(* the plan of its subscription row and not from its status, so an         *)
(* entitlement is abstracted to that plan.                                 *)
(***************************************************************************)
EXTENDS Naturals

CONSTANTS
  Subs,       \* the subscriptions the tenant buys in a checkout session
  Invoices,   \* the provider's invoices of the tenant
  InvoiceEvents, \* what an event can say of them: a record of the
              \*   invoice, its subscription, whether the metadata names
              \*   the tenant, its status, and whether it was paid
  Plans,      \* plan codes
  PlanOf,     \* PlanOf[s]: metadata.plan_code of the checkout of s
  Says,       \* <<s, status>>: what the provider reports of s, in an event
              \*   or as its answer when it is cancelled
  Silent,     \* the subscriptions of which an event can say no status
  FirstPlan,  \* the plan provisioning gave the tenant
  NoSub,      \* a row without providerSubscriptionId
  Processes,  \* the API processes
  Readers,    \* getEntitlements calls that overlap at most
  At,         \* At[r]: the process that executes reader r
  TTL,        \* CACHE_TTL_MS, in ticks
  Lag         \* bound: ticks from the database's answer to putCache

ASSUME TimeAssumption == TTL \in Nat \ {0} /\ Lag \in Nat
ASSUME PlanAssumption ==
  PlanOf \in [Subs -> Plans] /\ FirstPlan \in Plans /\ NoSub \notin Subs
ASSUME ReaderAssumption == At \in [Readers -> Processes]

Statuses == {"trialing", "active", "past_due", "canceled"}
ASSUME StatusAssumption == Says \subseteq Subs \X Statuses

InvoiceStatuses == {"draft", "open", "paid", "uncollectible", "void"}
Unsaid == "unsaid"
ASSUME InvoiceAssumption ==
  InvoiceEvents \subseteq
    [invoice : Invoices, sub : Subs, named : BOOLEAN,
     status : InvoiceStatuses \union {Unsaid}, paid : BOOLEAN]

VARIABLES
  row,        \* the tenant's Subscription row, as committed
  tenantPlan, \* Tenant.planId, as committed
  invoice,    \* the Invoice rows: status, and whether there is paidAt
  hook,       \* hook[p]: the webhook, or the call of cancelSubscription,
              \*   that p is working on
  lock,       \* the process whose transaction holds the row's lock
  cache,      \* cache[p]: the tenant's entry in p's entitlement cache
  fill,       \* fill[r]: reader r, if its call missed the cache
  crossed     \* history: was a status written to the row of another
              \*   subscription than the one it was found with?

vars == <<row, tenantPlan, invoice, hook, lock, cache, fill, crossed>>

NoRow == [sub |-> NoSub, plan |-> "none", status |-> "none"]
Idle == [stage |-> "idle"]
NoEntry == [plan |-> "nothing"]
NoInvoice == [status |-> "none", paid |-> FALSE]

(* Features when no row is found, and when the query failed: {}.           *)
Permissive == "permissive"
Denied == "denied"
Entitlement == IF row = NoRow THEN Permissive ELSE row.plan

(* A tenant that was provisioned, or one older than the billing tables.    *)
Init ==
  /\ \/ /\ tenantPlan = FirstPlan
        /\ \E status \in {"trialing", "active"} :
             row = [sub |-> NoSub, plan |-> FirstPlan, status |-> status]
     \/ row = NoRow /\ tenantPlan = "none"
  /\ invoice = [i \in Invoices |-> NoInvoice]
  /\ hook = [p \in Processes |-> Idle]
  /\ lock = {}
  /\ cache = [p \in Processes |-> NoEntry]
  /\ fill = [r \in Readers |-> Idle]
  /\ crossed = FALSE

-----------------------------------------------------------------------------
(* applyWebhook                                                            *)

(* checkout.session.completed: the transaction is open, the plan is found. *)
BeginCheckout(p, s) ==
  /\ hook[p] = Idle
  /\ hook' = [hook EXCEPT ![p] = [stage |-> "found", sub |-> s]]
  /\ UNCHANGED <<row, tenantPlan, invoice, lock, cache, fill, crossed>>

(* Mutants: the update branch of the upsert forgets planId, or status.     *)
Upserted_KeepsPlan(s) ==
  [sub |-> s, plan |-> IF row = NoRow THEN PlanOf[s] ELSE row.plan, status |-> "active"]
Upserted_KeepsStatus(s) ==
  [sub |-> s, plan |-> PlanOf[s], status |-> IF row = NoRow THEN "active" ELSE row.status]

(* The row after the upsert.                                               *)
Upserted(s) == [sub |-> s, plan |-> PlanOf[s], status |-> "active"]

(* A write in a transaction waits for the row's lock and keeps it until    *)
(* the end.  plan: what Tenant.planId will be.                             *)
LockAndWrite(p, new, plan) ==
  /\ lock = {}
  /\ lock' = {p}
  /\ hook' = [hook EXCEPT ![p] = [stage |-> "written", row |-> new, plan |-> plan]]

UpsertSubscription(p) ==
  /\ hook[p].stage = "found"
  /\ LockAndWrite(p, Upserted(hook[p].sub), PlanOf[hook[p].sub])
  /\ UNCHANGED <<row, tenantPlan, invoice, cache, fill, crossed>>

(* customer.subscription.*: the row is found by the subscription (an event *)
(* of any other is dropped), and written, by its tenant, later.  An event  *)
(* that says no status writes the one that was found.                      *)
FindSubscription(p, s, status) ==
  /\ hook[p] = Idle
  /\ row.sub = s
  /\ <<s, status>> \in Says \/ (s \in Silent /\ status = row.status)
  /\ hook' = [hook EXCEPT ![p] = [stage |-> "located", sub |-> s, status |-> status]]
  /\ UNCHANGED <<row, tenantPlan, invoice, lock, cache, fill, crossed>>

WithStatus(status) == [row EXCEPT !.status = status]
Crosses(p) == row.sub # hook[p].sub

WriteStatus(p) ==
  /\ hook[p].stage = "located"
  /\ LockAndWrite(p, WithStatus(hook[p].status), tenantPlan)
  /\ crossed' = (crossed \/ Crosses(p))
  /\ UNCHANGED <<row, tenantPlan, invoice, cache, fill>>

(* tenant.update and licensing.invalidate, before the commit.              *)
InvalidateInTransaction(p) ==
  /\ hook[p].stage = "written"
  /\ hook' = [hook EXCEPT ![p].stage = "invalidated"]
  /\ cache' = [cache EXCEPT ![p] = NoEntry]
  /\ UNCHANGED <<row, tenantPlan, invoice, lock, fill, crossed>>

CommitWebhook(p) ==
  /\ hook[p].stage = "invalidated"
  /\ row' = hook[p].row /\ tenantPlan' = hook[p].plan
  /\ hook' = [hook EXCEPT ![p] = Idle]
  /\ lock' = {}
  /\ UNCHANGED <<invoice, cache, fill, crossed>>

(* A statement or the commit fails, or the process dies: the provider gets *)
(* a 500, or no answer, and sends the event again.  A cancellation that    *)
(* ends here has written nothing.                                          *)
Rollback(p) ==
  /\ hook[p] # Idle
  /\ hook' = [hook EXCEPT ![p] = Idle]
  /\ lock' = lock \ {p}
  /\ UNCHANGED <<row, tenantPlan, invoice, cache, fill, crossed>>

-----------------------------------------------------------------------------
(* cancelSubscription, which has no transaction                            *)

(* The row is read and the provider answers; without a subscription the    *)
(* answer depends on atPeriodEnd only.                                     *)
AskToCancel(p, status) ==
  /\ hook[p] = Idle /\ row # NoRow
  /\ IF row.sub = NoSub THEN status \in {"active", "canceled"}
                        ELSE <<row.sub, status>> \in Says
  /\ hook' = [hook EXCEPT ![p] = [stage |-> "canceling", sub |-> row.sub, status |-> status]]
  /\ UNCHANGED <<row, tenantPlan, invoice, lock, cache, fill, crossed>>

(* The update waits for a webhook's lock and is committed at once.  (That  *)
(* invalidate() comes a moment later makes no difference: the plan is what *)
(* it was.)                                                                *)
WriteCanceled(p) ==
  /\ hook[p].stage = "canceling" /\ lock = {}
  /\ row' = WithStatus(hook[p].status)
  /\ crossed' = (crossed \/ Crosses(p))
  /\ hook' = [hook EXCEPT ![p] = Idle]
  /\ cache' = [cache EXCEPT ![p] = NoEntry]
  /\ UNCHANGED <<tenantPlan, invoice, lock, fill>>

-----------------------------------------------------------------------------
(* handleInvoiceEvent                                                      *)

(* The update branch keeps the status if the event has none, and paidAt if *)
(* the event has none, and else takes what the event says, whatever the    *)
(* row says: an older event that comes late, or comes again, reopens a     *)
(* paid invoice.  (The amount is written like the status.)                 *)
InvoiceAfter(e, before) ==
  [status |-> IF e.status # Unsaid THEN e.status
              ELSE IF before = NoInvoice THEN "open" ELSE before.status,
   paid |-> e.paid \/ before.paid]

(* invoice.finalized, .payment_failed or .paid, in any order and number.   *)
(* The tenant is found by the subscription its row has now, or named by    *)
(* the metadata; an event of no known tenant is dropped.  The upsert on    *)
(* providerInvoiceId, and its commit, are one step with the lookup.        *)
ApplyInvoice(e) ==
  /\ row.sub = e.sub \/ e.named
  /\ invoice' = [invoice EXCEPT ![e.invoice] = InvoiceAfter(e, @)]
  /\ UNCHANGED <<row, tenantPlan, hook, lock, cache, fill, crossed>>

-----------------------------------------------------------------------------
(* getEntitlements                                                         *)

(* An entry is served while Date.now() - cachedAt < CACHE_TTL_MS; one that *)
(* is older is never used again and left out.                              *)
Fresh(p) == cache[p] # NoEntry

(* stale is history: for how many ticks, so far, has what was read not     *)
(* been what is committed?                                                 *)
StaleFor(x) == IF x.plan = Entitlement THEN 0 ELSE x.stale + 1

(* Mutants: an entry that is exactly TTL old is served; cachedAt is        *)
(* stamped again on every hit.                                             *)
Older_OneTooLong(entry) ==
  IF entry = NoEntry \/ entry.age = TTL THEN NoEntry
  ELSE [entry EXCEPT !.age = @ + 1, !.stale = StaleFor(entry)]
Older_StampedOnHit(entry) ==
  IF entry = NoEntry THEN NoEntry ELSE [entry EXCEPT !.stale = 0]

Older(entry) ==
  IF entry = NoEntry \/ entry.age + 1 = TTL THEN NoEntry
  ELSE [entry EXCEPT !.age = @ + 1, !.stale = StaleFor(entry)]

(* A miss: two calls of a process can miss together, nothing joins them.   *)
StartRead(r) ==
  /\ fill[r] = Idle /\ ~Fresh(At[r])
  /\ fill' = [fill EXCEPT ![r] = [stage |-> "asked"]]
  /\ UNCHANGED <<row, tenantPlan, invoice, hook, lock, cache, crossed>>

(* loadFromDatabase: the database answers, or fails.                       *)
DatabaseAnswers(r, answer) ==
  /\ fill[r].stage = "asked"
  /\ answer \in {Entitlement, Denied}
  /\ fill' = [fill EXCEPT ![r] = [stage |-> "answered", plan |-> answer, lag |-> 0, stale |-> 0]]
  /\ UNCHANGED <<row, tenantPlan, invoice, hook, lock, cache, crossed>>

Answered(r) == fill[r].stage = "answered"

(* cachedAt is the time of the continuation, not that of the read.         *)
PutCache(r) ==
  /\ Answered(r)
  /\ cache' = [cache EXCEPT ![At[r]] = [plan |-> fill[r].plan, age |-> 0, stale |-> fill[r].stale]]
  /\ fill' = [fill EXCEPT ![r] = Idle]
  /\ UNCHANGED <<row, tenantPlan, invoice, hook, lock, crossed>>

(* The cache is full and another tenant's entry takes this one's place.    *)
Evict(p) ==
  /\ cache[p] # NoEntry
  /\ cache' = [cache EXCEPT ![p] = NoEntry]
  /\ UNCHANGED <<row, tenantPlan, invoice, hook, lock, fill, crossed>>

Tick ==
  /\ \A r \in Readers : Answered(r) => fill[r].lag < Lag
  /\ fill' = [r \in Readers |->
       IF Answered(r) THEN [fill[r] EXCEPT !.lag = @ + 1, !.stale = StaleFor(fill[r])]
       ELSE fill[r]]
  /\ cache' = [p \in Processes |-> Older(cache[p])]
  /\ UNCHANGED <<row, tenantPlan, invoice, hook, lock, crossed>>

-----------------------------------------------------------------------------
Webhook(p) ==
  \/ \E s \in Subs : BeginCheckout(p, s)
  \/ \E s \in Subs, status \in Statuses : FindSubscription(p, s, status)
  \/ UpsertSubscription(p) \/ WriteStatus(p)
  \/ InvalidateInTransaction(p) \/ CommitWebhook(p) \/ Rollback(p)

Cancel(p) ==
  \/ \E status \in Statuses : AskToCancel(p, status)
  \/ WriteCanceled(p)

Read(r) ==
  \/ StartRead(r)
  \/ \E answer \in {Entitlement, Denied} : DatabaseAnswers(r, answer)
  \/ PutCache(r)

Next ==
  \/ \E e \in InvoiceEvents : ApplyInvoice(e)
  \/ \E p \in Processes : Webhook(p) \/ Cancel(p) \/ Evict(p)
  \/ \E r \in Readers : Read(r)
  \/ Tick

Spec == Init /\ [][Next]_vars

(* Time passes, and the continuation of an answered read runs.             *)
FairSpec == Spec /\ WF_vars(Tick) /\ \A r \in Readers : WF_vars(PutCache(r))

-----------------------------------------------------------------------------
Subscriptions == [sub : Subs \union {NoSub}, plan : Plans, status : Statuses]
InvoiceRows == {NoInvoice} \union [status : InvoiceStatuses, paid : BOOLEAN]
Values == Plans \union {Permissive, Denied}

(* Types; and a row that was found is there still when it is written.      *)
TypeOK ==
  /\ row \in {NoRow} \union Subscriptions /\ tenantPlan \in Plans \union {"none"}
  /\ invoice \in [Invoices -> InvoiceRows]
  /\ hook \in [Processes ->
       {Idle} \union [stage : {"found"}, sub : Subs]
         \union [stage : {"located", "canceling"}, sub : Subs \union {NoSub}, status : Statuses]
         \union [stage : {"written", "invalidated"}, row : Subscriptions, plan : Plans \union {"none"}]]
  /\ row = NoRow => \A p \in Processes : hook[p].stage \notin {"located", "canceling"}
  /\ lock \subseteq Processes
  /\ cache \in [Processes -> {NoEntry} \union [plan : Values, age : 0 .. TTL - 1, stale : Nat]]
  /\ fill \in [Readers ->
       {Idle, [stage |-> "asked"]}
         \union [stage : {"answered"}, plan : Values, lag : 0 .. Lag, stale : Nat]]
  /\ crossed \in BOOLEAN

(* What a process serves from its cache was committed less than TTL + Lag  *)
(* ticks ago: the "5-minute window" licensing.service.ts promises, plus    *)
(* the time a read spends between the database and the cache, although     *)
(* invalidation comes before the commit, reaches one process only, and can *)
(* be undone by a read that was under way.                                 *)
StalenessBounded ==
  \A p \in Processes : Fresh(p) => cache[p].stale < TTL + Lag

(* The row names a plan and the subscription that was bought for it, and   *)
(* Tenant.planId is the plan of the row, whatever webhooks overlap, come   *)
(* again, come late or fail half way.                                      *)
PlanMatchesSubscription ==
  row.sub # NoSub => row.plan = PlanOf[row.sub] /\ tenantPlan = row.plan

(* The status of the row was reported of the subscription in the row, or   *)
(* comes with its checkout: that of the subscription a tenant has left     *)
(* never shows up on its new one, unless the new one was committed while   *)
(* an event, or a cancellation, was between its read and its write.        *)
StatusOfSubscription ==
  ~crossed /\ row.sub # NoSub =>
    row.status = "active" \/ <<row.sub, row.status>> \in Says

(* Once the plan stays what it is, every process comes to serve that plan  *)
(* or the empty answer of a failed read, and nothing older.                *)
ServesCurrentPlan ==
  \A v \in Plans \union {Permissive} :
    <>[](Entitlement = v) =>
      <>[](\A p \in Processes : Fresh(p) => cache[p].plan \in {v, Denied})
=============================================================================
