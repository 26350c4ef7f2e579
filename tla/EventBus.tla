------------------------------ MODULE EventBus ------------------------------
(***************************************************************************)
(* core/events/event-bus.service.ts: publishing to and consuming from NATS *)
(* JetStream.  subscribe() runs, for each durable consumer, a loop that    *)
(* takes one message at a time: it checks the signature, skips events seen *)
(* before (a map shared by all the consumers of the process), runs the     *)
(* handler with up to MaxRetries retries, acknowledges the message, and    *)
(* sends an event whose retries are exhausted to the dead-letter queue.    *)
(*                                                                         *)
(* JetStream (external) keeps a message for a durable until its ack        *)
(* arrives or the limits of the stream drop it, and delivers it again when *)
(* the ack is late or lost or the process restarts.  The consumers         *)
(* modelled are those of event-consumers.service.ts,                       *)
(* usage-event.consumer.ts and event-trigger.service.ts; a handler is its  *)
(* effect, which may happen or not, and the way it ends.                   *)
(***************************************************************************)
EXTENDS Naturals, Sequences, FiniteSets

CONSTANTS
  Events,       \* the events that may be published
  Durables,     \* the durable consumers of the process
  EventType,    \* EventType[e]: the event's type, a sequence of tokens
  Pattern,      \* Pattern[d]: the subject d passes to subscribe()
  Untenanted,   \* events without a tenantId
  BadSignature, \* events whose _hmac does not verify (a rotated secret)
  Undecodable,  \* messages that do not decode (of another producer)
  Ignored,      \* events whose handler returns early (no metric, a value
                \*   of 0 or less, an unknown tenant, an unmet condition)
  Swallowing,   \* durables whose handler catches errors of its own work
  MaxRetries,   \* MAX_RETRY_ATTEMPTS
  MaxInbox,     \* bounds: messages waiting in the iterator of a durable,
  MaxFaults     \*   and restarts, purges, lost acks, failed DLQ publishes
                \*   and messages dropped by the limits of the stream

ASSUME BoundsAssumption == MaxRetries \in Nat /\ MaxFaults \in Nat
ASSUME SubsetAssumption ==
  /\ Untenanted \union BadSignature \union Undecodable \union Ignored \subseteq Events
  /\ Swallowing \subseteq Durables

VARIABLES
  connected,  \* js is set: NATS was there when the process started
  published,  \* events accepted by the stream
  unacked,    \* unacked[d]: events JetStream still owes durable d
  inbox,      \* inbox[d]: deliveries waiting in d's `for await` loop
  processed,  \* processedEvents: the ids marked in this process
  work,       \* work[d]: what the loop of d is doing
  applied,    \* applied[d][e]: times the handler's effect was committed
  dlq,        \* <<d, e>> in the dead-letter stream
  dropped,    \* history: <<d, e>> lost by a crash or a failed DLQ publish
  expired,    \* history: <<d, e>> dropped by the stream before d's ack
  runs,       \* history: runs[d][e], times the loop entered the handler
  forgotten,  \* history: forgotten[e], times e left processed
  faults      \* history: faults so far

vars == <<connected, published, unacked, inbox, processed, work, applied, dlq, dropped,
          expired, runs, forgotten, faults>>

(* What the loop and the handlers never change.                            *)
streamVars == <<connected, published, expired>>

(* publish() puts an event on privacyops.<type>; subscribe() prefixes the  *)
(* subject it is given in the same way.                                    *)
Prefix == "privacyops"
Subject(e) == <<Prefix>> \o EventType[e]
Filter(d) == <<Prefix>> \o Pattern[d]
Receives(d, e) == Filter(d) = Subject(e)
EventsOf(d) == {e \in Events : Receives(d, e)}

(* processedEvents has no entry per durable: two durables of one process   *)
(* on the same subject would hide events from each other.  None are.       *)
ASSUME OneDurablePerSubject ==
  \A c, d \in Durables, e \in Events : Receives(c, e) /\ Receives(d, e) => c = d

Idle == [phase |-> "idle"]
Busy(d) == work[d].phase # "idle"
WorkingOn(d, e) == Busy(d) /\ work[d].event = e

(* The loop of d goes on with the event it holds.                          *)
Proceed(d, phase, attempt) ==
  work' = [work EXCEPT ![d] = [phase |-> phase, event |-> work[d].event, attempt |-> attempt]]

(* Messages that are acknowledged without a handler or a dead letter.      *)
Refused == BadSignature \union Undecodable

(* A handler that may return without its effect.                           *)
GivesUp(d, e) == d \in Swallowing \/ e \in Ignored

Init ==
  /\ connected \in BOOLEAN
  /\ published = {}
  /\ unacked = [d \in Durables |-> {}]
  /\ inbox = [d \in Durables |-> <<>>]
  /\ processed = {}
  /\ work = [d \in Durables |-> Idle]
  /\ applied = [d \in Durables |-> [e \in Events |-> 0]]
  /\ dlq = {} /\ dropped = {} /\ expired = {}
  /\ runs = [d \in Durables |-> [e \in Events |-> 0]]
  /\ forgotten = [e \in Events |-> 0]
  /\ faults = 0

-----------------------------------------------------------------------------
(* The stream                                                              *)

(* Without a connection, or a tenantId, publish() logs the event and       *)
(* returns: nothing changes, and the caller does not learn of it.          *)
Publish(e) ==
  /\ connected /\ e \notin Untenanted
  /\ e \notin published
  /\ published' = published \union {e}
  /\ unacked' = [d \in Durables |->
       IF Receives(d, e) THEN unacked[d] \union {e} ELSE unacked[d]]
  /\ UNCHANGED <<connected, inbox, processed, work, applied, dlq, dropped, expired,
                 runs, forgotten, faults>>

(* First delivery or, the ack being late or lost, another one; a process   *)
(* that found no NATS when it started has no subscription.                 *)
Deliver(d, e) ==
  /\ connected
  /\ e \in unacked[d]
  /\ Len(inbox[d]) < MaxInbox
  /\ inbox' = [inbox EXCEPT ![d] = Append(@, e)]
  /\ UNCHANGED <<streamVars, unacked, processed, work, applied, dlq, dropped,
                 runs, forgotten, faults>>

(* retention: limits.  The oldest messages go when there are more than     *)
(* max_msgs, or after max_age, acknowledged or not; which message that is, *)
(* is left open.  A delivery already in an inbox is still handled.         *)
Expire(e) ==
  /\ \E d \in Durables : e \in unacked[d]
  /\ faults < MaxFaults /\ faults' = faults + 1
  /\ unacked' = [d \in Durables |-> unacked[d] \ {e}]
  /\ expired' = expired \union {p \in Durables \X {e} : e \in unacked[p[1]]}
  /\ UNCHANGED <<connected, published, inbox, processed, work, applied, dlq, dropped,
                 runs, forgotten>>

(* msg.ack() does not wait for the server: the ack may be lost.            *)
Ack(d, e) ==
  \/ unacked' = [unacked EXCEPT ![d] = @ \ {e}] /\ UNCHANGED faults
  \/ faults < MaxFaults /\ faults' = faults + 1 /\ UNCHANGED unacked

-----------------------------------------------------------------------------
(* The loop of subscribe()                                                 *)

(* Mutant: a message that is skipped is not acknowledged.                  *)
SkipMessage_NoAck(d) ==
  /\ ~Busy(d) /\ inbox[d] # <<>>
  /\ Head(inbox[d]) \in Refused \union processed
  /\ inbox' = [inbox EXCEPT ![d] = Tail(@)]
  /\ UNCHANGED <<streamVars, unacked, processed, work, applied, dlq, dropped,
                 runs, forgotten, faults>>

(* A message that is not handled: bad signature, or marked already.  One   *)
(* that does not decode is acknowledged in the catch block, where it       *)
(* leaves no event to send to the dead-letter queue.                       *)
SkipMessage(d) ==
  /\ ~Busy(d) /\ inbox[d] # <<>>
  /\ Head(inbox[d]) \in Refused \union processed
  /\ Ack(d, Head(inbox[d]))
  /\ inbox' = [inbox EXCEPT ![d] = Tail(@)]
  /\ UNCHANGED <<streamVars, processed, work, applied, dlq, dropped, runs, forgotten>>

(* Mutant: the event is not marked.                                        *)
StartHandler_NotMarked(d) ==
  /\ ~Busy(d) /\ inbox[d] # <<>>
  /\ LET e == Head(inbox[d])
     IN  /\ e \notin Refused \union processed
         /\ work' = [work EXCEPT ![d] = [phase |-> "running", event |-> e, attempt |-> 0]]
         /\ runs' = [runs EXCEPT ![d][e] = @ + 1]
  /\ inbox' = [inbox EXCEPT ![d] = Tail(@)]
  /\ UNCHANGED <<streamVars, unacked, processed, applied, dlq, dropped, forgotten, faults>>

(* isAlreadyProcessed marks the event before the handler has run.          *)
StartHandler(d) ==
  /\ ~Busy(d) /\ inbox[d] # <<>>
  /\ LET e == Head(inbox[d])
     IN  /\ e \notin Refused \union processed
         /\ processed' = processed \union {e}
         /\ work' = [work EXCEPT ![d] = [phase |-> "running", event |-> e, attempt |-> 0]]
         /\ runs' = [runs EXCEPT ![d][e] = @ + 1]
  /\ inbox' = [inbox EXCEPT ![d] = Tail(@)]
  /\ UNCHANGED <<streamVars, unacked, applied, dlq, dropped, forgotten, faults>>

(* The handler's write commits, before the handler knows.                  *)
HandlerCommits(d) ==
  /\ work[d].phase = "running"
  /\ work[d].event \notin Ignored
  /\ Proceed(d, "committed", work[d].attempt)
  /\ applied' = [applied EXCEPT ![d][work[d].event] = @ + 1]
  /\ UNCHANGED <<streamVars, unacked, inbox, processed, dlq, dropped, runs, forgotten, faults>>

(* A handler that catches what its work throws, or returns early for an    *)
(* event it does not accept, returns as if it had succeeded.               *)
HandlerGivesUp(d) ==
  /\ work[d].phase = "running"
  /\ GivesUp(d, work[d].event)
  /\ Proceed(d, "committed", work[d].attempt)
  /\ UNCHANGED <<streamVars, unacked, inbox, processed, applied, dlq, dropped,
                 runs, forgotten, faults>>

HandlerReturns(d) ==
  /\ work[d].phase = "committed"
  /\ Ack(d, work[d].event)
  /\ work' = [work EXCEPT ![d] = Idle]
  /\ UNCHANGED <<streamVars, inbox, processed, applied, dlq, dropped, runs, forgotten>>

(* Mutant: one attempt too many.                                           *)
HandlerThrows_OffByOne(d) ==
  /\ work[d].phase \in {"running", "committed"}
  /\ work[d].attempt <= MaxRetries
  /\ Proceed(d, "backoff", work[d].attempt)
  /\ UNCHANGED <<streamVars, unacked, inbox, processed, applied, dlq, dropped,
                 runs, forgotten, faults>>

(* The handler throws, possibly after its write was committed: wait for    *)
(* the next attempt.  One that catches can still throw before or after its *)
(* try block (the tenant lookup, the notification, a missing payload).     *)
HandlerThrows(d) ==
  /\ work[d].phase \in {"running", "committed"}
  /\ work[d].attempt < MaxRetries
  /\ Proceed(d, "backoff", work[d].attempt)
  /\ UNCHANGED <<streamVars, unacked, inbox, processed, applied, dlq, dropped,
                 runs, forgotten, faults>>

(* Mutant: the attempt is not counted.                                     *)
Retry_NotCounted(d) ==
  /\ work[d].phase = "backoff"
  /\ Proceed(d, "running", work[d].attempt)
  /\ UNCHANGED <<streamVars, unacked, inbox, processed, applied, dlq, dropped,
                 runs, forgotten, faults>>

(* The next attempt, after a back-off.                                     *)
Retry(d) ==
  /\ work[d].phase = "backoff"
  /\ Proceed(d, "running", work[d].attempt + 1)
  /\ UNCHANGED <<streamVars, unacked, inbox, processed, applied, dlq, dropped,
                 runs, forgotten, faults>>

(* Mutant: acknowledged, and the event dropped.                            *)
RetriesExhausted_NoDlq(d) ==
  /\ work[d].phase \in {"running", "committed"}
  /\ work[d].attempt = MaxRetries
  /\ Ack(d, work[d].event)
  /\ work' = [work EXCEPT ![d] = Idle]
  /\ UNCHANGED <<streamVars, inbox, processed, applied, dlq, dropped, runs, forgotten>>

(* The last attempt throws: the message is acknowledged, and only then is  *)
(* the event sent to the dead-letter queue.                                *)
RetriesExhausted(d) ==
  /\ work[d].phase \in {"running", "committed"}
  /\ work[d].attempt = MaxRetries
  /\ Ack(d, work[d].event)
  /\ Proceed(d, "dlq", work[d].attempt)
  /\ UNCHANGED <<streamVars, inbox, processed, applied, dlq, dropped, runs, forgotten>>

PublishToDlq(d) ==
  /\ work[d].phase = "dlq"
  /\ dlq' = dlq \union {<<d, work[d].event>>}
  /\ work' = [work EXCEPT ![d] = Idle]
  /\ UNCHANGED <<streamVars, unacked, inbox, processed, applied, dropped, runs,
                 forgotten, faults>>

(* publishToDlq logs a failure of the publish, and the loop goes on.       *)
DlqPublishFails(d) ==
  /\ work[d].phase = "dlq"
  /\ faults < MaxFaults /\ faults' = faults + 1
  /\ dropped' = dropped \union {<<d, work[d].event>>}
  /\ work' = [work EXCEPT ![d] = Idle]
  /\ UNCHANGED <<streamVars, unacked, inbox, processed, applied, dlq, runs, forgotten>>

-----------------------------------------------------------------------------
(* The process                                                             *)

Forget(S) ==
  forgotten' = [e \in Events |-> IF e \in S THEN forgotten[e] + 1 ELSE forgotten[e]]

(* The cleanup timer: an entry lives for IDEMPOTENCY_TTL_MS, ten minutes,  *)
(* which is taken to be longer than a handler and its retries run.         *)
PurgeProcessed(e) ==
  /\ e \in processed
  /\ \A d \in Durables : ~WorkingOn(d, e)
  /\ faults < MaxFaults /\ faults' = faults + 1
  /\ processed' = processed \ {e}
  /\ Forget({e})
  /\ UNCHANGED <<streamVars, unacked, inbox, work, applied, dlq, dropped, runs>>

(* Everything in memory is gone.  An event that was being handled and is   *)
(* acknowledged already is gone for good.  onModuleInit connects again, or *)
(* goes on without NATS until the next restart.                            *)
Restart ==
  /\ faults < MaxFaults /\ faults' = faults + 1
  /\ dropped' = dropped \union
       {p \in Durables \X Events : WorkingOn(p[1], p[2]) /\ p[2] \notin unacked[p[1]]}
  /\ processed' = {}
  /\ Forget(processed)
  /\ inbox' = [d \in Durables |-> <<>>]
  /\ work' = [d \in Durables |-> Idle]
  /\ connected' \in BOOLEAN
  /\ UNCHANGED <<published, unacked, applied, dlq, expired, runs>>

-----------------------------------------------------------------------------
Loop(d) ==
  \/ SkipMessage(d) \/ StartHandler(d)
  \/ HandlerCommits(d) \/ HandlerGivesUp(d) \/ HandlerReturns(d)
  \/ HandlerThrows(d) \/ Retry(d) \/ RetriesExhausted(d)
  \/ PublishToDlq(d) \/ DlqPublishFails(d)

Next ==
  \/ \E e \in Events : Publish(e) \/ Expire(e) \/ PurgeProcessed(e)
  \/ \E d \in Durables : Loop(d) \/ \E e \in Events : Deliver(d, e)
  \/ Restart

Spec == Init /\ [][Next]_vars

DeliverNew(d, e) ==
  Deliver(d, e) /\ \A i \in 1..Len(inbox[d]) : inbox[d][i] # e

(* JetStream delivers what it is owed (a message a durable has not waiting *)
(* already); the loop goes on, and handlers end.                           *)
Fairness ==
  /\ \A d \in Durables : WF_vars(Loop(d))
  /\ \A d \in Durables : \A e \in EventsOf(d) :
       SF_vars(DeliverNew(d, e))

FairSpec == Spec /\ Fairness

-----------------------------------------------------------------------------
(* Properties                                                              *)

Phases == {"idle", "running", "committed", "backoff", "dlq"}

WorkType(d, w) ==
  /\ w.phase \in Phases
  /\ w.phase # "idle" => w.event \in EventsOf(d) /\ w.attempt \in 0..MaxRetries
  /\ w.phase = "backoff" => w.attempt < MaxRetries

StreamType ==
  /\ connected \in BOOLEAN
  /\ published \subseteq Events
  /\ unacked \in [Durables -> SUBSET Events]
  /\ \A d \in Durables : unacked[d] \subseteq published \intersect EventsOf(d)

ProcessType ==
  /\ inbox \in [Durables -> Seq(Events)]
  /\ \A d \in Durables : inbox[d] \in Seq(EventsOf(d))
  /\ processed \subseteq Events

LoopType == DOMAIN work = Durables /\ \A d \in Durables : WorkType(d, work[d])

ResultType ==
  /\ applied \in [Durables -> [Events -> Nat]]
  /\ dlq \union dropped \union expired \subseteq Durables \X Events

HistoryType ==
  /\ runs \in [Durables -> [Events -> Nat]]
  /\ forgotten \in [Events -> Nat]
  /\ faults \in 0..MaxFaults

(* Type invariant; a durable holds only events of its subject, and a       *)
(* handler is attempted at most 1 + MaxRetries times for one delivery.     *)
TypeOK == StreamType /\ ProcessType /\ LoopType /\ ResultType /\ HistoryType

(* Where an event that the stream no longer owes can be: handled, in the   *)
(* dead-letter queue, or still in the hands of the loop.  Else it was lost *)
(* in a way that leaves nothing but a log line: acknowledged unread        *)
(* (Refused), given up by a handler that returned without its effect,      *)
(* dropped by the limits of the stream, or hit by one of the two windows   *)
(* after the last ack (see dropped).                                       *)
Accounted(d, e) ==
  \/ applied[d][e] > 0
  \/ <<d, e>> \in dlq \union dropped \union expired
  \/ e \in Refused
  \/ GivesUp(d, e) /\ runs[d][e] > 0
  \/ WorkingOn(d, e)

(* These are all the ways in which an event that the stream accepted can   *)
(* be lost: retries, duplicates, lost acks, restarts and purges of the     *)
(* marks (which the loop acknowledges unread) lose none.                   *)
EveryLossIsKnown ==
  \A d \in Durables : \A e \in EventsOf(d) :
    e \in published \ unacked[d] => Accounted(d, e)

(* Redelivery does not run a handler again: a durable enters the handler   *)
(* of an event once, and once more each time the process forgot the event  *)
(* (restart, or the ten-minute purge).                                     *)
RunOncePerMemory ==
  \A d \in Durables, e \in Events : runs[d][e] <= 1 + forgotten[e]

(* What bounds the repeated effects that AppliedOnce rules out in vain:    *)
(* a handler's effect is committed once an attempt at most, in each life   *)
(* of the mark that the process keeps of the event.                        *)
EffectsBounded ==
  \A d \in Durables, e \in Events :
    applied[d][e] <= (1 + forgotten[e]) * (1 + MaxRetries)

(* The loop never blocks an event for good: an event owed to a durable is  *)
(* acknowledged in the end, whatever its handler does                      *)
(* ("Ack to prevent infinite redelivery", event-bus.service.ts:195), or    *)
(* dropped by the stream, unless the process restarts without NATS.        *)
EventuallyAcked ==
  \A d \in Durables : \A e \in EventsOf(d) :
    e \in unacked[d] ~> e \notin unacked[d] \/ ~connected

(* usage-event.consumer.ts:10: "Writes are idempotent via the existing     *)
(* eventId tracking in EventBusService.subscribe".                         *)
AppliedOnce == \A d \in Durables, e \in Events : applied[d][e] <= 1

(* The rules of event-trigger.service.ts: an event of a rule's type starts *)
(* the rule's workflow handler.  RuleType[d] is the type d is meant for.   *)
TriggersRun(Rules, RuleType) ==
  \A d \in Rules, e \in Events :
    EventType[e] = RuleType[d] /\ e \in published ~> runs[d][e] > 0
=============================================================================
