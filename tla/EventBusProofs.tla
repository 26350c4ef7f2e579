--------------------------- MODULE EventBusProofs ---------------------------
(***************************************************************************)
(* Proofs about EventBus, for any events, durables, retry limit and        *)
(* bounds: the type invariant, all the ways in which an event can be lost, *)
(* that redelivery runs no handler twice, how often an effect can be       *)
(* repeated, and that a doubled prefix keeps a handler from ever running.  *)
(* IInv strengthens EveryLossIsKnown to the events that are marked as      *)
(* processed: the loop acknowledges those unread, so they must be          *)
(* accounted for as well. The proof needs OneDurablePerSubject.            *)
(***************************************************************************)
EXTENDS EventBus, SequenceTheorems, TLAPS

USE BoundsAssumption, SubsetAssumption DEF streamVars

(* A handler that runs was entered, and past its commit point its effect   *)
(* took place unless it is one that may give up.                           *)
WorkInv ==
  \A d \in Durables :
    /\ Busy(d) => runs[d][work[d].event] > 0
    /\ work[d].phase = "committed" =>
         GivesUp(d, work[d].event) \/ applied[d][work[d].event] > 0

AccountedInv ==
  \A d \in Durables : \A e \in EventsOf(d) :
    e \in processed \/ e \in published \ unacked[d] => Accounted(d, e)

RunsInv ==
  \A d \in Durables, e \in Events :
    runs[d][e] <= forgotten[e] + (IF e \in processed THEN 1 ELSE 0)

IInv == TypeOK /\ WorkInv /\ AccountedInv /\ RunsInv

LEMMA EventsOfEvents == ASSUME NEW d \in Durables PROVE EventsOf(d) \subseteq Events
  BY DEF EventsOf

LEMMA OneDurable ==
  ASSUME NEW c \in Durables, NEW d \in Durables, NEW e \in EventsOf(c), e \in EventsOf(d)
  PROVE  c = d
  BY OneDurablePerSubject DEF EventsOf

LEMMA InitIInv == Init => IInv
<1> SUFFICES ASSUME Init PROVE IInv
  OBVIOUS
<1>1. TypeOK
  BY DEF Init, TypeOK, StreamType, ProcessType, LoopType, ResultType, HistoryType,
         WorkType, Idle, Phases
<1>2. WorkInv /\ AccountedInv /\ RunsInv
  BY EventsOfEvents DEF Init, WorkInv, AccountedInv, RunsInv, Accounted, Busy, Idle, WorkingOn
<1> QED
  BY <1>1, <1>2 DEF IInv

(* The head of an inbox is an event of the durable, and its tail a queue   *)
(* of such events.                                                         *)
LEMMA InboxHead ==
  ASSUME TypeOK, NEW d \in Durables, inbox[d] # <<>>
  PROVE  /\ Head(inbox[d]) \in EventsOf(d)
         /\ Tail(inbox[d]) \in Seq(EventsOf(d))
<1>1. inbox[d] \in Seq(EventsOf(d))
  BY DEF TypeOK, ProcessType
<1> DEFINE q == inbox[d]
<1> HIDE DEF q
<1>2. q \in Seq(EventsOf(d)) /\ q # <<>> => Head(q) \in EventsOf(d) /\ Tail(q) \in Seq(EventsOf(d))
  OBVIOUS
<1> QED
  BY <1>1, <1>2 DEF q

(* An ack only shrinks what is owed, and counts at most one fault.         *)
LEMMA AckType ==
  ASSUME TypeOK, NEW d \in Durables, NEW e \in Events, Ack(d, e), published' = published
  PROVE  /\ unacked' \in [Durables -> SUBSET Events]
         /\ \A c \in Durables : unacked'[c] \subseteq published' \intersect EventsOf(c)
         /\ faults' \in 0..MaxFaults
         /\ \A c \in Durables : \A x \in Events :
              x \notin unacked'[c] => x \notin unacked[c] \/ (c = d /\ x = e)
<1>1. /\ unacked \in [Durables -> SUBSET Events] /\ faults \in 0..MaxFaults
      /\ \A c \in Durables : unacked[c] \subseteq published \intersect EventsOf(c)
  BY DEF TypeOK, StreamType, HistoryType
<1>2. CASE unacked' = [unacked EXCEPT ![d] = @ \ {e}] /\ UNCHANGED faults
  BY <1>1, <1>2
<1>3. CASE faults < MaxFaults /\ faults' = faults + 1 /\ UNCHANGED unacked
  BY <1>1, <1>3
<1> QED
  BY <1>2, <1>3 DEF Ack

-----------------------------------------------------------------------------
LEMMA PublishStep == ASSUME IInv, NEW e \in Events, Publish(e) PROVE IInv'
<1>1. StreamType'
  BY DEF Publish, IInv, TypeOK, StreamType, EventsOf
<1>2. ProcessType' /\ LoopType' /\ ResultType' /\ HistoryType'
  BY DEF Publish, IInv, TypeOK, ProcessType, LoopType, WorkType, ResultType, HistoryType
<1>3. WorkInv' /\ RunsInv'
  BY DEF Publish, IInv, WorkInv, RunsInv, Busy
<1>4. \A d \in Durables : \A x \in EventsOf(d) :
        x \in published' \ unacked'[d] => x \in published \ unacked[d]
  BY EventsOfEvents DEF Publish, EventsOf
<1>5. AccountedInv'
  BY <1>4 DEF Publish, IInv, AccountedInv, Accounted, WorkingOn, Busy
<1> QED
  BY <1>1, <1>2, <1>3, <1>5 DEF IInv, TypeOK

(* A message that the limits drop is in expired for the durables that had  *)
(* not acknowledged it, and was accounted for at the others.               *)
LEMMA ExpireStep == ASSUME IInv, NEW e \in Events, Expire(e) PROVE IInv'
<1>1. /\ unacked' = [d \in Durables |-> unacked[d] \ {e}]
      /\ expired' = expired \union {p \in Durables \X {e} : e \in unacked[p[1]]}
      /\ faults < MaxFaults /\ faults' = faults + 1
      /\ UNCHANGED <<connected, published, inbox, processed, work, applied, dlq, dropped,
                     runs, forgotten>>
  BY DEF Expire
<1>2. StreamType' /\ ResultType' /\ HistoryType'
  BY <1>1 DEF IInv, TypeOK, StreamType, ResultType, HistoryType
<1>3. ProcessType' /\ LoopType' /\ WorkInv' /\ RunsInv'
  BY <1>1 DEF IInv, TypeOK, ProcessType, LoopType, WorkType, WorkInv, RunsInv, Busy
<1>4. \A d \in Durables : \A x \in EventsOf(d) : Accounted(d, x) => Accounted(d, x)'
  BY <1>1 DEF Accounted, WorkingOn, Busy
<1>5. ASSUME NEW d \in Durables, NEW x \in EventsOf(d),
             x \in processed' \/ x \in published' \ unacked'[d]
      PROVE  Accounted(d, x)'
  <2>1. CASE x \in processed \/ x \in published \ unacked[d]
    BY <1>4, <2>1 DEF IInv, AccountedInv
  <2>2. CASE x \in unacked[d] /\ x \notin unacked'[d]
    <3>1. x = e
      BY <1>1, <2>2
    <3>2. <<d, x>> \in expired'
      BY <1>1, <2>2, <3>1
    <3> QED
      BY <3>2 DEF Accounted
  <2> QED
    BY <1>1, <1>5, <2>1, <2>2
<1> QED
  BY <1>2, <1>3, <1>5 DEF IInv, TypeOK, AccountedInv

LEMMA DeliverStep ==
  ASSUME IInv, NEW d \in Durables, NEW e \in Events, Deliver(d, e)
  PROVE  IInv'
<1>1. e \in EventsOf(d) /\ inbox[d] \in Seq(EventsOf(d)) /\ inbox[d] \in Seq(Events)
  BY DEF Deliver, IInv, TypeOK, StreamType, ProcessType
<1>2. Append(inbox[d], e) \in Seq(EventsOf(d)) /\ Append(inbox[d], e) \in Seq(Events)
  BY <1>1
<1>3. ProcessType'
  BY <1>2 DEF Deliver, IInv, TypeOK, ProcessType
<1>4. StreamType' /\ LoopType' /\ ResultType' /\ HistoryType'
  BY DEF Deliver, IInv, TypeOK, StreamType, LoopType, WorkType, ResultType, HistoryType
<1>5. WorkInv' /\ RunsInv' /\ AccountedInv'
  BY DEF Deliver, IInv, WorkInv, RunsInv, AccountedInv, Accounted, WorkingOn, Busy
<1> QED
  BY <1>3, <1>4, <1>5 DEF IInv, TypeOK

LEMMA SkipMessageStep == ASSUME IInv, NEW d \in Durables, SkipMessage(d) PROVE IInv'
<1> DEFINE e == Head(inbox[d])
<1>1. /\ e \in EventsOf(d) /\ e \in Events
      /\ Tail(inbox[d]) \in Seq(EventsOf(d)) /\ Tail(inbox[d]) \in Seq(Events)
  BY InboxHead, EventsOfEvents DEF IInv, SkipMessage
<1>2. /\ unacked' \in [Durables -> SUBSET Events] /\ faults' \in 0..MaxFaults
      /\ \A c \in Durables : unacked'[c] \subseteq published' \intersect EventsOf(c)
      /\ \A c \in Durables : \A x \in Events :
           x \notin unacked'[c] => x \notin unacked[c] \/ (c = d /\ x = e)
  BY <1>1, AckType DEF IInv, SkipMessage
<1>3. StreamType' /\ HistoryType'
  BY <1>2 DEF SkipMessage, IInv, TypeOK, StreamType, HistoryType
<1>4. ProcessType'
  BY <1>1 DEF SkipMessage, IInv, TypeOK, ProcessType
<1>5. LoopType' /\ ResultType'
  BY DEF SkipMessage, IInv, TypeOK, LoopType, WorkType, ResultType
<1>6. WorkInv' /\ RunsInv'
  BY DEF SkipMessage, IInv, WorkInv, RunsInv, Busy
<1>7. Accounted(d, e)
  BY <1>1 DEF SkipMessage, IInv, AccountedInv, Accounted
<1>8. \A c \in Durables, x \in Events : Accounted(c, x)' <=> Accounted(c, x)
  BY DEF SkipMessage, Accounted, WorkingOn, Busy
<1>9. AccountedInv'
  BY <1>2, <1>7, <1>8, EventsOfEvents DEF SkipMessage, IInv, AccountedInv
<1> QED
  BY <1>3, <1>4, <1>5, <1>6, <1>9 DEF IInv, TypeOK

(* What a change of work and of the results preserves: the durables other  *)
(* than d are untouched.                                                   *)
LEMMA WorkFrame ==
  ASSUME IInv, NEW d \in Durables, NEW w, work' = [work EXCEPT ![d] = w]
  PROVE  /\ work'[d] = w /\ DOMAIN work' = Durables
         /\ \A c \in Durables \ {d} : work'[c] = work[c]
         /\ WorkType(d, w) => LoopType'
<1>1. DOMAIN work = Durables
  BY DEF IInv, TypeOK, LoopType
<1>2. /\ work'[d] = w /\ DOMAIN work' = Durables
      /\ \A c \in Durables \ {d} : work'[c] = work[c]
  BY <1>1
<1>3. \A c \in Durables : WorkType(c, work[c])
  BY DEF IInv, TypeOK, LoopType
<1>4. WorkType(d, w) => \A c \in Durables : WorkType(c, work'[c])
  BY <1>2, <1>3
<1> QED
  BY <1>2, <1>4 DEF LoopType, WorkType

LEMMA StartHandlerStep == ASSUME IInv, NEW d \in Durables, StartHandler(d) PROVE IInv'
<1> SUFFICES ASSUME NEW e, e = Head(inbox[d]) PROVE IInv'
  OBVIOUS
<1> DEFINE w == [phase |-> "running", event |-> e, attempt |-> 0]
<1>1. /\ e \in EventsOf(d) /\ e \in Events
      /\ Tail(inbox[d]) \in Seq(EventsOf(d)) /\ Tail(inbox[d]) \in Seq(Events)
  BY InboxHead, EventsOfEvents DEF IInv, StartHandler
<1>2. /\ e \notin processed /\ processed' = processed \union {e}
      /\ work' = [work EXCEPT ![d] = w]
      /\ runs' = [runs EXCEPT ![d] = [runs[d] EXCEPT ![e] = runs[d][e] + 1]]
      /\ inbox' = [inbox EXCEPT ![d] = Tail(inbox[d])]
      /\ ~Busy(d)
      /\ UNCHANGED <<streamVars, unacked, applied, dlq, dropped, forgotten, faults>>
  BY DEF StartHandler
<1>3. /\ work'[d] = w /\ DOMAIN work' = Durables
      /\ \A c \in Durables \ {d} : work'[c] = work[c]
  BY <1>2, WorkFrame
<1>4. LoopType'
  <2>1. WorkType(d, w)
    BY <1>1, BoundsAssumption DEF WorkType, Phases
  <2> QED
    BY <1>2, <2>1, WorkFrame
<1>5. StreamType' /\ ResultType'
  BY <1>2 DEF IInv, TypeOK, StreamType, ResultType
<1>6. ProcessType'
  BY <1>1, <1>2 DEF IInv, TypeOK, ProcessType
<1>7. /\ runs' \in [Durables -> [Events -> Nat]]
      /\ \A c \in Durables, x \in Events :
           runs'[c][x] = IF c = d /\ x = e THEN runs[c][x] + 1 ELSE runs[c][x]
  BY <1>1, <1>2 DEF IInv, TypeOK, HistoryType
<1>8. HistoryType'
  BY <1>2, <1>7 DEF IInv, TypeOK, HistoryType
<1>9. WorkInv'
  <2>1. runs'[d][e] > 0
    BY <1>1, <1>7 DEF IInv, TypeOK, HistoryType
  <2>2. \A c \in Durables : Busy(c) => work[c].event \in Events
    BY EventsOfEvents DEF IInv, TypeOK, LoopType, WorkType, Busy
  <2>3. \A c \in Durables \ {d} : Busy(c) => runs'[c][work[c].event] > 0
    BY <1>7, <2>2 DEF IInv, WorkInv
  <2>4. \A c \in Durables \ {d} : work[c].phase = "committed" =>
          GivesUp(c, work[c].event) \/ applied[c][work[c].event] > 0
    BY DEF IInv, WorkInv
  <2>5. work'[d].event = e /\ work'[d].phase # "committed"
    BY <1>2, <1>3
  <2>6. ASSUME NEW c \in Durables \ {d}
        PROVE  /\ Busy(c)' => runs'[c][work'[c].event] > 0
               /\ work'[c].phase = "committed" =>
                    GivesUp(c, work'[c].event) \/ applied'[c][work'[c].event] > 0
    <3>1. work'[c] = work[c] /\ applied' = applied
      BY <1>2, <1>3
    <3> QED
      BY <2>3, <2>4, <3>1 DEF Busy
  <2>7. /\ runs'[d][work'[d].event] > 0
        /\ work'[d].phase # "committed"
    BY <2>1, <2>5
  <2> HIDE DEF w
  <2> QED
    BY <2>6, <2>7 DEF WorkInv, Busy
<1>10. RunsInv'
  <2>1. \A c \in Durables, x \in Events : runs[c][x] \in Nat /\ forgotten[x] \in Nat
    BY DEF IInv, TypeOK, HistoryType
  <2>2. \A c \in Durables, x \in Events :
          runs[c][x] <= forgotten[x] + (IF x \in processed THEN 1 ELSE 0)
    BY DEF IInv, RunsInv
  <2> HIDE DEF w
  <2> QED
    BY <1>2, <1>7, <2>1, <2>2 DEF RunsInv
<1>11. \A c \in Durables : \A x \in EventsOf(c) : Accounted(c, x) => Accounted(c, x)'
  <2>1. \A c \in Durables : \A x \in EventsOf(c) : runs[c][x] > 0 => runs'[c][x] > 0
    BY <1>7, EventsOfEvents DEF IInv, TypeOK, HistoryType
  <2>2. \A c \in Durables : \A x : WorkingOn(c, x) => WorkingOn(c, x)'
    BY <1>2, <1>3 DEF WorkingOn, Busy
  <2> QED
    BY <1>2, <2>1, <2>2 DEF Accounted
<1>12. Accounted(d, e)'
  BY <1>3 DEF Accounted, WorkingOn, Busy
<1>13. AccountedInv'
  <2> SUFFICES ASSUME NEW c \in Durables, NEW x \in EventsOf(c),
                      x \in processed' \/ x \in published' \ unacked'[c]
               PROVE  Accounted(c, x)'
    BY DEF AccountedInv
  <2>1. CASE x = e
    <3>1. c = d
      BY <1>1, <2>1, OneDurable
    <3> QED
      BY <1>12, <2>1, <3>1
  <2>2. CASE x # e
    <3>1. Accounted(c, x)
      BY <1>2, <2>2 DEF IInv, AccountedInv
    <3> QED
      BY <1>11, <3>1
  <2> QED
    BY <2>1, <2>2
<1> QED
  BY <1>4, <1>5, <1>6, <1>8, <1>9, <1>10, <1>13 DEF IInv, TypeOK

(* The steps of a running handler that neither mark nor acknowledge: w is  *)
(* what the loop of d is doing next.                                       *)
LEMMA HandlerStep ==
  ASSUME IInv, NEW d \in Durables,
         HandlerCommits(d) \/ HandlerGivesUp(d) \/ HandlerThrows(d) \/ Retry(d)
  PROVE  IInv'
<1> SUFFICES ASSUME NEW e, e = work[d].event PROVE IInv'
  OBVIOUS
<1>1. /\ Busy(d) /\ e \in EventsOf(d) /\ e \in Events /\ runs[d][e] > 0
      /\ work[d].attempt \in 0..MaxRetries
      /\ work[d].phase = "backoff" => work[d].attempt < MaxRetries
      /\ WorkType(d, work[d])
  BY EventsOfEvents
     DEF HandlerCommits, HandlerGivesUp, HandlerThrows, Retry,
         IInv, TypeOK, LoopType, WorkType, WorkInv, Busy
<1>2. PICK p, n : /\ Proceed(d, p, n)
                  /\ p \in Phases \ {"idle"} /\ n \in 0..MaxRetries
                  /\ p = "backoff" => n < MaxRetries
                  /\ p = "committed" => GivesUp(d, e) \/ applied'[d][e] > 0
  <2>1. CASE HandlerCommits(d)
    <3>1. applied'[d][e] > 0
      BY <1>1, <2>1 DEF HandlerCommits, IInv, TypeOK, ResultType
    <3>2. Proceed(d, "committed", work[d].attempt)
      BY <2>1 DEF HandlerCommits
    <3> QED
      BY <1>1, <3>1, <3>2 DEF Phases
  <2>2. CASE HandlerGivesUp(d)
    <3>1. Proceed(d, "committed", work[d].attempt) /\ GivesUp(d, e)
      BY <2>2 DEF HandlerGivesUp
    <3> QED
      BY <1>1, <3>1 DEF Phases
  <2>3. CASE HandlerThrows(d)
    <3>1. Proceed(d, "backoff", work[d].attempt) /\ work[d].attempt < MaxRetries
      BY <2>3 DEF HandlerThrows
    <3> QED
      BY <1>1, <3>1 DEF Phases
  <2>4. CASE Retry(d)
    <3>1. Proceed(d, "running", work[d].attempt + 1) /\ work[d].phase = "backoff"
      BY <2>4 DEF Retry
    <3>2. work[d].attempt + 1 \in 0..MaxRetries
      BY <1>1, <3>1
    <3> QED
      BY <3>1, <3>2 DEF Phases
  <2> QED
    BY <2>1, <2>2, <2>3, <2>4
<1> DEFINE w == [phase |-> p, event |-> e, attempt |-> n]
<1>2a. /\ work' = [work EXCEPT ![d] = w] /\ WorkType(d, w)
      /\ w.phase = p /\ w.event = e /\ w.phase # "idle"
  BY <1>1, <1>2 DEF Proceed, WorkType
<1> HIDE DEF w
<1>3. /\ work'[d] = w /\ DOMAIN work' = Durables
      /\ \A c \in Durables \ {d} : work'[c] = work[c]
      /\ LoopType'
  BY <1>2a, WorkFrame
<1>4. /\ UNCHANGED <<streamVars, unacked, inbox, processed, dlq, dropped, runs,
                     forgotten, faults>>
      /\ applied' = applied \/ applied' = [applied EXCEPT ![d] = [applied[d] EXCEPT ![e] = applied[d][e] + 1]]
  BY DEF HandlerCommits, HandlerGivesUp, HandlerThrows, Retry
<1>5. /\ applied' \in [Durables -> [Events -> Nat]]
      /\ \A c \in Durables, x \in Events : applied[c][x] > 0 => applied'[c][x] > 0
  <2>1. applied \in [Durables -> [Events -> Nat]]
    BY DEF IInv, TypeOK, ResultType
  <2>2. CASE applied' = applied
    BY <2>1, <2>2
  <2>3. CASE applied' = [applied EXCEPT ![d] = [applied[d] EXCEPT ![e] = applied[d][e] + 1]]
    BY <2>1, <2>3, <1>1
  <2> QED
    BY <1>4, <2>2, <2>3
<1>6. StreamType' /\ ProcessType' /\ HistoryType' /\ ResultType'
  BY <1>4, <1>5 DEF IInv, TypeOK, StreamType, ProcessType, HistoryType, ResultType
<1>7. WorkInv'
  <2>1. \A c \in Durables : Busy(c) => work[c].event \in Events
    BY EventsOfEvents DEF IInv, TypeOK, LoopType, WorkType, Busy
  <2> QED
    BY <1>1, <1>2, <1>2a, <1>3, <1>4, <1>5, <2>1 DEF IInv, WorkInv, Busy
<1>8. RunsInv'
  BY <1>4 DEF IInv, RunsInv
<1>9. \A c \in Durables : \A x \in EventsOf(c) : Accounted(c, x) => Accounted(c, x)'
  <2>1. \A c \in Durables : \A x : WorkingOn(c, x) => WorkingOn(c, x)'
    BY <1>2a, <1>3 DEF WorkingOn, Busy
  <2> QED
    BY <1>4, <1>5, <2>1, EventsOfEvents DEF Accounted
<1>10. AccountedInv'
  BY <1>4, <1>9 DEF IInv, AccountedInv
<1> QED
  BY <1>3, <1>6, <1>7, <1>8, <1>10 DEF IInv, TypeOK

(* The steps that end a message: returned, exhausted, dead-lettered.       *)
LEMMA EndStep ==
  ASSUME IInv, NEW d \in Durables,
         HandlerReturns(d) \/ RetriesExhausted(d) \/ PublishToDlq(d) \/ DlqPublishFails(d)
  PROVE  IInv'
<1> SUFFICES ASSUME NEW e, e = work[d].event PROVE IInv'
  OBVIOUS
<1>1. /\ Busy(d) /\ e \in EventsOf(d) /\ e \in Events /\ runs[d][e] > 0
      /\ WorkType(d, work[d])
  BY EventsOfEvents
     DEF HandlerReturns, RetriesExhausted, PublishToDlq, DlqPublishFails,
         IInv, TypeOK, LoopType, WorkType, WorkInv, Busy
<1>2. /\ StreamType' /\ faults' \in 0..MaxFaults
      /\ \A c \in Durables : \A x \in Events :
           x \notin unacked'[c] => x \notin unacked[c] \/ (c = d /\ x = e)
  <2>1. CASE HandlerReturns(d)
    BY <1>1, <2>1, AckType DEF HandlerReturns, IInv, TypeOK, StreamType
  <2>2. CASE RetriesExhausted(d)
    BY <1>1, <2>2, AckType DEF RetriesExhausted, IInv, TypeOK, StreamType
  <2>3. CASE PublishToDlq(d)
    BY <2>3 DEF PublishToDlq, IInv, TypeOK, StreamType, HistoryType
  <2>4. CASE DlqPublishFails(d)
    <3>1. faults < MaxFaults /\ faults' = faults + 1 /\ UNCHANGED <<streamVars, unacked>>
      BY <2>4 DEF DlqPublishFails
    <3> QED
      BY <3>1 DEF IInv, TypeOK, StreamType, HistoryType
  <2> QED
    BY <2>1, <2>2, <2>3, <2>4
<1>3. /\ UNCHANGED <<streamVars, inbox, processed, applied, runs, forgotten>>
      /\ dlq \subseteq dlq' /\ dropped \subseteq dropped'
      /\ dlq' \union dropped' \subseteq dlq \union dropped \union {<<d, e>>}
  BY DEF HandlerReturns, RetriesExhausted, PublishToDlq, DlqPublishFails
<1>4. PICK w : /\ work' = [work EXCEPT ![d] = w]
               /\ WorkType(d, w)
               /\ w.phase \in {"idle", "dlq"}
               /\ w.phase = "dlq" => w.event = e
  <2>1. CASE RetriesExhausted(d)
    <3> DEFINE r == [phase |-> "dlq", event |-> e, attempt |-> work[d].attempt]
    <3>1. work' = [work EXCEPT ![d] = r] /\ r.phase = "dlq" /\ r.event = e
      BY <2>1 DEF RetriesExhausted, Proceed
    <3>2. WorkType(d, r)
      BY <1>1 DEF WorkType, Phases, Busy
    <3> HIDE DEF r
    <3> QED
      BY <3>1, <3>2
  <2>2. CASE HandlerReturns(d) \/ PublishToDlq(d) \/ DlqPublishFails(d)
    BY <2>2 DEF HandlerReturns, PublishToDlq, DlqPublishFails, WorkType, Phases, Idle
  <2> QED
    BY <2>1, <2>2
<1>5. /\ work'[d] = w /\ DOMAIN work' = Durables
      /\ \A c \in Durables \ {d} : work'[c] = work[c]
      /\ LoopType'
  BY <1>4, WorkFrame
<1>6. ProcessType' /\ ResultType' /\ HistoryType'
  BY <1>1, <1>2, <1>3 DEF IInv, TypeOK, ProcessType, ResultType, HistoryType
<1>7. WorkInv'
  BY <1>1, <1>3, <1>4, <1>5 DEF IInv, WorkInv, Busy
<1>8. RunsInv'
  BY <1>3 DEF IInv, RunsInv
<1>9. Accounted(d, e)'
  <2>1. CASE HandlerReturns(d)
    BY <1>1, <1>3, <2>1 DEF HandlerReturns, IInv, WorkInv, Accounted
  <2>2. CASE RetriesExhausted(d)
    <3>1. work'[d].phase = "dlq" /\ work'[d].event = e
      BY <1>1, <2>2 DEF RetriesExhausted, Proceed, IInv, TypeOK, LoopType
    <3> QED
      BY <3>1 DEF Accounted, WorkingOn, Busy
  <2>3. CASE PublishToDlq(d)
    BY <2>3 DEF PublishToDlq, Accounted
  <2>4. CASE DlqPublishFails(d)
    BY <2>4 DEF DlqPublishFails, Accounted
  <2> QED
    BY <2>1, <2>2, <2>3, <2>4
<1>10. ASSUME NEW c \in Durables, NEW x \in EventsOf(c), c # d \/ x # e, Accounted(c, x)
       PROVE  Accounted(c, x)'
  <2>1. WorkingOn(c, x) => WorkingOn(c, x)'
    BY <1>5, <1>10 DEF WorkingOn, Busy
  <2> QED
    BY <1>3, <1>10, <2>1 DEF Accounted
<1>11. AccountedInv'
  <2> SUFFICES ASSUME NEW c \in Durables, NEW x \in EventsOf(c),
                      x \in processed' \/ x \in published' \ unacked'[c],
                      c # d \/ x # e
               PROVE  Accounted(c, x)'
    BY <1>9 DEF AccountedInv
  <2>1. x \in processed \/ x \in published \ unacked[c]
    BY <1>2, <1>3, EventsOfEvents
  <2> QED
    BY <2>1, <1>10 DEF IInv, AccountedInv
<1> QED
  BY <1>2, <1>5, <1>6, <1>7, <1>8, <1>11 DEF IInv, TypeOK

LEMMA PurgeStep == ASSUME IInv, NEW e \in Events, PurgeProcessed(e) PROVE IInv'
<1>1. StreamType' /\ ProcessType' /\ LoopType' /\ ResultType'
  BY DEF PurgeProcessed, IInv, TypeOK, StreamType, ProcessType, LoopType, WorkType, ResultType
<1>2. /\ faults' = faults + 1 /\ faults < MaxFaults /\ runs' = runs
      /\ processed' = processed \ {e} /\ e \in processed
      /\ forgotten' = [x \in Events |-> IF x = e THEN forgotten[x] + 1 ELSE forgotten[x]]
  BY DEF PurgeProcessed, Forget
<1>3. HistoryType'
  BY <1>2 DEF IInv, TypeOK, HistoryType
<1>4. WorkInv' /\ AccountedInv'
  BY DEF PurgeProcessed, IInv, WorkInv, AccountedInv, Accounted, WorkingOn, Busy
<1>5. RunsInv'
  BY <1>2 DEF IInv, TypeOK, HistoryType, RunsInv
<1> QED
  BY <1>1, <1>3, <1>4, <1>5 DEF IInv, TypeOK

LEMMA RestartStep == ASSUME IInv, Restart PROVE IInv'
<1>1. ProcessType'
  <2>1. \A d \in Durables : <<>> \in Seq(EventsOf(d)) /\ <<>> \in Seq(Events)
    OBVIOUS
  <2>2. inbox' = [d \in Durables |-> <<>>] /\ processed' = {}
    BY DEF Restart
  <2> QED
    BY <2>1, <2>2 DEF ProcessType
<1>2. StreamType' /\ LoopType' /\ ResultType'
  BY DEF Restart, IInv, TypeOK, StreamType, LoopType, WorkType, Idle, Phases, ResultType
<1>3. /\ faults' = faults + 1 /\ faults < MaxFaults /\ runs' = runs /\ processed' = {}
      /\ forgotten' = [x \in Events |-> IF x \in processed THEN forgotten[x] + 1 ELSE forgotten[x]]
  BY DEF Restart, Forget
<1>4. HistoryType'
  BY <1>3 DEF IInv, TypeOK, HistoryType
<1>5. WorkInv'
  BY DEF Restart, Idle, WorkInv, Busy
<1>6. RunsInv'
  BY <1>3 DEF IInv, TypeOK, HistoryType, RunsInv
<1>7. \A d \in Durables : \A e \in EventsOf(d) :
        e \notin unacked[d] /\ Accounted(d, e) => Accounted(d, e)'
  BY EventsOfEvents DEF Restart, Accounted
<1>8. AccountedInv'
  BY <1>7 DEF Restart, IInv, AccountedInv
<1> QED
  BY <1>1, <1>2, <1>4, <1>5, <1>6, <1>8 DEF IInv, TypeOK

-----------------------------------------------------------------------------
LEMMA StepIInv == IInv /\ [Next]_vars => IInv'
<1> SUFFICES ASSUME IInv, [Next]_vars PROVE IInv'
  OBVIOUS
<1>1. CASE UNCHANGED vars
  BY <1>1 DEF vars, IInv, TypeOK, StreamType, ProcessType, LoopType, WorkType, ResultType,
              HistoryType, WorkInv, AccountedInv, RunsInv, Accounted, WorkingOn, Busy
<1>2. ASSUME NEW d \in Durables, Loop(d) PROVE IInv'
  BY <1>2, SkipMessageStep, StartHandlerStep, HandlerStep, EndStep DEF Loop
<1> QED
  BY <1>1, <1>2, PublishStep, PurgeStep, ExpireStep, DeliverStep, RestartStep DEF Next

LEMMA IInvAlways == Spec => []IInv
  BY InitIInv, StepIInv, PTL DEF Spec

(* Every reachable state is well typed; a handler is attempted at most     *)
(* 1 + MaxRetries times for one delivery.                                  *)
THEOREM TypeCorrect == Spec => []TypeOK
  BY IInvAlways, PTL DEF IInv

(* An event that the stream no longer owes was handled, dead-lettered, is  *)
(* in the hands of the loop, or was lost in one of the ways that Accounted *)
(* names, for any number of events, durables and faults; none is lost      *)
(* because its mark outlives it.                                           *)
THEOREM LossesAreKnown == Spec => []EveryLossIsKnown
<1>1. IInv => EveryLossIsKnown
  BY DEF IInv, AccountedInv, EveryLossIsKnown
<1> QED
  BY <1>1, IInvAlways, PTL

(* Redelivery alone never runs a handler twice.                            *)
THEOREM NoSecondRun == Spec => []RunOncePerMemory
<1>1. IInv => RunOncePerMemory
  <2> SUFFICES ASSUME IInv, NEW d \in Durables, NEW e \in Events
               PROVE  runs[d][e] <= 1 + forgotten[e]
    BY DEF RunOncePerMemory
  <2>1. runs[d][e] \in Nat /\ forgotten[e] \in Nat
    BY DEF IInv, TypeOK, HistoryType
  <2> QED
    BY <2>1 DEF IInv, RunsInv
<1> QED
  BY <1>1, IInvAlways, PTL

-----------------------------------------------------------------------------
(* How often a handler's effect is committed                               *)

(* The effects that the handler under way can still commit.                *)
Left(w) ==
  IF w.phase = "running" THEN 1 + MaxRetries - w.attempt
  ELSE IF w.phase \in {"committed", "backoff"} THEN MaxRetries - w.attempt ELSE 0

EffectsInv ==
  \A d \in Durables, e \in Events :
    applied[d][e] + (IF WorkingOn(d, e) THEN Left(work[d]) ELSE 0)
      <= runs[d][e] * (1 + MaxRetries)

LEMMA LeftType ==
  ASSUME TypeOK, NEW d \in Durables, Busy(d)
  PROVE  Left(work[d]) \in 0..(1 + MaxRetries)
  BY DEF TypeOK, LoopType, WorkType, Busy, Left, Phases

LEMMA OneMoreRun ==
  ASSUME NEW n \in Nat, NEW k \in Nat
  PROVE  n * k \in Nat /\ (n + 1) * k = n * k + k
  OBVIOUS

(* `more` effects were committed for event e of d, and no other.           *)
Committed(d, e, more) ==
  \A c \in Durables, x \in Events :
    applied'[c][x] = applied[c][x] + (IF c = d /\ x = e THEN more ELSE 0)

(* A step of d that adds `more` effects for the event it works on, and     *)
(* leaves as many fewer to come, keeps EffectsInv.                         *)
LEMMA EffectsMove ==
  ASSUME TypeOK, EffectsInv, NEW d \in Durables, NEW e, NEW more \in {0, 1}, NEW w,
         Busy(d), e = work[d].event, Left(w) \in Nat, Left(w) + more <= Left(work[d]),
         w.phase # "idle" => w.event = e,
         work' = [work EXCEPT ![d] = w],
         Committed(d, e, more),
         runs' = runs
  PROVE  EffectsInv'
<1>1. work'[d] = w /\ \A c \in Durables \ {d} : work'[c] = work[c]
  BY DEF TypeOK, LoopType
<1> SUFFICES ASSUME NEW c \in Durables, NEW x \in Events
             PROVE  applied'[c][x] + (IF WorkingOn(c, x)' THEN Left(work'[c]) ELSE 0)
                      <= runs[c][x] * (1 + MaxRetries)
  BY DEF EffectsInv, Left
<1> DEFINE bound == runs[c][x] * (1 + MaxRetries)
<1>2. bound \in Nat /\ applied[c][x] \in Nat
  BY OneMoreRun DEF TypeOK, HistoryType, ResultType
<1>3. applied[c][x] + (IF WorkingOn(c, x) THEN Left(work[c]) ELSE 0) <= bound
  BY DEF EffectsInv
<1> HIDE DEF bound
<1>4. CASE c = d /\ x = e
  <2>1. WorkingOn(c, x) /\ applied'[c][x] = applied[c][x] + more
    BY <1>4 DEF WorkingOn, Committed
  <2>2. Left(work[c]) \in Nat /\ work'[c] = w
    BY <1>1, <1>4, LeftType
  <2>3. applied[c][x] + Left(work[c]) <= bound
    BY <1>3, <2>1
  <2> QED
    BY <1>2, <1>4, <2>1, <2>2, <2>3 DEF bound
<1>5. CASE c # d
  <2>1. applied'[c][x] = applied[c][x] /\ work'[c] = work[c]
    BY <1>1, <1>2, <1>5 DEF Committed
  <2> QED
    BY <1>3, <2>1 DEF WorkingOn, Busy, bound
<1>6. CASE c = d /\ x # e
  <2>1. applied'[c][x] = applied[c][x] /\ ~WorkingOn(c, x) /\ ~WorkingOn(c, x)'
    BY <1>1, <1>2, <1>6 DEF WorkingOn, Busy, Committed
  <2> QED
    BY <1>3, <2>1 DEF bound
<1> QED
  BY <1>4, <1>5, <1>6

LEMMA HandlerKeepsEffects ==
  ASSUME TypeOK, EffectsInv, NEW d \in Durables,
         \/ HandlerCommits(d) \/ HandlerGivesUp(d) \/ HandlerThrows(d) \/ Retry(d)
         \/ HandlerReturns(d) \/ RetriesExhausted(d) \/ PublishToDlq(d) \/ DlqPublishFails(d)
  PROVE  EffectsInv'
<1> SUFFICES ASSUME NEW e, e = work[d].event, NEW a, a = work[d].attempt PROVE EffectsInv'
  OBVIOUS
<1>1. /\ Busy(d) /\ e \in Events /\ a \in 0..MaxRetries
      /\ work[d].phase = "backoff" => a < MaxRetries
      /\ applied \in [Durables -> [Events -> Nat]]
  BY EventsOfEvents
     DEF HandlerCommits, HandlerGivesUp, HandlerThrows, Retry, HandlerReturns, RetriesExhausted,
         PublishToDlq, DlqPublishFails, Busy, TypeOK, LoopType, WorkType, ResultType
<1>2. runs' = runs
  BY DEF HandlerCommits, HandlerGivesUp, HandlerThrows, Retry, HandlerReturns, RetriesExhausted,
         PublishToDlq, DlqPublishFails
<1>3. CASE HandlerCommits(d)
  <2> DEFINE w == [phase |-> "committed", event |-> e, attempt |-> a]
  <2>1. /\ work[d].phase = "running" /\ work' = [work EXCEPT ![d] = w]
        /\ applied' = [applied EXCEPT ![d] = [applied[d] EXCEPT ![e] = applied[d][e] + 1]]
    BY <1>3 DEF HandlerCommits, Proceed
  <2>2. Committed(d, e, 1)
    BY <1>1, <2>1 DEF Committed
  <2>3. w.event = e /\ Left(w) \in Nat /\ Left(w) + 1 <= Left(work[d])
    BY <1>1, <2>1 DEF Left
  <2> HIDE DEF w
  <2> QED
    BY <1>1, <1>2, <2>1, <2>2, <2>3, EffectsMove
<1>4. ASSUME NEW w, work' = [work EXCEPT ![d] = w], applied' = applied,
             w.phase # "idle" => w.event = e, Left(w) \in Nat, Left(w) <= Left(work[d])
      PROVE  EffectsInv'
  <2>1. Committed(d, e, 0)
    BY <1>1, <1>4 DEF Committed
  <2>2. Left(w) + 0 <= Left(work[d])
    BY <1>4
  <2> QED
    BY <1>1, <1>2, <1>4, <2>1, <2>2, EffectsMove
<1>5. CASE HandlerGivesUp(d)
  <2> DEFINE w == [phase |-> "committed", event |-> e, attempt |-> a]
  <2>1. work[d].phase = "running" /\ work' = [work EXCEPT ![d] = w] /\ applied' = applied
    BY <1>5 DEF HandlerGivesUp, Proceed
  <2>2. w.event = e /\ Left(w) \in Nat /\ Left(w) <= Left(work[d])
    BY <1>1, <2>1 DEF Left
  <2> HIDE DEF w
  <2> QED
    BY <1>4, <2>1, <2>2
<1>6. CASE HandlerThrows(d)
  <2> DEFINE w == [phase |-> "backoff", event |-> e, attempt |-> a]
  <2>1. /\ work[d].phase \in {"running", "committed"}
        /\ work' = [work EXCEPT ![d] = w] /\ applied' = applied
    BY <1>6 DEF HandlerThrows, Proceed
  <2>2. w.event = e /\ Left(w) \in Nat /\ Left(w) <= Left(work[d])
    BY <1>1, <2>1 DEF Left
  <2> HIDE DEF w
  <2> QED
    BY <1>4, <2>1, <2>2
<1>7. CASE Retry(d)
  <2> DEFINE w == [phase |-> "running", event |-> e, attempt |-> a + 1]
  <2>1. work[d].phase = "backoff" /\ work' = [work EXCEPT ![d] = w] /\ applied' = applied
    BY <1>7 DEF Retry, Proceed
  <2>2. w.event = e /\ Left(w) \in Nat /\ Left(w) <= Left(work[d])
    BY <1>1, <2>1 DEF Left
  <2> HIDE DEF w
  <2> QED
    BY <1>4, <2>1, <2>2
<1>8. CASE RetriesExhausted(d)
  <2> DEFINE w == [phase |-> "dlq", event |-> e, attempt |-> a]
  <2>1. work' = [work EXCEPT ![d] = w] /\ applied' = applied
    BY <1>8 DEF RetriesExhausted, Proceed
  <2>2. w.event = e /\ Left(w) \in Nat /\ Left(w) <= Left(work[d])
    BY <1>1, LeftType DEF Left
  <2> HIDE DEF w
  <2> QED
    BY <1>4, <2>1, <2>2
<1>9. CASE HandlerReturns(d) \/ PublishToDlq(d) \/ DlqPublishFails(d)
  <2>1. work' = [work EXCEPT ![d] = Idle] /\ applied' = applied
    BY <1>9 DEF HandlerReturns, PublishToDlq, DlqPublishFails
  <2>2. Idle.phase = "idle" /\ Left(Idle) \in Nat /\ Left(Idle) <= Left(work[d])
    BY <1>1, LeftType DEF Left, Idle
  <2> QED
    BY <1>4, <2>1, <2>2
<1> QED
  BY <1>3, <1>5, <1>6, <1>7, <1>8, <1>9

(* Entering the handler allows 1 + MaxRetries effects more.                *)
LEMMA StartKeepsEffects ==
  ASSUME TypeOK, EffectsInv, NEW d \in Durables, StartHandler(d)
  PROVE  EffectsInv'
<1> SUFFICES ASSUME NEW e, e = Head(inbox[d]) PROVE EffectsInv'
  OBVIOUS
<1> DEFINE w == [phase |-> "running", event |-> e, attempt |-> 0]
           more == 1 + MaxRetries
<1>1. /\ e \in Events /\ ~Busy(d) /\ applied' = applied /\ work' = [work EXCEPT ![d] = w]
      /\ runs' = [runs EXCEPT ![d] = [runs[d] EXCEPT ![e] = runs[d][e] + 1]]
  BY InboxHead, EventsOfEvents DEF StartHandler
<1>2. w.event = e /\ w.phase # "idle" /\ Left(w) = more /\ more \in Nat
  BY DEF Left
<1> HIDE DEF w
<1>3. /\ applied \in [Durables -> [Events -> Nat]] /\ runs \in [Durables -> [Events -> Nat]]
      /\ DOMAIN work = Durables
  BY DEF TypeOK, ResultType, HistoryType, LoopType
<1>4. work'[d] = w /\ \A c \in Durables \ {d} : work'[c] = work[c]
  BY <1>1, <1>3
<1> SUFFICES ASSUME NEW c \in Durables, NEW x \in Events
             PROVE  applied[c][x] + (IF WorkingOn(c, x)' THEN Left(work'[c]) ELSE 0)
                      <= runs'[c][x] * more
  BY <1>1 DEF EffectsInv, Left
<1>5. applied[c][x] + (IF WorkingOn(c, x) THEN Left(work[c]) ELSE 0) <= runs[c][x] * more
  BY DEF EffectsInv
<1>6. CASE c = d /\ x = e
  <2>1. runs'[c][x] = runs[c][x] + 1 /\ runs[c][x] \in Nat /\ applied[c][x] \in Nat
    BY <1>1, <1>3, <1>6
  <2>2. ~WorkingOn(c, x) /\ Left(work'[c]) = more
    BY <1>1, <1>2, <1>4, <1>6 DEF WorkingOn
  <2>3. /\ runs[c][x] * more \in Nat
        /\ (runs[c][x] + 1) * more = runs[c][x] * more + more
    BY <1>2, <2>1, OneMoreRun
  <2>4. applied[c][x] <= runs[c][x] * more
    BY <1>5, <2>1, <2>2
  <2>5. applied[c][x] + more <= runs[c][x] * more + more
    BY <1>2, <2>1, <2>3, <2>4
  <2>6. /\ (IF WorkingOn(c, x)' THEN Left(work'[c]) ELSE 0) \in 0..more
        /\ runs'[c][x] * more = runs[c][x] * more + more
    BY <1>2, <2>1, <2>2, <2>3
  <2> HIDE DEF more
  <2> QED
    BY <1>2, <2>1, <2>3, <2>5, <2>6
<1>7. CASE c # d
  BY <1>1, <1>3, <1>4, <1>5, <1>7 DEF WorkingOn, Busy
<1>8. CASE c = d /\ x # e
  <2>1. ~WorkingOn(c, x) /\ ~WorkingOn(c, x)'
    BY <1>1, <1>2, <1>4, <1>8 DEF WorkingOn, Busy
  <2> QED
    BY <1>1, <1>3, <1>5, <1>8, <2>1
<1> QED
  BY <1>6, <1>7, <1>8

LEMMA StepEffects == ASSUME TypeOK, EffectsInv, [Next]_vars PROVE EffectsInv'
<1>1. CASE UNCHANGED <<work, applied, runs>>
  BY <1>1 DEF EffectsInv, WorkingOn, Busy, Left
<1>2. CASE Restart
  <2>1. /\ applied' = applied /\ runs' = runs
        /\ \A c \in Durables, x \in Events : ~WorkingOn(c, x)'
    BY <1>2 DEF Restart, WorkingOn, Busy, Idle
  <2> SUFFICES ASSUME NEW c \in Durables, NEW x \in Events
               PROVE  applied[c][x] <= runs[c][x] * (1 + MaxRetries)
    BY <2>1 DEF EffectsInv, TypeOK, ResultType
  <2>2. applied[c][x] \in Nat /\ runs[c][x] * (1 + MaxRetries) \in Nat
    BY OneMoreRun DEF TypeOK, ResultType, HistoryType
  <2>3. (IF WorkingOn(c, x) THEN Left(work[c]) ELSE 0) \in Nat
    BY LeftType DEF WorkingOn
  <2> QED
    BY <2>2, <2>3 DEF EffectsInv
<1> QED
  BY <1>1, <1>2, HandlerKeepsEffects, StartKeepsEffects
     DEF Next, Loop, vars, Publish, Expire, PurgeProcessed, Deliver, SkipMessage

(* What finding 2 can cost: the effect of an event is committed at most    *)
(* 1 + MaxRetries times for each life of its mark, for any number of       *)
(* retries, redeliveries, restarts and purges.                             *)
THEOREM EffectsAreBounded == Spec => []EffectsBounded
<1>1. Init => EffectsInv
  BY OneMoreRun DEF Init, EffectsInv, WorkingOn, Busy, Idle
<1>2. IInv /\ EffectsInv => EffectsBounded
  <2> SUFFICES ASSUME IInv, EffectsInv, NEW d \in Durables, NEW e \in Events
               PROVE  applied[d][e] <= (1 + forgotten[e]) * (1 + MaxRetries)
    BY DEF EffectsBounded
  <2> DEFINE k == 1 + MaxRetries
             n == runs[d][e]
             m == 1 + forgotten[e] - n
  <2>1. n \in Nat /\ applied[d][e] \in Nat /\ forgotten[e] \in Nat /\ k \in Nat
    BY DEF IInv, TypeOK, HistoryType, ResultType
  <2>2. m \in Nat /\ n + m = 1 + forgotten[e]
    BY <2>1 DEF IInv, RunsInv
  <2>3. n * k \in Nat /\ m * k \in Nat /\ (n + m) * k = n * k + m * k
    BY <2>1, <2>2
  <2>4. (IF WorkingOn(d, e) THEN Left(work[d]) ELSE 0) \in Nat
    BY LeftType DEF WorkingOn, IInv
  <2>5. applied[d][e] + (IF WorkingOn(d, e) THEN Left(work[d]) ELSE 0) <= n * k
    BY DEF EffectsInv
  <2>6. (1 + forgotten[e]) * k = n * k + m * k
    BY <2>2, <2>3
  <2> HIDE DEF k, n, m
  <2>7. applied[d][e] <= n * k + m * k
    BY <2>1, <2>3, <2>4, <2>5
  <2> QED
    BY <2>6, <2>7 DEF k
<1>3. IInv /\ EffectsInv /\ [Next]_vars => EffectsInv'
  BY StepEffects DEF IInv
<1> QED
  BY <1>1, <1>2, <1>3, IInvAlways, PTL DEF Spec

-----------------------------------------------------------------------------
(* A durable whose pattern has the prefix already                          *)

(* A durable does only what it receives.                                   *)
OwnInv ==
  \A d \in Durables, e \in Events :
    runs[d][e] # 0 \/ applied[d][e] # 0 => e \in EventsOf(d)

LEMMA StepOwn == ASSUME TypeOK, OwnInv, [Next]_vars PROVE OwnInv'
<1>0. /\ applied \in [Durables -> [Events -> Nat]] /\ runs \in [Durables -> [Events -> Nat]]
  BY DEF TypeOK, ResultType, HistoryType
<1>1. CASE UNCHANGED <<applied, runs>>
  BY <1>1 DEF OwnInv, EventsOf
<1>2. ASSUME NEW d \in Durables, StartHandler(d) PROVE OwnInv'
  <2> SUFFICES ASSUME NEW e, e = Head(inbox[d]) PROVE OwnInv'
    OBVIOUS
  <2>1. /\ e \in EventsOf(d) /\ applied' = applied
        /\ runs' = [runs EXCEPT ![d] = [runs[d] EXCEPT ![e] = runs[d][e] + 1]]
    BY <1>2, InboxHead DEF StartHandler
  <2> QED
    BY <1>0, <2>1 DEF OwnInv, EventsOf
<1>3. ASSUME NEW d \in Durables, HandlerCommits(d) PROVE OwnInv'
  <2> SUFFICES ASSUME NEW e, e = work[d].event PROVE OwnInv'
    OBVIOUS
  <2>1. /\ e \in EventsOf(d) /\ runs' = runs
        /\ applied' = [applied EXCEPT ![d] = [applied[d] EXCEPT ![e] = applied[d][e] + 1]]
    BY <1>3 DEF HandlerCommits, TypeOK, LoopType, WorkType
  <2> QED
    BY <1>0, <2>1 DEF OwnInv, EventsOf
<1> QED
  BY <1>1, <1>2, <1>3
     DEF Next, vars, Publish, Expire, PurgeProcessed, Loop, Deliver, Restart, SkipMessage, HandlerGivesUp,
         HandlerReturns, HandlerThrows, Retry, RetriesExhausted, PublishToDlq, DlqPublishFails

LEMMA OwnAlways == Spec => []OwnInv
<1>1. Init => OwnInv
  BY DEF Init, OwnInv
<1>2. IInv /\ OwnInv /\ [Next]_vars => OwnInv'
  BY StepOwn DEF IInv
<1> QED
  BY <1>1, <1>2, IInvAlways, PTL DEF Spec

LEMMA Prefixed ==
  ASSUME NEW S, NEW a \in S, NEW s \in Seq(S)
  PROVE  /\ <<a>> \o s \in Seq(S) /\ Len(<<a>> \o s) = 1 + Len(s) /\ Len(s) \in Nat
         /\ (<<a>> \o s)[1] = a
         /\ \A i \in 1..Len(s) : (<<a>> \o s)[1 + i] = s[i]
<1> DEFINE one == <<a>>
<1>1. one \in Seq(S) /\ Len(one) = 1 /\ one[1] = a /\ Len(s) \in Nat
  OBVIOUS
<1> HIDE DEF one
<1>2. /\ one \o s \in Seq(S) /\ Len(one \o s) = Len(one) + Len(s)
      /\ \A i \in 1..(Len(one) + Len(s)) :
           (one \o s)[i] = IF i <= Len(one) THEN one[i] ELSE s[i - Len(one)]
  BY <1>1, ConcatProperties
<1>3. 1 \in 1..(Len(one) + Len(s)) /\ (one \o s)[1] = a
  BY <1>1, <1>2
<1>4. ASSUME NEW i \in 1..Len(s) PROVE (one \o s)[1 + i] = s[i]
  <2>1. 1 + i \in 1..(Len(one) + Len(s)) /\ ~(1 + i <= Len(one)) /\ 1 + i - Len(one) = i
    BY <1>1
  <2> QED
    BY <1>2, <2>1
<1> QED
  BY <1>1, <1>2, <1>3, <1>4 DEF one

(* A pattern that begins with the prefix becomes, with the prefix that     *)
(* subscribe() adds, the subject of no event, if no type begins with it.   *)
LEMMA DoubledPrefix ==
  ASSUME NEW Tokens, Prefix \in Tokens, NEW p \in Seq(Tokens), NEW d \in Durables,
         Pattern[d] = <<Prefix>> \o p,
         \A e \in Events : /\ EventType[e] \in Seq(Tokens)
                           /\ EventType[e] # <<>> => EventType[e][1] # Prefix
  PROVE  EventsOf(d) = {}
<1> SUFFICES ASSUME NEW e \in Events, Filter(d) = Subject(e) PROVE FALSE
  BY DEF EventsOf, Receives
<1> DEFINE t == EventType[e]
           q == Pattern[d]
<1>1. t \in Seq(Tokens) /\ (t # <<>> => t[1] # Prefix)
  OBVIOUS
<1>2. q \in Seq(Tokens) /\ Len(q) = 1 + Len(p) /\ Len(p) \in Nat /\ q[1] = Prefix
  BY Prefixed
<1>3. <<Prefix>> \o q = <<Prefix>> \o t
  BY DEF Filter, Subject
<1> HIDE DEF q, t
<1>4. /\ Len(<<Prefix>> \o q) = 1 + Len(q) /\ (<<Prefix>> \o q)[1 + 1] = q[1]
  BY <1>2, Prefixed
<1>5. Len(<<Prefix>> \o t) = 1 + Len(t) /\ Len(t) \in Nat
  BY <1>1, Prefixed
<1>6. Len(t) = 1 + Len(p)
  BY <1>2, <1>3, <1>4, <1>5
<1>7. (<<Prefix>> \o t)[1 + 1] = t[1] /\ t # <<>>
  BY <1>1, <1>2, <1>6, Prefixed
<1> QED
  BY <1>1, <1>2, <1>3, <1>4, <1>7

(* Finding 3 for all events, workflows and schedules: a durable that       *)
(* subscribes to a pattern which begins with the prefix, as each rule of   *)
(* event-trigger.service.ts does, never runs its handler.                  *)
THEOREM TriggersNeverRun ==
  ASSUME NEW Tokens, Prefix \in Tokens, NEW p \in Seq(Tokens), NEW d \in Durables,
         Pattern[d] = <<Prefix>> \o p,
         \A e \in Events : /\ EventType[e] \in Seq(Tokens)
                           /\ EventType[e] # <<>> => EventType[e][1] # Prefix
  PROVE  Spec => [](\A e \in Events : runs[d][e] = 0 /\ applied[d][e] = 0)
<1>1. OwnInv => \A e \in Events : runs[d][e] = 0 /\ applied[d][e] = 0
  BY DoubledPrefix DEF OwnInv
<1> QED
  BY <1>1, OwnAlways, PTL
=============================================================================
