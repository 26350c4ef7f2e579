------------------------------ MODULE Metering ------------------------------
(***************************************************************************)
(* core/metering: usage rows, their roll-up into aggregates, and the quota *)
(* check, for one tenant and one metric.                                   *)
(*                                                                         *)
(* The usage-event consumer inserts a row per event, dated when it is      *)
(* written.  UsageAggregatorService.aggregate() runs on a cron in every    *)
(* API process: it replaces the aggregate of the current day, then that of *)
(* the current month, by the sum of the window's rows.  purge() deletes    *)
(* old rows.  QuotaCheckService.check() reads one aggregate; whether the    *)
(* limit is one to enforce (quotaEnforced) it does not read.               *)
(*                                                                         *)
(* The value of an aggregate is the set of rows summed in it (every value  *)
(* is positive); the empty set is an aggregate that does not exist.        *)
(***************************************************************************)
EXTENDS Integers, FiniteSets

CONSTANTS
  Usages,      \* the inserts of usage_events that may be made
  Ticks,       \* executions of aggregate() that may overlap
  DayLength,   \* in units of the clock
  MonthLength,
  RawTtl,      \* RAW_EVENT_TTL_DAYS
  Quota,       \* planLimit.limitValue
  LimitPeriod, \* planLimit.period
  MaxTime,     \* bounds: the clock,
  MaxFailures  \*   and the executions of aggregate() that fail

(* Raw rows outlive the longest window (90 days, a month).                 *)
ASSUME LengthAssumption ==
  /\ DayLength \in Nat \ {0} /\ MonthLength \in Nat \ {0}
  /\ RawTtl \in Nat /\ RawTtl >= MonthLength /\ RawTtl >= DayLength
ASSUME BoundAssumption == MaxTime \in Nat /\ MaxFailures \in Nat /\ Quota \in Nat
ASSUME PeriodAssumption == LimitPeriod \in {"day", "month", "lifetime"}
ASSUME UsagesAssumption == IsFiniteSet(Usages)

VARIABLES
  now,        \* the clock
  insert,     \* insert[u]: the transaction that inserts u
  rows,       \* table usage_events
  purged,     \* history: rows deleted by purge()
  aggregate,  \* table usage_aggregates, by window
  tick,       \* tick[k]: how far an execution of aggregate() is
  quota,      \* a call of check(), or the last refusal
  failures    \* history: failures so far

vars == <<now, insert, rows, purged, aggregate, tick, quota, failures>>

Periods == {"day", "month"}
Length(period) == IF period = "day" THEN DayLength ELSE MonthLength

(* [periodStart, periodEnd) of the period that holds time t                *)
Window(period, t) == [period |-> period, start |-> t - (t % Length(period))]
Windows == [period : Periods, start : 0..MaxTime]
InWindow(w, t) == w.start <= t /\ t < w.start + Length(w.period)

Written == rows \union purged
UsageIn(R, w) == {r.id : r \in {q \in R : InWindow(w, q.at)}}

Idle == [phase |-> "idle"]
NoCheck == [phase |-> "none"]

Init ==
  /\ now = 0
  /\ insert = [u \in Usages |-> Idle]
  /\ rows = {} /\ purged = {}
  /\ aggregate = [w \in Windows |-> {}]
  /\ tick = [k \in Ticks |-> Idle]
  /\ quota = NoCheck
  /\ failures = 0

Advance ==
  /\ now < MaxTime
  /\ now' = now + 1
  /\ UNCHANGED <<insert, rows, purged, aggregate, tick, quota, failures>>

-----------------------------------------------------------------------------
(* The consumer of usage.recorded                                          *)

(* Mutant: dated by the end of its day.                                    *)
BeginInsert_RoundedUp(u) ==
  /\ insert[u].phase = "idle"
  /\ insert' = [insert EXCEPT ![u] =
       [phase |-> "open", at |-> Window("day", now).start + DayLength]]
  /\ UNCHANGED <<now, rows, purged, aggregate, tick, quota, failures>>

(* occurred_at is a default of the database: the time of the INSERT.       *)
BeginInsert(u) ==
  /\ insert[u].phase = "idle"
  /\ insert' = [insert EXCEPT ![u] = [phase |-> "open", at |-> now]]
  /\ UNCHANGED <<now, rows, purged, aggregate, tick, quota, failures>>

CommitInsert(u) ==
  /\ insert[u].phase = "open"
  /\ insert' = [insert EXCEPT ![u] = [phase |-> "done"]]
  /\ rows' = rows \union {[id |-> u, at |-> insert[u].at]}
  /\ UNCHANGED <<now, purged, aggregate, tick, quota, failures>>

(* The transaction fails: the bus calls the handler again, or gives up.    *)
AbortInsert(u) ==
  /\ insert[u].phase = "open"
  /\ \E next \in {"idle", "done"} : insert' = [insert EXCEPT ![u] = [phase |-> next]]
  /\ UNCHANGED <<now, rows, purged, aggregate, tick, quota, failures>>

-----------------------------------------------------------------------------
(* aggregate()                                                             *)

Open(k, period) ==
  tick' = [tick EXCEPT ![k] = [phase |-> "opened", window |-> Window(period, now)]]

(* runDailyRollup takes the time and computes its window.                  *)
StartTick(k) ==
  /\ tick[k].phase = "idle"
  /\ Open(k, "day")
  /\ UNCHANGED <<now, insert, rows, purged, aggregate, quota, failures>>

(* Mutant: the end of the window belongs to it.                            *)
SumWindow_EndIncluded(k) ==
  /\ tick[k].phase = "opened"
  /\ LET w == tick[k].window
     IN  tick' = [tick EXCEPT ![k] =
           [phase |-> "summed", window |-> w,
            sum |-> {r.id : r \in {q \in rows :
                      w.start <= q.at /\ q.at <= w.start + Length(w.period)}}]]
  /\ UNCHANGED <<now, insert, rows, purged, aggregate, quota, failures>>

(* The SELECT of rollupWindow: what is committed when the statement begins *)
SumWindow(k) ==
  /\ tick[k].phase = "opened"
  /\ tick' = [tick EXCEPT ![k] =
       [phase |-> "summed", window |-> tick[k].window,
        sum |-> UsageIn(rows, tick[k].window)]]
  /\ UNCHANGED <<now, insert, rows, purged, aggregate, quota, failures>>

(* The daily window is followed by the monthly one, at the time it is then.*)
FinishWindow(k) ==
  IF tick[k].window.period = "day"
  THEN Open(k, "month")
  ELSE tick' = [tick EXCEPT ![k] = Idle]

(* Mutant: ON CONFLICT DO NOTHING.                                         *)
Upsert_FirstWins(k) ==
  /\ tick[k].phase = "summed"
  /\ aggregate' = [aggregate EXCEPT ![tick[k].window] = IF @ = {} THEN tick[k].sum ELSE @]
  /\ FinishWindow(k)
  /\ UNCHANGED <<now, insert, rows, purged, quota, failures>>

(* ON CONFLICT DO UPDATE SET value = EXCLUDED.value; a window without rows *)
(* has no group, and its aggregate stays as it is.                         *)
Upsert(k) ==
  /\ tick[k].phase = "summed"
  /\ aggregate' = [aggregate EXCEPT ![tick[k].window] = IF tick[k].sum = {} THEN @ ELSE tick[k].sum]
  /\ FinishWindow(k)
  /\ UNCHANGED <<now, insert, rows, purged, quota, failures>>

(* A failure is logged, and ends the execution: of a failed daily roll-up  *)
(* the monthly one does not follow.                                        *)
TickFails(k) ==
  /\ tick[k].phase # "idle"
  /\ failures < MaxFailures /\ failures' = failures + 1
  /\ tick' = [tick EXCEPT ![k] = Idle]
  /\ UNCHANGED <<now, insert, rows, purged, aggregate, quota>>

(* The nightly job; it may also come late or not at all.                   *)
Purge ==
  LET old == {r \in rows : r.at < now - RawTtl}
  IN  /\ old # {}
      /\ rows' = rows \ old
      /\ purged' = purged \union old
      /\ UNCHANGED <<now, insert, aggregate, tick, quota, failures>>

-----------------------------------------------------------------------------
(* check()                                                                 *)

(* The plan limit is read, and periodStart computed from the time: the     *)
(* day's or, for each other period of a limit, the month's.                *)
CheckBegins ==
  /\ quota.phase # "asked"
  /\ quota' = [phase |-> "asked", window |-> Window(LimitPeriod, now)]
  /\ UNCHANGED <<now, insert, rows, purged, aggregate, tick, failures>>

(* The usage that the aggregate of the window holds: 0 if there is none,   *)
(* and there is none of a lifetime.                                        *)
Counted(w) == IF w \in Windows THEN aggregate[w] ELSE {}

(* Mutant: what was used in the periods before counts.                     *)
CheckAnswers_CarriedOver ==
  /\ quota.phase = "asked"
  /\ LET used == UNION {aggregate[w] : w \in {v \in Windows : v.period = LimitPeriod}}
     IN  quota' = IF Cardinality(used) >= Quota
                  THEN [phase |-> "exceeded", window |-> quota.window] ELSE NoCheck
  /\ UNCHANGED <<now, insert, rows, purged, aggregate, tick, failures>>

(* `exceeded` is used >= limit.                                            *)
CheckAnswers ==
  /\ quota.phase = "asked"
  /\ quota' = IF Cardinality(Counted(quota.window)) >= Quota
              THEN [phase |-> "exceeded", window |-> quota.window] ELSE NoCheck
  /\ UNCHANGED <<now, insert, rows, purged, aggregate, tick, failures>>

(* No limit in the plan, or the database fails: unlimited.                 *)
CheckUnlimited ==
  /\ quota.phase = "asked"
  /\ quota' = NoCheck
  /\ UNCHANGED <<now, insert, rows, purged, aggregate, tick, failures>>

-----------------------------------------------------------------------------
TickStep(k) == StartTick(k) \/ SumWindow(k) \/ Upsert(k) \/ TickFails(k)

Next ==
  \/ Advance \/ Purge
  \/ \E u \in Usages : BeginInsert(u) \/ CommitInsert(u) \/ AbortInsert(u)
  \/ \E k \in Ticks : TickStep(k)
  \/ CheckBegins \/ CheckAnswers \/ CheckUnlimited

Spec == Init /\ [][Next]_vars

(* The cron goes on, and transactions end.                                 *)
FairSpec ==
  /\ Spec
  /\ \A k \in Ticks : WF_vars(TickStep(k))
  /\ \A u \in Usages : WF_vars(CommitInsert(u) \/ AbortInsert(u))

-----------------------------------------------------------------------------
(* Properties                                                              *)

RowType == [id : Usages, at : 0..MaxTime]

InsertType(i) ==
  /\ i.phase \in {"idle", "open", "done"}
  /\ i.phase = "open" => i.at \in 0..now

TickType(k) ==
  /\ k.phase \in {"idle", "opened", "summed"}
  /\ k.phase # "idle" => k.window \in Windows
  /\ k.phase = "summed" => k.sum \subseteq Usages

QuotaType ==
  /\ quota.phase \in {"none", "asked", "exceeded"}
  /\ quota.phase # "none" =>
       quota.window.period = LimitPeriod /\ quota.window.start \in 0..MaxTime

(* Type invariant; no row is dated in the future, and an insert leaves at  *)
(* most one row.                                                           *)
TypeOK ==
  /\ now \in 0..MaxTime
  /\ DOMAIN insert = Usages /\ \A u \in Usages : InsertType(insert[u])
  /\ rows \subseteq RowType /\ purged \subseteq RowType
  /\ \A r \in Written : r.at <= now /\ insert[r.id].phase = "done"
  /\ \A r, q \in Written : r.id = q.id => r = q
  /\ aggregate \in [Windows -> SUBSET Usages]
  /\ DOMAIN tick = Ticks /\ \A k \in Ticks : TickType(tick[k])
  /\ QuotaType
  /\ failures \in 0..MaxFailures

(* Nobody is charged for usage that was not recorded in the period: an     *)
(* aggregate counts only rows written in its window, whatever executions   *)
(* overlap, run across midnight or follow a purge.                         *)
NeverOvercounts ==
  \A w \in Windows : aggregate[w] \subseteq UsageIn(Written, w)

(* Why: what an execution has summed was written in its window.            *)
SumsSound ==
  \A k \in Ticks : tick[k].phase = "summed" =>
    tick[k].sum \subseteq UsageIn(Written, tick[k].window)

IInv == TypeOK /\ SumsSound /\ NeverOvercounts

(* What "exceeded" means: check() answers it only when the rows written in *)
(* the limit's period, as it was at the call, have reached the limit, even *)
(* if the period ends before the aggregate is read.  It does not mean that *)
(* the limit is one to enforce: quotaEnforced is read nowhere.             *)
ExceededMeansUsed ==
  quota.phase = "exceeded" => Cardinality(UsageIn(Written, quota.window)) >= Quota

(* Once the last row of the current month is in, its aggregate becomes     *)
(* exact and stays so: no execution that read less overwrites it for good. *)
CurrentUsageConverges ==
  <>[](aggregate[Window("month", now)] = UsageIn(Written, Window("month", now)))

(* usage-aggregator.service.ts:33: the cadence and the window "guarantee   *)
(* no events are missed between ticks": a row is counted in its day.       *)
NothingMissed ==
  \A u \in Usages, t \in 0..MaxTime :
    [id |-> u, at |-> t] \in rows ~> u \in aggregate[Window("day", t)]
=============================================================================
