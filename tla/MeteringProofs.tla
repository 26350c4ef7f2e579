--------------------------- MODULE MeteringProofs ---------------------------
(***************************************************************************)
(* Metering never overcounts, for any number of usages, executions and any *)
(* lengths of the periods.  The inductive invariant IInv adds to           *)
(* NeverOvercounts that the sums not yet written are sound (SumsSound):    *)
(* rows only move from rows to purged, so what was summed stays written.   *)
(***************************************************************************)
EXTENDS Metering, FiniteSetTheorems, TLAPS

LEMMA WindowStart ==
  ASSUME NEW period, NEW t \in 0..MaxTime
  PROVE  /\ Window(period, t).period = period
         /\ Window(period, t).start \in 0..MaxTime
<1>1. Length(period) \in Nat \ {0} BY LengthAssumption DEF Length
<1>2. t \in Nat /\ t % Length(period) \in 0..t BY <1>1, BoundAssumption, SMT
<1>3. t - (t % Length(period)) \in 0..MaxTime BY <1>2, BoundAssumption
<1> QED BY <1>3 DEF Window

LEMMA WindowType ==
  ASSUME NEW period \in Periods, NEW t \in 0..MaxTime
  PROVE  Window(period, t) \in Windows
BY WindowStart DEF Window, Windows

(* Rows are never lost from Written, and a window's usage only grows.      *)
LEMMA UsageGrows ==
  ASSUME NEW R, NEW S, R \subseteq S, NEW w
  PROVE  UsageIn(R, w) \subseteq UsageIn(S, w)
BY DEF UsageIn

LEMMA Initially == Init => IInv
<1> SUFFICES ASSUME Init PROVE IInv OBVIOUS
<1>1. TypeOK
  BY BoundAssumption
  DEF Init, TypeOK, Idle, NoCheck, InsertType, TickType, QuotaType, Written, RowType
<1>2. SumsSound BY DEF Init, SumsSound, Idle
<1>3. NeverOvercounts BY DEF Init, NeverOvercounts
<1> QED BY <1>1, <1>2, <1>3 DEF IInv

LEMMA Inductive == IInv /\ [Next]_vars => IInv'
<1> SUFFICES ASSUME IInv, [Next]_vars PROVE IInv' OBVIOUS
<1>0. TypeOK /\ SumsSound /\ NeverOvercounts BY DEF IInv
<1>1. CASE Advance
  <2>1. now' \in 0..MaxTime /\ now <= now' BY <1>0, <1>1, BoundAssumption DEF Advance, TypeOK
  <2>2. TypeOK'
    BY <1>0, <1>1, <2>1, BoundAssumption
    DEF Advance, TypeOK, InsertType, TickType, QuotaType, Written, RowType
  <2>3. SumsSound' /\ NeverOvercounts'
    BY <1>0, <1>1 DEF Advance, SumsSound, NeverOvercounts, Written
  <2> QED BY <2>2, <2>3 DEF IInv
<1>2. CASE Purge
  <2>1. /\ Written' = Written /\ rows' \subseteq RowType /\ purged' \subseteq RowType
        /\ UNCHANGED <<now, insert, aggregate, tick, quota, failures>>
    BY <1>0, <1>2 DEF Purge, Written, TypeOK
  <2>2. TypeOK' BY <1>0, <2>1 DEF TypeOK, InsertType, TickType, QuotaType
  <2>3. SumsSound' /\ NeverOvercounts' BY <1>0, <2>1 DEF SumsSound, NeverOvercounts
  <2> QED BY <2>2, <2>3 DEF IInv
<1>3. ASSUME NEW u \in Usages, BeginInsert(u) PROVE IInv'
  <2>1. TypeOK'
    BY <1>0, <1>3, BoundAssumption
    DEF BeginInsert, TypeOK, InsertType, TickType, QuotaType, Written, RowType
  <2>2. SumsSound' /\ NeverOvercounts'
    BY <1>0, <1>3 DEF BeginInsert, SumsSound, NeverOvercounts, Written
  <2> QED BY <2>1, <2>2 DEF IInv
<1>4. ASSUME NEW u \in Usages, CommitInsert(u) PROVE IInv'
  <2> DEFINE row == [id |-> u, at |-> insert[u].at]
  <2>1. /\ rows' = rows \union {row} /\ purged' = purged
        /\ insert' = [insert EXCEPT ![u] = [phase |-> "done"]]
        /\ UNCHANGED <<now, aggregate, tick, quota, failures>>
    BY <1>4 DEF CommitInsert
  <2>2. Written' = Written \union {row} BY <2>1 DEF Written
  <2>3. row \in RowType /\ row.id = u /\ row.at <= now /\ insert[u].phase = "open"
    BY <1>0, <1>4, BoundAssumption DEF CommitInsert, TypeOK, InsertType, RowType
  <2>4. \A r \in Written : r.id # u BY <1>0, <2>3 DEF TypeOK
  <2>5. rows' \subseteq RowType /\ purged' \subseteq RowType BY <1>0, <2>1, <2>3 DEF TypeOK
  <2>6. \A r \in Written' : r.at <= now' /\ insert'[r.id].phase = "done"
    <3> SUFFICES ASSUME NEW r \in Written' PROVE r.at <= now' /\ insert'[r.id].phase = "done"
      OBVIOUS
    <3>1. CASE r = row BY <1>0, <2>1, <2>3, <3>1 DEF TypeOK
    <3>2. CASE r \in Written
      <4>1. r \in RowType BY <1>0, <3>2 DEF TypeOK, Written
      <4> QED BY <1>0, <2>1, <2>4, <3>2, <4>1 DEF TypeOK, RowType
    <3> QED BY <2>2, <3>1, <3>2
  <2>7. \A r, q \in Written' : r.id = q.id => r = q
    BY <1>0, <2>2, <2>3, <2>4 DEF TypeOK
  <2>8. DOMAIN insert' = Usages /\ \A v \in Usages : InsertType(insert[v])'
    BY <1>0, <2>1 DEF TypeOK, InsertType
  <2>9. TypeOK'
    BY <1>0, <2>1, <2>5, <2>6, <2>7, <2>8 DEF TypeOK, InsertType, TickType, QuotaType
  <2>10. \A w : UsageIn(Written, w) \subseteq UsageIn(Written', w) BY <2>2, UsageGrows
  <2>11. SumsSound' /\ NeverOvercounts'
    BY <1>0, <2>1, <2>10 DEF SumsSound, NeverOvercounts
  <2> QED BY <2>9, <2>11 DEF IInv
<1>5. ASSUME NEW u \in Usages, AbortInsert(u) PROVE IInv'
  <2>1. TypeOK'
    BY <1>0, <1>5
    DEF AbortInsert, TypeOK, InsertType, TickType, QuotaType, Written, RowType
  <2>2. SumsSound' /\ NeverOvercounts'
    BY <1>0, <1>5 DEF AbortInsert, SumsSound, NeverOvercounts, Written
  <2> QED BY <2>1, <2>2 DEF IInv
<1>6. ASSUME NEW k \in Ticks, TickStep(k) PROVE IInv'
  <2>1. CASE StartTick(k)
    <3>1. Window("day", now) \in Windows BY <1>0, WindowType DEF TypeOK, Periods
    <3>2. TypeOK'
      BY <1>0, <2>1, <3>1
      DEF StartTick, Open, TypeOK, InsertType, TickType, QuotaType, Written
    <3>3. SumsSound' /\ NeverOvercounts'
      BY <1>0, <2>1 DEF StartTick, Open, TypeOK, SumsSound, NeverOvercounts, Written
    <3> QED BY <3>2, <3>3 DEF IInv
  <2>2. CASE SumWindow(k)
    <3>1. UsageIn(rows, tick[k].window) \subseteq UsageIn(Written, tick[k].window)
      BY UsageGrows DEF Written
    <3>2. UsageIn(rows, tick[k].window) \subseteq Usages
      BY <1>0 DEF UsageIn, TypeOK, RowType
    <3>3. TypeOK'
      BY <1>0, <2>2, <3>2
      DEF SumWindow, TypeOK, InsertType, TickType, QuotaType, Written
    <3>4. SumsSound'
      BY <1>0, <2>2, <3>1 DEF SumWindow, TypeOK, SumsSound, Written
    <3>5. NeverOvercounts' BY <1>0, <2>2 DEF SumWindow, NeverOvercounts, Written
    <3> QED BY <3>3, <3>4, <3>5 DEF IInv
  <2>3. CASE Upsert(k)
    <3> DEFINE w == tick[k].window
    <3>1. tick[k].phase = "summed" /\ w \in Windows /\ tick[k].sum \subseteq Usages
      BY <1>0, <2>3 DEF Upsert, TypeOK, TickType
    <3>2. /\ aggregate' = [aggregate EXCEPT ![w] = IF tick[k].sum = {} THEN @ ELSE tick[k].sum]
          /\ UNCHANGED <<now, insert, rows, purged, quota, failures>>
      BY <2>3 DEF Upsert
    <3>3. PICK s : /\ tick' = [tick EXCEPT ![k] = s]
                   /\ TickType(s) /\ s.phase # "summed"
      <4>1. Window("month", now) \in Windows BY <1>0, WindowType DEF TypeOK, Periods
      <4> DEFINE next == [phase |-> "opened", window |-> Window("month", now)]
      <4>2. TickType(next) /\ TickType(Idle) /\ next.phase # "summed" /\ Idle.phase # "summed"
        BY <4>1 DEF TickType, Idle
      <4>3. tick' = [tick EXCEPT ![k] = next] \/ tick' = [tick EXCEPT ![k] = Idle]
        BY <2>3 DEF Upsert, FinishWindow, Open
      <4> HIDE DEF next
      <4> QED BY <4>2, <4>3
    <3>4. TypeOK'
      BY <1>0, <3>1, <3>2, <3>3 DEF TypeOK, InsertType, TickType, QuotaType, Written
    <3>5. SumsSound' BY <1>0, <3>2, <3>3 DEF TypeOK, SumsSound, Written
    <3>6. NeverOvercounts'
      BY <1>0, <3>1, <3>2 DEF TypeOK, SumsSound, NeverOvercounts, Written
    <3> QED BY <3>4, <3>5, <3>6 DEF IInv
  <2>4. CASE TickFails(k)
    <3>1. TypeOK'
      BY <1>0, <2>4, BoundAssumption
      DEF TickFails, Idle, TypeOK, InsertType, TickType, QuotaType, Written
    <3>2. SumsSound' /\ NeverOvercounts'
      BY <1>0, <2>4 DEF TickFails, Idle, TypeOK, SumsSound, NeverOvercounts, Written
    <3> QED BY <3>1, <3>2 DEF IInv
  <2> QED BY <1>6, <2>1, <2>2, <2>3, <2>4 DEF TickStep
<1>7. CASE CheckBegins \/ CheckAnswers \/ CheckUnlimited
  <2>1. /\ Window(LimitPeriod, now).period = LimitPeriod
        /\ Window(LimitPeriod, now).start \in 0..MaxTime
    BY <1>0, WindowStart DEF TypeOK
  <2>2. QuotaType' /\ UNCHANGED <<now, insert, rows, purged, aggregate, tick, failures>>
    BY <1>0, <1>7, <2>1
    DEF CheckBegins, CheckAnswers, CheckUnlimited, NoCheck, TypeOK, QuotaType
  <2>3. TypeOK' BY <1>0, <2>2 DEF TypeOK, InsertType, TickType, Written
  <2>4. SumsSound' /\ NeverOvercounts' BY <1>0, <2>2 DEF SumsSound, NeverOvercounts, Written
  <2> QED BY <2>3, <2>4 DEF IInv
<1>8. CASE UNCHANGED vars
  BY <1>0, <1>8
  DEF vars, IInv, TypeOK, InsertType, TickType, QuotaType, SumsSound, NeverOvercounts, Written
<1> QED BY <1>1, <1>2, <1>3, <1>4, <1>5, <1>6, <1>7, <1>8 DEF Next

LEMMA Invariance == Spec => []IInv
<1>1. Init => IInv BY Initially
<1>2. IInv /\ [Next]_vars => IInv' BY Inductive
<1> QED BY <1>1, <1>2, PTL DEF Spec

(* The types, with no row dated in the future or inserted twice.           *)
THEOREM TypeCorrect == Spec => []TypeOK
<1>1. IInv => TypeOK BY DEF IInv
<1> QED BY <1>1, Invariance, PTL

(* An aggregate counts only rows written in its window.                    *)
THEOREM NoOvercount == Spec => []NeverOvercounts
<1>1. IInv => NeverOvercounts BY DEF IInv
<1> QED BY <1>1, Invariance, PTL

(* What the check counted was at most the usage written, which only grows. *)
LEMMA ExceededStep ==
  ASSUME IInv, IInv', ExceededMeansUsed, [Next]_vars
  PROVE  ExceededMeansUsed'
<1> SUFFICES ASSUME quota'.phase = "exceeded"
             PROVE  Cardinality(UsageIn(Written, quota.window)') >= Quota
  BY DEF ExceededMeansUsed
<1> DEFINE w == quota'.window
<1>1. /\ IsFiniteSet(UsageIn(Written', w))
      /\ UsageIn(Written', w) \subseteq Usages
  <2>2. UsageIn(Written', w) \subseteq Usages BY DEF IInv, TypeOK, UsageIn, Written, RowType
  <2> QED BY <2>2, UsagesAssumption, FS_Subset
<1>2. ASSUME NEW S, S \subseteq UsageIn(Written', w), Cardinality(S) >= Quota
      PROVE  Cardinality(UsageIn(Written', w)) >= Quota
  <2>1. /\ Cardinality(S) \in Nat /\ Cardinality(UsageIn(Written', w)) \in Nat
        /\ Cardinality(S) <= Cardinality(UsageIn(Written', w))
    BY <1>1, <1>2, FS_Subset, FS_CardinalityType
  <2> QED BY <1>2, <2>1, BoundAssumption
<1>3. CASE UNCHANGED quota
  <2>1. Written \subseteq Written'
    BY DEF Next, vars, Written, Advance, Purge, BeginInsert, CommitInsert, AbortInsert,
           TickStep, StartTick, SumWindow, Upsert, TickFails,
           CheckBegins, CheckAnswers, CheckUnlimited
  <2>2. UsageIn(Written, w) \subseteq UsageIn(Written', w) BY <2>1, UsageGrows
  <2>3. Cardinality(UsageIn(Written, w)) >= Quota BY <1>3 DEF ExceededMeansUsed
  <2> QED BY <1>2, <2>2, <2>3
<1>4. CASE CheckAnswers
  <2>1. w = quota.window /\ Cardinality(Counted(w)) >= Quota /\ UNCHANGED aggregate
    BY <1>4 DEF CheckAnswers, NoCheck
  <2>2. Counted(w) \subseteq UsageIn(Written', w)
    BY <2>1 DEF Counted, IInv, NeverOvercounts
  <2> QED BY <1>2, <2>1, <2>2
<1>5. CASE CheckBegins \/ CheckUnlimited
  BY <1>5 DEF CheckBegins, CheckUnlimited, NoCheck
<1> QED
  BY <1>3, <1>4, <1>5
  DEF Next, vars, Advance, Purge, BeginInsert, CommitInsert, AbortInsert,
      TickStep, StartTick, SumWindow, Upsert, TickFails

(* "exceeded" is answered only when the rows of the limit's period, a day, *)
(* a month or a lifetime, have reached the limit.                          *)
THEOREM ExceededAlwaysMeansUsed == Spec => []ExceededMeansUsed
<1>1. Init => ExceededMeansUsed BY DEF Init, NoCheck, ExceededMeansUsed
<1>2. IInv /\ IInv' /\ ExceededMeansUsed /\ [Next]_vars => ExceededMeansUsed'
  BY ExceededStep
<1> QED BY <1>1, <1>2, Invariance, PTL DEF Spec
=============================================================================
