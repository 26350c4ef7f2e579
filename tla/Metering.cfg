CONSTANTS
  Usages = {"u1", "u2"}
  Ticks = {"k1", "k2"}
  DayLength = 1
  MonthLength = 2
  RawTtl = 2
  Quota = 2
  LimitPeriod = "month"
  MaxTime = 3
  MaxFailures = 1
SPECIFICATION FairSpec
INVARIANTS TypeOK NeverOvercounts ExceededMeansUsed
PROPERTIES CurrentUsageConverges
CHECK_DEADLOCK FALSE
