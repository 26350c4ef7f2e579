CONSTANTS
  Usages = {"u1"}
  Ticks = {"k1"}
  DayLength = 1
  MonthLength = 2
  RawTtl = 2
  Quota = 1
  LimitPeriod = "month"
  MaxTime = 1
  MaxFailures = 0
SPECIFICATION FairSpec
PROPERTY NothingMissed
CHECK_DEADLOCK FALSE
