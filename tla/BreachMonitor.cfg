CONSTANTS
  Incidents = {i1}
  Statuses = {"investigating", "resolved"}
  Dtos <- MCDtos
  Updaters = {u1, u2}
  Replicas = {r1, r2}
  Jobs = {j1, j2}
  Interval = 3
  LockTTL = 2
  MaxDelay = 1
  Deadline = 3
  Warning = 2
  MaxCrashes = 1
SPECIFICATION FairSpec
INVARIANTS TypeOK OncePerCronTime RunsAlone WarningsComeFirst BreachHasDeadlines ClosedIsStamped
PROPERTIES OverdueIsAlerted
