CONSTANTS
  Subs = {s1, s2}
  Invoices = {i1}
  InvoiceEvents <- MCInvoiceEvents
  i1 = i1
  Plans = {basic, pro}
  PlanOf <- MCPlanOf
  Says <- MCSays
  Silent = {}
  FirstPlan = basic
  NoSub = NoSub
  Processes = {p1, p2}
  Readers = {r1, r2}
  At <- MCAt
  TTL = 2
  Lag = 1
  p1 = p1
  r1 = r1
  r2 = r2
  s1 = s1
  s2 = s2
  basic = basic
  pro = pro
SPECIFICATION FairSpec
INVARIANTS TypeOK StalenessBounded PlanMatchesSubscription StatusOfSubscription
PROPERTIES ServesCurrentPlan
