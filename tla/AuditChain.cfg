CONSTANTS
  Calls = {1, 2, 3, 4}
  DirectCalls = {4}
  Lossy = {3}
  Tenants = {"t1", "t2"}
  TenantDigest <- MCTenantDigest
  SignBit = 8
  Ranges <- MCRanges
  MaxTime = 1
SPECIFICATION Spec
INVARIANTS TypeOK ChainLinked VerifyExact RangeHasNoGap
PROPERTIES VerdictCoversChain LogRefinement
CHECK_DEADLOCK FALSE
