CONSTANTS
  Calls = {1, 2, 3, 4}
  DirectCalls = {4}
  Lossy = {}
  Tenants = {"t1", "t3"}
  TenantDigest <- MCTenantDigest
  SignBit = 8
  Ranges <- MCRanges
  MaxTime = 1
SPECIFICATION Spec
INVARIANT UntamperedVerifies
CHECK_DEADLOCK FALSE
