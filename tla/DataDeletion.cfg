CONSTANTS
  Assets = {"a1", "a2"}
  Runs = {"r1"}
  MaxAttempts = 2
SPECIFICATION FairSpec
INVARIANTS TypeOK EarlierHoldProtects UnapprovedDeletesNothing CertificatesTrue
PROPERTIES RunsEnd
CHECK_DEADLOCK FALSE
