CONSTANTS
  Recorders = {r1, r2}
  Revokers = {v1}
  Requesters = {}
  Updaters = {u1, u2}
  Purposes = {q1, q2}
  Identifiers = {i1, i2}
  People = {ann}
  PersonOf <- MCPersonOf
  None = None
  ann = ann
SPECIFICATION Spec
SYMMETRY Symmetry
CHECK_DEADLOCK FALSE
INVARIANTS TypeOK WithdrawalTakesEffect DuplicatesOnlyByRace VersionNamesPurposes EventsTrue
PROPERTIES LedgerKept
