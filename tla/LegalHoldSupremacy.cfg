CONSTANTS
  Assets = {"a1"}
  Runs = {"r1"}
  MaxAttempts = 1
SPECIFICATION Spec
PROPERTY HeldNotDeleted
CHECK_DEADLOCK FALSE
