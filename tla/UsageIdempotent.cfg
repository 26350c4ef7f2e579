CONSTANTS
  Events = {"usage1"}
  Durables = {"usage"}
  EventType <- MCEventType
  Pattern <- MCPattern
  Untenanted = {}
  BadSignature = {}
  Undecodable = {}
  Ignored = {}
  Swallowing = {}
  MaxRetries = 1
  MaxInbox = 1
  MaxFaults = 0
SPECIFICATION Spec
INVARIANT AppliedOnce
CHECK_DEADLOCK FALSE
