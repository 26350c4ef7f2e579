CONSTANTS
  Events = {"usage1", "retentionTriggered"}
  Durables = {"usage", "trigger"}
  EventType <- MCEventType
  Pattern <- MCPattern
  Untenanted = {}
  BadSignature = {}
  Undecodable = {}
  Ignored = {}
  Swallowing = {"trigger"}
  MaxRetries = 1
  MaxInbox = 1
  MaxFaults = 0
SPECIFICATION FairSpec
PROPERTY TriggersFire
CHECK_DEADLOCK FALSE
