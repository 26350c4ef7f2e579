CONSTANTS
  Events = {"usage1", "usage2", "usage4", "consentRevoked"}
  Durables = {"usage", "consent"}
  EventType <- MCEventType
  Pattern <- MCPattern
  Untenanted = {"usage4"}
  BadSignature = {"usage2"}
  Undecodable = {}
  Ignored = {"consentRevoked"}
  Swallowing = {}
  MaxRetries = 1
  MaxInbox = 1
  MaxFaults = 1
SPECIFICATION FairSpec
INVARIANTS TypeOK EveryLossIsKnown RunOncePerMemory EffectsBounded
PROPERTIES EventuallyAcked
CHECK_DEADLOCK FALSE
