\* A turn start and a session stop, nothing lost and nothing failing.
CONSTANTS
  MaxRequests = 2
  MaxCrashes = 0
  MaxFaults = 0
  MaxRecoveryAttempts = 1
SPECIFICATION Spec
PROPERTIES NothingRoutesAfterStop
CHECK_DEADLOCK FALSE
