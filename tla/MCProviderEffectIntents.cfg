\* Two requests of any kinds, one process loss, one failure of the store.
CONSTANTS
  MaxRequests = 2
  MaxCrashes = 1
  MaxFaults = 1
  MaxRecoveryAttempts = 1
SPECIFICATION Spec
INVARIANTS UnsentVerdictsAreTrue UndispatchedEndsVisibly OneVerdict
PROPERTIES NeverSentAgain IntentsComeToRest
CHECK_DEADLOCK FALSE
