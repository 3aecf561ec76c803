CONSTANTS
  Messages = {m1, m2}
  NoMessage = NoMessage
  MaxEntries = 2
  MaxCommands = 4
  MaxFaults = 1
  MaxAttempts = 2
  MaxCrashes = 1
SPECIFICATION Spec
INVARIANTS NothingSentStaysQueued
PROPERTIES RestartNeedsResume FailedStartHoldsRest NeverSendsPastNewestStart UncertainSteerWaits ReadyHeadMovesOn
CHECK_DEADLOCK FALSE
