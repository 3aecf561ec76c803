\* A revert of a thread of one turn and one process loss; no call fails.
CONSTANTS
  Reverts = {1}
  StartTurns = 1
  MaxTurns = 1
  MaxEdits = 0
  MaxCrashes = 1
  MaxFaults = 0
SPECIFICATION Spec
INVARIANTS NothingChangedIsTrue
CHECK_DEADLOCK FALSE
