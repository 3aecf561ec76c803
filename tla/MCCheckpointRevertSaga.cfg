\* One revert of a thread of two turns; a third turn, a person's edit, two process losses
\* and two failures come in between.
CONSTANTS
  Reverts = {1}
  StartTurns = 2
  MaxTurns = 3
  MaxEdits = 1
  MaxCrashes = 2
  MaxFaults = 2
SPECIFICATION Spec
INVARIANTS EndsAreTrue  NoTurnUnderRevert ScopeIsKept
PROPERTIES  NewestRevertEnds
CHECK_DEADLOCK FALSE
