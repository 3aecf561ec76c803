\* Four fibers: one of each mode can wait while two others hold or wait.  No symmetry:
\* liveness is checked.
CONSTANTS
  f1 = f1
  f2 = f2
  f3 = f3
  f4 = f4
  Fibers <- MCFibers
SPECIFICATION Spec
INVARIANTS Exclusion NoWakeUpLost
PROPERTIES NoOvertaking EveryWaiterIsAdmitted
