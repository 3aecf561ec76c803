CONSTANTS
  c1 = c1
  q1 = q1
  k1 = k1
  k2 = k2
  Foreign = Foreign
  Commands <- MCCommands
  QueueCommands <- MCQueueCommands
  Callers <- MCCallers
  MaxBatch = 1
  MaxSequence = 3
  MaxForeign = 0
  MaxDispatches = 3
  ReconcileLimit = 1000
SPECIFICATION Spec
INVARIANTS ValidCaptureIsCurrent
