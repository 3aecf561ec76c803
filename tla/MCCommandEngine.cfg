\* A command and a follow-up queue command, repeated in any order by two callers.
CONSTANTS
  c1 = c1
  q1 = q1
  k1 = k1
  k2 = k2
  Foreign = Foreign
  Commands <- MCCommands
  QueueCommands <- MCQueueCommands
  Callers <- MCCallers
  MaxBatch = 2
  MaxSequence = 2
  MaxForeign = 1
  MaxDispatches = 3
  ReconcileLimit = 1
SPECIFICATION Spec
SYMMETRY MCSymmetry
INVARIANTS
  AppliedAtMostOnce ReceiptMatchesLog AnswersAgree ProjectedInOrder
  OwnEventsProjected PublishedIsProjected OwnMovesInvalidateCaptures
PROPERTIES ServiceSpec
