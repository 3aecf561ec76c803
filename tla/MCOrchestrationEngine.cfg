\* One caller, one subscriber with a live window of one event; one event of another process.
CONSTANTS
  q1 = q1
  k1 = k1
  s1 = s1
  Foreign = Foreign
  Commands <- MCCommands
  QueueCommands <- MCQueueCommands
  Callers <- MCCallers
  Subscribers <- MCSubscribers
  MaxBatch = 2
  MaxSequence = 2
  MaxForeign = 1
  MaxDispatches = 2
  ReconcileLimit = 2
  BusCapacity = 1
  PageSize = 1
SPECIFICATION WorkerSpec
INVARIANTS CommandsArriveWhole
PROPERTIES EngineStepsBus EveryDispatchEnds OwnEventsAreDelivered
