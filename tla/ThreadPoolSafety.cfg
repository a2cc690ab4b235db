\* Two workers, two callers that both may add and destroy the pool,
\* and a ring of two slots that three tasks overfill and wrap.
CONSTANTS
  main = main
  client = client
  x1 = x1
  x2 = x2
  x3 = x3
  ThreadCount = 2
  QueueSize = 2
  Callers <- MCCallers
  Owner = main
  Destroyers <- MCCallers
  Tasks <- MCThree
  NoThread = NoThread
  NoTask = NoTask
SPECIFICATION Spec
INVARIANTS TypeOK RingHoldsBacklog FreedAfterWorkers GracefulRunsEverything NoSleeperWhilePending
PROPERTY ImplementsTaskPool
