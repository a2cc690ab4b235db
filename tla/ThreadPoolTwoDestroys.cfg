\* Both callers may destroy the pool; one worker, one task.
CONSTANTS
  main = main
  client = client
  x1 = x1
  x2 = x2
  x3 = x3
  ThreadCount = 1
  QueueSize = 1
  Callers <- MCCallers
  Owner = main
  Destroyers <- MCCallers
  Tasks <- MCOne
  NoThread = NoThread
  NoTask = NoTask
SPECIFICATION FairSpec
PROPERTY DestroyReturns
