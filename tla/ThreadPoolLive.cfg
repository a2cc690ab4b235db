\* Two workers, a ring of one slot, two tasks; only the owner destroys, while
\* the other caller may still add.
CONSTANTS
  main = main
  client = client
  x1 = x1
  x2 = x2
  x3 = x3
  ThreadCount = 2
  QueueSize = 1
  Callers <- MCCallers
  Owner = main
  Destroyers <- MCMain
  Tasks <- MCTwo
  NoThread = NoThread
  NoTask = NoTask
SPECIFICATION FairSpec
PROPERTIES DestroyReturns AcceptedRuns
