\* The queue is destroyed while the looper may still be using it.
CONSTANTS
  SIGINT = SIGINT
  Signals <- OneSignal
  Nobody = Nobody
SPECIFICATION Spec
INVARIANT QueueOutlivesLooper
