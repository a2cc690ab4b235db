\* Every mode of the program, one signal that may interrupt any thread.
CONSTANTS
  SIGINT = SIGINT
  Signals <- OneSignal
  Nobody = Nobody
SPECIFICATION FairSpec
INVARIANTS TypeOK OneChain
PROPERTIES PostedIsPopped SignalEndsApp MutexIsReleased
