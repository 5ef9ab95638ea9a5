SPECIFICATION FairSpec
CONSTANTS
  c1 = c1
  c2 = c2
  c3 = c3
  Calls <- MCCalls
  MaxConcurrent = 2
  Signals = {SIGTERM}
INVARIANTS
  RefusalIsCurrent
  ClosedIsAnswered
PROPERTIES
  NoneBeginsAfterShutdown
  ShutdownEnds
