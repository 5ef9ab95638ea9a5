SPECIFICATION FairSpec
CONSTANTS
  Requests = {r1, r2, r3, r4}
  MaxConcurrent = 1
  MaxQueued = 2
INVARIANTS
  QueueInv
  FirstComeFirstServed
PROPERTIES
  SchedulerSpec
  EveryRequestAnswered
CHECK_DEADLOCK FALSE
