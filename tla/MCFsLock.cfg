SPECIFICATION FairLockSpec
CONSTANTS
  Nobody = Nobody
  Procs = {p1, p2, p3}
  StaleAge = 1
  Timeout = 1
  MaxHold = 1
  MaxLockFaults = 1
INVARIANT
  SoundUntilFault
PROPERTIES
  ServiceUntilFault
  EveryCallEnds
  StaleOrphanIsBroken
