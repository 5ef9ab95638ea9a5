SPECIFICATION CrashSpec
CONSTANTS
  Nobody = Nobody
  Procs = {p1, p2, p3}
  StaleAge = 1
  Timeout = 1
  MaxHold = 1
  MaxLockFaults = 1
SYMMETRY ProcSymmetry
INVARIANT
  MutualExclusion
