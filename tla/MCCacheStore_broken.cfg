SPECIFICATION Spec
CONSTANTS
  e1 = e1
  s1 = s1
  q1 = q1
  q2 = q2
  NoRun = NoRun
  Runs = {r1, r2, r3}
  Paths <- OnePath
  Ops = {"research", "degraded", "collate"}
  ExtFiles <- MCExtFiles
  SrcFiles <- MCSrcFiles
  FileSets <- OneFileSet
  Telemetry = FALSE
  MayGiveUp = FALSE
  FaultyOps = {"commit", "clear", "readIndex", "writeIndex", "rmStaging"}
  MaxFaults = 1
  MaxCrashes = 1
SYMMETRY RunSymmetry
INVARIANTS
  NeverMixed
  ReportsKept
  ListedHasReport
PROPERTIES
  StoreSpec
