SPECIFICATION Spec
CONSTANTS
  e1 = e1
  s1 = s1
  q1 = q1
  q2 = q2
  NoRun = NoRun
  Runs = {r1, r2}
  Paths <- TwoPaths
  Ops = {"research", "degraded", "collate"}
  ExtFiles <- MCExtFiles
  SrcFiles <- MCSrcFiles
  FileSets <- MCFileSets
  Telemetry = TRUE
  MayGiveUp = TRUE
  FaultyOps = {"rotate", "meta", "commit"}
  MaxFaults = 1
  MaxCrashes = 1
INVARIANTS
  ReportComplete
  StagingOutlivesWriters
  ListingKept
  NoCircularWait
SYMMETRY RunSymmetry
