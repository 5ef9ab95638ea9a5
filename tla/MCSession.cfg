SPECIFICATION Spec
CONSTANTS
  new = new
  old = old
  Procs = {new, old}
  Tools = {t1, t2}
  Users = {new}
  Announcer = announcer
  Unset = unset
  None = none
  Current <- MCCurrent
  Required <- MCRequired
  Roles <- MCRoles
  Values <- MCValues
  ProjectOnly = {"custom"}
  Files <- MCFiles
  Markers <- MCMarkers
  ModelFiles <- MCModelFiles
  MaxSessions <- MCSessions
  MaxMishaps = 1
SYMMETRY ToolSymmetry
INVARIANTS
  MigratedWhenAlone
  UntrustedHasNoSay
  RegisteredStay
