SPECIFICATION Spec
CONSTANTS
  Calls = {c1, c2}
  Setups = {s1, s2}
  Own = own
  KeyFiles = {"default", "custom"}
  Default = "default"
  Choices = {"stock", "chosen"}
  Stock = "stock"
  Docs <- MCDocs
  Launches <- MCLaunches
  None = none
  MaxBilled = 1
  MaxMeddling = 1
SYMMETRY MCSymmetry
INVARIANTS
  CredentialServed
  SetupConnects
  RefusedUnbilled
  OutputScoped
