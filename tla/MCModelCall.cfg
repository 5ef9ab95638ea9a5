SPECIFICATION FairSpec
CONSTANTS
  Attempts = 3
INVARIANTS
  ValueIsWhole
  CitationsBelong
PROPERTIES
  AbortWins
  EveryCallEnds
