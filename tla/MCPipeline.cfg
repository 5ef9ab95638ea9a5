SPECIFICATION Spec
CONSTANTS
  MaxUrls = 4
  SearchAttempts = 2
  FetchConcurrency = 3
  ExtractConcurrency = 2
  Interval = 2
INVARIANTS
  OutcomeDeserved
  PagesAccounted
  NothingOutlivesStage
  SlotsApart
PROPERTIES
  AbortStopsWork
