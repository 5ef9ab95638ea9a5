SPECIFICATION FairSpec
CONSTANTS
  Pages = {p1, p2}
  Scores = {0, 1}
  MaxThird = 1
  Wrapper = wrapper
  Mute = mute
  Nobody = nobody
  None = none
INVARIANTS
  ConsoleGivenBack
  DegradedIsOwn
  BestOfServed
PROPERTY
  EveryPageEnds
