SPECIFICATION Spec
CONSTANTS
  Attempts = 2
INVARIANT RouteOfTheValue
