SPECIFICATION CanvasFairSpec
CONSTANTS
  Counts = {0, 1, 2, 5, 9}
INVARIANTS
  StateAgrees
  MatchesOffered
PROPERTIES
  EndCallGoes
