SPECIFICATION Spec
CONSTANTS
  MaxTime = 3
  MaxDigits = 2
  MaxEntries = 2
INVARIANTS
  StampsFollowState
  ListedCallsAreLive
PROPERTIES
  PlacedOnce
  HungUpIsRecorded
  KeepsPromise
CHECK_DEADLOCK FALSE
