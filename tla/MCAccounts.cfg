SPECIFICATION Spec
CONSTANTS
  a1 = a1
  a2 = a2
  d1 = d1
  d2 = d2
  Ids = {a1, a2}
  Details = {d1, d2}
  Template = d1
  Start <- StartList
  MaxForeign = 3
  MaxNew = 1
INVARIANTS CopyAgrees UnsavedIsOffered
PROPERTIES SignalsKeepEdits
CHECK_DEADLOCK FALSE
