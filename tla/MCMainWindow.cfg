SPECIFICATION WindowSpec
CONSTANTS
  MaxCalls = 2
  Texts <- MacroTexts
  MaxTimers = 2
  Servers = {s1, s2}
  IP2IP = IP2IP
  MaxStatuses = 4
  StoredLists <- MCStored
INVARIANTS SelectionInRows MacroStartsOver
PROPERTIES ButtonsApply AccountShown CallsGoOut DefaultAgrees
CHECK_DEADLOCK FALSE
