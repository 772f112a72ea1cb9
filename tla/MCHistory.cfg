SPECIFICATION Spec
CONSTANTS
  Numbers = {n1, n2, n3}
  None = None
  MaxItem = 2
  Contacts = {p}
  Seconds = {1}
  MaxCalls = 3
  MaxAgain = 1
  MaxUnsaved = 1
  MaxNamed = 1
  MaxDay = 1
INVARIANTS CategoriesAgree RecordsAgree LinkedByUse RowsRecent
SYMMETRY Symmetry
CHECK_DEADLOCK FALSE
