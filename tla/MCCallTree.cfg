SPECIFICATION Spec
CONSTANTS
  Calls = {c1, c2, c3}
  Confs = {k1, k2}
  None = None
  ConfStates = {"ACTIVE_ATTACHED", "ACTIVE_DETACHED"}
  MaxSignals = 2
  MaxDetached = 1
  MaxLocal = 1
SYMMETRY Symmetry
INVARIANTS ConferencesAgree RowsAgree
CHECK_DEADLOCK FALSE
