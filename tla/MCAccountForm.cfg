SPECIFICATION FormSpec
CONSTANTS
  a1 = a1
  a2 = a2
  Ids = {a1, a2}
  First = a1
  Details <- Detail
  MaxCredentials = 2
INVARIANTS HostnameAgrees
PROPERTIES ApplyKeepsRest TypedIsSaved
CHECK_DEADLOCK FALSE
