SPECIFICATION FairSpec
CONSTANTS
  MaxShm = 2
  MaxGen = 2
  MaxSize = 2
INVARIANTS
  MappingAgrees
PROPERTIES
  MapStable
  MainGoesOn
CHECK_DEADLOCK FALSE
