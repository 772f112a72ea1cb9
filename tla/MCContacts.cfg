SPECIFICATION Spec
CONSTANTS
  Backends = {b1, b2}
  Uids = {"u1", "u2"}
  Payloads = {"empty", "ann", "bob"}
  Uris = {"short", "full"}
  Complete = {"full"}
  UriOf <- MCUriOf
  Roles = {"name", "group"}
  CategoryOf <- MCCategoryOf
  HideEmpty = TRUE
  RemoteIdIsUid = {b2}
  None = None
  b1 = b1
  InitialItems <- MCInitialItems
  InitialBookmarks <- MCInitialBookmarks
  MaxObjects = 3
  MaxSteps = 3
INVARIANTS TreeAgrees PlaceholderResolved SwitchesAgree
PROPERTIES BookmarksPersist
CHECK_DEADLOCK FALSE
