SPECIFICATION DirectorySpec
CONSTANTS
  Users = {u1}
  Accounts = {a1, a2}
  Ip2ip = a2
  Contacts = {c1, c2}
  None = None
  TopSize = 2
  MaxNumbers = 3
  MaxCalls = 4
INVARIANTS AsksAgain RanksAgree
CHECK_DEADLOCK FALSE
