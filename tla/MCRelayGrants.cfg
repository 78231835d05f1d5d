SPECIFICATION GrantsSpec
CONSTANTS
  MaxMembers = 5
  MaxDirect = 2
  RamRelays = 8
  DenseMin = 2
  Member = {1, 2}
  Rssi = {1, 3}
  Unknown = Unknown
  MinRssi = 2
  Hysteresis = 2
  SwapStable = 1
  Settings = {1, 2}
  NoMember = NoMember
CONSTRAINT GrantsBound
CHECK_DEADLOCK FALSE
INVARIANTS GrantsSafety
PROPERTIES RelaysStay GrantsWithinBudget SwapIsPatient
