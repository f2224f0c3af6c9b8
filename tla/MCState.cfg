SPECIFICATION StateSpec
CONSTANTS
  Keys = {k1, k2, k3, k4}
  Values = {v1, v2}
  Capacity = 3
  Absent = Absent
INVARIANTS
  
  InstalledIsWhole
  
  InputsAreRead
  
  NatVerdictsHold
PROPERTIES
  LruIsRecencyList
  
CHECK_DEADLOCK FALSE
