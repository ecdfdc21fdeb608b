CONSTANTS
  a = a
  p1 = p1
  p2 = p2
  Nobody = Nobody
  Dead = Dead
  Fact = "fact"
  Users <- MCUsers
  Updates <- Everything
  Traffic <- MCTraffic
  Procs <- TwoProcs
  Legacy <- OneFormer
  MaxItems = 2
  MaxClock = 2
  MaxResets = 1
  MaxPurges = 1
  MaxFaults = 1
  Hazards = {"crash", "stall"}
SPECIFICATION MemorySpec
SYMMETRY Symmetry
CHECK_DEADLOCK FALSE
INVARIANTS
  InvalidatedIsGone
