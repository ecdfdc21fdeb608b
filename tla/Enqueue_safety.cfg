CONSTANTS
  c1 = c1
  c2 = c2
  u1 = u1
  u2 = u2
  u3 = u3
  u4 = u4
  i1 = i1
  i2 = i2
  i3 = i3
  None = None
  Updates <- MCFour
  Calls <- MCCalls
  Kind <- MCKinds
  Ids <- MCIds
  Hazards = {"rules"}
  MaxFaults = 1
SPECIFICATION EnqueueSpec
SYMMETRY Symmetry
CHECK_DEADLOCK FALSE
INVARIANTS
  MarkedIsComplete
  EnqueuedIsAccepted
  CommandOnce
  AutoIsRationed
PROPERTIES
  ImplementsIntake
