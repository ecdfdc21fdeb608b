CONSTANTS
  c1 = c1
  c2 = c2
  u1 = u1
  u2 = u2
  u3 = u3
  u4 = u4
  i1 = i1
  i2 = i2
  i3 = i3
  None = None
  Updates <- MCTwo
  Calls <- MCCalls
  Kind <- MCLiveKinds
  Ids <- MCIds
  Hazards = {"purge", "lapse"}
  MaxFaults = 1
SPECIFICATION FairEnqueueSpec
CHECK_DEADLOCK FALSE
PROPERTIES
  UpdatesComplete
