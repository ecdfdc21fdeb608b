CONSTANTS
  c1 = c1
  c2 = c2
  Calls <- MCTwoCalls
  MaxSlot = 1
  Quiet <- MCLastQuiet
  MaxTries = 2
  MaxEpoch = 1
  Faults <- MCFaults
SPECIFICATION FairSchedulerSpec
CHECK_DEADLOCK FALSE
INVARIANTS
  SchedulerTypeOK
PROPERTIES
  BegunSlotIsServed
  OpenJobIsServed
