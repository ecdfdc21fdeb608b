CONSTANTS
  u1 = u1
  u2 = u2
  j1 = j1
  j2 = j2
  c1 = c1
  c2 = c2
  c3 = c3
  p1 = p1
  Chat = Chat
  NoUpdate = NoUpdate
  Users <- MCUsers
  Updates <- MCUpdates
  Author <- MCAuthor
  Calls <- MCCalls
  Update <- MCUpdate
  Edited = {j1}
  Purges <- MCOnePurge
  Targets <- MCTargets
  MaxCrashes = 1
SPECIFICATION PrivacySpec
SYMMETRY MCCallSymmetry
CHECK_DEADLOCK FALSE
INVARIANTS
  CleanAfterPurge
  ReceiptsCoverAnswers
