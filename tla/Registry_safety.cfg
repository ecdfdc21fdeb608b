CONSTANTS
  ignore = ignore
  l1 = l1
  l2 = l2
  r1 = r1
  v1 = v1
  u1 = u1
  u2 = u2
  a1 = a1
  a2 = a2
  n1 = n1
  n2 = n2
  Names <- MCNames
  Accounts <- MCUsers
  MaxOrder = 1
  NoUser = NoUser
  NoName = NoName
  Ignore = ignore
  NoBody = NoBody
  NoUpdate = NoUpdate
  Slugs <- MCSlugs
  RuleIds <- MCRuleIds
  Bodies <- MCBodies
  Users <- MCUsers
  Admins <- MCAdmins
  MaxItems = 2
SPECIFICATION RegistrySpec
VIEW Stored
SYMMETRY Symmetry
INVARIANTS
  IndexMatchesItems
  NoOrphanMembers
  OneOwnerPerName
PROPERTIES
  NamesMoveForward
  DeletionIsWhole
