CONSTANTS
  t1 = t1
  t2 = t2
  t3 = t3
  t4 = t4
  m1 = m1
  m2 = m2
  x1 = x1
  x2 = x2
  p1 = p1
  p2 = p2
  p2 = p2
  a1 = a1
  a2 = a2
  None = None
  Tokens <- MCTokens
  MessageIds <- MCMessageIds
  Names <- MCNames
  Placeholder <- MCPlaceholder
  Repeatable <- MCRepeatable
  Payloads <- MCPayloads
  Results <- MCResults
  Answers <- MCAnswers
  MaxAttempts = 3
SPECIFICATION Spec
SYMMETRY Symmetry
CHECK_DEADLOCK FALSE
INVARIANTS
  LeaseIsCurrent
  CheckpointHasIntent
  NoticeIsOwedByFailure
PROPERTIES
  OwnershipNeverReturns
  ImplementsLifecycle
