SPECIFICATION DeliverySpec
CONSTANTS
  w1 = w1
  w2 = w2
  c1 = c1
  m1 = m1
  a1 = a1
  a2 = a2
  None = None
  Workers <- MCWorkers
  Callbacks <- MCCallbacks
  Steps <- MCSteps
  Answers <- MCOneAnswer
  Scenarios <- MCImage
  MaxFaults = 0
  MaxAttempts = 2
  Tokens <- MCTokens
  MessageIds <- MCMessageIds
  Names <- MCNames
  Placeholder = "placeholder"
  Repeatable <- MCRepeatable
  Payloads <- MCPayloads
  Results <- MCResults
SYMMETRY Symmetry
CHECK_DEADLOCK FALSE
PROPERTIES
  ImageJobCompletes
