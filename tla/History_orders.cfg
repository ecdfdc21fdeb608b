CONSTANTS
  u1 = u1
  u2 = u2
  Bot = Bot
  Nobody = Nobody
  Messages <- MCMessages
  When <- MCWhen
  Author <- MCAuthor
  Quotes <- MCQuotes
  Source <- MCSource
  Jobs <- MCJobs
  Users <- MCUsers
  MaxVersion = 1
  Limit = 2
  Retention = 2
  MaxClock = 6
  MaxResets = 1
  Removals = {"blank", "purge", "all"}
SPECIFICATION HistorySpec
INVARIANTS
  Converged
  BlockedStaysOut
PROPERTIES
  NeverRolledBack
