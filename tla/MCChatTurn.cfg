CONSTANTS
  budget = budget
  offsite = offsite
  Tabs = {t1}
  Threads = {budget, offsite}
  Handlers = {h1, h2}
  MaxTurns = 3
  MaxAttempts = 2
  MaxQuestions = 2
  MaxSessions = 2
  MaxRestarts = 1
SPECIFICATION FairSpec
INVARIANTS ChatTypeOK HistoryIsOnce
PROPERTIES TurnsAreWhole RequestsEnd
CHECK_DEADLOCK FALSE
