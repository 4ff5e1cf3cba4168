CONSTANTS
  Mailboxes = {mb1}
  Workers = {w1}
  m1 = m1
  m2 = m2
  Messages = {m1, m2}
  Prior <- OneMessage
  Connected = {}
  MaxAttempts = 2
  MaxJobs = 2
  MaxHistory = 3
  MaxCrashes = 1
  MaxOverruns = 0
  NoMailbox = NoMailbox
SPECIFICATION Spec
INVARIANTS TypeOK ArrivalsStored DeletionsApplied
CHECK_DEADLOCK FALSE
