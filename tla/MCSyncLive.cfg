CONSTANTS
  Mailboxes = {mb1}
  Workers = {w1}
  m1 = m1
  m2 = m2
  Messages = {m1}
  Prior <- NoMail
  Connected = {mb1}
  MaxAttempts = 2
  MaxJobs = 2
  MaxHistory = 2
  MaxCrashes = 1
  MaxOverruns = 1
  NoMailbox = NoMailbox
SPECIFICATION FairSpec
PROPERTY AcknowledgedIsSynced EveryJobResolves
CHECK_DEADLOCK FALSE
