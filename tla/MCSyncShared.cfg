CONSTANTS
  Mailboxes = {mb1}
  Workers = {w1, w2}
  m1 = m1
  m2 = m2
  Messages = {m1}
  Prior <- NoMail
  Connected = {mb1}
  MaxAttempts = 2
  MaxJobs = 2
  MaxHistory = 2
  MaxCrashes = 1
  MaxOverruns = 1
  NoMailbox = NoMailbox
SPECIFICATION Spec
INVARIANTS DoneMeansSynced AcknowledgedIsCovered OnePendingPerMailbox AttemptsAreBounded
PROPERTY CursorMonotone
SYMMETRY AnyWorker
CONSTRAINT OneFault
CHECK_DEADLOCK FALSE
