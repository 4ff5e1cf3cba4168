CONSTANTS
  m1 = m1
  a1 = a1
  NoMessage = NoMessage
  NoAttachment = NoAttachment
  Messages = {m1}
  Attachments = {a1}
  MessageOf <- OneEach
  HasText = {m1}
  Unreadable = {2}
  Ingesters = {i1, i2}
  Storers = {i1}
  Workers = {w1, w2}
  MaxVersion = 2
  MaxRow = 2
  MaxAttempts = 2
  MaxJobs = 1
  MaxCrashes = 1
  MaxOverruns = 1
  MaxFaults = 1
SPECIFICATION FairSpec
INVARIANTS AttachmentTypeOK PagesHaveParent PartsAreQueued DoneWasWritten PagesAreQueued
CHECK_DEADLOCK FALSE
PROPERTY ExtractionSettles
