CONSTANTS
  m1 = m1
  m2 = m2
  c1 = c1
  c2 = c2
  NoMessage = NoMessage
  Messages = {m1}
  Chunks = {c1}
  MessageOf <- OneEach
  ParentOf <- Reply
  Ingesters = {i1, i2}
  Storers = {i1}
  Workers = {w1, w2}
  BatchSize = 1
  MayRevert = FALSE
  MaxText = 2
  MaxRow = 1
  MaxAttempts = 2
  MaxJobs = 2
  MaxCrashes = 1
  MaxOverruns = 1
SPECIFICATION FairSpec
INVARIANTS ContextTypeOK EmbedDescribesText RootsAreCovered
CHECK_DEADLOCK FALSE
PROPERTY RootsSettle
