CONSTANTS
  c1 = c1
  c2 = c2
  budget = budget
  NoParent = NoParent
  Silent = Silent
  Chunks = {c1, c2}
  ParentOf <- NoReply
  Keys = {budget}
  Versions <- SecondChanges
  Says <- SecondCorrects
  Ingesters = {i1}
  Workers = {w1, w2}
  MaxText = 2
  MaxRow = 2
  MaxFact = 3
  MaxAttempts = 2
  MaxJobs = 3
  MaxCrashes = 1
  MaxOverruns = 1
SPECIFICATION Spec
SYMMETRY Alike
INVARIANTS GraphTypeOK GraphMatchesHash AssertedOnce SupersessionIsSound ExtractionIsCovered
PROPERTY OnlyCuesSupersede
CHECK_DEADLOCK FALSE
