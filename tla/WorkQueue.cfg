SPECIFICATION FairSpec
CONSTANTS
  Items = {i1, i2}
  Workers = {w1, w2}
  NoItem = NoItem
  MaxFailures = 1
INVARIANTS
  ItemExclusive
  NoLostEvent
  FailedIsRetried
  BackoffForErrors
  DrainedOnQuit
PROPERTIES
  ImplementsContract
  WorkServed
  StopsWhenCancelled
