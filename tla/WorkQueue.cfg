\* Three workers, so that a signal can reach the wrong one; two items.  No
\* symmetry, for liveness.
SPECIFICATION FairSpec
CONSTANTS
  i1 = i1
  i2 = i2
  w1 = w1
  w2 = w2
  w3 = w3
  Items = {i1, i2}
  Workers = {w1, w2, w3}
  NoItem = NoItem
  ChanCapacity = 2
  MaxFailures = 1
INVARIANTS
  TypeOK
  QueueShape
  ExclusiveProcessing
  NoLostWakeup
PROPERTIES
  OnlyAStartClearsAMark
  ImplementsMarkedWork
  MarkedIsProcessed
  RetryIsQueued
  ShutDownReleasesWorkers
