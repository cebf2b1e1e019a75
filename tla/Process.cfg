\* Pairs rotated file by file, files missing for a while, but not while the
\* process starts; failures, kills and signals at any moment.
SPECIFICATION FairProcess
CONSTANTS
  MaxRotations = 2
  Nothing = Nothing
  Disturbances = {"OneByOne", "Remove", "Interruptions"}
  MaxInterruptions = 1
INVARIANTS
  ProcessTypeOK
  ServedPairMatches
  RotationIsNoticed
PROPERTIES
  InstalledPairIsServed
  ImplementsCertReload
  ComesUp
  StopBeforeWorkEnds
  StopSettles
  WorkerStaysAtWork
