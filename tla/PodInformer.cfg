\* Two pods that come and go while the watch breaks; no symmetry, for liveness.
SPECIFICATION FairSpec
CONSTANTS
  p1 = p1
  p2 = p2
  NoAnnotation = NoAnnotation
  Absent = Absent
  a1 = a1
  Pods = {p1, p2}
  Annotations = {NoAnnotation, a1}
  Disturbances = {"GracePeriod", "Relist", "Resync", "AnnotateDeleting"}
  MaxChanges = 3
INVARIANTS
  TypeOK
  DeltasLeadToCluster
  NotificationsChain
PROPERTIES
  CatchesUp
CHECK_DEADLOCK FALSE
