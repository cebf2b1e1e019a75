\* One pod changing while watches break and resyncs come; no symmetry, for
\* liveness.
SPECIFICATION FairSpec
CONSTANTS
  p1 = p1
  p2 = p2
  n1 = n1
  n2 = n2
  sriov = sriov
  bridge = bridge
  Pods = {p1}
  NoPod = NoPod
  Types = {sriov, bridge}
  TrackedTypes = {sriov}
  AnyLabel = AnyLabel
  Nads = {n1}
  NoNad = NoNad
  NadConfigs = {{sriov}, {sriov, bridge}}
  Annotations = {NoAnnotation, Malformed, {n1}}
  NoAnnotation = NoAnnotation
  Malformed = Malformed
  Absent = Absent
  Disturbances = {"Resync", "Relist"}
  MaxChanges = 3
  Worker = Worker
  MaxRetries = 1
  ChanCapacity = 4
INVARIANTS
  SettledPodsAreRight
PROPERTIES
  EventuallyRight
CHECK_DEADLOCK FALSE
