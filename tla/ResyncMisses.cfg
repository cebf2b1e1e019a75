\* A lookup fails once; resyncs go on for ever.
SPECIFICATION FairSpec
CONSTANTS
  p1 = p1
  p2 = p2
  n1 = n1
  n2 = n2
  sriov = sriov
  bridge = bridge
  Pods = {p1}
  NoPod = NoPod
  Types = {sriov, bridge}
  TrackedTypes = {sriov}
  AnyLabel = AnyLabel
  Nads = {n1}
  NoNad = NoNad
  NadConfigs = {{sriov}, {sriov, bridge}}
  Annotations = {NoAnnotation, Malformed, {n1}}
  NoAnnotation = NoAnnotation
  Malformed = Malformed
  Absent = Absent
  Disturbances = {"Resync", "LookupErrors"}
  MaxChanges = 0
  Worker = Worker
  MaxRetries = 1
  ChanCapacity = 4
PROPERTIES
  ResyncCatchesMissedUpdates
CHECK_DEADLOCK FALSE
