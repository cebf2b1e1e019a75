\* The annotation is removed from a pod in its grace period.
SPECIFICATION Spec
CONSTANTS
  p1 = p1
  p2 = p2
  n1 = n1
  n2 = n2
  sriov = sriov
  bridge = bridge
  Pods = {p1}
  NoPod = NoPod
  Types = {sriov, bridge}
  TrackedTypes = {sriov}
  AnyLabel = AnyLabel
  Nads = {n1}
  NoNad = NoNad
  NadConfigs = {{sriov}, {sriov, bridge}}
  Annotations = {NoAnnotation, Malformed, {n1}}
  NoAnnotation = NoAnnotation
  Malformed = Malformed
  Absent = Absent
  Disturbances = {"GracePeriod", "AnnotateDeleting"}
  MaxChanges = 3
  Worker = Worker
  MaxRetries = 1
  ChanCapacity = 4
INVARIANTS
  NoLeak
CHECK_DEADLOCK FALSE
