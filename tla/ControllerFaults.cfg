\* Lookups that fail, definitions that come and go, broken watches.
SPECIFICATION Spec
CONSTANTS
  p1 = p1
  p2 = p2
  n1 = n1
  n2 = n2
  sriov = sriov
  bridge = bridge
  Pods = {p1}
  NoPod = NoPod
  Types = {sriov, bridge}
  TrackedTypes = {sriov}
  AnyLabel = AnyLabel
  Nads = {n1, n2}
  NoNad = NoNad
  NadConfigs = {{sriov}, {sriov, bridge}}
  Annotations = {NoAnnotation, Malformed, {n1}, {n1, n2}}
  NoAnnotation = NoAnnotation
  Malformed = Malformed
  Absent = Absent
  Disturbances = {"Relist", "LookupErrors", "NadChanges"}
  MaxChanges = 3
  Worker = Worker
  MaxRetries = 1
  ChanCapacity = 4
SYMMETRY Interchangeable
INVARIANTS
  NoLeak
  RecordedTypesAreNamed
CHECK_DEADLOCK FALSE
