\* Two pods, every interleaving of handlers, retries and the worker; the cluster
\* changes pods and may let them linger in their grace period.
SPECIFICATION Spec
CONSTANTS
  p1 = p1
  p2 = p2
  n1 = n1
  n2 = n2
  sriov = sriov
  bridge = bridge
  Pods = {p1, p2}
  NoPod = NoPod
  Types = {sriov, bridge}
  TrackedTypes = {sriov}
  AnyLabel = AnyLabel
  Nads = {n1}
  NoNad = NoNad
  NadConfigs = {{sriov}, {sriov, bridge}}
  Annotations = {NoAnnotation, Malformed, {n1}}
  NoAnnotation = NoAnnotation
  Malformed = Malformed
  Absent = Absent
  Disturbances = {"GracePeriod"}
  MaxChanges = 2
  Worker = Worker
  MaxRetries = 1
  ChanCapacity = 4
SYMMETRY Interchangeable
INVARIANTS
  GaugesCountPods
  UpMeansSome
  TypeOK
  SettledPodsAreRight
  GaugesCountCluster
CHECK_DEADLOCK FALSE
