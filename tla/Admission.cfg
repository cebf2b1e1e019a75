\* Every annotation of up to two networks and every configuration of up to two
\* plugins, in every kind of request.
SPECIFICATION WebhookSpec
CONSTANTS
  l1 = l1
  l2 = l2
  Labels = {l1, l2}
  Blank = Blank
  Bad = Bad
  LocalMark = LocalMark
  Types = {"sriov", "bridge"}
  Annotations <- MCAnnotations
  Configs <- MCConfigs
  Uid = Uid
  NoUid = NoUid
INVARIANTS
  WebhookTypeOK
  FailsClosed
  AllowedIffFollowsPod
  AllowedIsTyped
  UsableIsAllowed
  UncountedAreNamedSingles
CHECK_DEADLOCK FALSE
