\* Every configuration of up to two plugins.
SPECIFICATION WebhookSpec
CONSTANTS
  l1 = l1
  l2 = l2
  Labels = {l1, l2}
  Blank = Blank
  Bad = Bad
  LocalMark = LocalMark
  Types = {"sriov", "bridge"}
  Annotations <- MCAnnotations
  Configs <- MCConfigs
  Uid = Uid
  NoUid = NoUid
INVARIANTS
  AllowedIsCounted
CHECK_DEADLOCK FALSE
