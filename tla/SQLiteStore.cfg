CONSTANTS
  Handles = {h1, h2}
  AuditCalls = {a1, a2}
  PackageCalls = {s1}
  Names = {p}
  Versions = {v1}
  Environments = {prod}
  Digests = {d1}
  Nothing = Nothing
  Clock <- TwoSeconds
  MaxSaving = 1
  MaxCrashes = 1
SPECIFICATION FairSpec
INVARIANTS ChainVerifies AnswersAreTrue ChainFollowsRealTime
PROPERTIES OnlyOthersRefuse CallsEnd
CHECK_DEADLOCK FALSE
