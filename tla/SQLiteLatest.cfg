CONSTANTS
  Handles = {h1, h2}
  AuditCalls = {}
  PackageCalls = {s1, s2, s3}
  Names = {p}
  Versions = {v1, v2}
  Environments = {prod, test}
  Digests = {d1}
  Nothing = Nothing
  Clock <- TwoSeconds
  MaxSaving = 2
  MaxCrashes = 1
SPECIFICATION Spec
INVARIANT LatestFollowsSaves
PROPERTY ImplementsLateStore
SYMMETRY Symmetry
CHECK_DEADLOCK FALSE
