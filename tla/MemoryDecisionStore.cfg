CONSTANTS
  Names = {p}
  Versions = {v1, v2}
  Environments = {dev, prod}
  Digests = {d1, d2}
  Records = {r1, r2}
  Simulations = {sim}
  Timestamps = {t1}
  Nothing = Nothing
  MaxAudits = 3
  MaxSims = 1
SPECIFICATION Spec
INVARIANTS ChainVerifies AuditIndexCoherent LatestAgrees
PROPERTY ImplementsDecisionStore
