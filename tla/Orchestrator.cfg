CONSTANTS
  Names = {p, q}
  Versions = {v1, Empty}
  Environments = {prod, Empty}
  Digests = {d1}
  Empty = Empty
  Nothing = Nothing
SPECIFICATION Spec
INVARIANT ResolvesAsAsked
PROPERTY EnvironmentsIsolated
