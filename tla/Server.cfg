CONSTANTS
  Publishers = {p1, p2}
  Clients = {c1}
  Names = {p}
  Versions = {v1, Empty}
  Environments = {prod}
  Digests = {d1, d2, bad}
  Invalid = {bad}
  Empty = Empty
  Nothing = Nothing
  MaxFailures = 1
  MaxCrashes = 1
SYMMETRY Symmetry
SPECIFICATION Spec
INVARIANTS AnswersAudited RunsAreFresh StoreAgrees AuditsAreOfRuns RunsAsAsked
CHECK_DEADLOCK FALSE
