CONSTANTS
  Watcher = watcher
  Callers = {c1}
  Names = {p}
  Versions = {v1, v2}
  Environments = {prod}
  Digests = {d1, bad}
  Invalid = {bad}
  Empty = Empty
  Nothing = Nothing
  Missing = Missing
  Capacity = 2
  EditsDuringReload = TRUE
  Spans = 1
  MaxWrites = 2
  MaxReloads = 1
SPECIFICATION Spec
INVARIANTS LastGoodRemains EventsTellReloads
CHECK_DEADLOCK FALSE
