CONSTANTS
  Watcher = watcher
  Callers = {}
  Names = {p}
  Versions = {v1, v2}
  Environments = {prod}
  Digests = {d1, bad}
  Invalid = {bad}
  Empty = Empty
  Nothing = Nothing
  Missing = Missing
  Capacity = 1
  EditsDuringReload = FALSE
  Spans = 1
  MaxWrites = 3
  MaxReloads = 1
SPECIFICATION FairSpec
PROPERTIES ServesTheFile WatchStops
CHECK_DEADLOCK FALSE
