\* Five overlapping lookups, one admitted in two seconds: rejections that remove
\* each other's entries.
CONSTANTS
  Requests = {"l1", "l2", "l3", "l4", "l5"}
  Processes = {"p1"}
  ProcessOf <- OnePlace
  Uploads = {}
  Limit = 1
  Window = 2
  PoolSize = 1
  MaxDelay = 1
  MaxTime = 2
  MaxFaults = 0
SPECIFICATION Spec
INVARIANT LimitPerWindow
CHECK_DEADLOCK FALSE
