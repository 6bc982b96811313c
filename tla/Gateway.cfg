\* Three requests to two workers with one pool process each, one admitted in three
\* seconds, one fault.
CONSTANTS
  Requests = {"l1", "u1", "u2"}
  Processes = {"p1", "p2"}
  ProcessOf <- Placement
  Uploads = {"u1", "u2"}
  Limit = 1
  Window = 3
  PoolSize = 1
  MaxDelay = 1
  MaxTime = 3
  MaxFaults = 1
SPECIFICATION FairSpec
INVARIANTS TypeOK LimitHolds RejectedLeaveNoTrace
PROPERTY EveryoneAnswered
CHECK_DEADLOCK FALSE
