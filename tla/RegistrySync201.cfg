\* The status the portal really answers with.
CONSTANTS
  Certs = {c1}
  Submitter = main
  Retriers = {r1, r2}
  Slots = {1, 2, 3}
  SuccessStatus = 201
  MaxRetries = 5
  MaxFailures = 2
  MaxCrashes = 1
  WatchedRows = {1, 2, 3}
  NoCert = NoCert
  NoClient = NoClient
SPECIFICATION Spec
INVARIANT QueuedOnFailure
\* nothing is left to do when every certificate is registered
CHECK_DEADLOCK FALSE
