\* One certificate, two overlapping retry threads, rows at the retry limit, crashes
\* of the application; retries end when the failures end.
CONSTANTS
  Certs = {c1}
  Submitter = main
  Retriers = {r1, r2}
  Slots = {1, 2}
  SuccessStatus = 200
  MaxRetries = 1
  MaxFailures = 2
  MaxCrashes = 1
  WatchedRows = {1, 2, 3}
  NoCert = NoCert
  NoClient = NoClient
SPECIFICATION FairSpec
INVARIANTS TypeOK StoredOnce NoCertificateLost
PROPERTIES DeliversCertificates EventuallyStored RowsRetire
\* nothing is left to do when every certificate is registered
CHECK_DEADLOCK FALSE
