\* Two requests at a time, one certificate, two keys, of which either may be
\* rotated to the other at any time.
CONSTANTS
  Requests = {r1, r2}
  Certs = {c1}
  k1 = k1
  k2 = k2
  Keys = {k1, k2}
  KeyOf <- FirstKey
  Clients = {a1}
  RapidThreshold = 2
  TamperThreshold = 1
  MaxEvents = 4
  MaxRotateEvents = 1
SPECIFICATION Spec
SYMMETRY Symmetric
INVARIANTS TypeOK LookupsSeeRecords RevocationRecorded
INVARIANTS EscapesBounded FlagsJustified
PROPERTIES RevocationStays KeyRemains
