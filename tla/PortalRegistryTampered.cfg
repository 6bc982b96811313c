\* A genuine certificate is looked up by its ID.
CONSTANTS
  Requests = {r1, r2}
  Certs = {c1}
  k1 = k1
  k2 = k2
  Keys = {k1, k2}
  KeyOf <- FirstKey
  Clients = {a1}
  RapidThreshold = 2
  TamperThreshold = 1
  MaxEvents = 4
  MaxRotateEvents = 1
SPECIFICATION Spec
INVARIANT TamperedMeansAltered
