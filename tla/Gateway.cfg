SPECIFICATION Spec
\* All requests may be answered.
CHECK_DEADLOCK FALSE
CONSTANTS
  k1 = k1  address = address  user = user
  Requests = {r1, r2, r3}
  Calls <- MCCalls
  Buckets = {address, user}
  Capacity = 4
  Rate = 4
  Cost = 2
  InitialCafes <- MCCafes
  Processes = {p1, p2}
  Keys = {k1}
  Nil = Nil
  MaxNow = 2
INVARIANTS
  GrantsAreEarned
  SameTimeNeedsOverlap
  PricesFollowTheBand
  CloseCallsNeedOverlap
  OneAccountPerEmail
  RevokedKeyServesNothing
  StaleListNeedsOverlap
SYMMETRY Interchangeable
CONSTRAINT Related
