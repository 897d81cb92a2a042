SPECIFICATION MCSpec
CONSTANTS
  a1 = a1
  a2 = a2
  ap = ap
  m1 = m1
  m2 = m2
  p1 = p1
  k1 = k1
  f1 = f1
  f2 = f2
  None = None
  Accounts = {a1, a2, ap}
  Merchants = {m1, m2}
  Providers = {p1}
  Owner <- MCOwner
  Keys = {k1}
  OfferIds = {f1, f2}
  Terms <- MCTerms
  Capacities = {100}
  Reports <- MCReports
  Channels = {}
  Outpoints = {}
  QuoteTTL = 1
  OnlineWindow = 1
  OfferTTL = 1
  OverdueAfter = 1
  PayloadWindow = 0
  LastCreate = 3
  MaxClock = 4
  MaxUsed = 3
SYMMETRY OfferSymmetry
INVARIANTS TypeOK OneOfferPerNode
PROPERTIES ReservationsFunded TermsStand DeadlineHolds
CHECK_DEADLOCK FALSE
