SPECIFICATION MCSpec
CONSTANTS
  a1 = a1
  a2 = a2
  ap = ap
  m1 = m1
  m2 = m2
  p1 = p1
  f1 = f1
  x1 = x1
  x2 = x2
  c1 = c1
  c2 = c2
  h1 = h1
  t1 = t1
  t2 = t2
  None = None
  Accounts = {a1, ap}
  Merchants = {m1}
  Providers = {p1}
  Owner <- MCOwnerOne
  Keys = {1}
  OfferIds = {f1}
  Terms <- MCTerms
  Capacities = {100}
  Reports <- NoReports
  Channels = {c1}
  Outpoints = {x1}
  ChannelOf <- MCChannelOne
  Balances = {"opened"}
  Enough <- MCEnough
  Invoices = {h1}
  FeeTxs = {t1}
  Pays <- MCPays
  QuoteTTL = 1
  OnlineWindow = 1
  OfferTTL = 1
  OverdueAfter = 0
  PayloadWindow = 0
  ObservedFor = 0
  LastCreate = 2
  MaxClock = 3
  MaxBlock = 1
  MaxReports = 1
  MaxProbes = 1
  MaxBusy = 2
PROPERTIES KeepsPromise
CHECK_DEADLOCK FALSE
