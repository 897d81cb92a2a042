SPECIFICATION DeliveredSpec
CONSTANTS
  a1 = a1
  a2 = a2
  ap = ap
  m1 = m1
  m2 = m2
  p1 = p1
  f1 = f1
  x1 = x1
  x2 = x2
  c1 = c1
  c2 = c2
  h1 = h1
  t1 = t1
  t2 = t2
  None = None
  Accounts = {a1, a2, ap}
  Merchants = {m1, m2}
  Providers = {p1}
  Owner <- MCOwner
  Keys = {1, 2}
  OfferIds = {f1}
  Terms <- MCTerms
  Capacities = {100}
  Reports <- NoReports
  Channels = {c1, c2}
  Outpoints = {x1, x2}
  ChannelOf <- MCChannelOf
  Balances = {"opened"}
  Enough <- MCEnough
  Invoices = {h1}
  FeeTxs = {t1, t2}
  Pays <- MCPays
  QuoteTTL = 1
  OnlineWindow = 1
  OfferTTL = 1
  OverdueAfter = 1
  PayloadWindow = 1
  ObservedFor = 1
  LastCreate = 2
  MaxClock = 4
  MaxBlock = 2
  MaxReports = 0
  MaxProbes = 0
  MaxBusy = 2
INVARIANTS FeesExclusive OneOutstanding
PROPERTIES FeesComeDue UnopenedEnds
CHECK_DEADLOCK FALSE
