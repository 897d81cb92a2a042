SPECIFICATION ChainSpec
CONSTANTS
  p1 = p1
  p2 = p2
  w1 = w1
  w2 = w2
  c1 = c1
  r1 = r1
  r2 = r2
  None = None
  Positions = {p1, p2}
  Requests = {r1, r2}
  Claims = {c1}
  Withdrawals = {w1, w2}
  LpLock <- MCLpLock
  MerchantLock <- MCMerchantLock
  ReceiptOf <- MCReceiptOf
  WithdrawnFrom <- MCWithdrawnFrom
  Operator = "operator"
  Amounts = {1, 2}
  Fees = {1}
  VaultBase = 1
  CellBond = 1
  ReservePay = 1
  MaxTxFee = 5
INVARIANTS VaultBacked CellsAgree FundingFits ServiceAccepted
PROPERTIES KeepsPolicy
CHECK_DEADLOCK FALSE
