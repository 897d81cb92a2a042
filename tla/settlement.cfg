SPECIFICATION Spec
CONSTANTS
  None = None
  Txs <- MCTxs
  Inputs <- MCInputs
  Outputs <- MCOutputs
  Root = "open"
  MaxTransactions = 2
  MaxPoints = 3
  PageSize = 3
  MaxPages = 2
  CacheLife = 1
  MaxClock = 1
INVARIANTS ConfirmedIsRecovered HonestClaimAccepted
PROPERTIES ScanNeverGuesses
CHECK_DEADLOCK FALSE
