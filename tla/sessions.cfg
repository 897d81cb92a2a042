SPECIFICATION Spec
CONSTANTS
  native = native
  joyid = joyid
  k1 = k1
  k2 = k2
  n1 = n1
  x1 = x1
  x2 = x2
  None = None
  Wallets = {native, joyid}
  Native <- MCNative
  WalletKeys = {k1, k2}
  NodeKeys = {n1}
  Roles <- MCRoles
  Slots = {x1, x2}
  ChallengeLife = 1
  AccountLife = 2
  PairingLife = 1
  NodeLife = 2
  MaxPending = 1
  MaxChallenges = 2
  MaxCodes = 2
  MaxClock = 2
SYMMETRY Symmetry
INVARIANTS OneSessionPerChallenge NodeSessions
PROPERTIES SessionFromProof
CHECK_DEADLOCK FALSE
