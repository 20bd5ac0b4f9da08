SPECIFICATION Spec
CONSTANTS
  h1 = h1
  h2 = h2
  Handlers = {h1, h2}
  Mixes <- FailedLogins
  Devices = {1}
  VerificationRequired = TRUE
  LoginMaxAttempts = 1
  CodeTries = 1
  CodeResends = 1
  MaxIds = 1
  MaxDraws = 3
  MaxLogins = 1
  MaxFails = 4
SYMMETRY Swaps
INVARIANT
  LocksAtMaxAttempts
CHECK_DEADLOCK FALSE
