SPECIFICATION Spec
CONSTANTS
  h1 = h1
  h2 = h2
  Handlers = {h1, h2}
  Mixes <- MCMixes
  Devices = {1}
  VerificationRequired = TRUE
  LoginMaxAttempts = 2
  CodeTries = 1
  CodeResends = 1
  MaxIds = 1
  MaxDraws = 3
  MaxLogins = 1
  MaxFails = 4
SYMMETRY Swaps
INVARIANTS
  TypeOK
  LinksAreMailed
  SpentOnce
  OnboardingIsPossible
  GatesHold
  LockHolds
  CodeIsBounded
  CurrentCodeIsSent
CHECK_DEADLOCK FALSE
