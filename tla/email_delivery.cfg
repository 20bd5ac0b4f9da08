SPECIFICATION Spec
CONSTANTS
  older = older
  welcome = welcome
  verify = verify
  Mails = {older, welcome, verify}
  Created <- MCCreated
  MaxAttempts = 2
  Take = 2
  MaxFaults = 2
INVARIANTS
  TypeOK
  RepeatsAreExplained
  CapHolds
  BatchIsFresh
PROPERTIES
  ImplementsOutbox
  EverySettled
