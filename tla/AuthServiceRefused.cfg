\* A login and two refreshes that race on its token.
CONSTANTS
  Call = {1, 2, 3}
  Token = {1, 2, 3}
  Junk = Junk
  NoCall = NoCall
  NoToken = NoToken
  MaxRetries = 0
  MaxLate = 0
SPECIFICATION Spec
ACTION_CONSTRAINT InOrder
INVARIANTS
  RefusedStoresNothing
CHECK_DEADLOCK FALSE
