\* A login whose SET NX is repeated, a revocation and a refresh of its token.
CONSTANTS
  Call = {1, 2, 3}
  Token = {1, 2, 3}
  Junk = Junk
  NoCall = NoCall
  NoToken = NoToken
  MaxRetries = 1
  MaxLate = 1
SPECIFICATION FairSpec
ACTION_CONSTRAINT InOrder
PROPERTIES
  RevokedIsRefused
CHECK_DEADLOCK FALSE
