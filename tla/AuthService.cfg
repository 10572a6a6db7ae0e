\* Three calls: a login and two calls that race on its token or follow one
\* another, with one repeat and two late attempts. Each mints at most one token.
CONSTANTS
  Call = {1, 2, 3}
  Token = {1, 2, 3}
  Junk = Junk
  NoCall = NoCall
  NoToken = NoToken
  MaxRetries = 1
  MaxLate = 2
SPECIFICATION FairSpec
ACTION_CONSTRAINT InOrder
INVARIANTS
  TypeOK
  SingleUse
  IssuedIsLive
  NotFoundMeansGone
  OneLivePerSession
  RevokeEndsSession
PROPERTIES
  NoResurrection
  ImplementsPromise
  Answered
\* Every call runs once and time stops when every token has expired.
CHECK_DEADLOCK FALSE
