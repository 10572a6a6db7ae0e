\* A login, and two requests that race on its cookie.
CONSTANTS
  Call = {c1, c2, c3}
  Token = {t1, t2, t3}
  Junk = Junk
  NoCall = NoCall
  NoToken = NoToken
  MaxRetries = 0
  MaxLate = 0
  Request = {r1, r2, r3}
  MaxAttempts = 2
SPECIFICATION GatewaySpec
INVARIANTS
  LogoutEndsSession
\* Every request is made once.
CHECK_DEADLOCK FALSE
