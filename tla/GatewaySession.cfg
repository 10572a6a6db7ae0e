\* A login and two more calls: refreshes, logouts or repeats of the first, and
\* one Redis attempt that arrives late.
CONSTANTS
  Call = {c1, c2, c3}
  Token = {t1, t2, t3}
  Junk = Junk
  NoCall = NoCall
  NoToken = NoToken
  MaxRetries = 0
  MaxLate = 1
  Request = {r1, r2, r3}
  MaxAttempts = 2
SPECIFICATION GatewaySpec
CONSTRAINT FewFaults
INVARIANTS
  GatewayTypeOK
  OneExchangePerCookie
  StaleCookieHasCause
  AnsweredLogoutRevokes
  LogoutLosesToRefreshOnly
\* Every request is made once.
CHECK_DEADLOCK FALSE
