\* A login and two calls on its token, or three on a foreign one. No symmetry:
\* it is unsound for liveness.
CONSTANTS
  Call = {c1, c2, c3}
  Token = {t1, t2, t3, Foreign}
  Foreign = Foreign
  NoToken = NoToken
  NoCall = NoCall
SPECIFICATION FairSqlSpec
INVARIANTS
  SqlTypeOK
  SequentialUseIsSingle
  ExchangeIsAtomic
  AnswerIsTrue
PROPERTIES
  RowsOnlyAdvance
  ImplementsTable
  LockIsReleased
\* Every call runs once.
CHECK_DEADLOCK FALSE
