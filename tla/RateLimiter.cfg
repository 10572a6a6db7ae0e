\* Three requests of one connection; connections share only the counter of
\* the path, and the counter of this one meets every order of commands.
CONSTANTS
  Request = {r1, r2, r3}
  Addr = {a1}
  All = All
  AllLimit = 2
  IPLimit = 2
  MaxRetries = 1
SPECIFICATION Spec
SYMMETRY Symmetry
INVARIANTS
  TypeOK
  WithinLimit
  CountsEachOnce
  NoExpiryNeedsFault
\* Every request is made once.
CHECK_DEADLOCK FALSE
