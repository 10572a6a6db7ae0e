\* Enough for a lost reply and its repeat.
CONSTANTS
  Request = {r1, r2, r3}
  Addr = {a1, a2}
  All = All
  AllLimit = 2
  IPLimit = 2
  MaxRetries = 1
SPECIFICATION Spec
SYMMETRY Symmetry
INVARIANTS
  EveryCounterExpires
\* Every request is made once.
CHECK_DEADLOCK FALSE
