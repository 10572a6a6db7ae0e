\* Two registrations that race and a login, or any other three requests, for
\* one name: those for different names share no row.
CONSTANTS
  Request = {r1, r2, r3}
  Name = {n1}
  Password = {p1, p2}
  Bad = Bad
  MaxAttempts = 2
SPECIFICATION Spec
SYMMETRY Symmetry
INVARIANTS
  TypeOK
  CreatedIsStored
  ConflictHasCause
  LoginSeesRegistration
PROPERTIES
  ImplementsDirectory
\* Every request is made once.
CHECK_DEADLOCK FALSE
