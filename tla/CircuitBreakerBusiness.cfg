\* The breaker opens at the second failure in a row.
CONSTANTS
  Request = {r1, r2, r3}
  MaxRequests = 2
  MaxFailures = 1
SPECIFICATION Spec
SYMMETRY Symmetry
INVARIANTS
  UnavailableMeansDown
