\* Four requests at a time: two of the trial, two from before.
CONSTANTS
  Request = {r1, r2, r3, r4}
  MaxRequests = 2
  MaxFailures = 1
SPECIFICATION FairSpec
INVARIANTS
  TypeOK
  ProbesBounded
PROPERTIES
  StaleResultsAreIgnored
  Recovers
