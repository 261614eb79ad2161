SPECIFICATION BoundedFairSpec
CONSTANTS
  Users = {u1, u2}
  Emails = {e, f}
  EmailOf <- SameEmail
  Orgs = {o1, o2}
  BuJobs = {j1, j2, j3}
  Attempts = 3
  MaxStalls = 1
  Workers = 1
  MaxMoved = 1
  None = None
INVARIANTS ActiveOnceOnboarded
PROPERTIES Settles
\* Once every registration has been made and every job has run nothing is left to do.
CHECK_DEADLOCK FALSE
