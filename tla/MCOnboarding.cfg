SPECIFICATION Spec
CONSTANTS
  Users = {u1, u2}
  Emails = {e, f}
  EmailOf <- SameEmail
  Orgs = {o1, o2}
  BuJobs = {j1, j2}
  Attempts = 1
  MaxStalls = 1
  Workers = 2
  MaxMoved = 1
  None = None
SYMMETRY MCSymmetry
INVARIANTS TypeOK OneBusinessUser NothingOfGoneUsers NoSilentLoss
\* Once every registration has been made and every job has run nothing is left to do.
CHECK_DEADLOCK FALSE
