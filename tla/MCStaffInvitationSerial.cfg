SPECIFICATION Spec
CONSTANTS
  Codes = {c1, c2}
  Emails = {e1}
  Companies = {k1, k2}
  Departments = {d1}
  Phones = {p1}
  Outsider = Outsider
  Requests = {r1}
  Lifetime = 1
  MaxTime = 2
  MaxBatch = 2
  None = None
SYMMETRY MCSymmetry
INVARIANTS RetrySafe
PROPERTIES FollowsLifecycle
