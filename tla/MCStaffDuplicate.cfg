SPECIFICATION Spec
CONSTANTS
  Codes = {c1, c2}
  Emails = {e1}
  Companies = {k1}
  Departments = {}
  Phones = {}
  Outsider = Outsider
  Requests = {r1}
  Lifetime = 1
  MaxTime = 2
  MaxBatch = 1
  None = None
INVARIANTS NoDuplicatePending
