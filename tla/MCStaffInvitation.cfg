SPECIFICATION Spec
CONSTANTS
  Codes = {c1, c2}
  Emails = {e1}
  Companies = {k1}
  Departments = {d1}
  Phones = {}
  Outsider = Outsider
  Requests = {r1, r2}
  Lifetime = 1
  MaxTime = 2
  MaxBatch = 1
  None = None
SYMMETRY MCSymmetry
INVARIANTS TypeOK AcceptedHasStaff
PROPERTIES LedgerSpec
