SPECIFICATION Spec
CONSTANTS
  Users = {u1, u2}
  Ids = {i1, i2, i3}
  Requests = {r1, r2}
  LoginLife = 1
  ResendLife = 1
  TokenLife = 2
  MaxTime = 2
  None = None
SYMMETRY MCSymmetry
INVARIANTS TypeOK RedeemedOnce SessionEarned NothingOfGoneUsers
PROPERTIES CodesSpec
\* Once the bounded clock and user ids are used up nothing is left to do.
CHECK_DEADLOCK FALSE
