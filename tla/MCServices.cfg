SPECIFICATION Spec
CONSTANTS
  Calls = {a, b, c}
  Threshold = 3
  Timeout = 2
  RetryTimeout = 3
  MaxFailures = 4
  Codes = {k1, k2}
  Attempts = 3
  MaxStalls = 1
  MaxCrashes = 2
  Images = {"dev", "prod"}
  RoleNames = {n1, n2, n3}
  WaitRounds = 2
  MaxFaults = 3
  Branches = {b1, b2}
  Departments = {d1, d2}
  Roles = {r1, r2}
  MaxBatch = 2
  NoId = NoId
INVARIANTS
  TypeOK
  StateMatchesCount NoCallSinceOpened
  CodeSentOrExplained MailedOnce
  ServesPrepared
  RefusedWhenAligned
PROPERTIES
  DeliveryEnds BootCompletes
CHECK_DEADLOCK FALSE
