SPECIFICATION StartupSpec
CONSTANTS
  Images = {"prod"}
  RoleNames = {n1, n2}
  WaitRounds = 2
  MaxFaults = 1
INVARIANTS StartsAfterSeed
CHECK_DEADLOCK FALSE
