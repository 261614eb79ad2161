SPECIFICATION DeliverySpec
CONSTANTS
  Codes = {k1, k2}
  Attempts = 3
  MaxStalls = 1
  MaxCrashes = 1
INVARIANTS TriedThreeTimes
CHECK_DEADLOCK FALSE
