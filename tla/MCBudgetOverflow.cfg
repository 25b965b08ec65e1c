SPECIFICATION BudgetSpec
CONSTANTS
  WorkFields <- MCWork
  ByteFields <- MCBytes
  TokenFields <- MCTokens
  HardLimit <- MCHard
  TokenLimit <- MCToken
  CleanupLimit <- MCCleanup
  Deadline = 1
  MaxInt = 7
  Amounts <- MCWideAmounts
  Cleanups <- MCCleanups
  MaxReservations = 3
  MaxTime = 1
INVARIANT ConsumptionNonnegative
