SPECIFICATION ExactSpec
CONSTANTS
  WorkFields <- MCWork
  ByteFields <- MCBytes
  TokenFields <- MCTokens
  HardLimit <- MCHard
  TokenLimit <- MCToken
  CleanupLimit <- MCCleanup
  Deadline = 1
  MaxInt = 7
  Amounts <- MCAmounts
  Cleanups <- MCCleanups
  MaxReservations = 3
  MaxTime = 1
INVARIANTS
  WithinLimitPlusOvershoot
  OverspendLatches
  LatchHasCause
  ReservedIsOpenPlans
PROPERTY ExhaustedOnlyDrains
