SPECIFICATION ProductSpec
CONSTANTS
  WorkFields <- MCWork
  ByteFields <- MCBytes
  TokenFields <- MCTokens
  HardLimit <- MCHard
  TokenLimit <- MCToken
  CleanupLimit <- MCCleanup
  Deadline = 1
  MaxInt = 100
  Amounts <- MCAmounts
  Cleanups <- MCCleanups
  MaxReservations = 2
  MaxTime = 1
  N = 2
  Retries = 0
  Leases = 0
  Plans <- MCPlans
  Estimates <- MCEstimates
  Evidence <- MCEvidence
  Replies <- MCReplies
INVARIANTS
  ConclusiveExitIsComplete
  CancellationExit
  OnlyMissingAttemptRejects
PROPERTY RunSettles
