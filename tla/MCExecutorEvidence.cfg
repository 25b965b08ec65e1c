SPECIFICATION ExecSpec
CONSTANTS
  WorkFields <- MCWork
  ByteFields <- MCBytes
  TokenFields <- MCTokens
  HardLimit <- MCHard
  TokenLimit <- MCToken
  CleanupLimit <- MCCleanup
  Deadline = 1
  MaxInt = 100
  Amounts <- MCAmounts
  Cleanups <- MCCleanups
  MaxReservations = 4
  MaxTime = 1
  N = 2
  Retries = 1
  Leases = 2
  Plans <- MCPlans
  Estimates <- MCEstimates
  Evidence <- MCEvidence
  Replies <- MCReplies
INVARIANT CaseKeepsAttemptEvidence
