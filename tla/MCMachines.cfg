SPECIFICATION MachinesSpec
CHECK_DEADLOCK FALSE
CONSTRAINTS EvidenceBound ModerationBound
CONSTANTS
  Hosts = {h1, h2, h3}
  Overflow = overflow
  Limit = 2
  Window = 2
  MaxEntries = 2
  Lag = 1
  LimitTime = 3
  MaxServed = 5
  Digests = {1, 2, 3, 4}
  Subject <- MCSubject
  Limits = {1, 2}
  Walks = {w1}
  People = {ada, mod}
  Moderators = {mod}
  Responders = {q1}
  ChallengeTTL = 1
  Validity = 1
  LastDay = 1
  MaxChallenges = 2
  MaxOwnerships = 3
  MaxEvents = 4
  PurgeTargets = {t1, t2, t3}
  Deadline = 2
  LastHour = 3
  Recorders = {r1, r2}
  Payloads = {p}
  MaxRelationDepth = 1
  MaxSequence = 2
  MaxSealed = 3
  MaxCrashes = 1
  ItemIDs = {"i1", "i2"}
  CallIDs = {"c1", "c2"}
  Fragments = {"f"}
  MaxArguments = 1
  MaxResults = 2
  Letters = {"f"}
  MaxWire = 6
  MaxSSEBuffer = 4
  MaxSSEFields = 2
  Scenarios <- MCScenarios
  MaxPersistedEvents = 7
  Invocations = {"i1", "i2"}
  Attempts = {"a1", "a2"}
  MaxObservation = 1
  MaxControlFrame = 3
  ReadBuffer = 2
  MaxLine = 7
  MinimizerInputs <- MCMinimizerInputs
  MinimizerOptions <- MCMinimizerOptions
  CandidateLists <- MCCandidateLists
  Capabilities = {"a", "b"}
  MaxObservations = 3
  PlanRequests <- MCPlanRequests
  OtherModel = "m2"
  OtherRef <- MCOtherRef
  NotTokens = {"bad name"}
  MaxEdits = 2
  Commands = {k1, k2}
  BaselineNames = {"main"}
  RunBundles <- MCRunBundles
  OldBaselines <- MCOldBaselines
  NewTargets = {"t"}
  DefaultTarget = "local"
  NoFile = NoFile
  Torn = Torn
  MaxPowerCuts = 1
INVARIANTS
  RefusalIsEarned
  WalkIsComplete
  EndedStaysEnded
  PurgeCompletionExact
  VisibleEvidenceResolves
  AckedEvidenceComplete
  CompletedIsClosed
  RechunkingAgrees
  MutantsAreKilled
  LostEndNeverPasses
  
  TranscriptExact
  ResultIsMinimal
  
  FilesAreWhole
  GateHolds
PROPERTIES
  DecisionsAreFinal
