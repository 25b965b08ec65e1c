SPECIFICATION IngestFairSpec
CONSTANTS
  alice = alice
  d1 = d1
  d2 = d2
  Sessions = {s1}
  Uploads <- MCUploads
  Requests = {r1, r2}
  Principals = {alice, bob}
  Scopes <- MCScopes
  Classes = {c1}
  Backends = {"memory", "sqlite"}
  NoRow = NoRow
  TTL = 1
  TokenTTL = 2
  MaxTime = 2
  MaxFaults = 1
INVARIANTS
  CommittedHasObservation
PROPERTIES
  MemoryKeepsPromise
  UploadCompletes
