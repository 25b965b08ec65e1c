SPECIFICATION StoreSpec
CONSTANTS
  Runs = {r1, r2}
  Contents = {c1, c2}
  Writers = {w1, w2}
  Readers = {g1}
  NoRecord = NoRecord
  Damaged = Damaged
  NoPointer = NoPointer
  MaxPuts = 3
INVARIANTS
  LatestNeverDangles
  AckedIsDurable
  OneWinnerPerRun
  RecordsReadBack
PROPERTY ImplementsPromise
