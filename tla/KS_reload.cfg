SPECIFICATION Spec
CONSTANTS
  a = a
  b = b
  c = c
  NoEntry = NoEntry
  Torn = Torn
  Ids = {a, b, c}
  Types <- MCTypes
  Sources <- MCSources
  Tags = {"M2", "M3"}
  Files = {a, b, c}
  FileOf <- OwnFile
  MaxConfidence = 10
  ExtremeGap = 6
  Units <- InsertUnits
  Batches <- InsertBatches
  SeedDirs <- InsertSeedDirs
  Snapshots <- InsertSnapshots
  Thresholds <- None
  DecayPercents <- None
  IOFaults = FALSE
  Crashes = TRUE
  MaxRevision = 1
  MaxCopies = 2
INVARIANTS
    NoConflictLost
    DiskAgrees
PROPERTIES
    RevisionsNeverRegress
