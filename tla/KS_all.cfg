SPECIFICATION Spec
CONSTANTS
  a = a
  b = b
  c = c
  NoEntry = NoEntry
  Torn = Torn
  Ids = {a, b}
  Types <- MCTypes
  Sources <- MCSources
  Tags = {"M2", "M3"}
  Files = {a, b}
  FileOf <- OwnFile
  MaxConfidence = 10
  ExtremeGap = 6
  Units <- AllUnits
  Batches <- AllBatches
  SeedDirs <- AllSeedDirs
  Snapshots <- AllSnapshots
  Thresholds = {3}
  DecayPercents = {150}
  IOFaults = TRUE
  Crashes = TRUE
  MaxRevision = 1
  MaxCopies = 2
INVARIANTS
    QueriesMissNothing
PROPERTIES
    SeedsStaySeeds
