SPECIFICATION MCSpec
CONSTANTS
  n1 = n1
  n2 = n2
  n3 = n3
  f16 = f16
  f32 = f32
  bool = bool
  empty = empty
  full = full
  long = long
  Names <- MCNames
  Kinds <- MCKinds
  Encodable <- MCEncodable
  Contents <- MCContents
  Size <- MCSize
  NoWeight = NoWeight
  MaxNameHits = 2
  Models <- MCModels
  NoModel = NoModel
  NoFile = NoFile
  Torn = Torn
  COMPILATION_LIMIT = 3
  Faults = TRUE
INVARIANTS
    OneEmission
    NamesResolve
    LayoutIsSound
    SizesAddUp
PROPERTIES
    ImplementsPackage
