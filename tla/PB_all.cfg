SPECIFICATION Spec
CONSTANTS
  MaxCalls = 2
  NoFile = NoFile
  Torn = Torn
INVARIANTS NoChildSurvives CrashIsFailure SuccessIsOwn
PROPERTIES CallsReturn
CHECK_DEADLOCK FALSE
