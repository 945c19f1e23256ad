SPECIFICATION Spec
CONSTANTS
    Units <- MCUnits
    Chains <- MCChains
    Infos <- MCInfos
    MaxOps = 3
CHECK_DEADLOCK FALSE
INVARIANTS
    GateAgrees
    AcceptanceIsMonotone
    ProgramsAddUp
