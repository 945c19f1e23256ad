SPECIFICATION Spec
CONSTANTS
    Defaults <- MCDefaults
    Starts <- MCStarts
    FileNames = {"one", "two"}
    Subdirs = {"x", "y"}
    Commits = {"a", "b"}
    QuadraticLimit = 4
INVARIANTS
    LayersKeepTheirMeaning
    GatedOpsAreDecomposed
    FunctionsFit
    OneRevision
    NotFoundIsNotThere
CHECK_DEADLOCK FALSE
