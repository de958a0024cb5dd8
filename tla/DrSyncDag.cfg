SPECIFICATION Spec
CONSTANTS
    Folders = {f1, f2}
    UseSecurity = TRUE
    MaxRuns = 2
    MaxFailures = 1
INVARIANTS
    TypeOK
    HiveStoppedWhileReplaced
    HiveStartsOnThisCopy
    NothingLeftDownSilently
    AirflowCopyAllOrNothing
    FoldersIndependent
PROPERTIES
    RunEnds
CHECK_DEADLOCK FALSE
