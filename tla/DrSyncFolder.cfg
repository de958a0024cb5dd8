\* Any task may fail or be killed between two HDFS calls; a distcp that outlives
\* its task is gone before the next run.
SPECIFICATION Spec
CONSTANTS
    MaxVersion = 3
    MaxNumber = 4
    MaxRuns = 4
    KillFirst = TRUE
INVARIANTS
    TypeOK
    MatchingSnapshotsAgree
    AlwaysABase
    SuccessIsFresh
PROPERTY IsReplica
