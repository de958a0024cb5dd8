\* As DrSyncFolder.cfg, but the next run may start while a distcp goes on.
SPECIFICATION Spec
CONSTANTS
    MaxVersion = 2
    MaxNumber = 2
    MaxRuns = 2
    KillFirst = FALSE
INVARIANT SuccessIsFresh
