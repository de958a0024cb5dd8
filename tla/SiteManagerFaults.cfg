CONSTANTS
    Deployments = {"scheduler", "api-server"}
    StatefulSets = {"worker"}
    Scheduler = "scheduler"
    Worker = "worker"
    WorkerPods = {"p1", "p2"}
    MaxPods = 1
    MaxRequests = 1
    Modes = {"active", "standby", "other"}
    ReplicaMap <- MCReplicaMap
    MaxFailures = 2
SPECIFICATION Spec
CHECK_DEADLOCK FALSE
INVARIANTS
    TypeOK
    NoSendOnClosedChannel
    HonestDone
    WorkersDeletedLast
    LeftBehindOnlyAfterFailure
