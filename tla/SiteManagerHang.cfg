CONSTANTS
    Deployments = {"scheduler"}
    StatefulSets = {"worker"}
    Scheduler = "scheduler"
    Worker = "worker"
    WorkerPods = {"p1"}
    MaxPods = 1
    MaxRequests = 1
    Modes = {"standby"}
    ReplicaMap <- MCReplicaMap
    MaxFailures = 1
SPECIFICATION FairSpec
CHECK_DEADLOCK FALSE
PROPERTY
    EveryRequestAnswered
