CONSTANTS
    Deployments = {"scheduler"}
    StatefulSets = {"worker"}
    Scheduler = "scheduler"
    Worker = "worker"
    WorkerPods = {"p1"}
    MaxPods = 1
    MaxRequests = 2
    Modes = {"active", "standby"}
    ReplicaMap <- MCReplicaMap
    MaxFailures = 0
SPECIFICATION FairSpec
CHECK_DEADLOCK FALSE
INVARIANTS
    DoneMeansScaled
PROPERTIES
    OnlyLatestScales
    EveryRequestAnswered
    RequestTakesEffect
