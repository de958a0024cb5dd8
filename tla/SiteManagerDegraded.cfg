CONSTANTS
    Deployments = {"scheduler"}
    StatefulSets = {"worker"}
    Scheduler = "scheduler"
    Worker = "worker"
    WorkerPods = {"p1"}
    MaxPods = 2
    MaxRequests = 1
    Modes = {"standby"}
    ReplicaMap <- MCTwoSchedulers
    MaxFailures = 0
SPECIFICATION Spec
CHECK_DEADLOCK FALSE
INVARIANT
    WorkersDeletedAfterScaleDown
