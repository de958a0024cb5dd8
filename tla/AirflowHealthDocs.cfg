CONSTANTS
    Deployments = {"scheduler", "api-server", "worker", "statsd"}
    StatefulSets = {}
    Scheduler = "scheduler"
    Worker = "worker"
    WorkerPods = {"p1"}
    MaxPods = 2
    ReplicaMap <- MCReplicaMap
    MaxFailures = 0
SPECIFICATION Spec
INVARIANT
    AnswersAsDocumented
