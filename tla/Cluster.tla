------------------------------- MODULE Cluster -------------------------------
(***************************************************************************)
(* The Kubernetes namespace the Airflow site manager works on, as far as   *)
(* the site manager can see it.  Kubernetes and Airflow itself are not     *)
(* part of the repository's own code: what is here is what the site        *)
(* manager reads (ready pods per component label, Kubernetes executor      *)
(* worker pods) and writes (spec.replicas, pod deletion).                  *)
(***************************************************************************)
EXTENDS Naturals, FiniteSets

CONSTANTS
    Deployments,   \* component labels of the Deployments with tier=airflow
    StatefulSets,  \* component labels of the StatefulSets with tier=airflow
    Scheduler,     \* the component that starts Kubernetes executor workers
    Worker,        \* the label worker, which Celery workers and Kubernetes executor
                   \* worker pods share; not in Components without Celery
    WorkerPods,    \* names a Kubernetes executor worker pod may have
    MaxPods        \* no component ever runs more pods than this

Components == Deployments \cup StatefulSets

ASSUME ClusterAssumption ==
    /\ Deployments # {}
    /\ Deployments \cap StatefulSets = {}
    /\ Scheduler \in Components
    /\ MaxPods \in Nat
    /\ IsFiniteSet(WorkerPods)

VARIABLES
    replicas,  \* spec.replicas of each component
    ready,     \* number of its pods that are Running and Ready
    workers    \* Kubernetes executor worker pods that exist

clusterVars == <<replicas, ready, workers>>

ClusterTypeOK ==
    /\ replicas \in [Components -> 0..MaxPods]
    /\ ready \in [Components -> 0..MaxPods]
    /\ workers \in SUBSET WorkerPods

\* What listing the ready pods labelled component=c returns: the pods of the
\* component, none if it is not installed, and, for the label worker, the
\* Kubernetes executor pods as well.
OwnPods(c) == IF c \in Components THEN ready[c] ELSE 0
ReadyPods(c) == OwnPods(c) + (IF c = Worker THEN Cardinality(workers) ELSE 0)

\* The workload controller brings a missing pod up.
PodBecomesReady(c) ==
    /\ ready[c] < replicas[c]
    /\ ready' = [ready EXCEPT ![c] = @ + 1]
    /\ UNCHANGED <<replicas, workers>>

\* A pod stops being ready: it is surplus and terminates, or it fails.
PodLost(c) ==
    /\ ready[c] > 0
    /\ ready' = [ready EXCEPT ![c] = @ - 1]
    /\ UNCHANGED <<replicas, workers>>

\* A running scheduler starts a pod for a task.
WorkerPodStarts(p) ==
    /\ ready[Scheduler] > 0
    /\ p \notin workers
    /\ workers' = workers \cup {p}
    /\ UNCHANGED <<replicas, ready>>

\* The task of a worker pod ends and the pod goes away.
WorkerPodEnds(p) ==
    /\ p \in workers
    /\ workers' = workers \ {p}
    /\ UNCHANGED <<replicas, ready>>

ClusterNext ==
    \/ \E c \in Components : PodBecomesReady(c) \/ PodLost(c)
    \/ \E p \in WorkerPods : WorkerPodStarts(p) \/ WorkerPodEnds(p)
==============================================================================
