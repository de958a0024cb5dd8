---------------------------- MODULE AirflowHealth ----------------------------
(***************************************************************************)
(* The health endpoint of the Airflow site manager: HealthAirflow and      *)
(* getAirflowStatus of                                                     *)
(* site-manager/pkg/disasterrecovery/airflow/manager.go.                   *)
(*                                                                         *)
(* The handler asks the API server about one component after the other, in *)
(* the random order of a Go map, while the cluster goes on changing.       *)
(***************************************************************************)
EXTENDS Cluster, ComponentStatus

CONSTANTS
    ReplicaMap,   \* the *_REPLICAS settings: component label -> replicas
    MaxFailures   \* bound: number of Kubernetes API calls that fail

Optional == {"flower", "statsd"}
Labels == DOMAIN ReplicaMap
Required == Labels \ Optional

ASSUME HealthAssumption ==
    /\ Optional \subseteq Labels
    /\ MaxFailures \in Nat
    /\ \A c \in Labels : ReplicaMap[c] \in 0..MaxPods

VARIABLES
    step,      \* where the handler is
    todo,      \* required components the loop has not visited
    product,   \* componentsStatus
    status,    \* airflowStatus.Status
    failures,  \* number of API calls that have failed
    seen,      \* history: the verdict on each component the handler looked at
    stable     \* history: since the request came in the cluster has not changed
               \* and no call has failed

handlerVars == <<step, todo, product, status, failures, seen, stable>>
vars == <<clusterVars, handlerVars>>

Verdicts == {Up, Down, Degraded, Unknown}
NotSeen == -1

\* The loop visits required components only, and product and status are among
\* the values their abstraction allows.
TypeOK ==
    /\ ClusterTypeOK
    /\ step \in {"idle", "loop", "flower", "statsd", "answered"}
    /\ todo \in SUBSET Required
    /\ product \in Verdicts
    /\ status \in {"up", "down", "degraded"}
    /\ failures \in 0..MaxFailures
    /\ seen \in [Labels -> Verdicts \cup {NotSeen}]
    /\ stable \in BOOLEAN

Init ==
    /\ replicas \in [Components -> 0..MaxPods]
    /\ ready = replicas
    /\ workers = {}
    /\ step = "idle"
    /\ todo = {}
    /\ product = Up
    /\ status = "down"
    /\ failures = 0
    /\ seen = [c \in Labels |-> NotSeen]
    /\ stable = TRUE

------------------------------------------------------------------------------
(* The loop stops at the first product that is zero or negative, so it only *)
(* ever multiplies a positive number: 1, or one with a factor 10000, which  *)
(* Unknown stands for.                                                      *)
\* Bug variant: the last verdict replaces the product.
TimesLast(a, v) == v

Times(a, v) == IF a = Up \/ v \in {Down, Degraded} THEN v ELSE Unknown

\* The verdict of one getComponentStatus call, which may fail.
Verdict(c, v) ==
    \/ /\ v = GetComponentStatus(ReadyPods(c), ReplicaMap[c])
       /\ UNCHANGED <<failures, stable>>
    \/ /\ v = Unknown
       /\ failures < MaxFailures
       /\ failures' = failures + 1
       /\ stable' = FALSE

\* isComponentDeployed looks for a Deployment with the label.  When the call
\* fails the component counts as not deployed.
FoundUndeployed(c) ==
    \/ c \notin Deployments /\ UNCHANGED <<failures, stable>>
    \/ failures < MaxFailures /\ failures' = failures + 1 /\ stable' = FALSE

\* Bug variant: the loop does not leave flower and statsd out.
HealthRequestForAll ==
    /\ step \in {"idle", "answered"}
    /\ step' = "loop"
    /\ todo' = Labels
    /\ product' = Up
    /\ status' = "down"
    /\ seen' = [c \in Labels |-> NotSeen]
    /\ stable' = TRUE
    /\ UNCHANGED <<clusterVars, failures>>

HealthRequest ==
    /\ step \in {"idle", "answered"}
    /\ step' = "loop"
    /\ todo' = Required
    /\ product' = Up
    /\ status' = "down"
    /\ seen' = [c \in Labels |-> NotSeen]
    /\ stable' = TRUE
    /\ UNCHANGED <<clusterVars, failures>>

\* The loop skips the worker label unless a worker Deployment is found.
SkipWorker ==
    /\ step = "loop"
    /\ Worker \in todo
    /\ FoundUndeployed(Worker)
    /\ todo' = todo \ {Worker}
    /\ UNCHANGED <<clusterVars, step, product, status, seen>>

CheckComponent(c) ==
    /\ step = "loop"
    /\ c \in todo
    /\ c = Worker => Worker \in Deployments
    /\ \E v \in Verdicts :
         /\ Verdict(c, v)
         /\ seen' = [seen EXCEPT ![c] = v]
         /\ product' = Times(product, v)
         /\ status' = CASE v = Down     -> "down"
                        [] v = Degraded -> "degraded"
                        [] OTHER        -> status
    /\ todo' = todo \ {c}
    /\ step' = IF product' \in {Down, Degraded} THEN "flower" ELSE "loop"
    /\ UNCHANGED clusterVars

LoopEnds ==
    /\ step = "loop"
    /\ todo = {}
    /\ step' = "flower"
    /\ status' = IF product = Up THEN "up" ELSE status
    /\ UNCHANGED <<clusterVars, todo, product, failures, seen, stable>>

Following(s) == IF s = "flower" THEN "statsd" ELSE "answered"

SkipOptional(c) ==
    /\ step = c
    /\ FoundUndeployed(c)
    /\ step' = Following(c)
    /\ UNCHANGED <<clusterVars, todo, product, status, seen>>

\* Bug variant: an optional component that is not up takes Airflow down.
CheckOptionalStrictly(c) ==
    /\ step = c
    /\ c \in Deployments
    /\ \E v \in Verdicts :
         /\ Verdict(c, v)
         /\ seen' = [seen EXCEPT ![c] = v]
         /\ status' = IF v # Up THEN "down" ELSE status
    /\ step' = Following(c)
    /\ UNCHANGED <<clusterVars, todo, product>>

\* Bug variant: an optional component that is not up always means degraded.
CheckOptionalAlways(c) ==
    /\ step = c
    /\ c \in Deployments
    /\ \E v \in Verdicts :
         /\ Verdict(c, v)
         /\ seen' = [seen EXCEPT ![c] = v]
         /\ status' = IF v # Up THEN "degraded" ELSE status
    /\ step' = Following(c)
    /\ UNCHANGED <<clusterVars, todo, product>>

\* An optional component that is not up turns up into degraded, nothing else.
CheckOptional(c) ==
    /\ step = c
    /\ c \in Deployments
    /\ \E v \in Verdicts :
         /\ Verdict(c, v)
         /\ seen' = [seen EXCEPT ![c] = v]
         /\ status' = IF product = Up /\ v # Up THEN "degraded" ELSE status
    /\ step' = Following(c)
    /\ UNCHANGED <<clusterVars, todo, product>>

\* The cluster changes, between two reads of the handler or otherwise.
ClusterMoves ==
    /\ ClusterNext
    /\ stable' = FALSE
    /\ UNCHANGED <<step, todo, product, status, failures, seen>>

Next ==
    \/ HealthRequest \/ SkipWorker \/ LoopEnds
    \/ \E c \in Required : CheckComponent(c)
    \/ \E c \in Optional : SkipOptional(c) \/ CheckOptional(c)
    \/ ClusterMoves

Spec == Init /\ [][Next]_vars

------------------------------------------------------------------------------
(* Properties. *)

(***************************************************************************)
(* up is earned: every component the handler looked at was up when it did, *)
(* and it looked at every required one but a worker whose Deployment it    *)
(* did not find.  Failing API calls and a changing cluster do not matter.  *)
(***************************************************************************)
UpIsEarned ==
    step = "answered" /\ status = "up" =>
        /\ \A c \in Labels : seen[c] \in {Up, NotSeen}
        /\ \A c \in Required \ {Worker} : seen[c] = Up

(***************************************************************************)
(* down has a cause in a required component: flower and statsd alone never *)
(* take Airflow down.                                                      *)
(***************************************************************************)
DownHasRequiredCause ==
    step = "answered" /\ status = "down" =>
        \E c \in Required : seen[c] \in {Down, Unknown}

(***************************************************************************)
(* The health docs/public/airflow-site-manager.md documents (REST API,     *)
(* Contract), from a component's own pods.                                 *)
(***************************************************************************)
Checked == (Required \ {Worker}) \cup (Deployments \cap Labels)
Has(c, verdict) == GetComponentStatus(OwnPods(c), ReplicaMap[c]) = verdict
DocumentedHealth ==
    IF \E c \in Checked \cap Required : Has(c, Down) THEN "down"
    ELSE IF \E c \in Checked : Has(c, Degraded) \/ Has(c, Down) THEN "degraded"
    ELSE "up"

(***************************************************************************)
(* The documented health is what the handler answers if nothing changes or *)
(* fails meanwhile, no component has more pods than its setting, no        *)
(* Kubernetes executor worker runs, and it is not the case that one        *)
(* required component is down and another one degraded.                    *)
(***************************************************************************)
AnswersAsDocumentedIfPlain ==
    (/\ step = "answered"
     /\ stable
     /\ workers = {}
     /\ \A c \in Checked : ~Has(c, Unknown)
     /\ \A c, d \in Checked \cap Required : ~(Has(c, Down) /\ Has(d, Degraded)))
        => status = DocumentedHealth

(***************************************************************************)
(* The documented health is what the handler answers if nothing changes or *)
(* fails meanwhile and no component has more pods than its setting.        *)
(***************************************************************************)
AnswersAsDocumented ==
    step = "answered" /\ stable /\ (\A c \in Checked : ~Has(c, Unknown))
        => status = DocumentedHealth
==============================================================================
