----------------------------- MODULE SiteManager -----------------------------
(***************************************************************************)
(* DRManager.ChangeMode of the Airflow site manager                        *)
(* (site-manager/pkg/disasterrecovery/airflow/manager.go) with the         *)
(* goroutines it starts and the helpers of pkg/kubernetes/utils.           *)
(*                                                                         *)
(* One call of ChangeMode is a request r.  It runs as                      *)
(*   - the caller, which receives from two unbuffered channels and answers *)
(*     done or failed (program counter main[r]);                           *)
(*   - a background goroutine and, after it closes the first channel, the  *)
(*     goroutine it starts (one program counter, bg[r]: the two never run  *)
(*     at the same time);                                                  *)
(*   - one goroutine per component that sets spec.replicas (scaler[r][c]); *)
(*   - one goroutine per component that waits for its pods (waiter[r][c]). *)
(* The named result err of ChangeMode is one variable that the caller and  *)
(* the background goroutines all assign and read without a lock: every     *)
(* assignment and every read is a step of its own here.                    *)
(*                                                                         *)
(* The disaster recovery daemon, which is not in this repository, sends    *)
(* the next request when the previous one has been answered.  Goroutines   *)
(* of an answered request may still be running then.                       *)
(***************************************************************************)
EXTENDS Cluster, ComponentStatus

CONSTANTS
    MaxRequests,  \* bound: number of mode changes requested
    Modes,        \* modes the daemon may request
    ReplicaMap,   \* the *_REPLICAS settings: component label -> replicas
    MaxFailures   \* bound: number of Kubernetes API calls that fail

Requests == 1..MaxRequests
ScaleDownModes == {"standby", "disable"}

ASSUME SiteManagerAssumption ==
    /\ MaxRequests \in Nat
    /\ MaxFailures \in Nat
    /\ "none" \notin Modes
    /\ \A c \in DOMAIN ReplicaMap : ReplicaMap[c] \in 0..MaxPods

VARIABLES
    current,    \* the latest request, 0 before the first
    mode,       \* mode[r]: what request r asks for
    main,       \* main[r]: program counter of the caller
    bg,         \* bg[r]: program counter of the background goroutine
    scaler,     \* scaler[r][c]: goroutine that sets the replicas of c
    waiter,     \* waiter[r][c]: goroutine that waits for the pods of c
    err,        \* err[r]: the shared result variable, "nil" or "error"
    toDelete,   \* toDelete[r]: listed worker pods still to be deleted
    result,     \* result[r]: the answer, "none" before there is one
    failures,   \* number of API calls that have failed
    masked      \* history: masked[r] when a nil has overwritten an error in err[r]

managerVars == <<current, mode, main, bg, scaler, waiter, err, toDelete,
                 result, failures, masked>>
vars == <<clusterVars, managerVars>>

------------------------------------------------------------------------------
(* States of the goroutines. *)

MainStates == {"idle", "recvScale", "storeScale", "checkScale",
               "recvWait", "storeWait", "checkWait", "returned"}
BgStates == {"off", "listDeployments", "listStatefulSets", "readErr",
             "joinScalers", "listAgain", "readErrAgain", "joinWaiters",
             "listWorkers", "deleteWorkers", "sendDeleteErr",
             "sendLastDeleteErr", "sendWorkersErr", "closed", "gaveUp"}
SendStates == {"sendNil", "sendErr"}
EndStates == {"delivered", "failed"}
ScalerStates == {"off", "get", "update"} \cup SendStates \cup EndStates
WaiterStates == {"off", "poll"} \cup SendStates \cup EndStates
Running(s) == s \notin {"off"} \cup EndStates

\* What a goroutine becomes when the caller has received what it sends.
Received(s) == IF s = "sendNil" THEN "delivered" ELSE "failed"

ScaleChClosed(r) == bg[r] \notin {"off", "listDeployments", "listStatefulSets",
                                  "readErr", "joinScalers", "gaveUp"}
WaitChClosed(r) == bg[r] = "closed"

\* Bug variant: one replica too many.
TargetPlusOne(r, c) == IF mode[r] = "active" /\ c \in DOMAIN ReplicaMap
                       THEN ReplicaMap[c] + 1 ELSE 0

\* Replicas request r sets.  A Go map yields 0 for a label it does not hold.
Target(r, c) == IF mode[r] = "active" /\ c \in DOMAIN ReplicaMap
                THEN ReplicaMap[c] ELSE 0
Wanted(c) == IF c \in DOMAIN ReplicaMap THEN ReplicaMap[c] ELSE 0

\* Goroutines with state s that starts them for the components in C.
Started(f, C, s) == [c \in Components |-> IF c \in C THEN s ELSE f[c]]

\* An API call of the step fails.
Fail == failures < MaxFailures /\ failures' = failures + 1
Succeed == UNCHANGED failures

\* Program counters, answers and counters stay in their ranges; in particular no
\* request asks for more replicas than its settings say.
TypeOK ==
    /\ ClusterTypeOK
    /\ current \in 0..MaxRequests
    /\ mode \in [Requests -> Modes \cup {"none"}]
    /\ main \in [Requests -> MainStates]
    /\ bg \in [Requests -> BgStates]
    /\ scaler \in [Requests -> [Components -> ScalerStates]]
    /\ waiter \in [Requests -> [Components -> WaiterStates]]
    /\ err \in [Requests -> {"nil", "error"}]
    /\ toDelete \in [Requests -> SUBSET WorkerPods]
    /\ result \in [Requests -> {"none", "done", "failed"}]
    /\ failures \in 0..MaxFailures
    /\ masked \in [Requests -> BOOLEAN]

\* The site is active and settled, or on standby and settled.
Init ==
    /\ \E on \in BOOLEAN :
         /\ replicas = [c \in Components |-> IF on THEN Wanted(c) ELSE 0]
         /\ ready = replicas
         /\ workers = {}
    /\ current = 0
    /\ mode = [r \in Requests |-> "none"]
    /\ main = [r \in Requests |-> "idle"]
    /\ bg = [r \in Requests |-> "off"]
    /\ scaler = [r \in Requests |-> [c \in Components |-> "off"]]
    /\ waiter = [r \in Requests |-> [c \in Components |-> "off"]]
    /\ err = [r \in Requests |-> "nil"]
    /\ toDelete = [r \in Requests |-> {}]
    /\ result = [r \in Requests |-> "none"]
    /\ failures = 0
    /\ masked = [r \in Requests |-> FALSE]

------------------------------------------------------------------------------
(* The caller of ChangeMode. *)

\* The daemon requests mode m.  An unknown mode is refused at once.
Request(m) ==
    /\ current < MaxRequests
    /\ current > 0 => main[current] = "returned"
    /\ current' = current + 1
    /\ mode' = [mode EXCEPT ![current'] = m]
    /\ IF m \in ScaleDownModes \cup {"active"}
       THEN /\ main' = [main EXCEPT ![current'] = "recvScale"]
            /\ bg' = [bg EXCEPT ![current'] = "listDeployments"]
            /\ UNCHANGED <<err, result>>
       ELSE /\ main' = [main EXCEPT ![current'] = "returned"]
            /\ result' = [result EXCEPT ![current'] = "failed"]
            /\ err' = [err EXCEPT ![current'] = "error"]
            /\ UNCHANGED bg
    /\ UNCHANGED <<clusterVars, scaler, waiter, toDelete, failures, masked>>

\* Bug variant: the loop stops at the first message, error or not.
ReceiveScaleOnce(r, c) ==
    /\ main[r] = "recvScale"
    /\ scaler[r][c] \in SendStates
    /\ scaler' = [scaler EXCEPT ![r][c] = Received(@)]
    /\ main' = [main EXCEPT ![r] = "storeScale"]
    /\ UNCHANGED <<clusterVars, current, mode, bg, waiter, err, toDelete,
                   result, failures, masked>>

\* for errorFromChan := range scaleDownCh: a scaler and the caller meet.
ReceiveScale(r, c) ==
    /\ main[r] = "recvScale"
    /\ scaler[r][c] \in SendStates
    /\ scaler' = [scaler EXCEPT ![r][c] = Received(@)]
    /\ main' = [main EXCEPT ![r] = IF scaler[r][c] = "sendErr"
                                   THEN "storeScale" ELSE @]
    /\ UNCHANGED <<clusterVars, current, mode, bg, waiter, err, toDelete,
                   result, failures, masked>>

\* The range loop over scaleDownCh ends because the channel is closed.
ScaleLoopEnds(r) ==
    /\ main[r] = "recvScale"
    /\ ScaleChClosed(r)
    /\ main' = [main EXCEPT ![r] = "checkScale"]
    /\ UNCHANGED <<clusterVars, current, mode, bg, scaler, waiter, err,
                   toDelete, result, failures, masked>>

\* err = errorFromChan; break
StoreScaleErr(r) ==
    /\ main[r] = "storeScale"
    /\ err' = [err EXCEPT ![r] = "error"]
    /\ main' = [main EXCEPT ![r] = "checkScale"]
    /\ UNCHANGED <<clusterVars, current, mode, bg, scaler, waiter, toDelete,
                   result, failures, masked>>

\* if err == nil, between the two range loops.
CheckScaleErr(r) ==
    /\ main[r] = "checkScale"
    /\ main' = [main EXCEPT ![r] = IF err[r] = "nil" THEN "recvWait"
                                                     ELSE "checkWait"]
    /\ UNCHANGED <<clusterVars, current, mode, bg, scaler, waiter, err,
                   toDelete, result, failures, masked>>

\* for errorFromChan := range waitScaleDownCh: a waiter and the caller meet.
ReceiveWait(r, c) ==
    /\ main[r] = "recvWait"
    /\ waiter[r][c] \in SendStates
    /\ waiter' = [waiter EXCEPT ![r][c] = Received(@)]
    /\ main' = [main EXCEPT ![r] = IF waiter[r][c] = "sendErr"
                                   THEN "storeWait" ELSE @]
    /\ UNCHANGED <<clusterVars, current, mode, bg, scaler, err, toDelete,
                   result, failures, masked>>

\* The same loop meets shutDownKuberWorkers, which only sends errors.
ReceiveWorkersErr(r) ==
    /\ main[r] = "recvWait"
    /\ bg[r] \in {"sendDeleteErr", "sendLastDeleteErr", "sendWorkersErr"}
    /\ bg' = [bg EXCEPT ![r] =
                 CASE @ = "sendDeleteErr"     -> "deleteWorkers"
                   [] @ = "sendLastDeleteErr" -> "sendWorkersErr"
                   [] OTHER                   -> "closed"]
    /\ main' = [main EXCEPT ![r] = "storeWait"]
    /\ UNCHANGED <<clusterVars, current, mode, scaler, waiter, err, toDelete,
                   result, failures, masked>>

WaitLoopEnds(r) ==
    /\ main[r] = "recvWait"
    /\ WaitChClosed(r)
    /\ main' = [main EXCEPT ![r] = "checkWait"]
    /\ UNCHANGED <<clusterVars, current, mode, bg, scaler, waiter, err,
                   toDelete, result, failures, masked>>

\* Bug variant: the error is only logged.
DropWaitErr(r) ==
    /\ main[r] = "storeWait"
    /\ main' = [main EXCEPT ![r] = "checkWait"]
    /\ UNCHANGED <<clusterVars, current, mode, bg, scaler, waiter, err,
                   toDelete, result, failures, masked>>

StoreWaitErr(r) ==
    /\ main[r] = "storeWait"
    /\ err' = [err EXCEPT ![r] = "error"]
    /\ main' = [main EXCEPT ![r] = "checkWait"]
    /\ UNCHANGED <<clusterVars, current, mode, bg, scaler, waiter, toDelete,
                   result, failures, masked>>

\* The second if err == nil chooses the answer.
Answer(r) ==
    /\ main[r] = "checkWait"
    /\ result' = [result EXCEPT ![r] = IF err[r] = "nil" THEN "done"
                                                         ELSE "failed"]
    /\ main' = [main EXCEPT ![r] = "returned"]
    /\ UNCHANGED <<clusterVars, current, mode, bg, scaler, waiter, err,
                   toDelete, failures, masked>>

Main(r) ==
    \/ \E c \in Components : ReceiveScale(r, c) \/ ReceiveWait(r, c)
    \/ ReceiveWorkersErr(r)
    \/ ScaleLoopEnds(r) \/ StoreScaleErr(r) \/ CheckScaleErr(r)
    \/ WaitLoopEnds(r) \/ StoreWaitErr(r) \/ Answer(r)

------------------------------------------------------------------------------
(* The background goroutine and the goroutine it starts. *)

\* if deploymentsList, err = k8s.ListDeployments(...); err == nil { start one
\* scaler per Deployment }.  Nobody else can touch err yet.  When the call
\* fails the goroutine ends and leaves both channels open.
ListDeployments(r) ==
    /\ bg[r] = "listDeployments"
    /\ \/ /\ Succeed
          /\ scaler' = [scaler EXCEPT ![r] = Started(@, Deployments, "get")]
          /\ bg' = [bg EXCEPT ![r] = "listStatefulSets"]
          /\ UNCHANGED err
       \/ /\ Fail
          /\ err' = [err EXCEPT ![r] = "error"]
          /\ bg' = [bg EXCEPT ![r] = "gaveUp"]
          /\ UNCHANGED scaler
    /\ UNCHANGED <<clusterVars, current, mode, main, waiter, toDelete, result,
                   masked>>

\* statefulSetsList, err = k8s.ListStatefulSets(...): the assignment.
AssignListErr(r, next) ==
    /\ \/ /\ Succeed
          /\ err' = [err EXCEPT ![r] = "nil"]
          /\ masked' = [masked EXCEPT ![r] = IF err[r] = "error" THEN TRUE ELSE @]
       \/ /\ Fail
          /\ err' = [err EXCEPT ![r] = "error"]
          /\ UNCHANGED masked
    /\ bg' = [bg EXCEPT ![r] = next]
    /\ UNCHANGED <<clusterVars, current, mode, main, scaler, waiter, toDelete,
                   result>>

ListStatefulSets(r) ==
    bg[r] = "listStatefulSets" /\ AssignListErr(r, "readErr")

\* Bug variant: the condition is inverted.
ScaleStatefulSetsOnError(r) ==
    /\ bg[r] = "readErr"
    /\ scaler' = IF err[r] # "nil"
                 THEN [scaler EXCEPT ![r] = Started(@, StatefulSets, "get")]
                 ELSE scaler
    /\ bg' = [bg EXCEPT ![r] = "joinScalers"]
    /\ UNCHANGED <<clusterVars, current, mode, main, waiter, err, toDelete,
                   result, failures, masked>>

\* ...; err == nil { start one scaler per StatefulSet }: the read.
ScaleStatefulSets(r) ==
    /\ bg[r] = "readErr"
    /\ scaler' = IF err[r] = "nil"
                 THEN [scaler EXCEPT ![r] = Started(@, StatefulSets, "get")]
                 ELSE scaler
    /\ bg' = [bg EXCEPT ![r] = "joinScalers"]
    /\ UNCHANGED <<clusterVars, current, mode, main, waiter, err, toDelete,
                   result, failures, masked>>

\* Bug variant: wgScale.Wait() is missing.
CloseWithoutJoin(r) ==
    /\ bg[r] = "joinScalers"
    /\ waiter' = [waiter EXCEPT ![r] = Started(@, Deployments, "poll")]
    /\ bg' = [bg EXCEPT ![r] = "listAgain"]
    /\ UNCHANGED <<clusterVars, current, mode, main, scaler, err, toDelete,
                   result, failures, masked>>

\* wgScale.Wait(); close(scaleDownCh); start one waiter per Deployment.
JoinScalers(r) ==
    /\ bg[r] = "joinScalers"
    /\ \A c \in Components : ~Running(scaler[r][c])
    /\ waiter' = [waiter EXCEPT ![r] = Started(@, Deployments, "poll")]
    /\ bg' = [bg EXCEPT ![r] = "listAgain"]
    /\ UNCHANGED <<clusterVars, current, mode, main, scaler, err, toDelete,
                   result, failures, masked>>

ListStatefulSetsAgain(r) ==
    bg[r] = "listAgain" /\ AssignListErr(r, "readErrAgain")

WaitForStatefulSets(r) ==
    /\ bg[r] = "readErrAgain"
    /\ waiter' = IF err[r] = "nil"
                 THEN [waiter EXCEPT ![r] = Started(@, StatefulSets, "poll")]
                 ELSE waiter
    /\ bg' = [bg EXCEPT ![r] = "joinWaiters"]
    /\ UNCHANGED <<clusterVars, current, mode, main, scaler, err, toDelete,
                   result, failures, masked>>

\* Bug variant: wgDown.Wait() is missing.
DeleteWithoutJoin(r) ==
    /\ bg[r] = "joinWaiters"
    /\ bg' = [bg EXCEPT ![r] = IF mode[r] = "active" THEN "closed"
                                                     ELSE "listWorkers"]
    /\ UNCHANGED <<clusterVars, current, mode, main, scaler, waiter, err,
                   toDelete, result, failures, masked>>

\* Bug variant: close(waitScaleUpCh) is missing.
JoinWithoutClose(r) ==
    /\ bg[r] = "joinWaiters"
    /\ \A c \in Components : ~Running(waiter[r][c])
    /\ bg' = [bg EXCEPT ![r] = IF mode[r] = "active" THEN "gaveUp"
                                                     ELSE "listWorkers"]
    /\ UNCHANGED <<clusterVars, current, mode, main, scaler, waiter, err,
                   toDelete, result, failures, masked>>

\* wgDown.Wait(), then shutDownKuberWorkers; or wgUp.Wait(); close(waitScaleUpCh).
JoinWaiters(r) ==
    /\ bg[r] = "joinWaiters"
    /\ \A c \in Components : ~Running(waiter[r][c])
    /\ bg' = [bg EXCEPT ![r] = IF mode[r] = "active" THEN "closed"
                                                     ELSE "listWorkers"]
    /\ UNCHANGED <<clusterVars, current, mode, main, scaler, waiter, err,
                   toDelete, result, failures, masked>>

\* shutDownKuberWorkers: list the Kubernetes executor worker pods.
ListWorkers(r) ==
    /\ bg[r] = "listWorkers"
    /\ \/ /\ Succeed
          /\ toDelete' = [toDelete EXCEPT ![r] = workers]
          /\ bg' = [bg EXCEPT ![r] = "deleteWorkers"]
       \/ /\ Fail
          /\ bg' = [bg EXCEPT ![r] = "sendWorkersErr"]
          /\ UNCHANGED toDelete
    /\ UNCHANGED <<clusterVars, current, mode, main, scaler, waiter, err,
                   result, masked>>

\* Delete one listed pod.  A pod that is gone by now is an error like any
\* other; after the last pod the loop's err is reported a second time.
DeleteWorker(r, p) ==
    /\ bg[r] = "deleteWorkers"
    /\ p \in toDelete[r]
    /\ toDelete' = [toDelete EXCEPT ![r] = @ \ {p}]
    /\ \/ /\ p \in workers
          /\ Succeed
          /\ workers' = workers \ {p}
          /\ UNCHANGED bg
       \/ /\ IF p \in workers THEN Fail ELSE Succeed
          /\ bg' = [bg EXCEPT ![r] = IF toDelete[r] = {p}
                                     THEN "sendLastDeleteErr"
                                     ELSE "sendDeleteErr"]
          /\ UNCHANGED workers
    /\ UNCHANGED <<replicas, ready, current, mode, main, scaler, waiter, err,
                   result, masked>>

\* The loop over the pods is over; close(waitScaleDownCh).
WorkersDeleted(r) ==
    /\ bg[r] = "deleteWorkers"
    /\ toDelete[r] = {}
    /\ bg' = [bg EXCEPT ![r] = "closed"]
    /\ UNCHANGED <<clusterVars, current, mode, main, scaler, waiter, err,
                   toDelete, result, failures, masked>>

Background(r) ==
    \/ ListDeployments(r) \/ ListStatefulSets(r) \/ ScaleStatefulSets(r)
    \/ JoinScalers(r) \/ ListStatefulSetsAgain(r) \/ WaitForStatefulSets(r)
    \/ JoinWaiters(r) \/ ListWorkers(r) \/ WorkersDeleted(r)
    \/ \E p \in WorkerPods : DeleteWorker(r, p)

------------------------------------------------------------------------------
(* The goroutines per component. *)

SetScaler(r, c, s) == scaler' = [scaler EXCEPT ![r][c] = s]
SetWaiter(r, c, s) == waiter' = [waiter EXCEPT ![r][c] = s]

\* GetDeployment or GetStatefulSet: find the object by its label.
GetObject(r, c) ==
    /\ scaler[r][c] = "get"
    /\ \/ Succeed /\ SetScaler(r, c, "update")
       \/ Fail /\ SetScaler(r, c, "sendErr")
    /\ UNCHANGED <<clusterVars, current, mode, main, bg, waiter, err, toDelete,
                   result, masked>>

\* retry.RetryOnConflict(get the latest version, set replicas, update): a
\* successful update saw the latest version.  When it fails, the API server
\* may have applied it all the same.
UpdateReplicas(r, c) ==
    /\ scaler[r][c] = "update"
    /\ \/ /\ Succeed
          /\ SetScaler(r, c, "sendNil")
          /\ replicas' = [replicas EXCEPT ![c] = Target(r, c)]
       \/ /\ Fail
          /\ SetScaler(r, c, "sendErr")
          /\ \/ UNCHANGED replicas
             \/ replicas' = [replicas EXCEPT ![c] = Target(r, c)]
    /\ UNCHANGED <<ready, workers, current, mode, main, bg, waiter, err,
                   toDelete, result, masked>>

\* What the condition of wait.Poll finds: for scale down that the component
\* is not up, for scale up that it is.
ScaledAsAsked(r, c, isUp) == IF mode[r] = "active" THEN isUp ELSE ~isUp

\* One evaluation of the condition.  If the pods cannot be listed the
\* component counts as not up.  An unmet condition is evaluated again after a
\* second, and for the last time when the timeout has passed.
Poll(r, c) ==
    /\ waiter[r][c] = "poll"
    /\ \E isUp \in BOOLEAN :
         /\ \/ Succeed /\ isUp = IsComponentUp(ReadyPods(c), Wanted(c))
            \/ Fail /\ isUp = FALSE
         /\ IF ScaledAsAsked(r, c, isUp) THEN SetWaiter(r, c, "sendNil")
                                         ELSE SetWaiter(r, c, "sendErr")
    /\ UNCHANGED <<clusterVars, current, mode, main, bg, scaler, err, toDelete,
                   result, masked>>

------------------------------------------------------------------------------
Next ==
    \/ \E m \in Modes : Request(m)
    \/ \E r \in Requests : Main(r) \/ Background(r)
    \/ \E r \in Requests, c \in Components :
         GetObject(r, c) \/ UpdateReplicas(r, c) \/ Poll(r, c)
    \/ ClusterNext /\ UNCHANGED managerVars

Spec == Init /\ [][Next]_vars

\* Go runs every goroutine that can proceed; a poll ends by its timeout at the
\* latest.  Nothing is assumed of the cluster or of the daemon.
Fairness ==
    /\ \A r \in Requests : WF_vars(Main(r)) /\ WF_vars(Background(r))
    /\ \A r \in Requests, c \in Components :
         WF_vars(GetObject(r, c) \/ UpdateReplicas(r, c) \/ Poll(r, c))

FairSpec == Spec /\ Fairness

------------------------------------------------------------------------------
(* Properties. *)

DeletionStates == {"listWorkers", "deleteWorkers", "sendDeleteErr",
                   "sendLastDeleteErr", "sendWorkersErr"}

(***************************************************************************)
(* No goroutine still has something to send on a channel that is closed: a *)
(* send would panic and take the whole site manager down.  It depends on   *)
(* the two WaitGroups and on the order of the last statements of the       *)
(* background goroutines.                                                  *)
(***************************************************************************)
NoSendOnClosedChannel ==
    \A r \in Requests, c \in Components :
        /\ ScaleChClosed(r) => ~Running(scaler[r][c])
        /\ WaitChClosed(r) => ~Running(waiter[r][c])

(***************************************************************************)
(* A request answered done has had every component scaled and waited for   *)
(* without an error and, for standby and disable, has deleted the worker   *)
(* pods it listed - unless a StatefulSet listing has overwritten an error  *)
(* in the shared err with nil.                                             *)
(***************************************************************************)
HonestDone ==
    \A r \in Requests : result[r] = "done" /\ ~masked[r] =>
        /\ \A c \in Components : /\ scaler[r][c] = "delivered"
                                 /\ waiter[r][c] = "delivered"
        /\ toDelete[r] = {}
        /\ bg[r] = "closed"

(***************************************************************************)
(* Kubernetes executor workers are deleted last: only by a scale down,     *)
(* after the waiter of every component has reported, at most one of them   *)
(* (the last to report) without success, and after every update was        *)
(* delivered unless an error was masked.  One way around the wait is       *)
(* there: when the second listing of StatefulSets fails, no StatefulSet is *)
(* waited for, the pods are deleted all the same, and all the code keeps   *)
(* of it is the error in err.                                              *)
(***************************************************************************)
WorkersDeletedLast ==
    \A r \in Requests : bg[r] \in DeletionStates =>
        /\ mode[r] \in ScaleDownModes
        /\ \A c \in Components :
             \/ waiter[r][c] \in EndStates
             \/ c \in StatefulSets /\ waiter[r][c] = "off" /\ err[r] = "error"
        /\ \A c, d \in Components :
             waiter[r][c] = "failed" /\ waiter[r][d] = "failed" => c = d
        /\ ~masked[r] => \A c \in Components : scaler[r][c] = "delivered"

(***************************************************************************)
(* An answered request has scalers left behind, which may still overwrite  *)
(* the replicas a later request sets, only if the caller stopped listening *)
(* at a scaler that failed.                                                *)
(***************************************************************************)
LeftBehindOnlyAfterFailure ==
    \A r \in Requests, c \in Components :
        main[r] = "returned" /\ Running(scaler[r][c]) =>
            \E d \in Components : scaler[r][d] = "failed"

(***************************************************************************)
(* With an API server that never fails, what the last answer says is what  *)
(* the cluster is told: after done every spec.replicas has the value of    *)
(* that request, whatever goroutines earlier requests left behind.         *)
(***************************************************************************)
DoneMeansScaled ==
    current > 0 /\ result[current] = "done" =>
        \A c \in Components : replicas[c] = Target(current, c)

(***************************************************************************)
(* A step changes spec.replicas only on behalf of the latest request.      *)
(***************************************************************************)
OnlyLatestScales ==
    [][replicas' # replicas =>
         \A c \in Components : replicas'[c] \in {replicas[c], Target(current, c)}]_vars

(***************************************************************************)
(* Every request is answered: the caller never waits for ever on a channel *)
(* nobody sends on or closes.                                              *)
(***************************************************************************)
EveryRequestAnswered ==
    \A r \in Requests : (current = r) ~> (main[r] = "returned")

(***************************************************************************)
(* An accepted request reaches the cluster, even if it is answered failed  *)
(* later because pods are slow.                                            *)
(***************************************************************************)
RequestTakesEffect ==
    \A r \in Requests :
        main[r] = "recvScale" ~> \A c \in Components : replicas[c] = Target(r, c)

(***************************************************************************)
(* docs/public/airflow-site-manager.md, step 5 of the switch to standby:   *)
(* worker pods are deleted after all components are scaled to 0.  Here for *)
(* the case that every waiter has reported its component as down.          *)
(***************************************************************************)
WorkersDeletedAfterScaleDown ==
    \A r \in Requests :
        bg[r] = "deleteWorkers" /\ (\A c \in Components : waiter[r][c] = "delivered")
            => \A c \in Components : ready[c] = 0

------------------------------------------------------------------------------
(* The inductive invariant behind the first four properties above, in parts, *)
(* for one request.                                                          *)

\* What the program counters and the answer say about each other.
Lifecycle(r) ==
    /\ r > current => main[r] = "idle"
    /\ main[r] = "idle" => bg[r] = "off"
    /\ bg[r] = "off" => main[r] \in {"idle", "returned"} /\ result[r] # "done"
    /\ bg[r] \in {"listDeployments", "gaveUp"} => main[r] = "recvScale"
    /\ bg[r] # "off" => mode[r] \in ScaleDownModes \cup {"active"}
    /\ bg[r] \in DeletionStates => mode[r] \in ScaleDownModes
    /\ bg[r] \notin {"deleteWorkers", "sendDeleteErr"} => toDelete[r] = {}
    /\ result[r] # "none" => main[r] = "returned"

\* Which goroutines have been started and which have been joined.
Joined(r) ==
    \A c \in Components :
        /\ bg[r] \in {"off", "listDeployments", "gaveUp"} => scaler[r][c] = "off"
        /\ bg[r] \in {"listStatefulSets", "readErr"} /\ c \in StatefulSets
             => scaler[r][c] = "off"
        /\ bg[r] \notin {"off", "listDeployments", "gaveUp"} /\ c \in Deployments
             => scaler[r][c] # "off"
        /\ ~ScaleChClosed(r) => waiter[r][c] = "off"
        /\ bg[r] \in {"listAgain", "readErrAgain"} /\ c \in StatefulSets
             => waiter[r][c] = "off"
        /\ ScaleChClosed(r) => ~Running(scaler[r][c])
        /\ ScaleChClosed(r) /\ c \in Deployments => waiter[r][c] # "off"
        /\ bg[r] \in DeletionStates \cup {"closed"} => ~Running(waiter[r][c])
        /\ bg[r] \in DeletionStates \cup {"joinWaiters", "closed"} /\ waiter[r][c] = "off"
             => err[r] = "error"

\* Why the caller stopped listening to a channel.
StoppedListening(r) ==
    /\ main[r] \notin {"idle", "recvScale"} /\ bg[r] # "off" /\ ~ScaleChClosed(r)
         => \E d \in Components : scaler[r][d] = "failed"
    /\ \A c \in Components :
         waiter[r][c] = "failed" => main[r] \in {"storeWait", "checkWait", "returned"}
    /\ \A c, d \in Components :
         waiter[r][c] = "failed" /\ waiter[r][d] = "failed" => c = d

\* What follows from err = nil as long as no error has been overwritten.
NoErrorSoFar(r) ==
    /\ \A c \in Components :
         /\ main[r] # "storeScale" => scaler[r][c] # "failed"
         /\ main[r] # "storeWait" => waiter[r][c] # "failed"
         /\ ScaleChClosed(r) \/ bg[r] = "joinScalers" => scaler[r][c] # "off"
         /\ bg[r] \in DeletionStates \cup {"joinWaiters", "closed"}
              => waiter[r][c] # "off"
    /\ main[r] = "checkScale" => ScaleChClosed(r)
    /\ main[r] = "checkWait" => bg[r] = "closed"

ScaledWell(r) ==
    /\ ScaleChClosed(r)
    /\ \A c \in Components : scaler[r][c] = "delivered"

Unmasked(r) ==
    ~masked[r] =>
        /\ err[r] = "nil" => NoErrorSoFar(r)
        /\ main[r] \in {"recvWait", "storeWait"} => ScaledWell(r)
        /\ \A c \in Components : waiter[r][c] \in EndStates => ScaledWell(r)
        /\ result[r] = "done" =>
             /\ bg[r] = "closed"
             /\ \A c \in Components : /\ scaler[r][c] = "delivered"
                                      /\ waiter[r][c] = "delivered"

RequestInv(r) == Lifecycle(r) /\ Joined(r) /\ StoppedListening(r) /\ Unmasked(r)
IInv == TypeOK /\ \A r \in Requests : RequestInv(r)
==============================================================================
