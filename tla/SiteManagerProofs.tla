-------------------------- MODULE SiteManagerProofs --------------------------
(***************************************************************************)
(* Proofs about SiteManager, for any components, any number of requests    *)
(* and of API failures, and any replica settings.                          *)
(***************************************************************************)
EXTENDS SiteManager, FiniteSetTheorems, TLAPS

USE DEF Requests, clusterVars

------------------------------------------------------------------------------
(* Type correctness. *)

\* Started yields a legal row of goroutine states.
LEMMA StartedType ==
    ASSUME NEW C
    PROVE  /\ \A f \in [Components -> ScalerStates] :
                 Started(f, C, "get") \in [Components -> ScalerStates]
           /\ \A f \in [Components -> WaiterStates] :
                 Started(f, C, "poll") \in [Components -> WaiterStates]
BY DEF Started, ScalerStates, WaiterStates

\* Setting the state of one goroutine.
LEMMA SetCellType ==
    ASSUME TypeOK, NEW r \in Requests, NEW c \in Components
    PROVE  /\ \A s \in ScalerStates :
                 SetScaler(r, c, s) => scaler' \in [Requests -> [Components -> ScalerStates]]
           /\ \A s \in WaiterStates :
                 SetWaiter(r, c, s) => waiter' \in [Requests -> [Components -> WaiterStates]]
<1>1. ASSUME NEW s \in ScalerStates, SetScaler(r, c, s)
      PROVE  scaler' \in [Requests -> [Components -> ScalerStates]]
  <2>1. scaler \in [Requests -> [Components -> ScalerStates]]
      BY DEF TypeOK
  <2> QED
      BY <1>1, <2>1 DEF SetScaler
<1>2. ASSUME NEW s \in WaiterStates, SetWaiter(r, c, s)
      PROVE  waiter' \in [Requests -> [Components -> WaiterStates]]
  <2>1. waiter \in [Requests -> [Components -> WaiterStates]]
      BY DEF TypeOK
  <2> QED
      BY <1>2, <2>1 DEF SetWaiter
<1> QED
    BY <1>1, <1>2

\* Setting the states of all goroutines of one request.
LEMMA RowType ==
    ASSUME NEW R, NEW C, NEW S, NEW f \in [R -> [C -> S]],
           NEW r \in R, NEW g \in [C -> S]
    PROVE  [f EXCEPT ![r] = g] \in [R -> [C -> S]]
OBVIOUS

\* The replicas a request asks for are within the bounds of the settings.
LEMMA TargetType ==
    ASSUME NEW r \in Requests, NEW c \in Components
    PROVE  Target(r, c) \in 0..MaxPods /\ Wanted(c) \in 0..MaxPods
BY ClusterAssumption, SiteManagerAssumption DEF Target, Wanted

\* The initial states have the declared types.
LEMMA TypeInit == Init => TypeOK
<1> SUFFICES ASSUME Init PROVE TypeOK
    OBVIOUS
<1>1. \A c \in Components : Wanted(c) \in 0..MaxPods
    BY ClusterAssumption, SiteManagerAssumption DEF Wanted
<1>2. ClusterTypeOK
    BY <1>1, ClusterAssumption DEF Init, ClusterTypeOK
<1> QED
    BY <1>2, SiteManagerAssumption
    DEF Init, TypeOK, MainStates, BgStates, ScalerStates, WaiterStates

\* The steps of the caller keep the types.
LEMMA TypeMain ==
    ASSUME TypeOK, NEW r \in Requests, Main(r)
    PROVE  TypeOK'
<1> USE DEF TypeOK, ClusterTypeOK
<1>1. ASSUME NEW c \in Components, ReceiveScale(r, c) PROVE TypeOK'
    BY <1>1 DEF ReceiveScale, Received, MainStates, ScalerStates, EndStates
<1>2. ASSUME NEW c \in Components, ReceiveWait(r, c) PROVE TypeOK'
    BY <1>2 DEF ReceiveWait, Received, MainStates, WaiterStates, EndStates
<1>3. CASE ReceiveWorkersErr(r)
    BY <1>3 DEF ReceiveWorkersErr, MainStates, BgStates
<1>4. CASE ScaleLoopEnds(r) \/ StoreScaleErr(r) \/ CheckScaleErr(r)
    BY <1>4 DEF ScaleLoopEnds, StoreScaleErr, CheckScaleErr, MainStates
<1>5. CASE WaitLoopEnds(r) \/ StoreWaitErr(r) \/ Answer(r)
    BY <1>5 DEF WaitLoopEnds, StoreWaitErr, Answer, MainStates
<1> QED
    BY <1>1, <1>2, <1>3, <1>4, <1>5 DEF Main

\* The failure counter stays within its bound.
LEMMA FailuresType ==
    ASSUME TypeOK, Fail \/ Succeed
    PROVE  failures' \in 0..MaxFailures
BY SiteManagerAssumption DEF TypeOK, Fail, Succeed

\* The steps of the background goroutines keep the types.
LEMMA TypeBackground ==
    ASSUME TypeOK, NEW r \in Requests, Background(r)
    PROVE  TypeOK'
<1> USE DEF TypeOK, ClusterTypeOK
<1>1. CASE ListDeployments(r)
  <2>1. failures' \in 0..MaxFailures
      BY <1>1, FailuresType DEF ListDeployments
  <2>2. Started(scaler[r], Deployments, "get") \in [Components -> ScalerStates]
      BY StartedType
  <2>3. scaler' \in [Requests -> [Components -> ScalerStates]]
      BY <1>1, <2>2, RowType DEF ListDeployments
  <2> QED
      BY <1>1, <2>1, <2>3 DEF ListDeployments, BgStates
<1>2. CASE ListStatefulSets(r) \/ ListStatefulSetsAgain(r)
  <2>1. failures' \in 0..MaxFailures
      BY <1>2, FailuresType DEF ListStatefulSets, ListStatefulSetsAgain, AssignListErr
  <2>a. "readErr" \in BgStates /\ "readErrAgain" \in BgStates
      BY DEF BgStates
  <2>2. bg' \in [Requests -> BgStates]
      BY <1>2, <2>a
      DEF ListStatefulSets, ListStatefulSetsAgain, AssignListErr
  <2>3. masked' \in [Requests -> BOOLEAN]
      BY <1>2 DEF ListStatefulSets, ListStatefulSetsAgain, AssignListErr
  <2>4. err' \in [Requests -> {"nil", "error"}]
      BY <1>2 DEF ListStatefulSets, ListStatefulSetsAgain, AssignListErr
  <2> QED
      BY <1>2, <2>1, <2>2, <2>3, <2>4
      DEF ListStatefulSets, ListStatefulSetsAgain, AssignListErr
<1>3. CASE ScaleStatefulSets(r)
  <2>1. scaler' \in [Requests -> [Components -> ScalerStates]]
      BY <1>3, StartedType DEF ScaleStatefulSets
  <2> QED
      BY <1>3, <2>1 DEF ScaleStatefulSets, BgStates
<1>4. CASE JoinScalers(r)
  <2>1. waiter' \in [Requests -> [Components -> WaiterStates]]
      BY <1>4, StartedType DEF JoinScalers
  <2> QED
      BY <1>4, <2>1 DEF JoinScalers, BgStates
<1>5. CASE WaitForStatefulSets(r)
  <2>1. waiter' \in [Requests -> [Components -> WaiterStates]]
      BY <1>5, StartedType DEF WaitForStatefulSets
  <2> QED
      BY <1>5, <2>1 DEF WaitForStatefulSets, BgStates
<1>6. CASE JoinWaiters(r) \/ WorkersDeleted(r)
    BY <1>6 DEF JoinWaiters, WorkersDeleted, BgStates
<1>7. CASE ListWorkers(r)
  <2>1. failures' \in 0..MaxFailures
      BY <1>7, FailuresType DEF ListWorkers
  <2>2. toDelete' \in [Requests -> SUBSET WorkerPods]
      BY <1>7 DEF ListWorkers
  <2>3. bg' \in [Requests -> BgStates]
      BY <1>7 DEF ListWorkers, BgStates
  <2> QED
      BY <1>7, <2>1, <2>2, <2>3 DEF ListWorkers
<1>8. ASSUME NEW p \in WorkerPods, DeleteWorker(r, p) PROVE TypeOK'
  <2>1. failures' \in 0..MaxFailures
      BY <1>8, FailuresType DEF DeleteWorker
  <2> QED
      BY <1>8, <2>1 DEF DeleteWorker, BgStates
<1> QED
    BY <1>1, <1>2, <1>3, <1>4, <1>5, <1>6, <1>7, <1>8 DEF Background

\* The steps of the goroutines per component keep the types.
LEMMA TypeComponent ==
    ASSUME TypeOK, NEW r \in Requests, NEW c \in Components,
           GetObject(r, c) \/ UpdateReplicas(r, c) \/ Poll(r, c)
    PROVE  TypeOK'
<1> USE DEF TypeOK, ClusterTypeOK
<1>1. failures' \in 0..MaxFailures
    BY FailuresType DEF GetObject, UpdateReplicas, Poll
<1>a. {"update", "sendNil", "sendErr"} \subseteq ScalerStates
    BY DEF ScalerStates, SendStates
<1>b. {"sendNil", "sendErr"} \subseteq WaiterStates
    BY DEF WaiterStates, SendStates
<1>2. CASE GetObject(r, c)
  <2>1. scaler' \in [Requests -> [Components -> ScalerStates]]
      BY <1>2, <1>a, SetCellType DEF GetObject
  <2> QED
      BY <1>1, <1>2, <2>1 DEF GetObject
<1>3. CASE UpdateReplicas(r, c)
  <2>1. scaler' \in [Requests -> [Components -> ScalerStates]]
      BY <1>3, <1>a, SetCellType DEF UpdateReplicas
  <2>2. replicas' \in [Components -> 0..MaxPods]
      BY <1>3, TargetType DEF UpdateReplicas
  <2> QED
      BY <1>1, <1>3, <2>1, <2>2 DEF UpdateReplicas
<1>4. CASE Poll(r, c)
  <2>1. waiter' \in [Requests -> [Components -> WaiterStates]]
      BY <1>4, <1>b, SetCellType DEF Poll
  <2> QED
      BY <1>1, <1>4, <2>1 DEF Poll
<1> QED
    BY <1>2, <1>3, <1>4

\* A new request keeps the types.
LEMMA TypeRequest ==
    ASSUME TypeOK, NEW m \in Modes, Request(m)
    PROVE  TypeOK'
<1>1. current' \in 1..MaxRequests
    BY SiteManagerAssumption DEF TypeOK, Request
<1>2. main' \in [Requests -> MainStates] /\ bg' \in [Requests -> BgStates]
    BY <1>1 DEF TypeOK, Request, MainStates, BgStates
<1>3. mode' \in [Requests -> Modes \cup {"none"}]
    BY <1>1 DEF TypeOK, Request
<1>4. /\ err' \in [Requests -> {"nil", "error"}]
      /\ result' \in [Requests -> {"none", "done", "failed"}]
    BY <1>1 DEF TypeOK, Request
<1> QED
    BY <1>1, <1>2, <1>3, <1>4, SiteManagerAssumption
    DEF TypeOK, ClusterTypeOK, Request

\* The steps of the cluster keep the types.
LEMMA TypeCluster ==
    ASSUME TypeOK, ClusterNext, UNCHANGED managerVars
    PROVE  TypeOK'
<1> USE DEF TypeOK, ClusterTypeOK, managerVars
<1>1. ASSUME NEW c \in Components, PodBecomesReady(c) PROVE TypeOK'
    BY <1>1, ClusterAssumption DEF PodBecomesReady
<1>2. ASSUME NEW c \in Components, PodLost(c) PROVE TypeOK'
    BY <1>2, ClusterAssumption DEF PodLost
<1>3. ASSUME NEW p \in WorkerPods, WorkerPodStarts(p) \/ WorkerPodEnds(p)
      PROVE  TypeOK'
    BY <1>3 DEF WorkerPodStarts, WorkerPodEnds
<1> QED
    BY <1>1, <1>2, <1>3 DEF ClusterNext

\* One step of the specification keeps the types.
LEMMA TypeStep == TypeOK /\ [Next]_vars => TypeOK'
<1> SUFFICES ASSUME TypeOK, [Next]_vars PROVE TypeOK'
    OBVIOUS
<1>1. CASE UNCHANGED vars
    BY <1>1 DEF vars, managerVars, TypeOK, ClusterTypeOK
<1>2. CASE Next
    BY <1>2, TypeMain, TypeBackground, TypeComponent, TypeRequest, TypeCluster
    DEF Next
<1> QED
    BY <1>1, <1>2

(***************************************************************************)
(* Every variable keeps its type, for every value of the constants.        *)
(***************************************************************************)
THEOREM TypeInvariance == Spec => []TypeOK
BY TypeInit, TypeStep, PTL DEF Spec

------------------------------------------------------------------------------
(* The inductive invariant. *)

\* A step that leaves request q alone.
Same(q) ==
    /\ mode'[q] = mode[q]
    /\ main'[q] = main[q]
    /\ bg'[q] = bg[q]
    /\ scaler'[q] = scaler[q]
    /\ waiter'[q] = waiter[q]
    /\ err'[q] = err[q]
    /\ toDelete'[q] = toDelete[q]
    /\ result'[q] = result[q]
    /\ masked'[q] = masked[q]

\* The invariant of a request survives a step that leaves it alone.
LEMMA Frame ==
    ASSUME NEW q \in Requests, RequestInv(q), Same(q),
           current \in Nat, current' \in Nat, current <= current'
    PROVE  RequestInv(q)'
<1> USE DEF RequestInv, Same
<1>1. Lifecycle(q)'
    BY DEF Lifecycle
<1>2. Joined(q)'
    BY DEF Joined, ScaleChClosed
<1>3. StoppedListening(q)'
    BY DEF StoppedListening, ScaleChClosed
<1>4. Unmasked(q)'
    BY DEF Unmasked, NoErrorSoFar, ScaledWell, ScaleChClosed
<1> QED
    BY <1>1, <1>2, <1>3, <1>4

\* In the initial states no request has started.
LEMMA InvInit == Init => IInv
<1> SUFFICES ASSUME Init, NEW r \in Requests PROVE RequestInv(r)
    BY TypeInit DEF IInv
<1>1. Lifecycle(r)
    BY DEF Init, Lifecycle, DeletionStates
<1>2. Joined(r)
    BY DEF Init, Joined, ScaleChClosed, DeletionStates
<1>3. StoppedListening(r)
    BY DEF Init, StoppedListening
<1>4. Unmasked(r)
    BY DEF Init, Unmasked, NoErrorSoFar, ScaledWell, ScaleChClosed,
           DeletionStates, EndStates
<1> QED
    BY <1>1, <1>2, <1>3, <1>4 DEF RequestInv

\* A scaler and the caller meet.
\* An unmasked err that a StatefulSet listing sets to nil was nil before.
LEMMA AssignListErrFacts ==
    ASSUME TypeOK, NEW r \in Requests, NEW next, AssignListErr(r, next)
    PROVE  /\ ~masked'[r] => ~masked[r] /\ (err'[r] = "nil" => err[r] = "nil")
           /\ \A q \in Requests \ {r} : masked'[q] = masked[q] /\ err'[q] = err[q]
<1>1. CASE /\ err' = [err EXCEPT ![r] = "nil"]
           /\ masked' = [masked EXCEPT ![r] = IF err[r] = "error" THEN TRUE ELSE @]
  <2>1. CASE err[r] = "error"
    <3>1. masked' = [masked EXCEPT ![r] = TRUE]
        BY <1>1, <2>1
    <3> QED
        BY <1>1, <3>1 DEF TypeOK
  <2>2. CASE err[r] = "nil"
    <3>1. masked' = [masked EXCEPT ![r] = masked[r]]
        BY <1>1, <2>2
    <3>2. masked' = masked
        BY <3>1 DEF TypeOK
    <3> QED
        BY <1>1, <2>2, <3>2 DEF TypeOK
  <2> QED
      BY <2>1, <2>2 DEF TypeOK
<1>2. CASE err' = [err EXCEPT ![r] = "error"] /\ UNCHANGED masked
    BY <1>2 DEF TypeOK
<1> QED
    BY <1>1, <1>2 DEF AssignListErr

\* A scaler and the caller meet.
LEMMA InvReceiveScale ==
    ASSUME IInv, TypeOK', NEW r \in Requests, NEW c \in Components,
           ReceiveScale(r, c)
    PROVE  RequestInv(r)' /\ \A q \in Requests \ {r} : Same(q)
<1> USE DEF TypeOK, ReceiveScale
<1>0. RequestInv(r) /\ TypeOK
    BY DEF IInv
<1>1. Lifecycle(r)'
    BY <1>0 DEF RequestInv, Lifecycle, Joined, ScaleChClosed, Running,
                EndStates, SendStates, DeletionStates, ScaleDownModes
<1>2. Joined(r)'
    BY <1>0, ClusterAssumption
    DEF RequestInv, Lifecycle, Joined, ScaleChClosed, Running, Received,
        EndStates, SendStates, DeletionStates, Started, Components
<1>3. StoppedListening(r)'
    BY <1>0, ClusterAssumption
    DEF RequestInv, Lifecycle, Joined, StoppedListening, ScaleChClosed, Running,
        Received, EndStates, SendStates, DeletionStates, Started, Components
<1>4. Unmasked(r)'
    BY <1>0, ClusterAssumption
    DEF RequestInv, Unmasked, NoErrorSoFar, ScaledWell, ScaleChClosed, Joined,
        Lifecycle, StoppedListening, Running, Received, EndStates, SendStates,
        DeletionStates, Started, Components
<1>5. \A q \in Requests \ {r} : Same(q)
    BY <1>0 DEF Same
<1> QED
    BY <1>1, <1>2, <1>3, <1>4, <1>5 DEF RequestInv

\* The caller leaves the first loop because the channel is closed.
LEMMA InvScaleLoopEnds ==
    ASSUME IInv, TypeOK', NEW r \in Requests,
           ScaleLoopEnds(r)
    PROVE  RequestInv(r)' /\ \A q \in Requests \ {r} : Same(q)
<1> USE DEF TypeOK, ScaleLoopEnds
<1>0. RequestInv(r) /\ TypeOK
    BY DEF IInv
<1>1. Lifecycle(r)'
    BY <1>0 DEF RequestInv, Lifecycle, Joined, ScaleChClosed, Running,
                EndStates, SendStates, DeletionStates, ScaleDownModes
<1>2. Joined(r)'
    BY <1>0, ClusterAssumption
    DEF RequestInv, Lifecycle, Joined, ScaleChClosed, Running, Received,
        EndStates, SendStates, DeletionStates, Started, Components
<1>3. StoppedListening(r)'
    BY <1>0, ClusterAssumption
    DEF RequestInv, Lifecycle, Joined, StoppedListening, ScaleChClosed, Running,
        Received, EndStates, SendStates, DeletionStates, Started, Components
<1>4. Unmasked(r)'
    BY <1>0, ClusterAssumption
    DEF RequestInv, Unmasked, NoErrorSoFar, ScaledWell, ScaleChClosed, Joined,
        Lifecycle, StoppedListening, Running, Received, EndStates, SendStates,
        DeletionStates, Started, Components
<1>5. \A q \in Requests \ {r} : Same(q)
    BY <1>0 DEF Same
<1> QED
    BY <1>1, <1>2, <1>3, <1>4, <1>5 DEF RequestInv

\* The caller stores a scaler's error.
LEMMA InvStoreScaleErr ==
    ASSUME IInv, TypeOK', NEW r \in Requests,
           StoreScaleErr(r)
    PROVE  RequestInv(r)' /\ \A q \in Requests \ {r} : Same(q)
<1> USE DEF TypeOK, StoreScaleErr
<1>0. RequestInv(r) /\ TypeOK
    BY DEF IInv
<1>1. Lifecycle(r)'
    BY <1>0 DEF RequestInv, Lifecycle, Joined, ScaleChClosed, Running,
                EndStates, SendStates, DeletionStates, ScaleDownModes
<1>2. Joined(r)'
    BY <1>0, ClusterAssumption
    DEF RequestInv, Lifecycle, Joined, ScaleChClosed, Running, Received,
        EndStates, SendStates, DeletionStates, Started, Components
<1>3. StoppedListening(r)'
    BY <1>0, ClusterAssumption
    DEF RequestInv, Lifecycle, Joined, StoppedListening, ScaleChClosed, Running,
        Received, EndStates, SendStates, DeletionStates, Started, Components
<1>4. Unmasked(r)'
    BY <1>0, ClusterAssumption
    DEF RequestInv, Unmasked, NoErrorSoFar, ScaledWell, ScaleChClosed, Joined,
        Lifecycle, StoppedListening, Running, Received, EndStates, SendStates,
        DeletionStates, Started, Components
<1>5. \A q \in Requests \ {r} : Same(q)
    BY <1>0 DEF Same
<1> QED
    BY <1>1, <1>2, <1>3, <1>4, <1>5 DEF RequestInv

\* The caller reads err between the loops.
LEMMA InvCheckScaleErr ==
    ASSUME IInv, TypeOK', NEW r \in Requests,
           CheckScaleErr(r)
    PROVE  RequestInv(r)' /\ \A q \in Requests \ {r} : Same(q)
<1> USE DEF TypeOK, CheckScaleErr
<1>0. RequestInv(r) /\ TypeOK
    BY DEF IInv
<1>1. Lifecycle(r)'
    BY <1>0 DEF RequestInv, Lifecycle, Joined, ScaleChClosed, Running,
                EndStates, SendStates, DeletionStates, ScaleDownModes
<1>2. Joined(r)'
    BY <1>0, ClusterAssumption
    DEF RequestInv, Lifecycle, Joined, ScaleChClosed, Running, Received,
        EndStates, SendStates, DeletionStates, Started, Components
<1>3. StoppedListening(r)'
    BY <1>0, ClusterAssumption
    DEF RequestInv, Lifecycle, Joined, StoppedListening, ScaleChClosed, Running,
        Received, EndStates, SendStates, DeletionStates, Started, Components
<1>4. Unmasked(r)'
    BY <1>0, ClusterAssumption
    DEF RequestInv, Unmasked, NoErrorSoFar, ScaledWell, ScaleChClosed, Joined,
        Lifecycle, StoppedListening, Running, Received, EndStates, SendStates,
        DeletionStates, Started, Components
<1>5. \A q \in Requests \ {r} : Same(q)
    BY <1>0 DEF Same
<1> QED
    BY <1>1, <1>2, <1>3, <1>4, <1>5 DEF RequestInv

\* A waiter and the caller meet.
LEMMA InvReceiveWait ==
    ASSUME IInv, TypeOK', NEW r \in Requests, NEW c \in Components,
           ReceiveWait(r, c)
    PROVE  RequestInv(r)' /\ \A q \in Requests \ {r} : Same(q)
<1> USE DEF TypeOK, ReceiveWait
<1>0. RequestInv(r) /\ TypeOK
    BY DEF IInv
<1>1. Lifecycle(r)'
    BY <1>0 DEF RequestInv, Lifecycle, Joined, ScaleChClosed, Running,
                EndStates, SendStates, DeletionStates, ScaleDownModes
<1>2. Joined(r)'
    BY <1>0, ClusterAssumption
    DEF RequestInv, Lifecycle, Joined, ScaleChClosed, Running, Received,
        EndStates, SendStates, DeletionStates, Started, Components
<1>3. StoppedListening(r)'
    BY <1>0, ClusterAssumption
    DEF RequestInv, Lifecycle, Joined, StoppedListening, ScaleChClosed, Running,
        Received, EndStates, SendStates, DeletionStates, Started, Components
<1>4. Unmasked(r)'
    BY <1>0, ClusterAssumption
    DEF RequestInv, Unmasked, NoErrorSoFar, ScaledWell, ScaleChClosed, Joined,
        Lifecycle, StoppedListening, Running, Received, EndStates, SendStates,
        DeletionStates, Started, Components
<1>5. \A q \in Requests \ {r} : Same(q)
    BY <1>0 DEF Same
<1> QED
    BY <1>1, <1>2, <1>3, <1>4, <1>5 DEF RequestInv

\* The caller learns that a worker pod could not be deleted.
LEMMA InvReceiveWorkersErr ==
    ASSUME IInv, TypeOK', NEW r \in Requests,
           ReceiveWorkersErr(r)
    PROVE  RequestInv(r)' /\ \A q \in Requests \ {r} : Same(q)
<1> USE DEF TypeOK, ReceiveWorkersErr
<1>0. RequestInv(r) /\ TypeOK
    BY DEF IInv
<1>1. Lifecycle(r)'
    BY <1>0 DEF RequestInv, Lifecycle, Joined, ScaleChClosed, Running,
                EndStates, SendStates, DeletionStates, ScaleDownModes
<1>2. Joined(r)'
    BY <1>0, ClusterAssumption
    DEF RequestInv, Lifecycle, Joined, ScaleChClosed, Running, Received,
        EndStates, SendStates, DeletionStates, Started, Components
<1>3. StoppedListening(r)'
    BY <1>0, ClusterAssumption
    DEF RequestInv, Lifecycle, Joined, StoppedListening, ScaleChClosed, Running,
        Received, EndStates, SendStates, DeletionStates, Started, Components
<1>4. Unmasked(r)'
    BY <1>0, ClusterAssumption
    DEF RequestInv, Unmasked, NoErrorSoFar, ScaledWell, ScaleChClosed, Joined,
        Lifecycle, StoppedListening, Running, Received, EndStates, SendStates,
        DeletionStates, Started, Components
<1>5. \A q \in Requests \ {r} : Same(q)
    BY <1>0 DEF Same
<1> QED
    BY <1>1, <1>2, <1>3, <1>4, <1>5 DEF RequestInv

\* The caller leaves the second loop because the channel is closed.
LEMMA InvWaitLoopEnds ==
    ASSUME IInv, TypeOK', NEW r \in Requests,
           WaitLoopEnds(r)
    PROVE  RequestInv(r)' /\ \A q \in Requests \ {r} : Same(q)
<1> USE DEF TypeOK, WaitLoopEnds
<1>0. RequestInv(r) /\ TypeOK
    BY DEF IInv
<1>1. Lifecycle(r)'
    BY <1>0 DEF RequestInv, Lifecycle, Joined, ScaleChClosed, Running,
                EndStates, SendStates, DeletionStates, ScaleDownModes
<1>2. Joined(r)'
    BY <1>0, ClusterAssumption
    DEF RequestInv, Lifecycle, Joined, ScaleChClosed, Running, Received,
        EndStates, SendStates, DeletionStates, Started, Components
<1>3. StoppedListening(r)'
    BY <1>0, ClusterAssumption
    DEF RequestInv, Lifecycle, Joined, StoppedListening, ScaleChClosed, Running,
        Received, EndStates, SendStates, DeletionStates, Started, Components
<1>4. Unmasked(r)'
  <2> SUFFICES ASSUME ~masked'[r]
               PROVE  Unmasked(r)'
      BY DEF Unmasked
  <2>0. ~masked[r]
      BY <1>0
  <2>1. err'[r] = "nil" => NoErrorSoFar(r)'
      BY <1>0, <2>0, ClusterAssumption
      DEF RequestInv, Unmasked, NoErrorSoFar, ScaledWell, ScaleChClosed, Joined,
          Lifecycle, StoppedListening, Running, EndStates, DeletionStates, WaitChClosed
  <2>2. main'[r] \in {"recvWait", "storeWait"} => ScaledWell(r)'
      BY <1>0, <2>0, ClusterAssumption
      DEF RequestInv, Unmasked, NoErrorSoFar, ScaledWell, ScaleChClosed, Joined,
          Lifecycle, StoppedListening, Running, EndStates, DeletionStates, WaitChClosed
  <2>3. \A c \in Components : waiter'[r][c] \in EndStates => ScaledWell(r)'
      BY <1>0, <2>0, ClusterAssumption
      DEF RequestInv, Unmasked, NoErrorSoFar, ScaledWell, ScaleChClosed, Joined,
          Lifecycle, StoppedListening, Running, EndStates, DeletionStates, WaitChClosed
  <2>4. result'[r] = "done" =>
          /\ bg'[r] = "closed"
          /\ \A c \in Components : /\ scaler'[r][c] = "delivered"
                                   /\ waiter'[r][c] = "delivered"
      BY <1>0, <2>0, ClusterAssumption
      DEF RequestInv, Unmasked, NoErrorSoFar, ScaledWell, ScaleChClosed, Joined,
          Lifecycle, StoppedListening, Running, EndStates, DeletionStates, WaitChClosed
  <2> QED
      BY <2>1, <2>2, <2>3, <2>4 DEF Unmasked
<1>5. \A q \in Requests \ {r} : Same(q)
    BY <1>0 DEF Same
<1> QED
    BY <1>1, <1>2, <1>3, <1>4, <1>5 DEF RequestInv

\* The caller stores an error of the second loop.
LEMMA InvStoreWaitErr ==
    ASSUME IInv, TypeOK', NEW r \in Requests,
           StoreWaitErr(r)
    PROVE  RequestInv(r)' /\ \A q \in Requests \ {r} : Same(q)
<1> USE DEF TypeOK, StoreWaitErr
<1>0. RequestInv(r) /\ TypeOK
    BY DEF IInv
<1>1. Lifecycle(r)'
    BY <1>0 DEF RequestInv, Lifecycle, Joined, ScaleChClosed, Running,
                EndStates, SendStates, DeletionStates, ScaleDownModes
<1>2. Joined(r)'
    BY <1>0, ClusterAssumption
    DEF RequestInv, Lifecycle, Joined, ScaleChClosed, Running, Received,
        EndStates, SendStates, DeletionStates, Started, Components
<1>3. StoppedListening(r)'
    BY <1>0, ClusterAssumption
    DEF RequestInv, Lifecycle, Joined, StoppedListening, ScaleChClosed, Running,
        Received, EndStates, SendStates, DeletionStates, Started, Components
<1>4. Unmasked(r)'
    BY <1>0, ClusterAssumption
    DEF RequestInv, Unmasked, NoErrorSoFar, ScaledWell, ScaleChClosed, Joined,
        Lifecycle, StoppedListening, Running, Received, EndStates, SendStates,
        DeletionStates, Started, Components
<1>5. \A q \in Requests \ {r} : Same(q)
    BY <1>0 DEF Same
<1> QED
    BY <1>1, <1>2, <1>3, <1>4, <1>5 DEF RequestInv

\* The caller answers.
LEMMA InvAnswer ==
    ASSUME IInv, TypeOK', NEW r \in Requests,
           Answer(r)
    PROVE  RequestInv(r)' /\ \A q \in Requests \ {r} : Same(q)
<1> USE DEF TypeOK, Answer
<1>0. RequestInv(r) /\ TypeOK
    BY DEF IInv
<1>1. Lifecycle(r)'
    BY <1>0 DEF RequestInv, Lifecycle, Joined, ScaleChClosed, Running,
                EndStates, SendStates, DeletionStates, ScaleDownModes
<1>2. Joined(r)'
    BY <1>0, ClusterAssumption
    DEF RequestInv, Lifecycle, Joined, ScaleChClosed, Running, Received,
        EndStates, SendStates, DeletionStates, Started, Components
<1>3. StoppedListening(r)'
    BY <1>0, ClusterAssumption
    DEF RequestInv, Lifecycle, Joined, StoppedListening, ScaleChClosed, Running,
        Received, EndStates, SendStates, DeletionStates, Started, Components
<1>4. Unmasked(r)'
    BY <1>0, ClusterAssumption
    DEF RequestInv, Unmasked, NoErrorSoFar, ScaledWell, ScaleChClosed, Joined,
        Lifecycle, StoppedListening, Running, Received, EndStates, SendStates,
        DeletionStates, Started, Components
<1>5. \A q \in Requests \ {r} : Same(q)
    BY <1>0 DEF Same
<1> QED
    BY <1>1, <1>2, <1>3, <1>4, <1>5 DEF RequestInv

\* The scalers of the Deployments start.
LEMMA InvListDeployments ==
    ASSUME IInv, TypeOK', NEW r \in Requests,
           ListDeployments(r)
    PROVE  RequestInv(r)' /\ \A q \in Requests \ {r} : Same(q)
<1> USE DEF TypeOK, ListDeployments
<1>0. RequestInv(r) /\ TypeOK
    BY DEF IInv
<1>1. Lifecycle(r)'
    BY <1>0 DEF RequestInv, Lifecycle, Joined, ScaleChClosed, Running,
                EndStates, SendStates, DeletionStates, ScaleDownModes
<1>2. Joined(r)'
    BY <1>0, ClusterAssumption
    DEF RequestInv, Lifecycle, Joined, ScaleChClosed, Running, Received,
        EndStates, SendStates, DeletionStates, Started, Components
<1>3. StoppedListening(r)'
    BY <1>0, ClusterAssumption
    DEF RequestInv, Lifecycle, Joined, StoppedListening, ScaleChClosed, Running,
        Received, EndStates, SendStates, DeletionStates, Started, Components
<1>4. Unmasked(r)'
    BY <1>0, ClusterAssumption
    DEF RequestInv, Unmasked, NoErrorSoFar, ScaledWell, ScaleChClosed, Joined,
        Lifecycle, StoppedListening, Running, Received, EndStates, SendStates,
        DeletionStates, Started, Components
<1>5. \A q \in Requests \ {r} : Same(q)
    BY <1>0 DEF Same
<1> QED
    BY <1>1, <1>2, <1>3, <1>4, <1>5 DEF RequestInv

\* The first StatefulSet listing assigns err.
LEMMA InvListStatefulSets ==
    ASSUME IInv, TypeOK', NEW r \in Requests,
           ListStatefulSets(r)
    PROVE  RequestInv(r)' /\ \A q \in Requests \ {r} : Same(q)
<1>0. RequestInv(r) /\ TypeOK
    BY DEF IInv
<1>a. /\ bg[r] = "listStatefulSets"
      /\ bg' = [bg EXCEPT ![r] = "readErr"]
      /\ UNCHANGED <<clusterVars, current, mode, main, scaler, waiter, toDelete,
                     result>>
    BY DEF ListStatefulSets, AssignListErr
<1>b. /\ ~masked'[r] => ~masked[r] /\ (err'[r] = "nil" => err[r] = "nil")
      /\ \A q \in Requests \ {r} : masked'[q] = masked[q] /\ err'[q] = err[q]
    BY <1>0, AssignListErrFacts DEF ListStatefulSets
<1> USE DEF TypeOK
<1>1. Lifecycle(r)'
    BY <1>0, <1>a DEF RequestInv, Lifecycle, Joined, ScaleChClosed, Running,
                EndStates, SendStates, DeletionStates, ScaleDownModes
<1>2. Joined(r)'
    BY <1>0, <1>a, <1>b, ClusterAssumption
    DEF RequestInv, Lifecycle, Joined, ScaleChClosed, Running, Received,
        EndStates, SendStates, DeletionStates, Started, Components
<1>3. StoppedListening(r)'
    BY <1>0, <1>a, <1>b, ClusterAssumption
    DEF RequestInv, Lifecycle, Joined, StoppedListening, ScaleChClosed, Running,
        Received, EndStates, SendStates, DeletionStates, Started, Components
<1>4. Unmasked(r)'
    BY <1>0, <1>a, <1>b, ClusterAssumption
    DEF RequestInv, Unmasked, NoErrorSoFar, ScaledWell, ScaleChClosed, Joined,
        Lifecycle, StoppedListening, Running, Received, EndStates, SendStates,
        DeletionStates, Started, Components
<1>5. \A q \in Requests \ {r} : Same(q)
    BY <1>0, <1>a, <1>b DEF Same
<1> QED
    BY <1>1, <1>2, <1>3, <1>4, <1>5 DEF RequestInv

\* The scalers of the StatefulSets start, or not.
LEMMA InvScaleStatefulSets ==
    ASSUME IInv, TypeOK', NEW r \in Requests,
           ScaleStatefulSets(r)
    PROVE  RequestInv(r)' /\ \A q \in Requests \ {r} : Same(q)
<1> USE DEF TypeOK, ScaleStatefulSets
<1>0. RequestInv(r) /\ TypeOK
    BY DEF IInv
<1>1. Lifecycle(r)'
    BY <1>0 DEF RequestInv, Lifecycle, Joined, ScaleChClosed, Running,
                EndStates, SendStates, DeletionStates, ScaleDownModes
<1>2. Joined(r)'
    BY <1>0, ClusterAssumption
    DEF RequestInv, Lifecycle, Joined, ScaleChClosed, Running, Received,
        EndStates, SendStates, DeletionStates, Started, Components
<1>3. StoppedListening(r)'
    BY <1>0, ClusterAssumption
    DEF RequestInv, Lifecycle, Joined, StoppedListening, ScaleChClosed, Running,
        Received, EndStates, SendStates, DeletionStates, Started, Components
<1>4. Unmasked(r)'
  <2> SUFFICES ASSUME ~masked'[r]
               PROVE  Unmasked(r)'
      BY DEF Unmasked
  <2>0. ~masked[r]
      BY <1>0
  <2>1. err'[r] = "nil" => NoErrorSoFar(r)'
      BY <1>0, <2>0, ClusterAssumption
      DEF RequestInv, Unmasked, NoErrorSoFar, ScaledWell, ScaleChClosed, Joined,
          Lifecycle, StoppedListening, Running, EndStates, DeletionStates, Started,
          Components
  <2>2. main'[r] \in {"recvWait", "storeWait"} => ScaledWell(r)'
      BY <1>0, <2>0, ClusterAssumption
      DEF RequestInv, Unmasked, NoErrorSoFar, ScaledWell, ScaleChClosed, Joined,
          Lifecycle, StoppedListening, Running, EndStates, DeletionStates, Started,
          Components
  <2>3. \A c \in Components : waiter'[r][c] \in EndStates => ScaledWell(r)'
      BY <1>0, <2>0, ClusterAssumption
      DEF RequestInv, Unmasked, NoErrorSoFar, ScaledWell, ScaleChClosed, Joined,
          Lifecycle, StoppedListening, Running, EndStates, DeletionStates, Started,
          Components
  <2>4. result'[r] = "done" =>
          /\ bg'[r] = "closed"
          /\ \A c \in Components : /\ scaler'[r][c] = "delivered"
                                   /\ waiter'[r][c] = "delivered"
      BY <1>0, <2>0, ClusterAssumption
      DEF RequestInv, Unmasked, NoErrorSoFar, ScaledWell, ScaleChClosed, Joined,
          Lifecycle, StoppedListening, Running, EndStates, DeletionStates, Started,
          Components
  <2> QED
      BY <2>1, <2>2, <2>3, <2>4 DEF Unmasked
<1>5. \A q \in Requests \ {r} : Same(q)
    BY <1>0 DEF Same
<1> QED
    BY <1>1, <1>2, <1>3, <1>4, <1>5 DEF RequestInv

\* The first channel is closed and the waiters of the Deployments start.
LEMMA InvJoinScalers ==
    ASSUME IInv, TypeOK', NEW r \in Requests,
           JoinScalers(r)
    PROVE  RequestInv(r)' /\ \A q \in Requests \ {r} : Same(q)
<1> USE DEF TypeOK, JoinScalers
<1>0. RequestInv(r) /\ TypeOK
    BY DEF IInv
<1>1. Lifecycle(r)'
    BY <1>0 DEF RequestInv, Lifecycle, Joined, ScaleChClosed, Running,
                EndStates, SendStates, DeletionStates, ScaleDownModes
<1>2. Joined(r)'
    BY <1>0, ClusterAssumption
    DEF RequestInv, Lifecycle, Joined, ScaleChClosed, Running, Received,
        EndStates, SendStates, DeletionStates, Started, Components
<1>3. StoppedListening(r)'
    BY <1>0, ClusterAssumption
    DEF RequestInv, Lifecycle, Joined, StoppedListening, ScaleChClosed, Running,
        Received, EndStates, SendStates, DeletionStates, Started, Components
<1>4. Unmasked(r)'
    BY <1>0, ClusterAssumption
    DEF RequestInv, Unmasked, NoErrorSoFar, ScaledWell, ScaleChClosed, Joined,
        Lifecycle, StoppedListening, Running, Received, EndStates, SendStates,
        DeletionStates, Started, Components
<1>5. \A q \in Requests \ {r} : Same(q)
    BY <1>0 DEF Same
<1> QED
    BY <1>1, <1>2, <1>3, <1>4, <1>5 DEF RequestInv

\* The second StatefulSet listing assigns err.
LEMMA InvListStatefulSetsAgain ==
    ASSUME IInv, TypeOK', NEW r \in Requests,
           ListStatefulSetsAgain(r)
    PROVE  RequestInv(r)' /\ \A q \in Requests \ {r} : Same(q)
<1>0. RequestInv(r) /\ TypeOK
    BY DEF IInv
<1>a. /\ bg[r] = "listAgain"
      /\ bg' = [bg EXCEPT ![r] = "readErrAgain"]
      /\ UNCHANGED <<clusterVars, current, mode, main, scaler, waiter, toDelete,
                     result>>
    BY DEF ListStatefulSetsAgain, AssignListErr
<1>b. /\ ~masked'[r] => ~masked[r] /\ (err'[r] = "nil" => err[r] = "nil")
      /\ \A q \in Requests \ {r} : masked'[q] = masked[q] /\ err'[q] = err[q]
    BY <1>0, AssignListErrFacts DEF ListStatefulSetsAgain
<1> USE DEF TypeOK
<1>1. Lifecycle(r)'
    BY <1>0, <1>a DEF RequestInv, Lifecycle, Joined, ScaleChClosed, Running,
                EndStates, SendStates, DeletionStates, ScaleDownModes
<1>2. Joined(r)'
    BY <1>0, <1>a, <1>b, ClusterAssumption
    DEF RequestInv, Lifecycle, Joined, ScaleChClosed, Running, Received,
        EndStates, SendStates, DeletionStates, Started, Components
<1>3. StoppedListening(r)'
    BY <1>0, <1>a, <1>b, ClusterAssumption
    DEF RequestInv, Lifecycle, Joined, StoppedListening, ScaleChClosed, Running,
        Received, EndStates, SendStates, DeletionStates, Started, Components
<1>4. Unmasked(r)'
    BY <1>0, <1>a, <1>b, ClusterAssumption
    DEF RequestInv, Unmasked, NoErrorSoFar, ScaledWell, ScaleChClosed, Joined,
        Lifecycle, StoppedListening, Running, Received, EndStates, SendStates,
        DeletionStates, Started, Components
<1>5. \A q \in Requests \ {r} : Same(q)
    BY <1>0, <1>a, <1>b DEF Same
<1> QED
    BY <1>1, <1>2, <1>3, <1>4, <1>5 DEF RequestInv

\* The waiters of the StatefulSets start, or not.
LEMMA InvWaitForStatefulSets ==
    ASSUME IInv, TypeOK', NEW r \in Requests,
           WaitForStatefulSets(r)
    PROVE  RequestInv(r)' /\ \A q \in Requests \ {r} : Same(q)
<1> USE DEF TypeOK, WaitForStatefulSets
<1>0. RequestInv(r) /\ TypeOK
    BY DEF IInv
<1>1. Lifecycle(r)'
    BY <1>0 DEF RequestInv, Lifecycle, Joined, ScaleChClosed, Running,
                EndStates, SendStates, DeletionStates, ScaleDownModes
<1>2. Joined(r)'
    BY <1>0, ClusterAssumption
    DEF RequestInv, Lifecycle, Joined, ScaleChClosed, Running, Received,
        EndStates, SendStates, DeletionStates, Started, Components
<1>3. StoppedListening(r)'
    BY <1>0, ClusterAssumption
    DEF RequestInv, Lifecycle, Joined, StoppedListening, ScaleChClosed, Running,
        Received, EndStates, SendStates, DeletionStates, Started, Components
<1>4. Unmasked(r)'
    BY <1>0, ClusterAssumption
    DEF RequestInv, Unmasked, NoErrorSoFar, ScaledWell, ScaleChClosed, Joined,
        Lifecycle, StoppedListening, Running, Received, EndStates, SendStates,
        DeletionStates, Started, Components
<1>5. \A q \in Requests \ {r} : Same(q)
    BY <1>0 DEF Same
<1> QED
    BY <1>1, <1>2, <1>3, <1>4, <1>5 DEF RequestInv

\* All waiters have been received from.
LEMMA InvJoinWaiters ==
    ASSUME IInv, TypeOK', NEW r \in Requests,
           JoinWaiters(r)
    PROVE  RequestInv(r)' /\ \A q \in Requests \ {r} : Same(q)
<1> USE DEF TypeOK, JoinWaiters
<1>0. RequestInv(r) /\ TypeOK
    BY DEF IInv
<1>1. Lifecycle(r)'
    BY <1>0 DEF RequestInv, Lifecycle, Joined, ScaleChClosed, Running,
                EndStates, SendStates, DeletionStates, ScaleDownModes
<1>2. Joined(r)'
    BY <1>0, ClusterAssumption
    DEF RequestInv, Lifecycle, Joined, ScaleChClosed, Running, Received,
        EndStates, SendStates, DeletionStates, Started, Components
<1>3. StoppedListening(r)'
    BY <1>0, ClusterAssumption
    DEF RequestInv, Lifecycle, Joined, StoppedListening, ScaleChClosed, Running,
        Received, EndStates, SendStates, DeletionStates, Started, Components
<1>4. Unmasked(r)'
    BY <1>0, ClusterAssumption
    DEF RequestInv, Unmasked, NoErrorSoFar, ScaledWell, ScaleChClosed, Joined,
        Lifecycle, StoppedListening, Running, Received, EndStates, SendStates,
        DeletionStates, Started, Components
<1>5. \A q \in Requests \ {r} : Same(q)
    BY <1>0 DEF Same
<1> QED
    BY <1>1, <1>2, <1>3, <1>4, <1>5 DEF RequestInv

\* The worker pods are listed.
LEMMA InvListWorkers ==
    ASSUME IInv, TypeOK', NEW r \in Requests,
           ListWorkers(r)
    PROVE  RequestInv(r)' /\ \A q \in Requests \ {r} : Same(q)
<1> USE DEF TypeOK, ListWorkers
<1>0. RequestInv(r) /\ TypeOK
    BY DEF IInv
<1>1. Lifecycle(r)'
    BY <1>0 DEF RequestInv, Lifecycle, Joined, ScaleChClosed, Running,
                EndStates, SendStates, DeletionStates, ScaleDownModes
<1>2. Joined(r)'
    BY <1>0, ClusterAssumption
    DEF RequestInv, Lifecycle, Joined, ScaleChClosed, Running, Received,
        EndStates, SendStates, DeletionStates, Started, Components
<1>3. StoppedListening(r)'
    BY <1>0, ClusterAssumption
    DEF RequestInv, Lifecycle, Joined, StoppedListening, ScaleChClosed, Running,
        Received, EndStates, SendStates, DeletionStates, Started, Components
<1>4. Unmasked(r)'
    BY <1>0, ClusterAssumption
    DEF RequestInv, Unmasked, NoErrorSoFar, ScaledWell, ScaleChClosed, Joined,
        Lifecycle, StoppedListening, Running, Received, EndStates, SendStates,
        DeletionStates, Started, Components
<1>5. \A q \in Requests \ {r} : Same(q)
    BY <1>0 DEF Same
<1> QED
    BY <1>1, <1>2, <1>3, <1>4, <1>5 DEF RequestInv

\* One worker pod is deleted, or not.
LEMMA InvDeleteWorker ==
    ASSUME IInv, TypeOK', NEW r \in Requests, NEW p \in WorkerPods,
           DeleteWorker(r, p)
    PROVE  RequestInv(r)' /\ \A q \in Requests \ {r} : Same(q)
<1> USE DEF TypeOK, DeleteWorker
<1>0. RequestInv(r) /\ TypeOK
    BY DEF IInv
<1>1. Lifecycle(r)'
    BY <1>0 DEF RequestInv, Lifecycle, Joined, ScaleChClosed, Running,
                EndStates, SendStates, DeletionStates, ScaleDownModes
<1>2. Joined(r)'
    BY <1>0, ClusterAssumption
    DEF RequestInv, Lifecycle, Joined, ScaleChClosed, Running, Received,
        EndStates, SendStates, DeletionStates, Started, Components
<1>3. StoppedListening(r)'
    BY <1>0, ClusterAssumption
    DEF RequestInv, Lifecycle, Joined, StoppedListening, ScaleChClosed, Running,
        Received, EndStates, SendStates, DeletionStates, Started, Components
<1>4. Unmasked(r)'
    BY <1>0, ClusterAssumption
    DEF RequestInv, Unmasked, NoErrorSoFar, ScaledWell, ScaleChClosed, Joined,
        Lifecycle, StoppedListening, Running, Received, EndStates, SendStates,
        DeletionStates, Started, Components
<1>5. \A q \in Requests \ {r} : Same(q)
    BY <1>0 DEF Same
<1> QED
    BY <1>1, <1>2, <1>3, <1>4, <1>5 DEF RequestInv

\* The second channel is closed.
LEMMA InvWorkersDeleted ==
    ASSUME IInv, TypeOK', NEW r \in Requests,
           WorkersDeleted(r)
    PROVE  RequestInv(r)' /\ \A q \in Requests \ {r} : Same(q)
<1> USE DEF TypeOK, WorkersDeleted
<1>0. RequestInv(r) /\ TypeOK
    BY DEF IInv
<1>1. Lifecycle(r)'
    BY <1>0 DEF RequestInv, Lifecycle, Joined, ScaleChClosed, Running,
                EndStates, SendStates, DeletionStates, ScaleDownModes
<1>2. Joined(r)'
    BY <1>0, ClusterAssumption
    DEF RequestInv, Lifecycle, Joined, ScaleChClosed, Running, Received,
        EndStates, SendStates, DeletionStates, Started, Components
<1>3. StoppedListening(r)'
    BY <1>0, ClusterAssumption
    DEF RequestInv, Lifecycle, Joined, StoppedListening, ScaleChClosed, Running,
        Received, EndStates, SendStates, DeletionStates, Started, Components
<1>4. Unmasked(r)'
    BY <1>0, ClusterAssumption
    DEF RequestInv, Unmasked, NoErrorSoFar, ScaledWell, ScaleChClosed, Joined,
        Lifecycle, StoppedListening, Running, Received, EndStates, SendStates,
        DeletionStates, Started, Components
<1>5. \A q \in Requests \ {r} : Same(q)
    BY <1>0 DEF Same
<1> QED
    BY <1>1, <1>2, <1>3, <1>4, <1>5 DEF RequestInv

\* A scaler finds its object.
LEMMA InvGetObject ==
    ASSUME IInv, TypeOK', NEW r \in Requests, NEW c \in Components,
           GetObject(r, c)
    PROVE  RequestInv(r)' /\ \A q \in Requests \ {r} : Same(q)
<1> USE DEF TypeOK, GetObject, SetScaler
<1>0. RequestInv(r) /\ TypeOK
    BY DEF IInv
<1>1. Lifecycle(r)'
    BY <1>0 DEF RequestInv, Lifecycle, Joined, ScaleChClosed, Running,
                EndStates, SendStates, DeletionStates, ScaleDownModes
<1>2. Joined(r)'
    BY <1>0, ClusterAssumption
    DEF RequestInv, Lifecycle, Joined, ScaleChClosed, Running, Received,
        EndStates, SendStates, DeletionStates, Started, Components
<1>3. StoppedListening(r)'
    BY <1>0, ClusterAssumption
    DEF RequestInv, Lifecycle, Joined, StoppedListening, ScaleChClosed, Running,
        Received, EndStates, SendStates, DeletionStates, Started, Components
<1>4. Unmasked(r)'
    BY <1>0, ClusterAssumption
    DEF RequestInv, Unmasked, NoErrorSoFar, ScaledWell, ScaleChClosed, Joined,
        Lifecycle, StoppedListening, Running, Received, EndStates, SendStates,
        DeletionStates, Started, Components
<1>5. \A q \in Requests \ {r} : Same(q)
    BY <1>0 DEF Same
<1> QED
    BY <1>1, <1>2, <1>3, <1>4, <1>5 DEF RequestInv

\* A scaler updates its object.
LEMMA InvUpdateReplicas ==
    ASSUME IInv, TypeOK', NEW r \in Requests, NEW c \in Components,
           UpdateReplicas(r, c)
    PROVE  RequestInv(r)' /\ \A q \in Requests \ {r} : Same(q)
<1> USE DEF TypeOK, UpdateReplicas, SetScaler
<1>0. RequestInv(r) /\ TypeOK
    BY DEF IInv
<1>1. Lifecycle(r)'
    BY <1>0 DEF RequestInv, Lifecycle, Joined, ScaleChClosed, Running,
                EndStates, SendStates, DeletionStates, ScaleDownModes
<1>2. Joined(r)'
    BY <1>0, ClusterAssumption
    DEF RequestInv, Lifecycle, Joined, ScaleChClosed, Running, Received,
        EndStates, SendStates, DeletionStates, Started, Components
<1>3. StoppedListening(r)'
    BY <1>0, ClusterAssumption
    DEF RequestInv, Lifecycle, Joined, StoppedListening, ScaleChClosed, Running,
        Received, EndStates, SendStates, DeletionStates, Started, Components
<1>4. Unmasked(r)'
    BY <1>0, ClusterAssumption
    DEF RequestInv, Unmasked, NoErrorSoFar, ScaledWell, ScaleChClosed, Joined,
        Lifecycle, StoppedListening, Running, Received, EndStates, SendStates,
        DeletionStates, Started, Components
<1>5. \A q \in Requests \ {r} : Same(q)
    BY <1>0 DEF Same
<1> QED
    BY <1>1, <1>2, <1>3, <1>4, <1>5 DEF RequestInv

\* A waiter stops polling.
LEMMA InvPoll ==
    ASSUME IInv, TypeOK', NEW r \in Requests, NEW c \in Components,
           Poll(r, c)
    PROVE  RequestInv(r)' /\ \A q \in Requests \ {r} : Same(q)
<1> USE DEF TypeOK, Poll, SetWaiter
<1>0. RequestInv(r) /\ TypeOK
    BY DEF IInv
<1>1. Lifecycle(r)'
    BY <1>0 DEF RequestInv, Lifecycle, Joined, ScaleChClosed, Running,
                EndStates, SendStates, DeletionStates, ScaleDownModes
<1>2. Joined(r)'
    BY <1>0, ClusterAssumption
    DEF RequestInv, Lifecycle, Joined, ScaleChClosed, Running, Received,
        EndStates, SendStates, DeletionStates, Started, Components
<1>3. StoppedListening(r)'
    BY <1>0, ClusterAssumption
    DEF RequestInv, Lifecycle, Joined, StoppedListening, ScaleChClosed, Running,
        Received, EndStates, SendStates, DeletionStates, Started, Components
<1>4. Unmasked(r)'
    BY <1>0, ClusterAssumption
    DEF RequestInv, Unmasked, NoErrorSoFar, ScaledWell, ScaleChClosed, Joined,
        Lifecycle, StoppedListening, Running, Received, EndStates, SendStates,
        DeletionStates, Started, Components
<1>5. \A q \in Requests \ {r} : Same(q)
    BY <1>0 DEF Same
<1> QED
    BY <1>1, <1>2, <1>3, <1>4, <1>5 DEF RequestInv

\* A new request starts from a clean slate.
LEMMA InvRequest ==
    ASSUME IInv, TypeOK', NEW m \in Modes, Request(m)
    PROVE  \A q \in Requests : RequestInv(q)'
<1>0. current \in Nat /\ current + 1 \in Requests /\ current' = current + 1
    BY SiteManagerAssumption DEF IInv, TypeOK, Request
<1> PICK r \in Requests : r = current + 1
    BY <1>0
<1>1. r = current + 1 /\ current' = r /\ current \in Nat
    BY <1>0
<1>2. RequestInv(r) /\ TypeOK
    BY <1>1 DEF IInv
<1>3. main[r] = "idle" /\ bg[r] = "off" /\ result[r] = "none"
    BY <1>1, <1>2 DEF RequestInv, Lifecycle, TypeOK
<1>4. ASSUME NEW q \in Requests \ {r} PROVE RequestInv(q)'
  <2>1. Same(q)
      BY <1>1, <1>2, <1>4 DEF Request, Same, TypeOK
  <2> QED
      BY <2>1, <1>1, <1>4, Frame DEF IInv
<1>5. CASE m \in ScaleDownModes \cup {"active"}
  <2>1. /\ mode'[r] = m /\ main'[r] = "recvScale" /\ bg'[r] = "listDeployments"
        /\ scaler' = scaler /\ waiter' = waiter /\ err' = err /\ masked' = masked
        /\ toDelete' = toDelete /\ result' = result
      BY <1>1, <1>2, <1>5 DEF Request, TypeOK
  <2>2. Lifecycle(r)'
      BY <1>1, <1>2, <1>3, <1>5, <2>1 DEF RequestInv, Lifecycle, DeletionStates
  <2>3. Joined(r)'
      BY <1>2, <1>3, <2>1
      DEF RequestInv, Joined, ScaleChClosed, DeletionStates
  <2>4. StoppedListening(r)'
      BY <1>2, <1>3, <2>1
      DEF RequestInv, Joined, StoppedListening, ScaleChClosed
  <2>5. Unmasked(r)'
      BY <1>2, <1>3, <2>1
      DEF RequestInv, Joined, Unmasked, NoErrorSoFar, ScaledWell, ScaleChClosed,
          DeletionStates, EndStates
  <2> QED
      BY <2>2, <2>3, <2>4, <2>5, <1>4 DEF RequestInv
<1>6. CASE m \notin ScaleDownModes \cup {"active"}
  <2>1. /\ main'[r] = "returned" /\ bg' = bg
        /\ scaler' = scaler /\ waiter' = waiter /\ masked' = masked
        /\ toDelete' = toDelete /\ result'[r] = "failed" /\ err'[r] = "error"
      BY <1>1, <1>2, <1>6 DEF Request, TypeOK
  <2>2. Lifecycle(r)'
      BY <1>1, <1>2, <1>3, <2>1 DEF RequestInv, Lifecycle, DeletionStates
  <2>3. Joined(r)'
      BY <1>2, <2>1 DEF RequestInv, Joined, ScaleChClosed
  <2>4. StoppedListening(r)'
      BY <1>2, <1>3, <2>1
      DEF RequestInv, Joined, StoppedListening, ScaleChClosed
  <2>5. Unmasked(r)'
      BY <1>2, <1>3, <2>1
      DEF RequestInv, Joined, Unmasked, ScaledWell, ScaleChClosed, EndStates
  <2> QED
      BY <2>2, <2>3, <2>4, <2>5, <1>4 DEF RequestInv
<1> QED
    BY <1>5, <1>6

\* The invariant is inductive.
LEMMA InvStep == IInv /\ [Next]_vars => IInv'
<1> SUFFICES ASSUME IInv, [Next]_vars PROVE IInv'
    OBVIOUS
<1>1. TypeOK'
    BY TypeStep DEF IInv
<1>2. ASSUME UNCHANGED managerVars PROVE \A q \in Requests : RequestInv(q)'
  <2>1. \A q \in Requests : Same(q)
      BY <1>2 DEF managerVars, Same
  <2>2. current' = current /\ current \in Nat
      BY <1>2 DEF managerVars, IInv, TypeOK
  <2> QED
      BY <2>1, <2>2, Frame DEF IInv
<1>3. ASSUME NEW r \in Requests, current' = current,
             RequestInv(r)' /\ \A q \in Requests \ {r} : Same(q)
      PROVE  \A q \in Requests : RequestInv(q)'
  <2>1. current \in Nat
      BY DEF IInv, TypeOK
  <2>2. ASSUME NEW q \in Requests \ {r} PROVE RequestInv(q)'
      BY <1>3, <2>1, <2>2, Frame DEF IInv
  <2> QED
      BY <1>3, <2>2
<1>4. ASSUME NEW r \in Requests, Main(r) PROVE \A q \in Requests : RequestInv(q)'
  <2>1. current' = current
      BY <1>4 DEF Main, ReceiveScale, ReceiveWait, ReceiveWorkersErr, ScaleLoopEnds,
                  StoreScaleErr, CheckScaleErr, WaitLoopEnds, StoreWaitErr, Answer
  <2>2. RequestInv(r)' /\ \A q \in Requests \ {r} : Same(q)
      BY <1>1, <1>4, InvReceiveScale, InvReceiveWait, InvReceiveWorkersErr,
         InvScaleLoopEnds, InvStoreScaleErr, InvCheckScaleErr, InvWaitLoopEnds,
         InvStoreWaitErr, InvAnswer DEF Main
  <2> QED
      BY <1>3, <2>1, <2>2
<1>5. ASSUME NEW r \in Requests, Background(r)
      PROVE  \A q \in Requests : RequestInv(q)'
  <2>1. current' = current
      BY <1>5 DEF Background, ListDeployments, ListStatefulSets, ScaleStatefulSets,
                  JoinScalers, ListStatefulSetsAgain, WaitForStatefulSets, JoinWaiters,
                  ListWorkers, DeleteWorker, WorkersDeleted, AssignListErr
  <2>2. RequestInv(r)' /\ \A q \in Requests \ {r} : Same(q)
      BY <1>1, <1>5, InvListDeployments, InvListStatefulSets, InvScaleStatefulSets,
         InvJoinScalers, InvListStatefulSetsAgain, InvWaitForStatefulSets,
         InvJoinWaiters, InvListWorkers, InvDeleteWorker, InvWorkersDeleted
      DEF Background
  <2> QED
      BY <1>3, <2>1, <2>2
<1>6. ASSUME NEW r \in Requests, NEW c \in Components,
             GetObject(r, c) \/ UpdateReplicas(r, c) \/ Poll(r, c)
      PROVE  \A q \in Requests : RequestInv(q)'
  <2>1. current' = current
      BY <1>6 DEF GetObject, UpdateReplicas, Poll
  <2>2. RequestInv(r)' /\ \A q \in Requests \ {r} : Same(q)
      BY <1>1, <1>6, InvGetObject, InvUpdateReplicas, InvPoll
  <2> QED
      BY <1>3, <2>1, <2>2
<1>7. ASSUME NEW m \in Modes, Request(m) PROVE \A q \in Requests : RequestInv(q)'
    BY <1>1, <1>7, InvRequest
<1>8. CASE UNCHANGED vars
    BY <1>1, <1>2, <1>8 DEF vars, IInv
<1>9. CASE Next
    BY <1>1, <1>2, <1>4, <1>5, <1>6, <1>7, <1>9 DEF Next, IInv
<1> QED
    BY <1>8, <1>9

(***************************************************************************)
(* The inductive invariant holds in every reachable state.                 *)
(***************************************************************************)
THEOREM Invariance == Spec => []IInv
BY InvInit, InvStep, PTL DEF Spec

(***************************************************************************)
(* The WaitGroups protect the channels: ChangeMode and its goroutines      *)
(* never send on a channel that has been closed.                           *)
(***************************************************************************)
THEOREM ChannelSafety == Spec => []NoSendOnClosedChannel
<1>1. IInv => NoSendOnClosedChannel
    BY DEF IInv, RequestInv, Joined, NoSendOnClosedChannel, WaitChClosed
<1> QED
    BY <1>1, Invariance, PTL

(***************************************************************************)
(* done is an honest answer of ChangeMode as long as no StatefulSet        *)
(* listing has overwritten an error in err.                                *)
(***************************************************************************)
THEOREM DoneIsHonest == Spec => []HonestDone
<1>1. IInv => HonestDone
    BY DEF IInv, RequestInv, Lifecycle, Unmasked, HonestDone
<1> QED
    BY <1>1, Invariance, PTL

(***************************************************************************)
(* shutDownKuberWorkers runs last, only for a scale down that was told to  *)
(* the whole cluster, and after every component has been waited for, the   *)
(* StatefulSets excepted when they could not be listed.                    *)
(***************************************************************************)
THEOREM WorkersGoLast == Spec => []WorkersDeletedLast
<1>1. IInv => WorkersDeletedLast
  <2> SUFFICES ASSUME IInv, NEW r \in Requests, bg[r] \in DeletionStates
               PROVE  /\ mode[r] \in ScaleDownModes
                      /\ \A c \in Components :
                           \/ waiter[r][c] \in EndStates
                           \/ c \in StatefulSets /\ waiter[r][c] = "off" /\ err[r] = "error"
                      /\ \A c, d \in Components :
                           waiter[r][c] = "failed" /\ waiter[r][d] = "failed" => c = d
                      /\ ~masked[r] => \A c \in Components :
                                           scaler[r][c] = "delivered"
      BY DEF WorkersDeletedLast
  <2>1. PICK d \in Deployments : TRUE
      BY ClusterAssumption
  <2>2. d \in Components /\ ScaleChClosed(r)
      BY <2>1 DEF Components, ScaleChClosed, DeletionStates
  <2>3. waiter[r][d] \in EndStates
      BY <2>1, <2>2 DEF IInv, RequestInv, Joined, Running
  <2>4. ASSUME NEW c \in Components
        PROVE  \/ waiter[r][c] \in EndStates
               \/ c \in StatefulSets /\ waiter[r][c] = "off" /\ err[r] = "error"
      BY <2>2 DEF IInv, RequestInv, Joined, Running, Components
  <2> QED
      BY <2>2, <2>3, <2>4
      DEF IInv, RequestInv, Lifecycle, StoppedListening, Unmasked, ScaledWell
<1> QED
    BY <1>1, Invariance, PTL

(***************************************************************************)
(* Scalers that outlive their request are the consequence of a failed      *)
(* update of another component.                                            *)
(***************************************************************************)
THEOREM LeftBehind == Spec => []LeftBehindOnlyAfterFailure
<1>1. IInv => LeftBehindOnlyAfterFailure
    BY DEF IInv, RequestInv, Joined, StoppedListening, Running,
           LeftBehindOnlyAfterFailure
<1> QED
    BY <1>1, Invariance, PTL

------------------------------------------------------------------------------
(* How a request gets its answer: what EveryRequestAnswered rests on,        *)
(* without fairness.                                                         *)

Waiting(r) == main[r] \notin {"idle", "returned"}

\* The caller of request r, its background goroutine or one of its goroutines
\* per component can take a step.
MainCanGoOn(r) ==
    \/ main[r] \in {"storeScale", "checkScale", "storeWait", "checkWait"}
    \/ /\ main[r] = "recvScale"
       /\ ScaleChClosed(r) \/ \E c \in Components : scaler[r][c] \in SendStates
    \/ /\ main[r] = "recvWait"
       /\ \/ WaitChClosed(r)
          \/ \E c \in Components : waiter[r][c] \in SendStates
          \/ bg[r] \in {"sendDeleteErr", "sendLastDeleteErr", "sendWorkersErr"}
BackgroundCanGoOn(r) ==
    \/ bg[r] \in {"listDeployments", "listStatefulSets", "readErr", "listAgain",
                  "readErrAgain", "listWorkers", "deleteWorkers"}
    \/ bg[r] = "joinScalers" /\ \A c \in Components : ~Running(scaler[r][c])
    \/ bg[r] = "joinWaiters" /\ \A c \in Components : ~Running(waiter[r][c])
ComponentCanGoOn(r) ==
    \E c \in Components : scaler[r][c] \in {"get", "update"} \/ waiter[r][c] = "poll"
CanGoOn(r) == MainCanGoOn(r) \/ BackgroundCanGoOn(r) \/ ComponentCanGoOn(r)

\* The Deployments could not be listed: both channels stay open.
GaveUp(r) == bg[r] = "gaveUp"
\* The caller listens to the second channel while scalers still send on the
\* first: the error that ended the first loop was masked.
Misled(r) == masked[r] /\ main[r] = "recvWait" /\ bg[r] = "joinScalers"

\* A goroutine that runs can take a step of its own or has something to send.
LEMMA RunsOrSends ==
    ASSUME TypeOK, NEW r \in Requests, NEW c \in Components
    PROVE  /\ Running(scaler[r][c]) => scaler[r][c] \in {"get", "update"} \cup SendStates
           /\ Running(waiter[r][c]) => waiter[r][c] \in {"poll"} \cup SendStates
BY DEF TypeOK, Running, ScalerStates, WaiterStates

\* While the scalers are not joined, a caller that listens to the other
\* channel has been misled.
LEMMA ListensToScalers ==
    ASSUME IInv, NEW r \in Requests, bg[r] = "joinScalers", main[r] = "recvWait"
    PROVE  Misled(r)
BY DEF IInv, RequestInv, Unmasked, ScaledWell, ScaleChClosed, Misled

\* Somebody can go on as long as the request waits, save in the two cases.
LEMMA GoesOn ==
    ASSUME IInv, NEW r \in Requests, Waiting(r)
    PROVE  CanGoOn(r) \/ GaveUp(r) \/ Misled(r)
<1>0. /\ TypeOK /\ Lifecycle(r)
      /\ main[r] \in MainStates \ {"idle", "returned"} /\ bg[r] \in BgStates \ {"off"}
    BY DEF IInv, TypeOK, RequestInv, Lifecycle, Waiting
<1>1. CASE main[r] \in {"storeScale", "checkScale", "storeWait", "checkWait"}
    BY <1>1 DEF CanGoOn, MainCanGoOn
<1>2. CASE bg[r] \in {"listDeployments", "listStatefulSets", "readErr", "listAgain",
                      "readErrAgain", "listWorkers", "deleteWorkers"}
    BY <1>2 DEF CanGoOn, BackgroundCanGoOn
<1>3. CASE main[r] = "recvScale" /\ ScaleChClosed(r)
    BY <1>3 DEF CanGoOn, MainCanGoOn
<1>4. CASE bg[r] = "joinScalers" /\ main[r] = "recvScale"
  <2>1. CASE \A c \in Components : ~Running(scaler[r][c])
      BY <1>4, <2>1 DEF CanGoOn, BackgroundCanGoOn
  <2>2. ASSUME NEW c \in Components, Running(scaler[r][c])
        PROVE  CanGoOn(r)
      BY <1>0, <1>4, <2>2, RunsOrSends DEF CanGoOn, MainCanGoOn, ComponentCanGoOn
  <2> QED
      BY <2>1, <2>2
<1>5. CASE bg[r] = "joinScalers" /\ main[r] = "recvWait"
    BY <1>5, ListensToScalers
<1>6. CASE bg[r] = "joinWaiters" /\ main[r] = "recvWait"
  <2>1. CASE \A c \in Components : ~Running(waiter[r][c])
      BY <1>6, <2>1 DEF CanGoOn, BackgroundCanGoOn
  <2>2. ASSUME NEW c \in Components, Running(waiter[r][c])
        PROVE  CanGoOn(r)
      BY <1>0, <1>6, <2>2, RunsOrSends DEF CanGoOn, MainCanGoOn, ComponentCanGoOn
  <2> QED
      BY <2>1, <2>2
<1>7. CASE /\ bg[r] \in {"sendDeleteErr", "sendLastDeleteErr", "sendWorkersErr", "closed"}
           /\ main[r] = "recvWait"
    BY <1>7 DEF CanGoOn, MainCanGoOn, WaitChClosed
<1> QED
    BY <1>0, <1>1, <1>2, <1>3, <1>4, <1>5, <1>6, <1>7
    DEF MainStates, BgStates, ScaleChClosed, GaveUp

(***************************************************************************)
(* A caller of ChangeMode that waits is waiting for a goroutine that can   *)
(* go on, unless the Deployments could not be listed or a StatefulSet      *)
(* listing has hidden the error of a scaler from it.  There is no third    *)
(* way for a request to hang.                                              *)
(***************************************************************************)
THEOREM HangsOnlyWhen ==
    Spec => [](\A r \in Requests : Waiting(r) => CanGoOn(r) \/ GaveUp(r) \/ Misled(r))
<1>1. IInv => \A r \in Requests : Waiting(r) => CanGoOn(r) \/ GaveUp(r) \/ Misled(r)
    BY GoesOn
<1> QED
    BY <1>1, Invariance, PTL

(***************************************************************************)
(* The first case is for good: when the Deployments could not be listed,   *)
(* no later step closes a channel or lets the caller return.               *)
(***************************************************************************)
THEOREM GaveUpForGood ==
    Spec => [][\A r \in Requests :
                  GaveUp(r) => GaveUp(r)' /\ main[r] = "recvScale" /\ main'[r] = main[r]]_vars
<1>1. IInv /\ [Next]_vars =>
        [\A r \in Requests :
            GaveUp(r) => GaveUp(r)' /\ main[r] = "recvScale" /\ main'[r] = main[r]]_vars
  <2> SUFFICES ASSUME IInv, [Next]_vars, NEW r \in Requests, GaveUp(r)
               PROVE  GaveUp(r)' /\ main[r] = "recvScale" /\ main'[r] = main[r]
      OBVIOUS
  <2>1. /\ main[r] = "recvScale" /\ bg[r] = "gaveUp" /\ ~ScaleChClosed(r)
        /\ \A c \in Components : scaler[r][c] = "off"
        /\ TypeOK /\ IInv'
      BY InvStep DEF IInv, RequestInv, Lifecycle, Joined, GaveUp, ScaleChClosed
  <2>2. TypeOK'
      BY <2>1 DEF IInv
  <2>3. ASSUME Same(r) PROVE GaveUp(r)' /\ main'[r] = main[r]
      BY <2>1, <2>3 DEF Same, GaveUp
  <2>4. ASSUME NEW q \in Requests, Main(q) PROVE q # r /\ Same(r)
    <3>1. q # r
        BY <2>1, <2>4 DEF Main, ReceiveScale, SendStates, ReceiveWait, ReceiveWorkersErr,
               ScaleLoopEnds, StoreScaleErr, CheckScaleErr, WaitLoopEnds, StoreWaitErr, Answer
    <3> QED
        BY <2>2, <2>4, <3>1, InvReceiveScale, InvReceiveWait, InvReceiveWorkersErr,
           InvScaleLoopEnds, InvStoreScaleErr, InvCheckScaleErr, InvWaitLoopEnds,
           InvStoreWaitErr, InvAnswer DEF Main
  <2>5. ASSUME NEW q \in Requests, Background(q) PROVE q # r /\ Same(r)
    <3>1. q # r
        BY <2>1, <2>5 DEF Background, ListDeployments, ListStatefulSets, ScaleStatefulSets,
               JoinScalers, ListStatefulSetsAgain, WaitForStatefulSets, JoinWaiters,
               ListWorkers, DeleteWorker, WorkersDeleted
    <3> QED
        BY <2>2, <2>5, <3>1, InvListDeployments, InvListStatefulSets, InvScaleStatefulSets,
           InvJoinScalers, InvListStatefulSetsAgain, InvWaitForStatefulSets,
           InvJoinWaiters, InvListWorkers, InvDeleteWorker, InvWorkersDeleted DEF Background
  <2>6. ASSUME NEW q \in Requests, NEW c \in Components,
               GetObject(q, c) \/ UpdateReplicas(q, c) \/ Poll(q, c)
        PROVE  GaveUp(r)' /\ main'[r] = main[r]
      BY <2>1, <2>6 DEF GetObject, UpdateReplicas, Poll, GaveUp
  <2>7. ASSUME NEW m \in Modes, Request(m) PROVE GaveUp(r)' /\ main'[r] = main[r]
    <3>1. current \in Nat /\ current' = current + 1
        BY <2>1, <2>7 DEF Request, TypeOK
    <3>2. r # current'
        BY <2>1, <3>1 DEF IInv, RequestInv, Lifecycle
    <3> QED
        BY <2>1, <2>7, <3>2 DEF Request, GaveUp, TypeOK
  <2>8. CASE (ClusterNext /\ UNCHANGED managerVars) \/ UNCHANGED vars
      BY <2>1, <2>8 DEF managerVars, vars, GaveUp
  <2> QED
      BY <2>1, <2>3, <2>4, <2>5, <2>6, <2>7, <2>8 DEF Next
<1> QED
    BY <1>1, InvInit, InvStep, PTL DEF Spec

------------------------------------------------------------------------------
(* A request is a bounded amount of work.                                    *)

\* How many steps each goroutine has at most before it.
MainLeft(r) ==
    CASE main[r] = "idle"       -> 7
      [] main[r] = "recvScale"  -> 6
      [] main[r] = "storeScale" -> 5
      [] main[r] = "checkScale" -> 4
      [] main[r] = "recvWait"   -> 3
      [] main[r] = "storeWait"  -> 2
      [] main[r] = "checkWait"  -> 1
      [] OTHER                  -> 0
BackgroundLeft(r) ==
    CASE bg[r] = "off"               -> 12
      [] bg[r] = "listDeployments"   -> 11
      [] bg[r] = "listStatefulSets"  -> 10
      [] bg[r] = "readErr"           -> 9
      [] bg[r] = "joinScalers"       -> 8
      [] bg[r] = "listAgain"         -> 7
      [] bg[r] = "readErrAgain"      -> 6
      [] bg[r] = "joinWaiters"       -> 5
      [] bg[r] = "listWorkers"       -> 4
      [] bg[r] \in {"deleteWorkers", "sendDeleteErr"} -> 3
      [] bg[r] = "sendLastDeleteErr" -> 2
      [] bg[r] = "sendWorkersErr"    -> 1
      [] OTHER                       -> 0
ComponentLeft(s) ==
    CASE s = "off"              -> 4
      [] s = "get"              -> 3
      [] s \in {"update", "poll"} -> 2
      [] s \in SendStates       -> 1
      [] OTHER                  -> 0
ScalerLeft(r, c) == ComponentLeft(scaler[r][c])
WaiterLeft(r, c) == ComponentLeft(waiter[r][c])
\* The worker pods that request r may still delete.
PodsLeft(r) ==
    CASE bg[r] \in {"deleteWorkers", "sendDeleteErr"} -> toDelete[r]
      [] bg[r] \in {"sendLastDeleteErr", "sendWorkersErr", "closed", "gaveUp"} -> {}
      [] OTHER -> WorkerPods

\* The goroutines of all requests with the steps they may have, and the pods.
OfRequest == ({"main", "background"} \X Requests) \X (1..12)
OfComponent == ({"scaler", "waiter"} \X (Requests \X Components)) \X (1..4)
OfPods == ({"pod"} \X Requests) \X WorkerPods
ToDo == OfRequest \cup OfComponent \cup OfPods
Left ==
    {x \in ToDo :
        \/ x[1][1] = "main"       /\ x[2] <= MainLeft(x[1][2])
        \/ x[1][1] = "background" /\ x[2] <= BackgroundLeft(x[1][2])
        \/ x[1][1] = "scaler"     /\ x[2] <= ScalerLeft(x[1][2][1], x[1][2][2])
        \/ x[1][1] = "waiter"     /\ x[2] <= WaiterLeft(x[1][2][1], x[1][2][2])
        \/ x[1][1] = "pod"        /\ x[2] \in PodsLeft(x[1][2])}

\* A step of the site manager: the daemon's next request, or a goroutine.
Progress ==
    \/ \E m \in Modes : Request(m)
    \/ \E r \in Requests : Main(r) \/ Background(r)
    \/ \E r \in Requests, c \in Components :
         GetObject(r, c) \/ UpdateReplicas(r, c) \/ Poll(r, c)

\* Request r has no more before it than it had, goroutine by goroutine.
NoMore(r) ==
    /\ MainLeft(r)' <= MainLeft(r)
    /\ BackgroundLeft(r)' <= BackgroundLeft(r)
    /\ \A c \in Components :
         /\ ScalerLeft(r, c)' <= ScalerLeft(r, c)
         /\ WaiterLeft(r, c)' <= WaiterLeft(r, c)
    /\ PodsLeft(r)' \subseteq PodsLeft(r)
\* One of its goroutines has less before it.
Less(r) ==
    \/ MainLeft(r)' < MainLeft(r)
    \/ BackgroundLeft(r)' < BackgroundLeft(r)
    \/ \E c \in Components :
         \/ ScalerLeft(r, c)' < ScalerLeft(r, c)
         \/ WaiterLeft(r, c)' < WaiterLeft(r, c)
    \/ \E p \in WorkerPods : p \in PodsLeft(r) /\ p \notin PodsLeft(r)'

\* The counts are small numbers.
LEMMA LeftTypes ==
    ASSUME NEW r \in Requests
    PROVE  /\ MainLeft(r) \in 0..12 /\ MainLeft(r)' \in 0..12
           /\ BackgroundLeft(r) \in 0..12 /\ BackgroundLeft(r)' \in 0..12
           /\ \A c \in Components :
                /\ ScalerLeft(r, c) \in 0..4 /\ ScalerLeft(r, c)' \in 0..4
                /\ WaiterLeft(r, c) \in 0..4 /\ WaiterLeft(r, c)' \in 0..4
BY DEF MainLeft, BackgroundLeft, ScalerLeft, WaiterLeft, ComponentLeft

\* If no request has more before it, nothing is added to what is left.
LEMMA LeftShrinks ==
    ASSUME \A q \in Requests : NoMore(q)
    PROVE  Left' \subseteq Left
<1> SUFFICES ASSUME NEW x \in Left' PROVE x \in Left
    OBVIOUS
<1>1. x \in ToDo
    BY DEF Left, ToDo
<1>2. CASE x \in OfRequest
  <2>1. /\ MainLeft(x[1][2])' <= MainLeft(x[1][2])
        /\ BackgroundLeft(x[1][2])' <= BackgroundLeft(x[1][2])
      BY <1>2 DEF OfRequest, NoMore
  <2>2. \/ x[1][1] = "main" /\ x[2] <= MainLeft(x[1][2])'
        \/ x[1][1] = "background" /\ x[2] <= BackgroundLeft(x[1][2])'
      BY <1>2 DEF OfRequest, Left
  <2> QED
      BY <1>1, <1>2, <2>1, <2>2, LeftTypes DEF OfRequest, Left
<1>3. CASE x \in OfComponent
  <2> DEFINE r == x[1][2][1]
             c == x[1][2][2]
  <2>1. /\ ScalerLeft(r, c)' <= ScalerLeft(r, c)
        /\ WaiterLeft(r, c)' <= WaiterLeft(r, c)
      BY <1>3 DEF OfComponent, NoMore
  <2>2. \/ x[1][1] = "scaler" /\ x[2] <= ScalerLeft(r, c)'
        \/ x[1][1] = "waiter" /\ x[2] <= WaiterLeft(r, c)'
      BY <1>3 DEF OfComponent, Left
  <2> QED
      BY <1>1, <1>3, <2>1, <2>2, LeftTypes DEF OfComponent, Left
<1>4. CASE x \in OfPods
  <2>1. x[2] \in PodsLeft(x[1][2])' /\ PodsLeft(x[1][2])' \subseteq PodsLeft(x[1][2])
      BY <1>4 DEF OfPods, Left, NoMore
  <2> QED
      BY <1>1, <1>4, <2>1 DEF OfPods, Left
<1> QED
    BY <1>1, <1>2, <1>3, <1>4 DEF ToDo

\* If one has less before it, something is gone.
LEMMA SomethingGone ==
    ASSUME NEW r \in Requests, Less(r)
    PROVE  Left' # Left
<1>1. /\ MainLeft(r) \in 0..12 /\ BackgroundLeft(r) \in 0..12
      /\ MainLeft(r)' \in 0..12 /\ BackgroundLeft(r)' \in 0..12
    BY LeftTypes
<1>2. CASE MainLeft(r)' < MainLeft(r)
  <2>1. <<<<"main", r>>, MainLeft(r)>> \in ToDo
      BY <1>1, <1>2 DEF ToDo, OfRequest
  <2>2. <<<<"main", r>>, MainLeft(r)>> \in Left
      BY <1>1, <2>1 DEF Left
  <2>3. <<<<"main", r>>, MainLeft(r)>> \notin Left'
      BY <1>1, <1>2 DEF Left
  <2> QED
      BY <2>2, <2>3
<1>3. CASE BackgroundLeft(r)' < BackgroundLeft(r)
  <2>1. <<<<"background", r>>, BackgroundLeft(r)>> \in ToDo
      BY <1>1, <1>3 DEF ToDo, OfRequest
  <2>2. <<<<"background", r>>, BackgroundLeft(r)>> \in Left
      BY <1>1, <2>1 DEF Left
  <2>3. <<<<"background", r>>, BackgroundLeft(r)>> \notin Left'
      BY <1>1, <1>3 DEF Left
  <2> QED
      BY <2>2, <2>3
<1>4. ASSUME NEW c \in Components, ScalerLeft(r, c)' < ScalerLeft(r, c)
      PROVE  Left' # Left
  <2> DEFINE n == ScalerLeft(r, c)
  <2>1. n \in 1..4 /\ ScalerLeft(r, c)' \in 0..4
      BY <1>4, LeftTypes
  <2>2. <<<<"scaler", <<r, c>>>>, n>> \in ToDo
      BY <2>1 DEF ToDo, OfComponent
  <2>3. <<<<"scaler", <<r, c>>>>, n>> \in Left
      BY <2>1, <2>2 DEF Left
  <2>4. <<<<"scaler", <<r, c>>>>, n>> \in Left' => n <= ScalerLeft(r, c)'
      BY DEF Left
  <2> QED
      BY <1>4, <2>1, <2>3, <2>4
<1>5. ASSUME NEW c \in Components, WaiterLeft(r, c)' < WaiterLeft(r, c)
      PROVE  Left' # Left
  <2> DEFINE n == WaiterLeft(r, c)
  <2>1. n \in 1..4 /\ WaiterLeft(r, c)' \in 0..4
      BY <1>5, LeftTypes
  <2>2. <<<<"waiter", <<r, c>>>>, n>> \in ToDo
      BY <2>1 DEF ToDo, OfComponent
  <2>3. <<<<"waiter", <<r, c>>>>, n>> \in Left
      BY <2>1, <2>2 DEF Left
  <2>4. <<<<"waiter", <<r, c>>>>, n>> \in Left' => n <= WaiterLeft(r, c)'
      BY DEF Left
  <2> QED
      BY <1>5, <2>1, <2>3, <2>4
<1>6. ASSUME NEW p \in WorkerPods, p \in PodsLeft(r), p \notin PodsLeft(r)'
      PROVE  Left' # Left
  <2>1. <<<<"pod", r>>, p>> \in ToDo
      BY DEF ToDo, OfPods
  <2>2. <<<<"pod", r>>, p>> \in Left
      BY <1>6, <2>1 DEF Left
  <2>3. <<<<"pod", r>>, p>> \notin Left'
      BY <1>6 DEF Left
  <2> QED
      BY <2>2, <2>3
<1> QED
    BY <1>2, <1>3, <1>4, <1>5, <1>6 DEF Less

\* A request that a step leaves alone has as much before it as it had.
LEMMA SameLeft ==
    ASSUME NEW q \in Requests, Same(q)
    PROVE  NoMore(q)
<1>1. /\ MainLeft(q)' = MainLeft(q) /\ BackgroundLeft(q)' = BackgroundLeft(q)
      /\ PodsLeft(q)' = PodsLeft(q)
      /\ \A c \in Components : /\ ScalerLeft(q, c)' = ScalerLeft(q, c)
                              /\ WaiterLeft(q, c)' = WaiterLeft(q, c)
    BY DEF Same, MainLeft, BackgroundLeft, PodsLeft, ScalerLeft, WaiterLeft, ComponentLeft
<1> QED
    BY <1>1, LeftTypes DEF NoMore

\* A step of one request.
LEMMA OneRequestLess ==
    ASSUME NEW r \in Requests, NoMore(r), Less(r),
           \A q \in Requests \ {r} : Same(q)
    PROVE  Left' \subseteq Left /\ Left' # Left
<1>1. \A q \in Requests : NoMore(q)
    BY SameLeft
<1> QED
    BY <1>1, LeftShrinks, SomethingGone

\* A step of the caller.
LEMMA MainLess ==
    ASSUME IInv, NEW r \in Requests, Main(r)
    PROVE  NoMore(r) /\ Less(r)
<1>0. TypeOK
    BY DEF IInv
<1>1. ASSUME NEW c \in Components, ReceiveScale(r, c) PROVE NoMore(r) /\ Less(r)
  <2>1. /\ \A d \in Components : d # c => scaler'[r][d] = scaler[r][d]
        /\ scaler'[r][c] \in EndStates /\ scaler[r][c] \in SendStates
        /\ main[r] = "recvScale" /\ main'[r] \in {"recvScale", "storeScale"}
        /\ bg' = bg /\ waiter' = waiter /\ toDelete' = toDelete
      BY <1>0, <1>1 DEF ReceiveScale, TypeOK, Received, EndStates
  <2>2. /\ MainLeft(r)' <= MainLeft(r) /\ BackgroundLeft(r)' = BackgroundLeft(r)
        /\ PodsLeft(r)' = PodsLeft(r)
      BY <2>1 DEF MainLeft, BackgroundLeft, PodsLeft
  <2>3. ScalerLeft(r, c)' = 0 /\ ScalerLeft(r, c) = 1
      BY <2>1 DEF ScalerLeft, ComponentLeft, EndStates, SendStates
  <2>4. \A d \in Components : /\ d # c => ScalerLeft(r, d)' = ScalerLeft(r, d)
                              /\ WaiterLeft(r, d)' = WaiterLeft(r, d)
      BY <2>1 DEF ScalerLeft, WaiterLeft, ComponentLeft
  <2> QED
      BY <2>2, <2>3, <2>4, LeftTypes DEF NoMore, Less
<1>2. ASSUME NEW c \in Components, ReceiveWait(r, c) PROVE NoMore(r) /\ Less(r)
  <2>1. /\ \A d \in Components : d # c => waiter'[r][d] = waiter[r][d]
        /\ waiter'[r][c] \in EndStates /\ waiter[r][c] \in SendStates
        /\ main[r] = "recvWait" /\ main'[r] \in {"recvWait", "storeWait"}
        /\ bg' = bg /\ scaler' = scaler /\ toDelete' = toDelete
      BY <1>0, <1>2 DEF ReceiveWait, TypeOK, Received, EndStates
  <2>2. /\ MainLeft(r)' <= MainLeft(r) /\ BackgroundLeft(r)' = BackgroundLeft(r)
        /\ PodsLeft(r)' = PodsLeft(r)
      BY <2>1 DEF MainLeft, BackgroundLeft, PodsLeft
  <2>3. WaiterLeft(r, c)' = 0 /\ WaiterLeft(r, c) = 1
      BY <2>1 DEF WaiterLeft, ComponentLeft, EndStates, SendStates
  <2>4. \A d \in Components : /\ d # c => WaiterLeft(r, d)' = WaiterLeft(r, d)
                              /\ ScalerLeft(r, d)' = ScalerLeft(r, d)
      BY <2>1 DEF ScalerLeft, WaiterLeft, ComponentLeft
  <2> QED
      BY <2>2, <2>3, <2>4, LeftTypes DEF NoMore, Less
<1>3. CASE ReceiveWorkersErr(r)
  <2>1. /\ main[r] = "recvWait" /\ main'[r] = "storeWait"
        /\ \/ bg[r] = "sendDeleteErr" /\ bg'[r] = "deleteWorkers"
           \/ bg[r] = "sendLastDeleteErr" /\ bg'[r] = "sendWorkersErr"
           \/ bg[r] = "sendWorkersErr" /\ bg'[r] = "closed"
        /\ scaler' = scaler /\ waiter' = waiter /\ toDelete' = toDelete
      BY <1>0, <1>3 DEF ReceiveWorkersErr, TypeOK
  <2>2. /\ MainLeft(r)' < MainLeft(r) /\ BackgroundLeft(r)' <= BackgroundLeft(r)
        /\ PodsLeft(r)' \subseteq PodsLeft(r)
      BY <2>1 DEF MainLeft, BackgroundLeft, PodsLeft
  <2>3. \A c \in Components : /\ ScalerLeft(r, c)' = ScalerLeft(r, c)
                              /\ WaiterLeft(r, c)' = WaiterLeft(r, c)
      BY <2>1 DEF ScalerLeft, WaiterLeft, ComponentLeft
  <2> QED
      BY <2>2, <2>3, LeftTypes DEF NoMore, Less
<1>4. CASE \/ ScaleLoopEnds(r) \/ StoreScaleErr(r) \/ CheckScaleErr(r)
           \/ WaitLoopEnds(r) \/ StoreWaitErr(r) \/ Answer(r)
  <2>1. /\ \/ main[r] = "recvScale" /\ main'[r] = "checkScale"
           \/ main[r] = "storeScale" /\ main'[r] = "checkScale"
           \/ main[r] = "checkScale" /\ main'[r] \in {"recvWait", "checkWait"}
           \/ main[r] = "recvWait" /\ main'[r] = "checkWait"
           \/ main[r] = "storeWait" /\ main'[r] = "checkWait"
           \/ main[r] = "checkWait" /\ main'[r] = "returned"
        /\ bg' = bg /\ scaler' = scaler /\ waiter' = waiter /\ toDelete' = toDelete
      BY <1>0, <1>4 DEF ScaleLoopEnds, StoreScaleErr, CheckScaleErr, WaitLoopEnds,
                        StoreWaitErr, Answer, TypeOK
  <2>2. /\ MainLeft(r)' < MainLeft(r) /\ BackgroundLeft(r)' = BackgroundLeft(r)
        /\ PodsLeft(r)' = PodsLeft(r)
      BY <2>1 DEF MainLeft, BackgroundLeft, PodsLeft
  <2>3. \A c \in Components : /\ ScalerLeft(r, c)' = ScalerLeft(r, c)
                              /\ WaiterLeft(r, c)' = WaiterLeft(r, c)
      BY <2>1 DEF ScalerLeft, WaiterLeft, ComponentLeft
  <2> QED
      BY <2>2, <2>3, LeftTypes DEF NoMore, Less
<1> QED
    BY <1>1, <1>2, <1>3, <1>4 DEF Main

\* A step of the background goroutine.
LEMMA BackgroundLess ==
    ASSUME IInv, NEW r \in Requests, Background(r)
    PROVE  NoMore(r) /\ Less(r)
<1>0. /\ TypeOK /\ Joined(r)
      /\ toDelete[r] \subseteq WorkerPods /\ workers \subseteq WorkerPods
    BY DEF IInv, RequestInv, TypeOK, ClusterTypeOK
<1>1. /\ main' = main /\ MainLeft(r)' = MainLeft(r)
    BY DEF Background, ListDeployments, ListStatefulSets, ScaleStatefulSets, JoinScalers,
           ListStatefulSetsAgain, WaitForStatefulSets, JoinWaiters, ListWorkers, DeleteWorker,
           WorkersDeleted, AssignListErr, MainLeft
\* It is enough that the background goroutine itself gets on, starts only
\* goroutines that were off, and adds no pod.
<1>2. ASSUME BackgroundLeft(r)' <= BackgroundLeft(r),
             \A c \in Components :
                 /\ scaler'[r][c] # scaler[r][c] => scaler[r][c] = "off" /\ scaler'[r][c] = "get"
                 /\ waiter'[r][c] # waiter[r][c] => waiter[r][c] = "off" /\ waiter'[r][c] = "poll",
             PodsLeft(r)' \subseteq PodsLeft(r)
      PROVE  NoMore(r)
  <2>1. ASSUME NEW c \in Components
        PROVE  ScalerLeft(r, c)' <= ScalerLeft(r, c) /\ WaiterLeft(r, c)' <= WaiterLeft(r, c)
    <3>1. ScalerLeft(r, c)' <= ScalerLeft(r, c)
      <4>1. CASE scaler'[r][c] = scaler[r][c]
          BY <4>1 DEF ScalerLeft, ComponentLeft
      <4>2. CASE scaler[r][c] = "off" /\ scaler'[r][c] = "get"
          BY <4>2 DEF ScalerLeft, ComponentLeft, SendStates
      <4> QED
          BY <1>2, <4>1, <4>2
    <3>2. WaiterLeft(r, c)' <= WaiterLeft(r, c)
      <4>1. CASE waiter'[r][c] = waiter[r][c]
          BY <4>1 DEF WaiterLeft, ComponentLeft
      <4>2. CASE waiter[r][c] = "off" /\ waiter'[r][c] = "poll"
          BY <4>2 DEF WaiterLeft, ComponentLeft, SendStates
      <4> QED
          BY <1>2, <4>1, <4>2
    <3> QED
        BY <3>1, <3>2
  <2> QED
      BY <1>1, <1>2, <2>1, LeftTypes DEF NoMore
<1>3. ASSUME NEW C, scaler' = [scaler EXCEPT ![r] = Started(@, C, "get")]
      PROVE  \A c \in Components : scaler'[r][c] = IF c \in C THEN "get" ELSE scaler[r][c]
    BY <1>0, <1>3 DEF Started, TypeOK
<1>4. ASSUME NEW C, waiter' = [waiter EXCEPT ![r] = Started(@, C, "poll")]
      PROVE  \A c \in Components : waiter'[r][c] = IF c \in C THEN "poll" ELSE waiter[r][c]
    BY <1>0, <1>4 DEF Started, TypeOK
<1>5. CASE ListDeployments(r)
  <2>1. /\ bg[r] = "listDeployments" /\ bg'[r] \in {"listStatefulSets", "gaveUp"}
        /\ waiter' = waiter /\ toDelete' = toDelete
        /\ \/ scaler' = scaler
           \/ scaler' = [scaler EXCEPT ![r] = Started(@, Deployments, "get")]
      BY <1>0, <1>5 DEF ListDeployments, TypeOK
  <2>2. \/ scaler' = scaler
        \/ \A c \in Components : scaler'[r][c] = IF c \in Deployments THEN "get" ELSE scaler[r][c]
      BY <1>3, <2>1
  <2>3. \A c \in Components : scaler'[r][c] # scaler[r][c]
                                => scaler[r][c] = "off" /\ scaler'[r][c] = "get"
      BY <1>0, <2>1, <2>2 DEF Joined
  <2>4. /\ BackgroundLeft(r)' < BackgroundLeft(r)
        /\ PodsLeft(r)' \subseteq PodsLeft(r)
      BY <2>1 DEF BackgroundLeft, PodsLeft
  <2>5. BackgroundLeft(r)' <= BackgroundLeft(r)
      BY <2>1 DEF BackgroundLeft
  <2> QED
      BY <1>2, <2>1, <2>3, <2>4, <2>5 DEF Less
<1>6. CASE ListStatefulSets(r) \/ ListStatefulSetsAgain(r)
  <2>1. /\ \/ bg[r] = "listStatefulSets" /\ bg'[r] = "readErr"
           \/ bg[r] = "listAgain" /\ bg'[r] = "readErrAgain"
        /\ scaler' = scaler /\ waiter' = waiter /\ toDelete' = toDelete
      BY <1>0, <1>6 DEF ListStatefulSets, ListStatefulSetsAgain, AssignListErr, TypeOK
  <2>2. /\ BackgroundLeft(r)' < BackgroundLeft(r) /\ BackgroundLeft(r)' <= BackgroundLeft(r)
        /\ PodsLeft(r)' \subseteq PodsLeft(r)
      BY <2>1 DEF BackgroundLeft, PodsLeft
  <2> QED
      BY <1>2, <2>1, <2>2 DEF Less
<1>7. CASE ScaleStatefulSets(r)
  <2>1. /\ bg[r] = "readErr" /\ bg'[r] = "joinScalers"
        /\ waiter' = waiter /\ toDelete' = toDelete
        /\ \/ scaler' = scaler
           \/ scaler' = [scaler EXCEPT ![r] = Started(@, StatefulSets, "get")]
      BY <1>0, <1>7 DEF ScaleStatefulSets, TypeOK
  <2>2. \/ scaler' = scaler
        \/ \A c \in Components : scaler'[r][c] = IF c \in StatefulSets THEN "get" ELSE scaler[r][c]
      BY <1>3, <2>1
  <2>3. \A c \in Components : scaler'[r][c] # scaler[r][c]
                                => scaler[r][c] = "off" /\ scaler'[r][c] = "get"
      BY <1>0, <2>1, <2>2 DEF Joined
  <2>4. /\ BackgroundLeft(r)' < BackgroundLeft(r) /\ BackgroundLeft(r)' <= BackgroundLeft(r)
        /\ PodsLeft(r)' \subseteq PodsLeft(r)
      BY <2>1 DEF BackgroundLeft, PodsLeft
  <2> QED
      BY <1>2, <2>1, <2>3, <2>4 DEF Less
<1>8. CASE JoinScalers(r)
  <2>1. /\ bg[r] = "joinScalers" /\ bg'[r] = "listAgain"
        /\ scaler' = scaler /\ toDelete' = toDelete
        /\ waiter' = [waiter EXCEPT ![r] = Started(@, Deployments, "poll")]
      BY <1>0, <1>8 DEF JoinScalers, TypeOK
  <2>2. \/ waiter' = waiter
        \/ \A c \in Components : waiter'[r][c] = IF c \in Deployments THEN "poll" ELSE waiter[r][c]
      BY <1>4, <2>1
  <2>3. \A c \in Components : waiter'[r][c] # waiter[r][c]
                                => waiter[r][c] = "off" /\ waiter'[r][c] = "poll"
      BY <1>0, <2>1, <2>2 DEF Joined, ScaleChClosed
  <2>4. /\ BackgroundLeft(r)' < BackgroundLeft(r) /\ BackgroundLeft(r)' <= BackgroundLeft(r)
        /\ PodsLeft(r)' \subseteq PodsLeft(r)
      BY <2>1 DEF BackgroundLeft, PodsLeft
  <2> QED
      BY <1>2, <2>1, <2>3, <2>4 DEF Less
<1>9. CASE WaitForStatefulSets(r)
  <2>1. /\ bg[r] = "readErrAgain" /\ bg'[r] = "joinWaiters"
        /\ scaler' = scaler /\ toDelete' = toDelete
        /\ \/ waiter' = waiter
           \/ waiter' = [waiter EXCEPT ![r] = Started(@, StatefulSets, "poll")]
      BY <1>0, <1>9 DEF WaitForStatefulSets, TypeOK
  <2>2. \/ waiter' = waiter
        \/ \A c \in Components : waiter'[r][c] = IF c \in StatefulSets THEN "poll" ELSE waiter[r][c]
      BY <1>4, <2>1
  <2>3. \A c \in Components : waiter'[r][c] # waiter[r][c]
                                => waiter[r][c] = "off" /\ waiter'[r][c] = "poll"
      BY <1>0, <2>1, <2>2 DEF Joined
  <2>4. /\ BackgroundLeft(r)' < BackgroundLeft(r) /\ BackgroundLeft(r)' <= BackgroundLeft(r)
        /\ PodsLeft(r)' \subseteq PodsLeft(r)
      BY <2>1 DEF BackgroundLeft, PodsLeft
  <2> QED
      BY <1>2, <2>1, <2>3, <2>4 DEF Less
<1>10. CASE JoinWaiters(r) \/ ListWorkers(r) \/ WorkersDeleted(r)
  <2>1. /\ \/ bg[r] = "joinWaiters" /\ bg'[r] \in {"closed", "listWorkers"}
           \/ bg[r] = "listWorkers" /\ bg'[r] = "deleteWorkers" /\ toDelete'[r] = workers
           \/ bg[r] = "listWorkers" /\ bg'[r] = "sendWorkersErr"
           \/ bg[r] = "deleteWorkers" /\ bg'[r] = "closed"
        /\ scaler' = scaler /\ waiter' = waiter
      BY <1>0, <1>10 DEF JoinWaiters, ListWorkers, WorkersDeleted, TypeOK
  <2>2. BackgroundLeft(r)' < BackgroundLeft(r) /\ BackgroundLeft(r)' <= BackgroundLeft(r)
      BY <2>1 DEF BackgroundLeft
  <2>3. PodsLeft(r)' \subseteq PodsLeft(r)
      BY <1>0, <2>1 DEF PodsLeft
  <2> QED
      BY <1>2, <2>1, <2>2, <2>3 DEF Less
<1>11. ASSUME NEW p \in WorkerPods, DeleteWorker(r, p) PROVE NoMore(r) /\ Less(r)
  <2>1. /\ bg[r] = "deleteWorkers"
        /\ bg'[r] \in {"deleteWorkers", "sendDeleteErr", "sendLastDeleteErr"}
        /\ p \in toDelete[r] /\ toDelete'[r] = toDelete[r] \ {p}
        /\ scaler' = scaler /\ waiter' = waiter
      BY <1>0, <1>11 DEF DeleteWorker, TypeOK
  <2>2. BackgroundLeft(r)' <= BackgroundLeft(r)
      BY <2>1 DEF BackgroundLeft
  <2>3. PodsLeft(r)' \subseteq PodsLeft(r) /\ p \in PodsLeft(r) /\ p \notin PodsLeft(r)'
      BY <2>1 DEF PodsLeft
  <2> QED
      BY <1>2, <2>1, <2>2, <2>3 DEF Less
<1> QED
    BY <1>5, <1>6, <1>7, <1>8, <1>9, <1>10, <1>11 DEF Background

\* A step of a goroutine per component.
LEMMA ComponentLess ==
    ASSUME IInv, NEW r \in Requests, NEW c \in Components,
           GetObject(r, c) \/ UpdateReplicas(r, c) \/ Poll(r, c)
    PROVE  NoMore(r) /\ Less(r)
<1>0. TypeOK
    BY DEF IInv
<1>1. /\ MainLeft(r)' = MainLeft(r) /\ BackgroundLeft(r)' = BackgroundLeft(r)
      /\ PodsLeft(r)' = PodsLeft(r)
    BY DEF GetObject, UpdateReplicas, Poll, MainLeft, BackgroundLeft, PodsLeft
<1>2. /\ \A d \in Components : d # c => scaler'[r][d] = scaler[r][d] /\ waiter'[r][d] = waiter[r][d]
      /\ \/ /\ scaler[r][c] = "get" /\ scaler'[r][c] \in {"update", "sendErr"}
            /\ waiter' = waiter
         \/ /\ scaler[r][c] = "update" /\ scaler'[r][c] \in SendStates
            /\ waiter' = waiter
         \/ /\ waiter[r][c] = "poll" /\ waiter'[r][c] \in SendStates
            /\ scaler' = scaler
  <2>1. CASE GetObject(r, c)
    <3>1. PICK s \in {"update", "sendErr"} : scaler' = [scaler EXCEPT ![r][c] = s]
        BY <2>1 DEF GetObject, SetScaler
    <3> QED
        BY <1>0, <2>1, <3>1 DEF GetObject, TypeOK
  <2>2. CASE UpdateReplicas(r, c)
    <3>1. PICK s \in SendStates : scaler' = [scaler EXCEPT ![r][c] = s]
        BY <2>2 DEF UpdateReplicas, SetScaler, SendStates
    <3> QED
        BY <1>0, <2>2, <3>1 DEF UpdateReplicas, TypeOK
  <2>3. CASE Poll(r, c)
    <3>1. PICK s \in SendStates : waiter' = [waiter EXCEPT ![r][c] = s]
        BY <2>3 DEF Poll, SetWaiter, SendStates
    <3> QED
        BY <1>0, <2>3, <3>1 DEF Poll, TypeOK
  <2> QED
      BY <2>1, <2>2, <2>3
<1>3. /\ ScalerLeft(r, c)' <= ScalerLeft(r, c) /\ WaiterLeft(r, c)' <= WaiterLeft(r, c)
      /\ ScalerLeft(r, c)' < ScalerLeft(r, c) \/ WaiterLeft(r, c)' < WaiterLeft(r, c)
  <2>1. CASE scaler' = scaler
      BY <1>2, <2>1 DEF ScalerLeft, WaiterLeft, ComponentLeft, SendStates
  <2>2. CASE waiter' = waiter
      BY <1>2, <2>2 DEF ScalerLeft, WaiterLeft, ComponentLeft, SendStates
  <2> QED
      BY <1>2, <2>1, <2>2
<1>4. \A d \in Components : d # c => /\ ScalerLeft(r, d)' = ScalerLeft(r, d)
                                     /\ WaiterLeft(r, d)' = WaiterLeft(r, d)
    BY <1>2 DEF ScalerLeft, WaiterLeft, ComponentLeft
<1> QED
    BY <1>1, <1>3, <1>4, LeftTypes DEF NoMore, Less

\* A new request.
LEMMA RequestLess ==
    ASSUME IInv, NEW m \in Modes, Request(m)
    PROVE  Left' \subseteq Left /\ Left' # Left
<1>0. /\ TypeOK /\ current \in Nat /\ current + 1 \in Requests /\ current' = current + 1
    BY SiteManagerAssumption DEF IInv, TypeOK, Request
<1> PICK r \in Requests : r = current + 1
    BY <1>0
<1>1. r = current + 1 /\ current' = r /\ r > current
    BY <1>0
<1>2. main[r] = "idle" /\ bg[r] = "off"
    BY <1>1 DEF IInv, RequestInv, Lifecycle
<1>3. /\ main'[r] \in {"recvScale", "returned"} /\ bg'[r] \in {"listDeployments", "off"}
      /\ scaler' = scaler /\ waiter' = waiter /\ toDelete' = toDelete
      /\ \A q \in Requests \ {r} : main'[q] = main[q] /\ bg'[q] = bg[q]
    BY <1>0, <1>1, <1>2 DEF Request, TypeOK
<1>4. /\ MainLeft(r)' < MainLeft(r) /\ BackgroundLeft(r)' <= BackgroundLeft(r)
      /\ PodsLeft(r)' \subseteq PodsLeft(r)
    BY <1>2, <1>3 DEF MainLeft, BackgroundLeft, PodsLeft
<1>5. NoMore(r) /\ Less(r)
  <2>1. \A c \in Components : /\ ScalerLeft(r, c)' = ScalerLeft(r, c)
                              /\ WaiterLeft(r, c)' = WaiterLeft(r, c)
      BY <1>3 DEF ScalerLeft, WaiterLeft, ComponentLeft
  <2> QED
      BY <1>4, <2>1, LeftTypes DEF NoMore, Less
<1>6. ASSUME NEW q \in Requests \ {r} PROVE NoMore(q)
  <2>1. /\ MainLeft(q)' = MainLeft(q) /\ BackgroundLeft(q)' = BackgroundLeft(q)
        /\ PodsLeft(q)' = PodsLeft(q)
        /\ \A c \in Components : /\ ScalerLeft(q, c)' = ScalerLeft(q, c)
                                /\ WaiterLeft(q, c)' = WaiterLeft(q, c)
      BY <1>3 DEF MainLeft, BackgroundLeft, PodsLeft, ScalerLeft, WaiterLeft, ComponentLeft
  <2> QED
      BY <2>1, LeftTypes DEF NoMore
<1> QED
    BY <1>5, <1>6, LeftShrinks, SomethingGone

\* Every step of the site manager.
LEMMA ProgressStep == IInv /\ Progress /\ TypeOK' => Left' \subseteq Left /\ Left' # Left
<1> SUFFICES ASSUME IInv, Progress, TypeOK' PROVE Left' \subseteq Left /\ Left' # Left
    OBVIOUS
<1>1. ASSUME NEW r \in Requests, Main(r) PROVE Left' \subseteq Left /\ Left' # Left
  <2>1. \A q \in Requests \ {r} : Same(q)
      BY <1>1, InvReceiveScale, InvReceiveWait, InvReceiveWorkersErr,
         InvScaleLoopEnds, InvStoreScaleErr, InvCheckScaleErr, InvWaitLoopEnds,
         InvStoreWaitErr, InvAnswer DEF Main
  <2> QED
      BY <1>1, <2>1, MainLess, OneRequestLess
<1>2. ASSUME NEW r \in Requests, Background(r) PROVE Left' \subseteq Left /\ Left' # Left
  <2>1. \A q \in Requests \ {r} : Same(q)
      BY <1>2, InvListDeployments, InvListStatefulSets, InvScaleStatefulSets,
         InvJoinScalers, InvListStatefulSetsAgain, InvWaitForStatefulSets,
         InvJoinWaiters, InvListWorkers, InvDeleteWorker, InvWorkersDeleted DEF Background
  <2> QED
      BY <1>2, <2>1, BackgroundLess, OneRequestLess
<1>3. ASSUME NEW r \in Requests, NEW c \in Components,
             GetObject(r, c) \/ UpdateReplicas(r, c) \/ Poll(r, c)
      PROVE  Left' \subseteq Left /\ Left' # Left
  <2>1. \A q \in Requests \ {r} : Same(q)
      BY <1>3, InvGetObject, InvUpdateReplicas, InvPoll
  <2> QED
      BY <1>3, <2>1, ComponentLess, OneRequestLess
<1> QED
    BY <1>1, <1>2, <1>3, RequestLess DEF Progress

(***************************************************************************)
(* Each step of the site manager takes something from what is left, and no *)
(* step adds to it: no goroutine of ChangeMode loops, whichever calls fail *)
(* and whatever the cluster does meanwhile.                                *)
(***************************************************************************)
THEOREM RequestsShrink ==
    Spec => [][Left' \subseteq Left /\ (Progress => Left' # Left)]_vars
<1>1. IInv /\ [Next]_vars => [Left' \subseteq Left /\ (Progress => Left' # Left)]_vars
  <2> SUFFICES ASSUME IInv, [Next]_vars, ~UNCHANGED vars
               PROVE  Left' \subseteq Left /\ (Progress => Left' # Left)
      OBVIOUS
  <2>1. TypeOK'
      BY InvStep DEF IInv
  <2>2. CASE Progress
      BY <2>1, <2>2, ProgressStep
  <2>3. CASE ~Progress
    <3>1. UNCHANGED managerVars
        BY <2>3 DEF Next, Progress
    <3>2. \A q \in Requests : Same(q)
        BY <3>1 DEF managerVars, Same
    <3> QED
        BY <2>3, <3>2, SameLeft, LeftShrinks
  <2> QED
      BY <2>2, <2>3
<1> QED
    BY <1>1, InvInit, InvStep, PTL DEF Spec

(***************************************************************************)
(* What is left is finite.  So any number of requests costs the site       *)
(* manager a bounded number of steps, and a request that has not reached   *)
(* one of the two cases of HangsOnlyWhen is answered if the goroutines     *)
(* that can go on do.                                                      *)
(***************************************************************************)
THEOREM FiniteWork ==
    ASSUME IsFiniteSet(Components)
    PROVE  IsFiniteSet(Left)
<1>1. \A x, y : IsFiniteSet({x, y})
  <2> SUFFICES ASSUME NEW x, NEW y PROVE IsFiniteSet({x, y})
      OBVIOUS
  <2>1. IsFiniteSet({x}) /\ IsFiniteSet({x} \cup {y})
      BY FS_Singleton, FS_AddElement
  <2>2. {x} \cup {y} = {x, y}
      OBVIOUS
  <2> QED
      BY <2>1, <2>2, Zenon
<1>2. IsFiniteSet({"pod"})
    BY FS_Singleton
<1>3. \A n \in Nat : IsFiniteSet(1..n)
    BY FS_Interval
<1>4. IsFiniteSet(Requests) /\ IsFiniteSet(1..12) /\ IsFiniteSet(1..4) /\ IsFiniteSet(WorkerPods)
    BY <1>3, SiteManagerAssumption, ClusterAssumption
<1>5. IsFiniteSet(OfRequest)
  <2>1. IsFiniteSet({"main", "background"} \X Requests)
      BY <1>1, <1>4, FS_Product
  <2> QED
      BY <1>4, <2>1, FS_Product DEF OfRequest
<1>6. IsFiniteSet(OfComponent)
  <2>1. IsFiniteSet(Requests \X Components)
      BY <1>4, FS_Product
  <2>2. IsFiniteSet({"scaler", "waiter"} \X (Requests \X Components))
      BY <1>1, <2>1, FS_Product
  <2> QED
      BY <1>4, <2>2, FS_Product DEF OfComponent
<1>7. IsFiniteSet(OfPods)
  <2>1. IsFiniteSet({"pod"} \X Requests)
      BY <1>2, <1>4, FS_Product
  <2> QED
      BY <1>4, <2>1, FS_Product DEF OfPods
<1>8. IsFiniteSet(ToDo)
  <2>1. IsFiniteSet(OfRequest \cup OfComponent)
      BY <1>5, <1>6, FS_Union
  <2> QED
      BY <1>7, <2>1, FS_Union DEF ToDo
<1> QED
    BY <1>8, FS_Subset DEF Left
==============================================================================
